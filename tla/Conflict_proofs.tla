---------------------------- MODULE Conflict_proofs ----------------------------
(***************************************************************************)
(* What a merge keeps.  A line or a list item that the common ancestor of  *)
(* a device has, and that no user removed, is in its note and on the       *)
(* server: this is what makes it right to take a side that differs from    *)
(* the ancestor, and it is kept by every step.                             *)
(***************************************************************************)
EXTENDS Conflict, SequenceTheorems, FiniteSetTheorems, TLAPS

-----------------------------------------------------------------------------
(* Sequences. *)

\* A body is two regions.
Bodies(A) == [1..2 -> Seq(A)]

LEMMA TwoRegions ==
  ASSUME NEW A, NEW b \in Bodies(A)
  PROVE  /\ Len(b) = 2 /\ DOMAIN b = 1..2
         /\ b[1] \in Seq(A) /\ b[2] \in Seq(A)
  BY DEF Bodies

\* FlattenSeq of two sequences puts one behind the other.
LEMMA Flattened == ASSUME NEW A, NEW b \in Bodies(A) PROVE Flat(b) = b[1] \o b[2]
<1> DEFINE two == [i \in 1..2 |-> IF i = 1 THEN b[1] ELSE b[1] \o b[2]]
           rec(f) == f = [i \in 1..Len(b) |-> IF i = 1 THEN b[i] ELSE f[i-1] \o b[i]]
<1>1. rec(two)
  <2>1. Len(b) = 2
    BY TwoRegions
  <2>2. two = [i \in 1..2 |-> IF i = 1 THEN b[i] ELSE two[i-1] \o b[i]]
    <3> SUFFICES ASSUME NEW i \in 1..2 PROVE two[i] = IF i = 1 THEN b[i] ELSE two[i-1] \o b[i]
      OBVIOUS
    <3>1. i = 1 \/ i = 2
      OBVIOUS
    <3> QED
      BY <3>1
  <2> HIDE DEF two
  <2> QED
    BY <2>1, <2>2
<1>2. \A f : rec(f) => f[2] = b[1] \o b[2]
  <2> SUFFICES ASSUME NEW f, rec(f) PROVE f[2] = b[1] \o b[2]
    OBVIOUS
  <2>1. Len(b) = 2
    BY TwoRegions
  <2>2. f[1] = b[1]
    BY <2>1
  <2>3. \A i \in 1..2 : f[i] = IF i = 1 THEN b[i] ELSE f[i-1] \o b[i]
    <3>1. f = [i \in 1..2 |-> IF i = 1 THEN b[i] ELSE f[i-1] \o b[i]]
      BY <2>1
    <3> QED
      BY <3>1, Zenon
  <2>4. f[2] = f[2 - 1] \o b[2]
    <3>1. 2 \in 1..2 /\ 2 # 1
      OBVIOUS
    <3> QED
      BY <2>3, <3>1, Zenon
  <2>5. 2 - 1 = 1
    OBVIOUS
  <2> QED
    BY <2>2, <2>4, <2>5
<1>3. FlattenSeq(b) = (CHOOSE f : rec(f))[2]
  <2>1. Len(b) = 2 /\ Len(b) # 0
    BY TwoRegions
  <2> QED
    BY <2>1 DEF FlattenSeq
<1> HIDE DEF rec, two
<1>4. rec(CHOOSE f : rec(f))
  BY <1>1
<1> QED
  BY <1>2, <1>3, <1>4 DEF Flat

LEMMA ToSetConcat ==
  ASSUME NEW A, NEW s \in Seq(A), NEW t \in Seq(A)
  PROVE  /\ s \o t \in Seq(A)
         /\ ToSet(s \o t) = ToSet(s) \cup ToSet(t)
<1>1. DOMAIN s = 1..Len(s) /\ DOMAIN t = 1..Len(t) /\ Len(s) \in Nat /\ Len(t) \in Nat
  BY LenProperties
<1>2. DOMAIN (s \o t) = 1..(Len(s) + Len(t))
  BY ConcatProperties, LenProperties
<1>3. ASSUME NEW x \in ToSet(s) PROVE x \in ToSet(s \o t)
  <2>1. PICK i \in 1..Len(s) : s[i] = x
    BY <1>1, <1>3 DEF ToSet
  <2>2. (s \o t)[i] = x /\ i \in DOMAIN (s \o t)
    BY <2>1, <1>1, <1>2, ConcatProperties
  <2> QED
    BY <2>2 DEF ToSet
<1>4. ASSUME NEW x \in ToSet(t) PROVE x \in ToSet(s \o t)
  <2>1. PICK i \in 1..Len(t) : t[i] = x
    BY <1>1, <1>4 DEF ToSet
  <2>2. (s \o t)[Len(s) + i] = x /\ Len(s) + i \in DOMAIN (s \o t)
    BY <2>1, <1>1, <1>2, ConcatProperties
  <2> QED
    BY <2>2 DEF ToSet
<1>5. ASSUME NEW x \in ToSet(s \o t) PROVE x \in ToSet(s) \cup ToSet(t)
  <2>1. PICK i \in 1..(Len(s) + Len(t)) : (s \o t)[i] = x
    BY <1>2, <1>5 DEF ToSet
  <2>2. CASE i <= Len(s)
    BY <2>1, <2>2, <1>1, ConcatProperties DEF ToSet
  <2>3. CASE ~(i <= Len(s))
    <3>1. i - Len(s) \in 1..Len(t) /\ t[i - Len(s)] = x
      BY <2>1, <2>3, <1>1, ConcatProperties
    <3> QED
      BY <3>1, <1>1 DEF ToSet
  <2> QED
    BY <2>2, <2>3
<1> QED
  BY <1>3, <1>4, <1>5, ConcatProperties

LEMMA ToSetIn == ASSUME NEW A, NEW s \in Seq(A) PROVE ToSet(s) \subseteq A
  BY LenProperties DEF ToSet

LEMMA ToSetEmpty == ASSUME NEW A, NEW s \in Seq(A) PROVE s = <<>> <=> ToSet(s) = {}
<1>1. DOMAIN s = 1..Len(s) /\ Len(s) \in Nat /\ (s = <<>> <=> Len(s) = 0)
  OBVIOUS
<1>2. CASE Len(s) = 0
  <2>1. DOMAIN s = {}
    BY <1>1, <1>2
  <2> QED
    BY <1>1, <1>2, <2>1 DEF ToSet
<1>3. CASE Len(s) # 0
  <2>1. s[1] \in ToSet(s)
    BY <1>1, <1>3 DEF ToSet
  <2> QED
    BY <1>1, <1>3, <2>1
<1> QED
  BY <1>2, <1>3

LEMMA OneLine == ASSUME NEW A, NEW x \in A PROVE <<x>> \in Seq(A) /\ ToSet(<<x>>) = {x}
  BY DEF ToSet

\* A body has the lines of its regions.
LEMMA LinesOf ==
  ASSUME NEW A, NEW c, c.body \in Bodies(A)
  PROVE  /\ Lines(c) = ToSet(c.body[1]) \cup ToSet(c.body[2])
         /\ Lines(c) \subseteq A
         /\ Flat(c.body) \in Seq(A)
<1>1. /\ c.body[1] \in Seq(A) /\ c.body[2] \in Seq(A)
      /\ Flat(c.body) = c.body[1] \o c.body[2]
  BY TwoRegions, Flattened
<1>2. ToSet(c.body[1]) \subseteq A /\ ToSet(c.body[2]) \subseteq A
  BY <1>1, ToSetIn
<1> QED
  BY <1>1, <1>2, ToSetConcat DEF Lines

LEMMA FlatEmpty ==
  ASSUME NEW A, NEW b \in Bodies(A)
  PROVE  /\ Flat(b) \in Seq(A)
         /\ ToSet(Flat(b)) = ToSet(b[1]) \cup ToSet(b[2])
         /\ Flat(b) = <<>> <=> (ToSet(b[1]) = {} /\ ToSet(b[2]) = {})
<1>1. b[1] \in Seq(A) /\ b[2] \in Seq(A) /\ Flat(b) = b[1] \o b[2]
  BY TwoRegions, Flattened
<1>2. Flat(b) \in Seq(A) /\ ToSet(Flat(b)) = ToSet(b[1]) \cup ToSet(b[2])
  BY <1>1, ToSetConcat
<1>3. Flat(b) = <<>> <=> ToSet(Flat(b)) = {}
  BY <1>2, ToSetEmpty
<1> QED
  BY <1>2, <1>3

LEMMA FrontKeeps ==
  ASSUME NEW A, NEW s \in Seq(A), s # <<>>
  PROVE  Front(s) \in Seq(A) /\ ToSet(s) = ToSet(Front(s)) \cup {Last(s)}
<1>1. Len(s) \in Nat /\ Len(s) > 0 /\ DOMAIN s = 1..Len(s)
  OBVIOUS
<1>2. /\ Front(s) \in Seq(A) /\ Len(Front(s)) = Len(s) - 1 /\ DOMAIN Front(s) = 1..(Len(s)-1)
      /\ \A i \in 1..(Len(s)-1) : Front(s)[i] = s[i]
  BY <1>1 DEF Front
<1> QED
  BY <1>1, <1>2 DEF ToSet, Last

LEMMA RangeFinite == ASSUME NEW A, NEW s \in Seq(A) PROVE IsFiniteSet(ToSet(s))
<1>1. s \in Surjection(1..Len(s), ToSet(s)) /\ Len(s) \in Nat
  BY LenProperties DEF Surjection, ToSet
<1>2. IsFiniteSet(1..Len(s))
  BY <1>1, FS_Interval
<1> QED
  BY <1>1, <1>2, FS_Surjection

\* In a finite set of numbers every place has its element.
LEMMA Ordered ==
  ASSUME NEW S \in SUBSET Int, IsFiniteSet(S)
  PROVE  InOrder(S) \in Seq(S) /\ ToSet(InOrder(S)) = S
<1> DEFINE below(x) == {y \in S : y < x}
           place == [x \in S |-> Cardinality(below(x)) + 1]
           n == Cardinality(S)
<1>1. n \in Nat /\ IsFiniteSet(1..n) /\ Cardinality(1..n) = n
  BY FS_CardinalityType, FS_Interval
<1>2. \A x \in S : IsFiniteSet(below(x)) /\ Cardinality(below(x)) \in Nat
  BY FS_Subset, FS_CardinalityType
<1>3. ASSUME NEW x \in S PROVE Cardinality(below(x)) + 1 \in 1..n
  <2>1. IsFiniteSet(S \ {x}) /\ Cardinality(S \ {x}) = n - 1
    BY FS_RemoveElement
  <2>2. below(x) \in SUBSET (S \ {x})
    OBVIOUS
  <2>3. Cardinality(below(x)) <= n - 1
    <3> HIDE DEF below, n
    <3> QED
      BY <2>1, <2>2, FS_Subset
  <2>4. Cardinality(below(x)) \in Nat
    BY <1>2
  <2> HIDE DEF below, n
  <2> QED
    BY <1>1, <2>3, <2>4
<1>4. ASSUME NEW x \in S, NEW y \in S, x < y PROVE Cardinality(below(x)) < Cardinality(below(y))
  <2>0. x \in Int /\ y \in Int /\ ~(x < x) /\ \A z \in S : z < x => z < y
    BY <1>4
  <2>1. below(x) \in SUBSET below(y) /\ x \in below(y) /\ x \notin below(x)
    BY <1>4, <2>0
  <2>2. IsFiniteSet(below(y)) /\ Cardinality(below(x)) \in Nat /\ Cardinality(below(y)) \in Nat
    BY <1>2
  <2> HIDE DEF below
  <2>3. Cardinality(below(x)) <= Cardinality(below(y)) /\ Cardinality(below(x)) # Cardinality(below(y))
    BY <2>1, <2>2, FS_Subset
  <2> QED
    BY <2>2, <2>3
<1>5. \A x, y \in S : x # y => Cardinality(below(x)) # Cardinality(below(y))
  <2> SUFFICES ASSUME NEW x \in S, NEW y \in S, x # y PROVE Cardinality(below(x)) # Cardinality(below(y))
    OBVIOUS
  <2>1. x < y \/ y < x
    OBVIOUS
  <2>2. Cardinality(below(x)) < Cardinality(below(y)) \/ Cardinality(below(y)) < Cardinality(below(x))
    BY <1>4, <2>1
  <2>3. Cardinality(below(x)) \in Nat /\ Cardinality(below(y)) \in Nat
    BY <1>2
  <2> HIDE DEF below
  <2> QED
    BY <2>2, <2>3
<1>6. place \in Surjection(S, 1..n)
  <2>1. place \in Injection(S, 1..n)
    <3> HIDE DEF below, n
    <3> QED
      BY <1>2, <1>3, <1>5 DEF Injection, IsInjective
  <2> HIDE DEF place, n
  <2>2. Cardinality(S) = Cardinality(1..n)
    BY <1>1 DEF n
  <2> QED
    BY <1>1, <2>1, <2>2, FS_Injection
<1>7. \A k \in 1..n : \E x \in S : Cardinality(below(x)) = k - 1
  <2> SUFFICES ASSUME NEW k \in 1..n PROVE \E x \in S : Cardinality(below(x)) = k - 1
    OBVIOUS
  <2>1. PICK x \in S : place[x] = k
    <3> HIDE DEF place, n
    <3> QED
      BY <1>6 DEF Surjection
  <2>2. Cardinality(below(x)) + 1 = k /\ Cardinality(below(x)) \in Nat
    BY <1>2, <2>1
  <2> HIDE DEF below, n, place
  <2>3. Cardinality(below(x)) = k - 1
    BY <1>1, <2>2
  <2> QED
    BY <2>3
<1>8. InOrder(S) = [k \in 1..n |-> CHOOSE x \in S : Cardinality(below(x)) = k - 1]
  BY DEF InOrder
<1>9. \A k \in 1..n : InOrder(S)[k] \in S /\ Cardinality(below(InOrder(S)[k])) = k - 1
  <2> HIDE DEF below, n
  <2> QED
    BY <1>7, <1>8
<1>10. InOrder(S) \in Seq(S) /\ DOMAIN InOrder(S) = 1..n
  <2> HIDE DEF below
  <2>1. InOrder(S) \in [1..n -> S]
    BY <1>8, <1>9
  <2> HIDE DEF n
  <2> QED
    BY <1>1, <2>1
<1>11. ASSUME NEW x \in S PROVE x \in ToSet(InOrder(S))
  <2> DEFINE k == Cardinality(below(x)) + 1
  <2>1. k \in 1..n /\ Cardinality(below(x)) = k - 1
    BY <1>2, <1>3
  <2>2. InOrder(S)[k] = x
    <3> HIDE DEF below, k, n
    <3> QED
      BY <1>5, <1>9, <2>1
  <2> HIDE DEF k, n
  <2> QED
    BY <1>10, <2>1, <2>2 DEF ToSet
<1> QED
  BY <1>9, <1>10, <1>11 DEF ToSet

LEMMA Tuple == ASSUME NEW A, NEW s \in A, NEW t \in A PROVE <<s, t>> \in [1..2 -> A]
  OBVIOUS

-----------------------------------------------------------------------------
(* Contents. *)

Atom(n) == {x \in Int : x < n}
Keys == {"tags", "title"}
Maps(n) == {m \in UNION {[K -> Atom(n) \cup SUBSET Atom(n)] : K \in SUBSET Keys} :
                "tags" \in DOMAIN m => m["tags"] \in SUBSET Atom(n)}
Fms(n) == [ok : BOOLEAN, map : Maps(n)]
\* Frontmatter and lines that were written before the n-th was.
Content(n) == [fm : Fms(n), body : Bodies(Atom(n))]

LEMMA AtomsGrow == ASSUME NEW n \in Nat, NEW m \in Nat, n <= m PROVE Atom(n) \subseteq Atom(m)
  BY DEF Atom

LEMMA ContentGrows == ASSUME NEW n \in Nat, NEW m \in Nat, n <= m PROVE Content(n) \subseteq Content(m)
<1>1. Atom(n) \subseteq Atom(m)
  BY AtomsGrow
<1> HIDE DEF Atom
<1>2. Bodies(Atom(n)) \subseteq Bodies(Atom(m))
  <2>1. Seq(Atom(n)) \subseteq Seq(Atom(m))
    BY <1>1, SeqMonotonic
  <2> QED
    BY <2>1 DEF Bodies
<1>3. Maps(n) \subseteq Maps(m)
  <2> SUFFICES ASSUME NEW f \in Maps(n) PROVE f \in Maps(m)
    OBVIOUS
  <2>1. PICK K \in SUBSET Keys : f \in [K -> Atom(n) \cup SUBSET Atom(n)]
    BY DEF Maps
  <2>2. f \in [K -> Atom(m) \cup SUBSET Atom(m)]
    BY <1>1, <2>1
  <2>3. "tags" \in DOMAIN f => f["tags"] \in SUBSET Atom(m)
    BY <1>1 DEF Maps
  <2> QED
    BY <2>2, <2>3 DEF Maps
<1> QED
  BY <1>2, <1>3 DEF Content, Fms

LEMMA BlankTyped == ASSUME NEW n \in Nat PROVE Blank \in Content(n) /\ Lines(Blank) = {}
<1>1. None \in Maps(n)
  <2>1. None \in [{} -> Atom(n) \cup SUBSET Atom(n)]
    BY DEF None
  <2>2. "tags" \notin DOMAIN None
    BY DEF None
  <2> QED
    BY <2>1, <2>2 DEF Maps
<1>2. <<<<>>, <<>>>> \in Bodies(Atom(n))
  <2>1. <<>> \in Seq(Atom(n))
    BY EmptySeq
  <2> QED
    BY <2>1, Tuple DEF Bodies
<1>3. ToSet(<<>>) = {}
  BY DEF ToSet
<1>4. Blank \in Content(n)
  BY <1>1, <1>2 DEF Blank, Content, Fms
<1>5. Blank.body[1] = <<>> /\ Blank.body[2] = <<>> /\ Blank.body \in Bodies(Atom(n))
  BY <1>2 DEF Blank
<1> QED
  BY <1>3, <1>4, <1>5, LinesOf

LEMMA MapTyped ==
  ASSUME NEW n \in Nat, NEW f, NEW K \in SUBSET Keys, DOMAIN f = K, f = [k \in K |-> f[k]],
         \A k \in K : f[k] \in Atom(n) \cup SUBSET Atom(n),
         "tags" \in K => f["tags"] \in SUBSET Atom(n)
  PROVE  f \in Maps(n)
<1>1. f \in [K -> Atom(n) \cup SUBSET Atom(n)]
  OBVIOUS
<1> QED
  BY <1>1 DEF Maps

LEMMA MapHas ==
  ASSUME NEW n \in Nat, NEW f \in Maps(n)
  PROVE  /\ DOMAIN f \in SUBSET Keys /\ f = [k \in DOMAIN f |-> f[k]]
         /\ \A k \in DOMAIN f : f[k] \in Atom(n) \cup SUBSET Atom(n)
         /\ "tags" \in DOMAIN f => f["tags"] \in SUBSET Atom(n)
  BY DEF Maps

-----------------------------------------------------------------------------
(* What a merge decides. *)

LEMMA MarkersAreAtoms == ASSUME NEW n \in Nat PROVE Open \in Atom(n) /\ Mid \in Atom(n) /\ Close \in Atom(n)
  BY DEF Open, Mid, Close, Atom

LEMMA MarkedKeeps ==
  ASSUME NEW n \in Nat, NEW l \in Seq(Atom(n)), NEW r \in Seq(Atom(n))
  PROVE  Marked(l, r) \in Seq(Atom(n)) /\ ToSet(l) \cup ToSet(r) \subseteq ToSet(Marked(l, r))
<1> DEFINE o == <<Open>>
           m == <<Mid>>
           c == <<Close>>
           ol == o \o l
           olm == ol \o m
           olmr == olm \o r
<1>1. o \in Seq(Atom(n)) /\ m \in Seq(Atom(n)) /\ c \in Seq(Atom(n))
  BY MarkersAreAtoms, OneLine
<1>2. Marked(l, r) = olmr \o c
  BY DEF Marked
<1> HIDE DEF o, m, c
<1>3. ol \in Seq(Atom(n)) /\ ToSet(l) \subseteq ToSet(ol)
  BY <1>1, ToSetConcat
<1> HIDE DEF ol
<1>4. olm \in Seq(Atom(n)) /\ ToSet(ol) \subseteq ToSet(olm)
  BY <1>1, <1>3, ToSetConcat
<1> HIDE DEF olm
<1>5. olmr \in Seq(Atom(n)) /\ ToSet(olm) \cup ToSet(r) \subseteq ToSet(olmr)
  BY <1>4, ToSetConcat
<1> HIDE DEF olmr
<1>6. olmr \o c \in Seq(Atom(n)) /\ ToSet(olmr) \subseteq ToSet(olmr \o c)
  BY <1>1, <1>5, ToSetConcat
<1> QED
  BY <1>2, <1>3, <1>4, <1>5, <1>6

LEMMA RegionTyped ==
  ASSUME NEW n \in Nat, NEW b \in Seq(Atom(n)), NEW l \in Seq(Atom(n)), NEW r \in Seq(Atom(n)), NEW newer
  PROVE  Region(b, l, r, newer) \in Seq(Atom(n))
  BY MarkedKeeps DEF Region

\* A line that both sides have, or one side and not the ancestor, stays.
LEMMA RegionKeeps ==
  ASSUME NEW n \in Nat, NEW b \in Seq(Atom(n)), NEW l \in Seq(Atom(n)), NEW r \in Seq(Atom(n)), NEW newer,
         conf.conflict = "conflict-markers",
         NEW x \in ToSet(l) \cup ToSet(r),
         \/ x \in ToSet(l) \cap ToSet(r)
         \/ x \notin ToSet(b)
  PROVE  x \in ToSet(Region(b, l, r, newer))
  BY MarkedKeeps DEF Region

\* A line that stands twice in the ancestor: one side has only the one, the other
\* side only the other.
Torn(x, b, l, r) ==
    \E i, j \in 1..2 :
        /\ x \in ToSet(b[i]) /\ x \in ToSet(l[i]) /\ x \notin ToSet(r[i])
        /\ x \in ToSet(b[j]) /\ x \notin ToSet(l[j]) /\ x \in ToSet(r[j])
InBody(x, b) == \E i \in 1..2 : x \in ToSet(b[i])
\* A merge whose sides still have every first standing of x in their ancestor.
Upheld(x, b, l, r) == x \in ToSet(b[1]) => x \in ToSet(l[1]) /\ x \in ToSet(r[1])
\* What the sides of a merge owe each other for x.
Owed(x, b, l, r) ==
    /\ InBody(x, b) => InBody(x, l) /\ InBody(x, r)
    /\ ~Torn(x, b, l, r)

LEMMA InLines ==
  ASSUME NEW A, NEW c, c.body \in Bodies(A), NEW x
  PROVE  x \in Lines(c) <=> InBody(x, c.body)
<1>1. Lines(c) = ToSet(c.body[1]) \cup ToSet(c.body[2])
  BY LinesOf
<1> QED
  BY <1>1 DEF InBody

LEMMA RegionsKeep ==
  ASSUME NEW n \in Nat, NEW b \in Bodies(Atom(n)), NEW l \in Bodies(Atom(n)), NEW r \in Bodies(Atom(n)),
         NEW newer, conf.conflict = "conflict-markers", NEW m, NEW x,
         \A i \in 1..2 : m[i] = Region(b[i], l[i], r[i], newer),
         Owed(x, b, l, r), InBody(x, l) \/ InBody(x, r)
  PROVE  InBody(x, m)
<1>1. \A i \in 1..2 : b[i] \in Seq(Atom(n)) /\ l[i] \in Seq(Atom(n)) /\ r[i] \in Seq(Atom(n))
  BY DEF Bodies
<1>2. \A i \in 1..2 :
          /\ x \in ToSet(l[i]) /\ x \in ToSet(r[i]) => x \in ToSet(m[i])
          /\ (x \in ToSet(l[i]) \/ x \in ToSet(r[i])) /\ x \notin ToSet(b[i]) => x \in ToSet(m[i])
  BY <1>1, RegionKeeps
<1>3. CASE ~InBody(x, b)
  BY <1>2, <1>3 DEF InBody
<1>4. CASE InBody(x, b)
  <2>1. PICK i \in 1..2 : x \in ToSet(l[i])
    BY <1>4 DEF Owed, InBody
  <2>2. PICK j \in 1..2 : x \in ToSet(r[j])
    BY <1>4 DEF Owed, InBody
  <2>3. \/ x \notin ToSet(b[i]) \/ x \in ToSet(r[i])
        \/ x \notin ToSet(b[j]) \/ x \in ToSet(l[j])
    BY <2>1, <2>2 DEF Owed, Torn
  <2> QED
    BY <1>2, <2>1, <2>2, <2>3 DEF InBody
<1> QED
  BY <1>3, <1>4

LEMMA WholeKeeps ==
  ASSUME NEW n \in Nat, NEW l \in Bodies(Atom(n)), NEW r \in Bodies(Atom(n)), NEW newer
  PROVE  /\ Whole(l, r, newer).body \in Bodies(Atom(n)) /\ Whole(l, r, newer).marked \in BOOLEAN
         /\ conf.conflict = "conflict-markers" =>
                \A x : InBody(x, l) \/ InBody(x, r) => x \in ToSet(Whole(l, r, newer).body[1])
<1>1. CASE conf.conflict = "conflict-markers"
  <2> DEFINE m == Marked(Flat(l), Flat(r))
  <2>1. m \in Seq(Atom(n)) /\ ToSet(Flat(l)) \cup ToSet(Flat(r)) \subseteq ToSet(m)
    BY FlatEmpty, MarkedKeeps
  <2>2. \A x : InBody(x, l) \/ InBody(x, r) => x \in ToSet(m)
    BY <2>1, FlatEmpty DEF InBody
  <2> HIDE DEF m
  <2>3. <<m, <<>>>> \in Bodies(Atom(n)) /\ <<m, <<>>>>[1] = m
    <3>1. <<>> \in Seq(Atom(n))
      BY EmptySeq
    <3> QED
      BY <2>1, <3>1, Tuple DEF Bodies
  <2>4. Whole(l, r, newer) = [body |-> <<m, <<>>>>, marked |-> TRUE]
    BY <1>1 DEF Whole, m
  <2> QED
    BY <2>2, <2>3, <2>4 DEF InBody
<1>2. CASE conf.conflict # "conflict-markers"
  BY <1>2 DEF Whole, OneBody, Clean
<1> QED
  BY <1>1, <1>2

LEMMA UnionKeeps ==
  ASSUME NEW n \in Nat, NEW l \in Bodies(Atom(n)), NEW r \in Bodies(Atom(n)), NEW u,
         u = [i \in DOMAIN l |-> IF l[i] = r[i] THEN l[i] ELSE l[i] \o r[i]]
  PROVE  /\ u \in Bodies(Atom(n))
         /\ \A x : InBody(x, l) \/ InBody(x, r) => InBody(x, u)
         /\ ToSet(u[1]) = ToSet(l[1]) \cup ToSet(r[1])
<1>1. DOMAIN l = 1..2 /\ \A i \in 1..2 : l[i] \in Seq(Atom(n)) /\ r[i] \in Seq(Atom(n))
  BY DEF Bodies
<1>2. \A i \in 1..2 : l[i] \o r[i] \in Seq(Atom(n)) /\ ToSet(l[i] \o r[i]) = ToSet(l[i]) \cup ToSet(r[i])
  BY <1>1, ToSetConcat
<1>3. \A i \in 1..2 : u[i] \in Seq(Atom(n)) /\ ToSet(u[i]) = ToSet(l[i]) \cup ToSet(r[i])
  BY <1>1, <1>2
<1>4. u \in Bodies(Atom(n))
  BY <1>1, <1>3 DEF Bodies
<1>5. ASSUME NEW x PROVE InBody(x, l) \/ InBody(x, r) => InBody(x, u)
  BY <1>3 DEF InBody
<1>6. ToSet(u[1]) = ToSet(l[1]) \cup ToSet(r[1])
  <2>1. 1 \in 1..2
    OBVIOUS
  <2> QED
    BY <1>3, <2>1
<1> QED
  BY <1>4, <1>5, <1>6

\* The body a merge writes.
LEMMA MergedKeeps ==
  ASSUME NEW n \in Nat, NEW b \in Bodies(Atom(n)), NEW l \in Bodies(Atom(n)), NEW r \in Bodies(Atom(n)),
         NEW newer, NEW m \in ByRegions(b, l, r, newer)
  PROVE  /\ m.body \in Bodies(Atom(n)) /\ m.marked \in BOOLEAN
         /\ conf.conflict = "conflict-markers" =>
                \A x : /\ Owed(x, b, l, r) /\ (InBody(x, l) \/ InBody(x, r)) => InBody(x, m.body)
                       /\ Upheld(x, b, l, r) /\ x \in ToSet(l[1]) \cup ToSet(r[1]) => x \in ToSet(m.body[1])
<1>1. CASE Flat(b) # <<>>
  <2> DEFINE f == [i \in DOMAIN l |-> Region(b[i], l[i], r[i], newer)]
             k == (conf.conflict = "conflict-markers" /\ \E i \in DOMAIN l : Cardinality({b[i], l[i], r[i]}) = 3)
  <2>1. m = [body |-> f, marked |-> k] /\ k \in BOOLEAN
    BY <1>1 DEF ByRegions
  <2>2. DOMAIN l = 1..2 /\ \A i \in 1..2 : b[i] \in Seq(Atom(n)) /\ l[i] \in Seq(Atom(n)) /\ r[i] \in Seq(Atom(n))
    BY DEF Bodies
  <2>3. \A i \in 1..2 : f[i] = Region(b[i], l[i], r[i], newer) /\ f[i] \in Seq(Atom(n))
    BY <2>2, RegionTyped
  <2>4. f \in Bodies(Atom(n))
    BY <2>2, <2>3 DEF Bodies
  <2> HIDE DEF f, k
  <2>5. ASSUME conf.conflict = "conflict-markers",
               NEW x, Owed(x, b, l, r), InBody(x, l) \/ InBody(x, r)
        PROVE  InBody(x, f)
    BY <2>3, <2>5, RegionsKeep
  <2>6. ASSUME conf.conflict = "conflict-markers",
               NEW x, Upheld(x, b, l, r), x \in ToSet(l[1]) \cup ToSet(r[1])
        PROVE  x \in ToSet(f[1])
    <3>1. x \in ToSet(l[1]) \cap ToSet(r[1]) \/ x \notin ToSet(b[1])
      BY <2>6 DEF Upheld
    <3>2. b[1] \in Seq(Atom(n)) /\ l[1] \in Seq(Atom(n)) /\ r[1] \in Seq(Atom(n))
      BY <2>2
    <3>3. x \in ToSet(Region(b[1], l[1], r[1], newer))
      BY <2>6, <3>1, <3>2, RegionKeeps
    <3> QED
      BY <2>3, <3>3
  <2> QED
    BY <2>1, <2>4, <2>5, <2>6
<1>2. CASE Flat(b) = <<>> /\ Flat(l) = <<>>
  <2>1. m = Clean(r)
    BY <1>2 DEF ByRegions
  <2>2. \A x : ~InBody(x, l) /\ x \notin ToSet(l[1])
    <3>1. ToSet(l[1]) = {} /\ ToSet(l[2]) = {}
      BY <1>2, FlatEmpty
    <3> QED
      BY <3>1 DEF InBody
  <2> QED
    BY <2>1, <2>2 DEF Clean
<1>3. CASE Flat(b) = <<>> /\ Flat(l) # <<>> /\ Flat(r) = <<>>
  <2>1. m = Clean(l)
    BY <1>3 DEF ByRegions
  <2>2. \A x : ~InBody(x, r) /\ x \notin ToSet(r[1])
    <3>1. ToSet(r[1]) = {} /\ ToSet(r[2]) = {}
      BY <1>3, FlatEmpty
    <3> QED
      BY <3>1 DEF InBody
  <2> QED
    BY <2>1, <2>2 DEF Clean
<1>4. CASE Flat(b) = <<>> /\ Flat(l) # <<>> /\ Flat(r) # <<>>
  <2> DEFINE u == [i \in DOMAIN l |-> IF l[i] = r[i] THEN l[i] ELSE l[i] \o r[i]]
  <2>1. m = Clean(u) \/ m = Whole(l, r, newer)
    BY <1>4 DEF ByRegions
  <2>2. /\ u \in Bodies(Atom(n))
        /\ \A x : InBody(x, l) \/ InBody(x, r) => InBody(x, u)
        /\ ToSet(u[1]) = ToSet(l[1]) \cup ToSet(r[1])
    BY UnionKeeps
  <2> HIDE DEF u
  <2>3. CASE m = Clean(u)
    <3>1. m.body = u /\ m.marked = FALSE
      BY <2>3 DEF Clean
    <3> QED
      BY <2>2, <3>1
  <2>4. CASE m = Whole(l, r, newer)
    BY <2>4, WholeKeeps DEF InBody
  <2> QED
    BY <2>1, <2>3, <2>4
<1> QED
  BY <1>1, <1>2, <1>3, <1>4

LEMMA ResolvedKeeps ==
  ASSUME NEW n \in Nat, NEW b \in Bodies(Atom(n)), NEW l \in Bodies(Atom(n)), NEW r \in Bodies(Atom(n)),
         NEW newer, NEW strategy, NEW m \in ResolveBody(strategy, b, l, r, newer)
  PROVE  /\ m.body \in Bodies(Atom(n)) /\ m.marked \in BOOLEAN
         /\ conf.conflict = "conflict-markers" /\ strategy = "merge" =>
                \A x : /\ Owed(x, b, l, r) /\ (InBody(x, l) \/ InBody(x, r)) => InBody(x, m.body)
                       /\ Upheld(x, b, l, r) /\ x \in ToSet(l[1]) \cup ToSet(r[1]) => x \in ToSet(m.body[1])
<1>1. CASE l = r
  <2>1. m = Clean(l)
    BY <1>1 DEF ResolveBody
  <2> QED
    BY <1>1, <2>1 DEF Clean
<1>2. CASE l # r /\ strategy = "merge"
  <2>1. m \in ByRegions(b, l, r, newer)
    BY <1>2 DEF ResolveBody
  <2> QED
    BY <2>1, MergedKeeps
<1>3. CASE l # r /\ strategy # "merge"
  <2>1. m = OneBody(strategy, l, r, newer)
    BY <1>3 DEF ResolveBody
  <2>2. m = Clean(l) \/ m = Clean(r)
    BY <2>1 DEF OneBody
  <2>3. m.body \in Bodies(Atom(n)) /\ m.marked \in BOOLEAN
    <3>1. CASE m = Clean(l)
      BY <3>1 DEF Clean
    <3>2. CASE m = Clean(r)
      BY <3>2 DEF Clean
    <3> QED
      BY <2>2, <3>1, <3>2
  <2> QED
    BY <1>3, <2>3
<1> QED
  BY <1>1, <1>2, <1>3

\* The items of the list of a frontmatter.
Items(m) == IF "tags" \in DOMAIN m THEN m["tags"] ELSE {}
Readable(fm) == fm.ok /\ "tags" \in DOMAIN fm.map

LEMMA ItemsTyped == ASSUME NEW n \in Nat, NEW m \in Maps(n) PROVE Items(m) \in SUBSET Atom(n)
  BY MapHas DEF Items

LEMMA MapMerged ==
  ASSUME NEW n \in Nat, NEW b \in Maps(n), NEW l \in Maps(n), NEW r \in Maps(n), NEW strategy, NEW newer,
         NEW m, m = MergeFrontmatter(b, l, r, strategy, newer)
  PROVE  /\ m \in Maps(n)
         /\ "tags" \in DOMAIN l /\ "tags" \in DOMAIN r =>
                /\ "tags" \in DOMAIN m
                /\ \A x : /\ x \in Items(b) => x \in Items(l) /\ x \in Items(r)
                          /\ x \in Items(l) \/ x \in Items(r)
                          => x \in Items(m)
<1> DEFINE has(f, k) == k \in DOMAIN f
           same(f, k) == has(b, k) /\ f[k] = b[k]
           kept(k) ==
            \/ has(l, k) /\ has(r, k)
            \/ has(l, k) /\ ~has(r, k) /\ (has(b, k) => ~same(l, k) /\ ~DeletionWins("remote", strategy, newer))
            \/ has(r, k) /\ ~has(l, k) /\ (has(b, k) => ~same(r, k) /\ ~DeletionWins("local", strategy, newer))
           list(f, k) == IF has(f, k) THEN f[k] ELSE {}
           value(k) ==
            IF ~has(r, k) THEN l[k]
            ELSE IF ~has(l, k) THEN r[k]
            ELSE IF k = "tags" THEN MergeList(list(b, k), l[k], r[k])
            ELSE IF same(r, k) \/ (~same(l, k) /\ LocalWins(strategy, "tie", newer)) THEN l[k] ELSE r[k]
           K == {k \in DOMAIN l \cup DOMAIN r : kept(k)}
<1>1. m = [k \in K |-> value(k)]
  BY DEF MergeFrontmatter
<1>2. /\ DOMAIN l \in SUBSET Keys /\ DOMAIN r \in SUBSET Keys
      /\ \A k \in DOMAIN l : l[k] \in Atom(n) \cup SUBSET Atom(n)
      /\ \A k \in DOMAIN r : r[k] \in Atom(n) \cup SUBSET Atom(n)
  BY MapHas
<1>3. /\ has(l, "tags") => l["tags"] \in SUBSET Atom(n)
      /\ has(r, "tags") => r["tags"] \in SUBSET Atom(n)
      /\ has(b, "tags") => b["tags"] \in SUBSET Atom(n)
  BY MapHas
<1>4. K \in SUBSET Keys
  BY <1>2
<1>5. \A k \in K : k = "tags" => value(k) \in SUBSET Atom(n)
  BY <1>3 DEF MergeList
<1>6. \A k \in K : k # "tags" => value(k) \in Atom(n) \cup SUBSET Atom(n)
  BY <1>2
<1>7. m \in Maps(n)
  <2> HIDE DEF K, value
  <2>1. DOMAIN m = K /\ m = [k \in K |-> m[k]] /\ \A k \in K : m[k] = value(k)
    BY <1>1
  <2> QED
    BY <1>4, <1>5, <1>6, <2>1, MapTyped
<1>8. ASSUME "tags" \in DOMAIN l, "tags" \in DOMAIN r
      PROVE  /\ "tags" \in DOMAIN m
             /\ m["tags"] = MergeList(Items(b), Items(l), Items(r))
  <2>1. "tags" \in K
    BY <1>8
  <2>2. value("tags") = MergeList(Items(b), Items(l), Items(r))
    BY <1>8 DEF Items
  <2> HIDE DEF K, value
  <2> QED
    BY <1>1, <2>1, <2>2
<1>9. ASSUME "tags" \in DOMAIN l, "tags" \in DOMAIN r, NEW x,
             x \in Items(b) => x \in Items(l) /\ x \in Items(r),
             x \in Items(l) \/ x \in Items(r)
      PROVE  x \in Items(m)
  BY <1>8, <1>9 DEF MergeList, Items
<1> HIDE DEF K
<1> QED
  BY <1>7, <1>8, <1>9

\* Merged from two lists, a list has what both sides added and neither took out.
ListKept(b, l, r, f) ==
    conf.fm = "merge" /\ Readable(l) /\ Readable(r) =>
        /\ Readable(f)
        /\ \A x : /\ x \in Items(b.map) => x \in Items(l.map) /\ x \in Items(r.map)
                  /\ x \in Items(l.map) \/ x \in Items(r.map)
                  => x \in Items(f.map)

LEMMA FrontmatterMerged ==
  ASSUME NEW n \in Nat, NEW b \in Fms(n), NEW l \in Fms(n), NEW r \in Fms(n), NEW newer,
         NEW f, f = ResolveFrontmatter(b, l, r, newer)
  PROVE  f \in Fms(n) /\ ListKept(b, l, r, f)
<1>1. CASE l = r
  BY <1>1 DEF ResolveFrontmatter, Readable, ListKept
<1>2. CASE l # r /\ conf.fm = "merge" /\ l.ok /\ r.ok
  <2> DEFINE base_ == IF b.ok THEN b.map ELSE None
             m == MergeFrontmatter(base_, l.map, r.map, conf.conflict, newer)
  <2>1. f = [ok |-> TRUE, map |-> m]
    BY <1>2 DEF ResolveFrontmatter
  <2>2. None \in Maps(n) /\ Items(None) = {}
    BY BlankTyped DEF Blank, Content, Fms, None, Items
  <2>3. base_ \in Maps(n) /\ l.map \in Maps(n) /\ r.map \in Maps(n) /\ Items(base_) \subseteq Items(b.map)
    BY <2>2 DEF Fms
  <2> HIDE DEF base_
  <2>4. /\ m \in Maps(n)
        /\ "tags" \in DOMAIN l.map /\ "tags" \in DOMAIN r.map =>
                /\ "tags" \in DOMAIN m
                /\ \A x : /\ x \in Items(base_) => x \in Items(l.map) /\ x \in Items(r.map)
                          /\ x \in Items(l.map) \/ x \in Items(r.map)
                          => x \in Items(m)
    BY <2>3, MapMerged
  <2> HIDE DEF m
  <2>5. f \in Fms(n) /\ f.ok /\ f.map = m
    BY <2>1, <2>4 DEF Fms
  <2> QED
    BY <2>3, <2>4, <2>5 DEF Readable, ListKept
<1>3. CASE l # r /\ (conf.fm # "merge" \/ ~l.ok \/ ~r.ok)
  <2>1. f = l \/ f = r
    BY <1>3 DEF ResolveFrontmatter
  <2> QED
    BY <1>3, <2>1 DEF Readable, ListKept
<1> QED
  BY <1>1, <1>2, <1>3

\* What is asked of a decision: what it writes keeps what it must.
Wrote(n, b, l, r, e) ==
    /\ e.content \in Content(n) /\ e.clean \in BOOLEAN
    /\ Merging \/ conf.kind = "markdown" => e.action \in {"write", "safe-hold"}
    /\ e.action = "write" =>
        /\ conf.kind \in {"markdown", "text"}
        /\ ~Stacked(e.content)
        /\ Merging /\ conf.conflict = "conflict-markers" =>
               \A x : /\ Owed(x, b.body, l.body, r.body) /\ (InBody(x, l.body) \/ InBody(x, r.body)) =>
                              InBody(x, e.content.body)
                      /\ Upheld(x, b.body, l.body, r.body) /\ x \in ToSet(l.body[1]) \cup ToSet(r.body[1]) =>
                              x \in ToSet(e.content.body[1])
        /\ conf.kind = "markdown" /\ conf.fm = "merge" /\ Readable(l.fm) /\ Readable(r.fm) =>
               /\ Readable(e.content.fm)
               /\ \A x : /\ x \in Items(b.fm.map) => x \in Items(l.fm.map) /\ x \in Items(r.fm.map)
                         /\ x \in Items(l.fm.map) \/ x \in Items(r.fm.map)
                         => x \in Items(e.content.fm.map)

LEMMA HoldWrote == ASSUME NEW n \in Nat, NEW b, NEW l, NEW r PROVE Wrote(n, b, l, r, Hold)
<1>1. Hold = [action |-> "safe-hold", content |-> Blank, clean |-> TRUE]
  BY DEF Hold, Act
<1> QED
  BY <1>1, BlankTyped DEF Wrote

LEMMA WrittenWrote ==
  ASSUME NEW n \in Nat, NEW b \in Content(n), NEW l \in Content(n), NEW r \in Content(n), NEW newer,
         NEW strategy, NEW m \in ResolveBody(strategy, b.body, l.body, r.body, newer), NEW f \in Fms(n),
         conf.kind \in {"markdown", "text"}, Merging => strategy = "merge",
         conf.kind = "markdown" => f = ResolveFrontmatter(b.fm, l.fm, r.fm, newer)
  PROVE  Wrote(n, b, l, r, WriteOrHold(f, m))
<1>1. CASE Stacked(m)
  BY <1>1, HoldWrote DEF WriteOrHold
<1>2. CASE ~Stacked(m)
  <2> DEFINE e == WriteOrHold(f, m)
  <2>1. e = [action |-> "write", content |-> [fm |-> f, body |-> m.body], clean |-> ~m.marked]
    BY <1>2 DEF WriteOrHold, Writes
  <2>2. /\ b.body \in Bodies(Atom(n)) /\ l.body \in Bodies(Atom(n)) /\ r.body \in Bodies(Atom(n))
        /\ b.fm \in Fms(n) /\ l.fm \in Fms(n) /\ r.fm \in Fms(n)
    BY DEF Content
  <2>3. /\ m.body \in Bodies(Atom(n)) /\ m.marked \in BOOLEAN
        /\ conf.conflict = "conflict-markers" /\ strategy = "merge" =>
               \A x : /\ Owed(x, b.body, l.body, r.body) /\ (InBody(x, l.body) \/ InBody(x, r.body)) =>
                              InBody(x, m.body)
                      /\ Upheld(x, b.body, l.body, r.body) /\ x \in ToSet(l.body[1]) \cup ToSet(r.body[1]) =>
                              x \in ToSet(m.body[1])
    BY <2>2, ResolvedKeeps
  <2>4. conf.kind = "markdown" /\ conf.fm = "merge" /\ Readable(l.fm) /\ Readable(r.fm) =>
               /\ Readable(f)
               /\ \A x : /\ x \in Items(b.fm.map) => x \in Items(l.fm.map) /\ x \in Items(r.fm.map)
                         /\ x \in Items(l.fm.map) \/ x \in Items(r.fm.map)
                         => x \in Items(f.map)
    <3>1. CASE conf.kind = "markdown"
      <4>1. f = ResolveFrontmatter(b.fm, l.fm, r.fm, newer)
        BY <3>1
      <4> DEFINE bf == b.fm
                 lf == l.fm
                 rf == r.fm
      <4>2. bf \in Fms(n) /\ lf \in Fms(n) /\ rf \in Fms(n) /\ f = ResolveFrontmatter(bf, lf, rf, newer)
        BY <2>2, <4>1
      <4> HIDE DEF bf, lf, rf
      <4>3. ListKept(bf, lf, rf, f)
        BY <4>2, FrontmatterMerged
      <4> QED
        BY <4>3 DEF ListKept, bf, lf, rf
    <3> QED
      BY <3>1
  <2> HIDE DEF e
  <2>5. /\ e.content \in Content(n) /\ e.clean \in BOOLEAN /\ e.action = "write"
        /\ e.content.body = m.body /\ e.content.fm = f
    BY <2>1, <2>3 DEF Content
  <2>6. ~Stacked(e.content)
    BY <1>2, <2>5 DEF Stacked
  <2> QED
    BY <2>3, <2>4, <2>5, <2>6 DEF Wrote, e
<1> QED
  BY <1>1, <1>2

LEMMA PickedWrote ==
  ASSUME NEW n \in Nat, NEW b, NEW l, NEW r, NEW newer, NEW strategy,
         ~Merging, conf.kind # "markdown"
  PROVE  Wrote(n, b, l, r, ByComparison(strategy, l, r, newer))
<1> DEFINE e == ByComparison(strategy, l, r, newer)
<1>1. \E a \in {"prefer-local", "prefer-remote", "no-op", "safe-hold"} :
          e = [action |-> a, content |-> Blank, clean |-> TRUE]
  BY DEF ByComparison, BySide, Act, Hold
<1> HIDE DEF e
<1> QED
  BY <1>1, BlankTyped DEF Wrote, e

LEMMA DecidedWrote ==
  ASSUME NEW n \in Nat, NEW b \in Content(n), NEW l \in Content(n), NEW r \in Content(n), NEW newer,
         NEW e \in decide(b, l, r, newer)
  PROVE  Wrote(n, b, l, r, e)
<1>0. b.fm \in Fms(n) /\ l.fm \in Fms(n) /\ r.fm \in Fms(n)
  BY DEF Content
<1>1. CASE conf.kind = "markdown"
  <2>1. e \in decideMarkdown(b, l, r, newer)
    BY <1>1 DEF decide
  <2>2. CASE Mergeable(l, r)
    <3>1. PICK m \in ResolveBody(conf.body, b.body, l.body, r.body, newer) :
              e = WriteOrHold(ResolveFrontmatter(b.fm, l.fm, r.fm, newer), m)
      BY <2>1, <2>2 DEF decideMarkdown
    <3>2. ResolveFrontmatter(b.fm, l.fm, r.fm, newer) \in Fms(n)
      BY <1>0, FrontmatterMerged
    <3>3. Merging => conf.body = "merge"
      BY DEF Merging
    <3> QED
      BY <1>1, <3>1, <3>2, <3>3, WrittenWrote
  <2>3. CASE ~Mergeable(l, r)
    BY <2>1, <2>3, HoldWrote DEF decideMarkdown
  <2> QED
    BY <2>2, <2>3
<1>2. CASE conf.kind = "text" /\ conf.body = "merge"
  <2>1. e \in decideMerge(b, l, r, newer)
    BY <1>2 DEF decide
  <2>2. CASE Mergeable(l, r)
    <3>1. PICK m \in ResolveBody("merge", b.body, l.body, r.body, newer) : e = WriteOrHold(l.fm, m)
      BY <2>1, <2>2 DEF decideMerge
    <3> QED
      BY <1>0, <1>2, <3>1, WrittenWrote
  <2>3. CASE ~Mergeable(l, r)
    BY <2>1, <2>3, HoldWrote DEF decideMerge
  <2> QED
    BY <2>2, <2>3
<1>3. CASE conf.kind # "markdown" /\ ~(conf.kind = "text" /\ conf.body = "merge")
  <2>1. ~Merging
    BY <1>3 DEF Merging
  <2>2. \E strategy : e = ByComparison(strategy, l, r, newer)
    <3>1. \/ e = ByComparison(conf.conflict, l, r, newer)
          \/ e = ByComparison(conf.body, l, r, newer)
      BY <1>3 DEF decide
    <3> QED
      BY <3>1
  <2> QED
    BY <1>3, <2>1, <2>2, PickedWrote
<1> QED
  BY <1>1, <1>2, <1>3

-----------------------------------------------------------------------------
(* Types. *)

Sizes(n) == {0} \cup {Size(c) : c \in Content(n)}
Rows(n) == [hash : Content(n), id : Content(n), size : Sizes(n), known : BOOLEAN, conflicted : BOOLEAN]
Bases(n) == [known : BOOLEAN, content : Content(n)]
SideSets(n) == [known : BOOLEAN, local : Content(n), remote : Content(n)]

Typed(n) ==
    /\ note \in [Devices -> Content(n)] /\ server \in Bases(n)
    /\ row \in [Devices -> Rows(n)] /\ base \in [Devices -> Bases(n)] /\ clean \in [Devices -> SideSets(n)]

Limit == 10 + edits
Types ==
    /\ conf \in Configs /\ edits \in Nat /\ TypeOK
    /\ Typed(Limit)
    /\ live \in SUBSET (Nat \cap Atom(Limit)) /\ tags \in SUBSET Atom(Limit)
    /\ ~server.known => server.content = Blank

LEMMA RowTyped ==
  ASSUME NEW n \in Nat, NEW c \in Content(n)
  PROVE  Row(c) \in Rows(n) /\ Base(c) \in Bases(n)
  BY DEF Row, Base, Rows, Bases, Sizes

LEMMA EmptyTyped ==
  ASSUME NEW n \in Nat
  PROVE  NoRow \in Rows(n) /\ NoBase \in Bases(n) /\ NoSides \in SideSets(n) /\ NoServer \in Bases(n)
  BY BlankTyped DEF NoRow, NoBase, NoSides, NoServer, Rows, Bases, SideSets, Sizes

LEMMA TypedGrows == ASSUME NEW n \in Nat, NEW m \in Nat, n <= m, Typed(n) PROVE Typed(m)
<1>1. Content(n) \subseteq Content(m)
  BY ContentGrows
<1>2. Sizes(n) \subseteq Sizes(m)
  BY <1>1 DEF Sizes
<1>3. Rows(n) \subseteq Rows(m) /\ Bases(n) \subseteq Bases(m) /\ SideSets(n) \subseteq SideSets(m)
  BY <1>1, <1>2 DEF Rows, Bases, SideSets
<1> QED
  BY <1>1, <1>3 DEF Typed

LEMMA StartTyped ==
  /\ \A b \in Bodies(Atom(10)) : Note(b) \in Content(10)
  /\ \A x, y \in {<<1>>, <<2>>, <<3>>, <<>>} : <<x, y>> \in Bodies(Atom(10))
<1>1. 1 \in Atom(10) /\ 2 \in Atom(10) /\ 3 \in Atom(10)
  BY DEF Atom
<1>2. \A x \in {<<1>>, <<2>>, <<3>>, <<>>} : x \in Seq(Atom(10))
  <2>1. <<1>> \in Seq(Atom(10)) /\ <<2>> \in Seq(Atom(10)) /\ <<3>> \in Seq(Atom(10))
    BY <1>1, OneLine
  <2>2. <<>> \in Seq(Atom(10))
    BY EmptySeq
  <2> QED
    BY <2>1, <2>2
<1>3. \A x, y \in {<<1>>, <<2>>, <<3>>, <<>>} : <<x, y>> \in Bodies(Atom(10))
  BY <1>2, Tuple DEF Bodies
<1>4. [k \in {"tags"} |-> {}] \in Maps(10)
  <2> DEFINE m == [k \in {"tags"} |-> {}]
  <2>1. DOMAIN m = {"tags"} /\ m = [k \in {"tags"} |-> m[k]] /\ \A k \in {"tags"} : m[k] = {}
    OBVIOUS
  <2>2. {"tags"} \in SUBSET Keys /\ 10 \in Nat
    BY DEF Keys
  <2> HIDE DEF m
  <2>3. (\A k \in {"tags"} : m[k] \in Atom(10) \cup SUBSET Atom(10)) /\ m["tags"] \in SUBSET Atom(10)
    BY <2>1
  <2> QED
    BY <2>1, <2>2, <2>3, MapTyped DEF m
<1> QED
  BY <1>3, <1>4 DEF Note, Content, Fms

\* The regions of a note at the start.
Regions == {<<1>>, <<2>>, <<3>>, <<>>}

LEMMA SmallLines ==
  ASSUME NEW x \in Regions, NEW y \in Regions
  PROVE  Lines(Note(<<x, y>>)) \in SUBSET (Nat \cap Atom(10))
<1>1. <<x, y>> \in Bodies(Atom(10))
  BY StartTyped DEF Regions
<1>2. Lines(Note(<<x, y>>)) = ToSet(x) \cup ToSet(y)
  BY <1>1, LinesOf DEF Note
<1>3. \A z \in {<<1>>, <<2>>, <<3>>, <<>>} : ToSet(z) \in SUBSET (Nat \cap Atom(10))
  BY DEF ToSet, Atom
<1> QED
  BY <1>2, <1>3 DEF Regions

LEMMA InitTypes == Init => Types
<1> SUFFICES ASSUME Init PROVE Types
  OBVIOUS
<1> USE ConflictAssumption
<1>1. PICK start \in Starts, own \in [Devices -> {<<1>>, <<3>>}] :
           LET c == IF start = "empty" THEN Note(<<<<>>, <<>>>>) ELSE TwoLines
               first == [d \in Devices |-> Note(<<own[d], <<2>>>>)]
           IN  IF start = "first"
               THEN /\ edits = 2 /\ note = first /\ server = NoServer
                    /\ row = [d \in Devices |-> NoRow] /\ base = [d \in Devices |-> NoBase]
                    /\ live = UNION {Lines(first[d]) : d \in Devices}
               ELSE /\ edits = 0 /\ note = [d \in Devices |-> c] /\ server = [known |-> TRUE, content |-> c]
                    /\ row = [d \in Devices |-> Row(c)] /\ base = [d \in Devices |-> Base(c)]
                    /\ live = Lines(c)
  BY DEF Init
<1>2. conf \in Configs /\ faults = 0 /\ tags = {} /\ clean = [d \in Devices |-> NoSides]
  BY DEF Init
<1>3. ~NoSides.known /\ ~NoBase.known /\ NoServer.content = Blank
  BY DEF NoSides, NoBase, NoServer
<1>4. CASE start = "first"
  <2> DEFINE first == [d \in Devices |-> Note(<<own[d], <<2>>>>)]
  <2>1. /\ edits = 2 /\ note = first /\ server = NoServer
        /\ row = [d \in Devices |-> NoRow] /\ base = [d \in Devices |-> NoBase]
        /\ live = UNION {Lines(first[d]) : d \in Devices}
    BY <1>1, <1>4
  <2>2. \A d \in Devices : first[d] = Note(<<own[d], <<2>>>>) /\ first[d] \in Content(10)
                           /\ Lines(first[d]) \in SUBSET (Nat \cap Atom(10))
    BY StartTyped, SmallLines DEF Regions
  <2>3. first \in [Devices -> Content(10)] /\ live \in SUBSET (Nat \cap Atom(10))
    <3>1. first \in [Devices -> Content(10)]
      BY <2>2
    <3> HIDE DEF first
    <3>2. \A d \in Devices : Lines(first[d]) \in SUBSET (Nat \cap Atom(10))
      BY <2>2
    <3> QED
      BY <2>1, <3>1, <3>2
  <2> HIDE DEF first
  <2>4. Typed(10)
    BY <1>2, <2>1, <2>3, EmptyTyped DEF Typed
  <2>5. Typed(Limit) /\ live \in SUBSET (Nat \cap Atom(Limit))
    <3>1. Limit = 12 /\ 12 \in Nat /\ 10 \in Nat
      BY <2>1 DEF Limit
    <3> QED
      BY <2>3, <2>4, <3>1, TypedGrows, AtomsGrow
  <2> QED
    BY <1>2, <1>3, <2>1, <2>5 DEF Types, TypeOK
<1>5. CASE start # "first"
  <2> DEFINE c == IF start = "empty" THEN Note(<<<<>>, <<>>>>) ELSE TwoLines
  <2>1. /\ edits = 0 /\ note = [d \in Devices |-> c] /\ server = [known |-> TRUE, content |-> c]
        /\ row = [d \in Devices |-> Row(c)] /\ base = [d \in Devices |-> Base(c)]
        /\ live = Lines(c)
    BY <1>1, <1>5
  <2>2. c \in Content(10) /\ Lines(c) \in SUBSET (Nat \cap Atom(10))
    BY StartTyped, SmallLines DEF Regions, TwoLines
  <2> HIDE DEF c
  <2>3. Row(c) \in Rows(10) /\ Base(c) \in Bases(10) /\ Row(c).known
    BY <2>2, RowTyped DEF Row
  <2>4. Typed(10)
    BY <1>2, <2>1, <2>2, <2>3, EmptyTyped DEF Typed, Bases
  <2>5. Limit = 10
    BY <2>1 DEF Limit
  <2> QED
    BY <1>2, <1>3, <2>1, <2>2, <2>3, <2>4, <2>5 DEF Types, TypeOK
<1> QED
  BY <1>4, <1>5

\* What a step of device d leaves behind.
Left(n, d) ==
    /\ \E c \in Content(n) : note' = [note EXCEPT ![d] = c]
    /\ \/ server' = server
       \/ \E c \in Content(n) : server' = [known |-> TRUE, content |-> c]
    /\ \E r \in Rows(n) : row' = [row EXCEPT ![d] = r] /\ (row[d].known => r.known) /\ (row' = row \/ r.known)
    /\ \/ base' = base
       \/ row'[d].known /\ \E b \in Bases(n) : base' = [base EXCEPT ![d] = b]
    /\ \/ clean' = clean
       \/ \E s \in SideSets(n) : clean' = [clean EXCEPT ![d] = s] /\ (s.known => clean[d].known \/ row'[d].known)
    /\ conf' = conf

LEMMA LeftTyped ==
  ASSUME NEW n \in Nat, Typed(n), NEW d \in Devices, Left(n, d)
  PROVE  Typed(n)'
<1>1. note' \in [Devices -> Content(n)]
  BY DEF Left, Typed
<1>2. server' \in Bases(n)
  <2>1. CASE server' = server
    BY <2>1 DEF Typed
  <2>2. CASE server' # server
    <3>1. PICK c \in Content(n) : server' = [known |-> TRUE, content |-> c]
      BY <2>2 DEF Left
    <3> QED
      BY <3>1 DEF Bases
  <2> QED
    BY <2>1, <2>2
<1>3. row' \in [Devices -> Rows(n)]
  BY DEF Left, Typed
<1>4. base' \in [Devices -> Bases(n)]
  BY DEF Left, Typed
<1>5. clean' \in [Devices -> SideSets(n)]
  BY DEF Left, Typed
<1> QED
  BY <1>1, <1>2, <1>3, <1>4, <1>5 DEF Typed

LEMMA LeftKnown ==
  ASSUME NEW n \in Nat, Typed(n), NEW d \in Devices, Left(n, d)
  PROVE  /\ (~server.known => server.content = Blank) => (~server.known => server.content = Blank)'
         /\ (\A e \in Devices : clean[e].known => row[e].known) => (\A e \in Devices : clean[e].known => row[e].known)'
         /\ (\A e \in Devices : ~row[e].known => ~base[e].known) => (\A e \in Devices : ~row[e].known => ~base[e].known)'
<1>1. (~server.known => server.content = Blank) => (~server.known => server.content = Blank)'
  BY DEF Left
<1>2. PICK r \in Rows(n) : row' = [row EXCEPT ![d] = r] /\ (row[d].known => r.known)
  BY DEF Left
<1>3. \A e \in Devices : row[e].known => row'[e].known
  BY <1>2 DEF Typed
<1>4. \A e \in Devices : clean'[e].known => clean[e].known \/ row'[e].known
  <2>1. CASE clean' = clean
    BY <2>1
  <2>2. CASE clean' # clean
    <3>1. PICK s \in SideSets(n) : clean' = [clean EXCEPT ![d] = s] /\ (s.known => clean[d].known \/ row'[d].known)
      BY <2>2 DEF Left
    <3> QED
      BY <3>1 DEF Typed
  <2> QED
    BY <2>1, <2>2
<1>5. \A e \in Devices : base'[e] = base[e] \/ row'[e].known
  <2>1. CASE base' = base
    BY <2>1
  <2>2. CASE base' # base
    <3>1. PICK b \in Bases(n) : row'[d].known /\ base' = [base EXCEPT ![d] = b]
      BY <2>2 DEF Left
    <3> QED
      BY <3>1 DEF Typed
  <2> QED
    BY <2>1, <2>2
<1> QED
  BY <1>1, <1>3, <1>4, <1>5

\* Nothing changes in what is left as it was.
LEMMA SameLeft ==
  ASSUME NEW n \in Nat, Typed(n), NEW d \in Devices
  PROVE  /\ note[d] \in Content(n) /\ note = [note EXCEPT ![d] = note[d]]
         /\ row[d] \in Rows(n) /\ row = [row EXCEPT ![d] = row[d]]
         /\ base[d] \in Bases(n) /\ base[d].content \in Content(n)
         /\ clean[d] \in SideSets(n) /\ clean[d].local \in Content(n) /\ clean[d].remote \in Content(n)
         /\ server.content \in Content(n) /\ server \in Bases(n)
         /\ row[d].hash \in Content(n) /\ row[d].id \in Content(n)
  BY DEF Typed, Bases, SideSets, Rows

LEMMA SidesTyped ==
  ASSUME NEW n \in Nat, NEW l \in Content(n), NEW r \in Content(n)
  PROVE  Sides(l, r) \in SideSets(n)
  BY DEF Sides, SideSets

LEMMA RowKnown == \A c : Row(c).known
  BY DEF Row

LEMMA UploadLeft ==
  ASSUME NEW n \in Nat, Typed(n), NEW d \in Devices, Upload(d)
  PROVE  Left(n, d)
<1>1. row' = [row EXCEPT ![d] = Row(note[d])] /\ base' = [base EXCEPT ![d] = Base(note[d])]
  BY DEF Upload, SetRow, SetBase
<1>2. clean' = [clean EXCEPT ![d] = clean[d]] \/ clean' = [clean EXCEPT ![d] = NoSides]
  BY DEF Upload, Sweep
<1>3. server' = [known |-> TRUE, content |-> note[d]] /\ note' = note /\ conf' = conf
  BY DEF Upload, Put
<1>4. Row(note[d]) \in Rows(n) /\ Base(note[d]) \in Bases(n)
  BY RowTyped, SameLeft
<1>5. row'[d].known
  BY <1>1, RowKnown DEF Typed
<1> QED
  BY <1>1, <1>2, <1>3, <1>4, <1>5, SameLeft, RowKnown, EmptyTyped DEF Left

LEMMA DownloadLeft ==
  ASSUME NEW n \in Nat, Typed(n), NEW d \in Devices, Download(d)
  PROVE  Left(n, d)
<1>1. row' = [row EXCEPT ![d] = Row(server.content)] /\ base' = [base EXCEPT ![d] = Base(server.content)]
  BY DEF Download, SetRow, SetBase
<1>2. clean' = [clean EXCEPT ![d] = clean[d]] \/ clean' = [clean EXCEPT ![d] = NoSides]
  BY DEF Download, Sweep
<1>3. server' = server /\ note' = [note EXCEPT ![d] = server.content] /\ conf' = conf
  BY DEF Download
<1>4. Row(server.content) \in Rows(n) /\ Base(server.content) \in Bases(n)
  BY RowTyped, SameLeft
<1>5. row'[d].known
  BY <1>1, RowKnown DEF Typed
<1> QED
  BY <1>1, <1>2, <1>3, <1>4, <1>5, SameLeft, RowKnown, EmptyTyped DEF Left

LEMMA FlagTyped ==
  ASSUME NEW n \in Nat, NEW r \in Rows(n), NEW f \in BOOLEAN
  PROVE  [r EXCEPT !.conflicted = f] \in Rows(n) /\ [r EXCEPT !.conflicted = f].known = r.known
  BY DEF Rows

LEMMA ConvergeLeft ==
  ASSUME NEW n \in Nat, Typed(n), NEW d \in Devices, Converge(d)
  PROVE  Left(n, d)
<1> DEFINE cleared == [row[d] EXCEPT !.conflicted = FALSE]
<1>1. /\ note' = note /\ server' = server /\ conf' = conf
      /\ clean' = [clean EXCEPT ![d] = clean[d]] \/ clean' = [clean EXCEPT ![d] = NoSides]
  BY DEF Converge, Sweep
<1>2. base' = base \/ \E b \in Bases(n) : base' = [base EXCEPT ![d] = b]
  BY SameLeft, RowTyped DEF Converge, SetBase
<1>3. \/ row' = [row EXCEPT ![d] = Row(note[d])]
      \/ row[d].known /\ row' = [row EXCEPT ![d] = cleared]
  BY DEF Converge, SetRow, LocalChanged
<1>4. Row(note[d]) \in Rows(n) /\ cleared \in Rows(n) /\ cleared.known = row[d].known
  BY RowTyped, SameLeft, FlagTyped
<1> HIDE DEF cleared
<1>5. \E r \in Rows(n) : row' = [row EXCEPT ![d] = r] /\ r.known
  BY <1>3, <1>4, RowKnown
<1>6. row'[d].known
  BY <1>5 DEF Typed
<1> QED
  BY <1>1, <1>5, <1>6, <1>2, SameLeft, EmptyTyped DEF Left

\* The three things a decision can come to.
LEMMA HoldLeft ==
  ASSUME NEW n \in Nat, Typed(n), NEW d \in Devices, NEW e, HoldConflict(d, e), conf' = conf
  PROVE  Left(n, d)
<1> DEFINE flagged == [row[d] EXCEPT !.conflicted = TRUE]
<1>1. /\ note' = note /\ server' = server /\ base' = base /\ clean' = clean
      /\ \/ row[d].known /\ row' = [row EXCEPT ![d] = flagged]
         \/ row' = [row EXCEPT ![d] = row[d]]
  BY DEF HoldConflict, SetRow
<1>2. flagged \in Rows(n) /\ flagged.known = row[d].known
  BY SameLeft, FlagTyped
<1> HIDE DEF flagged
<1> QED
  <2>1. row' = row \/ row[d].known
    BY <1>1, SameLeft
  <2>2. \E r \in Rows(n) : row' = [row EXCEPT ![d] = r] /\ (row[d].known => r.known) /\ (row' = row \/ r.known)
    BY <1>1, <1>2, <2>1, SameLeft
  <2> QED
    BY <1>1, <2>2, SameLeft DEF Left

LEMMA PreferLeft ==
  ASSUME NEW n \in Nat, Typed(n), NEW d \in Devices, NEW e, PreferLocal(d, e) \/ PreferRemote(d, e), conf' = conf
  PROVE  Left(n, d)
<1>1. CASE PreferLocal(d, e) /\ row' = row /\ server' = server /\ base' = base /\ clean' = clean
  <2>1. note' = note
    BY <1>1 DEF PreferLocal
  <2> QED
    BY <1>1, <2>1, SameLeft DEF Left
<1>2. ASSUME NEW c \in Content(n), \/ server' = server
                                   \/ server' = [known |-> TRUE, content |-> c],
             note' = [note EXCEPT ![d] = c], row' = [row EXCEPT ![d] = Row(c)], base' = [base EXCEPT ![d] = Base(c)],
             Sweep(d)
      PROVE  Left(n, d)
  <2>1. clean' = [clean EXCEPT ![d] = clean[d]] \/ clean' = [clean EXCEPT ![d] = NoSides]
    BY <1>2 DEF Sweep
  <2>2. Row(c) \in Rows(n) /\ Base(c) \in Bases(n)
    BY RowTyped
  <2>3. row'[d].known
    BY <1>2, RowKnown DEF Typed
  <2> QED
    BY <1>2, <2>1, <2>2, <2>3, RowKnown, SameLeft, EmptyTyped DEF Left
<1>3. CASE PreferLocal(d, e) /\ ~(row' = row /\ server' = server /\ base' = base /\ clean' = clean)
  <2>1. /\ note' = note /\ server' = [known |-> TRUE, content |-> note[d]] /\ row' = [row EXCEPT ![d] = Row(note[d])]
        /\ base' = [base EXCEPT ![d] = Base(note[d])] /\ Sweep(d)
    BY <1>3 DEF PreferLocal, Put, SetRow, SetBase
  <2>2. note[d] \in Content(n) /\ note' = [note EXCEPT ![d] = note[d]]
    BY <2>1, SameLeft
  <2> QED
    BY <1>2, <2>1, <2>2
<1>4. CASE PreferRemote(d, e)
  <2>1. /\ note' = [note EXCEPT ![d] = server.content] /\ server' = server /\ row' = [row EXCEPT ![d] = Row(server.content)]
        /\ base' = [base EXCEPT ![d] = Base(server.content)] /\ Sweep(d)
    BY <1>4 DEF PreferRemote, SetRow, SetBase
  <2>2. server.content \in Content(n)
    BY SameLeft
  <2> QED
    BY <1>2, <2>1, <2>2
<1> QED
  BY <1>1, <1>3, <1>4

\* What a merge leaves: the row, the note, the server and the base in one of two ways.
Merged(d, c, sharp, pushed) ==
    /\ note' = [note EXCEPT ![d] = c]
    /\ IF pushed
       THEN /\ server' = [known |-> TRUE, content |-> c]
            /\ row' = [row EXCEPT ![d] = [Row(c) EXCEPT !.conflicted = ~sharp]]
            /\ base' = IF sharp THEN [base EXCEPT ![d] = Base(c)] ELSE base
       ELSE /\ server' = server /\ base' = base
            /\ row' = [row EXCEPT ![d] = [hash |-> row[d].hash, id |-> server.content, size |-> Size(c),
                                          known |-> TRUE, conflicted |-> TRUE]]
LEMMA WriteMerged ==
  ASSUME NEW d, NEW e, WriteMerge(d, e)
  PROVE  \E pushed \in BOOLEAN : Merged(d, e.content, e.clean, pushed)
<1>1. PICK pushed \in BOOLEAN :
        /\ IF pushed THEN Put(e.content) /\ UNCHANGED faults ELSE UNCHANGED server /\ Fail /\ Fresh(d, e.content)
        /\ SetRow(d, WrittenRow(d, e.content, e.clean, pushed))
        /\ base' = IF Advances(e.clean, pushed) THEN [base EXCEPT ![d] = Base(e.content)] ELSE base
  BY DEF WriteMerge
<1>2. note' = [note EXCEPT ![d] = e.content]
  BY DEF WriteMerge
<1>3. CASE pushed
  BY <1>1, <1>2, <1>3 DEF Merged, Put, SetRow, WrittenRow, Advances
<1>4. CASE ~pushed
  BY <1>1, <1>2, <1>4 DEF Merged, SetRow, WrittenRow, Advances
<1> QED
  BY <1>3, <1>4

LEMMA WriteLeft ==
  ASSUME NEW n \in Nat, Typed(n), NEW d \in Devices, NEW e, WriteMerge(d, e), conf' = conf,
         e.content \in Content(n), e.clean \in BOOLEAN
  PROVE  Left(n, d)
<1> DEFINE c == e.content
           flagged == [Row(c) EXCEPT !.conflicted = ~e.clean]
           held == [hash |-> row[d].hash, id |-> server.content, size |-> Size(c), known |-> TRUE, conflicted |-> TRUE]
<1>1. PICK pushed \in BOOLEAN : Merged(d, c, e.clean, pushed)
  BY WriteMerged
<1>2. flagged \in Rows(n) /\ flagged.known
  BY RowTyped, FlagTyped, RowKnown
<1>3. held \in Rows(n) /\ held.known
  BY SameLeft DEF Rows, Sizes
<1>4. Base(c) \in Bases(n)
  BY RowTyped
<1>5. \/ clean' = [clean EXCEPT ![d] = Sides(note[d], server.content)]
      \/ clean' = [clean EXCEPT ![d] = clean[d]]
      \/ clean' = [clean EXCEPT ![d] = NoSides]
  BY DEF WriteMerge
<1>6. Sides(note[d], server.content) \in SideSets(n)
  BY SameLeft, SidesTyped
<1> HIDE DEF flagged, held
<1>7. \E r \in Rows(n) : row' = [row EXCEPT ![d] = r] /\ r.known
  BY <1>1, <1>2, <1>3 DEF Merged, flagged, held
<1>8. row'[d].known
  BY <1>7 DEF Typed
<1>9. note' = [note EXCEPT ![d] = c] /\ (server' = server \/ server' = [known |-> TRUE, content |-> c])
      /\ (base' = base \/ base' = [base EXCEPT ![d] = Base(c)])
  BY <1>1 DEF Merged
<1> HIDE DEF c
<1>10. c \in Content(n)
  BY DEF c
<1> QED
  BY <1>4, <1>5, <1>6, <1>7, <1>8, <1>9, <1>10, SameLeft, EmptyTyped DEF Left

\* The decision that a step took, and what it wrote.
LEMMA HandledBy ==
  ASSUME NEW n \in Nat, Typed(n), NEW d \in Devices, handleConflict(d)
  PROVE  /\ conf' = conf /\ live' = live /\ tags' = tags /\ edits' = edits /\ server.known
         /\ \E e : /\ Wrote(n, base[d].content, note[d], server.content, e)
                   /\ \/ HoldConflict(d, e) \/ PreferLocal(d, e)
                      \/ PreferRemote(d, e) \/ WriteMerge(d, e)
<1>1. PICK newer \in Order : \E e \in decide(base[d].content, note[d], server.content, newer) :
          HoldConflict(d, e) \/ PreferLocal(d, e) \/ PreferRemote(d, e) \/ WriteMerge(d, e)
  BY DEF handleConflict
<1>2. PICK e \in decide(base[d].content, note[d], server.content, newer) :
          HoldConflict(d, e) \/ PreferLocal(d, e) \/ PreferRemote(d, e) \/ WriteMerge(d, e)
  BY <1>1
<1>3. base[d].content \in Content(n) /\ note[d] \in Content(n) /\ server.content \in Content(n)
  BY SameLeft
<1>4. Wrote(n, base[d].content, note[d], server.content, e)
  BY <1>2, <1>3, DecidedWrote
<1> QED
  BY <1>2, <1>4 DEF handleConflict

LEMMA HandleLeft ==
  ASSUME NEW n \in Nat, Typed(n), NEW d \in Devices, handleConflict(d)
  PROVE  Left(n, d)
<1>1. PICK e : /\ Wrote(n, base[d].content, note[d], server.content, e)
               /\ \/ HoldConflict(d, e) \/ PreferLocal(d, e)
                  \/ PreferRemote(d, e) \/ WriteMerge(d, e)
  BY HandledBy
<1>2. conf' = conf
  BY HandledBy
<1>3. CASE HoldConflict(d, e)
  BY <1>2, <1>3, HoldLeft
<1>4. CASE PreferLocal(d, e) \/ PreferRemote(d, e)
  BY <1>2, <1>4, PreferLeft
<1>5. CASE WriteMerge(d, e)
  <2>1. e.content \in Content(n) /\ e.clean \in BOOLEAN
    BY <1>1 DEF Wrote
  <2> QED
    BY <1>2, <1>5, <2>1, WriteLeft
<1> QED
  BY <1>1, <1>3, <1>4, <1>5

LEMMA SyncLeft ==
  ASSUME NEW n \in Nat, Typed(n), NEW d \in Devices, Sync(d)
  PROVE  Left(n, d) /\ edits' = edits /\ live' = live /\ tags' = tags
<1>1. Left(n, d)
  BY UploadLeft, DownloadLeft, ConvergeLeft, HandleLeft DEF Sync
<1>2. edits' = edits /\ live' = live /\ tags' = tags
  BY DEF Sync, Upload, Download, Converge, handleConflict, history
<1> QED
  BY <1>1, <1>2

-----------------------------------------------------------------------------
(* The user's steps. *)

LEMMA Replaced ==
  ASSUME NEW n \in Nat, NEW c \in Content(n), NEW i \in 1..2, NEW r \in Seq(Atom(n)),
         NEW f, f = [c EXCEPT !.body[i] = r]
  PROVE  /\ f \in Content(n) /\ f.fm = c.fm /\ f.body[i] = r
         /\ \A j \in 1..2 : j # i => f.body[j] = c.body[j]
<1>1. c.body \in [1..2 -> Seq(Atom(n))] /\ c.fm \in Fms(n) /\ c = [fm |-> c.fm, body |-> c.body]
  BY DEF Content, Bodies
<1>2. f = [fm |-> c.fm, body |-> [c.body EXCEPT ![i] = r]]
  BY <1>1
<1>3. [c.body EXCEPT ![i] = r] \in Bodies(Atom(n))
  BY <1>1 DEF Bodies
<1> QED
  BY <1>1, <1>2, <1>3 DEF Content

LEMMA Refielded ==
  ASSUME NEW n \in Nat, NEW c \in Content(n), NEW m \in Maps(n), NEW f, f = [c EXCEPT !.fm.map = m]
  PROVE  /\ f \in Content(n) /\ f.body = c.body /\ f.fm.map = m /\ f.fm.ok = c.fm.ok
<1>1. c.body \in Bodies(Atom(n)) /\ c = [fm |-> c.fm, body |-> c.body]
      /\ c.fm = [ok |-> c.fm.ok, map |-> c.fm.map] /\ c.fm.ok \in BOOLEAN
  BY DEF Content, Fms
<1>2. f = [fm |-> [ok |-> c.fm.ok, map |-> m], body |-> c.body]
  BY <1>1
<1> QED
  BY <1>1, <1>2 DEF Content, Fms

\* An edit writes note c; lines and items are what is left of what users wrote.
LEMMA EditLeft ==
  ASSUME NEW n \in Nat, Typed(n), NEW d \in Devices, NEW c \in Content(n), NEW lines, NEW items,
         Edit(d, c, lines, items)
  PROVE  Left(n, d)
<1>1. /\ note' = [note EXCEPT ![d] = c]
      /\ conf' = conf /\ server' = server /\ row' = row /\ base' = base /\ clean' = clean
  BY DEF Edit
<1> QED
  BY <1>1, SameLeft DEF Left

\* What the content of an edit is made of, up to the line or item it adds.
LEMMA LineEdited ==
  ASSUME NEW n \in Nat, Typed(n), NEW d \in Devices, NEW i \in 1..2, EditLine(d, i),
         edits \in Nat, 10 + edits < n
  PROVE  \E new \in Seq(Atom(n)) :
            /\ new \in {<<>>, <<10 + edits>>} /\ Replace(d, i, new) \in Content(n)
            /\ ToSet(new) \subseteq {10 + edits}
            /\ Edit(d, Replace(d, i, new), (live \ ToSet(note[d].body[i])) \cup ToSet(new), tags)
<1>1. PICK new \in {<<>>, <<10 + edits>>} :
          Edit(d, Replace(d, i, new), (live \ ToSet(note[d].body[i])) \cup ToSet(new), tags)
  BY DEF EditLine
<1>2. 10 + edits \in Atom(n)
  BY DEF Atom
<1>3. new \in Seq(Atom(n)) /\ ToSet(new) \subseteq {10 + edits}
  <2>1. CASE new = <<>>
    <3>1. <<>> \in Seq(Atom(n))
      BY EmptySeq
    <3> QED
      BY <2>1, <3>1, ToSetEmpty
  <2>2. CASE new = <<10 + edits>>
    BY <1>2, <2>2, OneLine
  <2> QED
    BY <2>1, <2>2
<1>4. Replace(d, i, new) \in Content(n)
  BY <1>3, SameLeft, Replaced DEF Replace
<1> QED
  BY <1>1, <1>3, <1>4

LEMMA TagsEdited ==
  ASSUME NEW n \in Nat, Typed(n), NEW d \in Devices, EditTags(d), edits \in Nat, 10 + edits < n
  PROVE  \E new \in SUBSET Atom(n) :
            /\ Field(d, [note[d].fm.map EXCEPT !["tags"] = new]) \in Content(n)
            /\ Edit(d, Field(d, [note[d].fm.map EXCEPT !["tags"] = new]), live,
                    IF Untracked \in tags THEN tags
                    ELSE (tags \ note[d].fm.map["tags"]) \cup (new \ (note[d].fm.map["tags"] \ tags)))
            /\ new \subseteq note[d].fm.map["tags"] \cup {10 + edits}
<1> DEFINE map == note[d].fm.map
           old == map["tags"]
<1>1. /\ note[d].fm.ok /\ "tags" \in DOMAIN map
      /\ \E new \in {old \cup {10 + edits}} \cup {old \ {i} : i \in old} :
           Edit(d, Field(d, [map EXCEPT !["tags"] = new]), live,
                    IF Untracked \in tags THEN tags ELSE (tags \ old) \cup (new \ (old \ tags)))
  BY DEF EditTags, HasTags
<1>2. PICK new \in {old \cup {10 + edits}} \cup {old \ {i} : i \in old} :
           Edit(d, Field(d, [map EXCEPT !["tags"] = new]), live,
                    IF Untracked \in tags THEN tags ELSE (tags \ old) \cup (new \ (old \ tags)))
  BY <1>1
<1>3. map \in Maps(n) /\ note[d] \in Content(n)
  BY SameLeft DEF Content, Fms
<1>4. old \in SUBSET Atom(n)
  BY <1>1, <1>3, MapHas
<1>5. new \in SUBSET Atom(n) /\ new \subseteq old \cup {10 + edits}
  BY <1>4 DEF Atom
<1>6. [map EXCEPT !["tags"] = new] \in Maps(n)
  <2> DEFINE m == [map EXCEPT !["tags"] = new]
  <2> HIDE DEF map, old
  <2>1. DOMAIN m = DOMAIN map /\ m["tags"] = new /\ \A k \in DOMAIN map : k # "tags" => m[k] = map[k]
    BY <1>1
  <2>2. m = [k \in DOMAIN map |-> m[k]]
    BY <2>1
  <2>3. /\ DOMAIN map \in SUBSET Keys
        /\ \A k \in DOMAIN map : map[k] \in Atom(n) \cup SUBSET Atom(n)
    BY <1>3, MapHas
  <2> HIDE DEF m
  <2>4. \A k \in DOMAIN map : m[k] \in Atom(n) \cup SUBSET Atom(n)
    BY <1>5, <2>1, <2>3
  <2> QED
    BY <1>5, <2>1, <2>2, <2>3, <2>4, MapTyped DEF m
<1>7. Field(d, [map EXCEPT !["tags"] = new]) \in Content(n)
  BY <1>3, <1>6, Refielded DEF Field
<1> QED
  BY <1>2, <1>5, <1>7

LEMMA TitleEdited ==
  ASSUME NEW n \in Nat, Typed(n), NEW d \in Devices, EditTitle(d), edits \in Nat, 10 + edits < n
  PROVE  \E m \in Maps(n) :
            /\ Field(d, m) \in Content(n) /\ Edit(d, Field(d, m), live, tags)
            /\ "tags" \in DOMAIN note[d].fm.map <=> "tags" \in DOMAIN m
            /\ "tags" \in DOMAIN m => m["tags"] = note[d].fm.map["tags"]
<1> DEFINE map == note[d].fm.map
           without == [k \in DOMAIN map \ {"title"} |-> map[k]]
           with == [k \in DOMAIN map \cup {"title"} |-> IF k = "title" THEN 10 + edits ELSE map[k]]
<1>1. PICK m \in {without, with} : Edit(d, Field(d, m), live, tags)
  BY DEF EditTitle
<1>2. map \in Maps(n) /\ note[d] \in Content(n)
  BY SameLeft DEF Content, Fms
<1>3. /\ DOMAIN map \in SUBSET Keys
      /\ \A k \in DOMAIN map : map[k] \in Atom(n) \cup SUBSET Atom(n)
      /\ "tags" \in DOMAIN map => map["tags"] \in SUBSET Atom(n)
  BY <1>2, MapHas
<1> HIDE DEF map
<1>4. /\ DOMAIN m \in SUBSET Keys /\ m = [k \in DOMAIN m |-> m[k]]
      /\ \A k \in DOMAIN m : k # "title" => k \in DOMAIN map /\ m[k] = map[k]
      /\ "title" \in DOMAIN m => m["title"] = 10 + edits
      /\ \A k \in DOMAIN map : k # "title" => k \in DOMAIN m
  <2>1. CASE m = without
    BY <1>3, <2>1
  <2>2. CASE m = with
    BY <1>3, <2>2 DEF Keys
  <2> QED
    BY <2>1, <2>2
<1> HIDE DEF without, with
<1>5. 10 + edits \in Atom(n) /\ "tags" # "title"
  BY DEF Atom
<1>6. \A k \in DOMAIN m : m[k] \in Atom(n) \cup SUBSET Atom(n)
  BY <1>3, <1>4, <1>5
<1>7. "tags" \in DOMAIN m => m["tags"] \in SUBSET Atom(n)
  BY <1>3, <1>4, <1>5
<1>8. m \in Maps(n)
  BY <1>4, <1>6, <1>7, MapTyped
<1>9. Field(d, m) \in Content(n)
  BY <1>2, <1>8, Refielded DEF Field
<1> QED
  BY <1>1, <1>4, <1>5, <1>8, <1>9 DEF map

LEMMA Marred ==
  ASSUME NEW n \in Nat, NEW c \in Content(n), NEW ok \in BOOLEAN, NEW f, f = [c EXCEPT !.fm.ok = ok]
  PROVE  f \in Content(n) /\ f.body = c.body
<1>1. c.body \in Bodies(Atom(n)) /\ c = [fm |-> c.fm, body |-> c.body]
      /\ c.fm = [ok |-> c.fm.ok, map |-> c.fm.map] /\ c.fm.map \in Maps(n)
  BY DEF Content, Fms
<1>2. f = [fm |-> [ok |-> ok, map |-> c.fm.map], body |-> c.body]
  BY <1>1
<1> QED
  BY <1>1, <1>2 DEF Content, Fms

LEMMA Broken ==
  ASSUME NEW n \in Nat, Typed(n), NEW d \in Devices, BreakFrontmatter(d)
  PROVE  \E c \in Content(n) : c.body = note[d].body /\ Edit(d, c, live, {Untracked})
<1> DEFINE c == [note[d] EXCEPT !.fm.ok = FALSE]
<1>1. Edit(d, c, live, {Untracked})
  BY DEF BreakFrontmatter
<1>2. note[d] \in Content(n)
  BY SameLeft
<1>3. c \in Content(n) /\ c.body = note[d].body
  BY <1>2, Marred
<1> HIDE DEF c
<1> QED
  BY <1>1, <1>3

\* A region with markers has a first line, and its other lines are finitely many.
LEMMA MarkedRegion ==
  ASSUME NEW n \in Nat, Typed(n), NEW d \in Devices, NEW i \in Markers(d)
  PROVE  /\ i \in 1..2 /\ note[d].body[i] \in Seq(Atom(n)) /\ note[d].body[i] # <<>>
         /\ {x \in ToSet(note[d].body[i]) : ~Marker(x)} \in SUBSET Int
         /\ {x \in ToSet(note[d].body[i]) : ~Marker(x)} \in SUBSET Atom(n)
         /\ IsFiniteSet({x \in ToSet(note[d].body[i]) : ~Marker(x)})
<1>1. note[d].body \in Bodies(Atom(n))
  BY SameLeft DEF Content
<1>2. i \in 1..2 /\ note[d].body[i] \in Seq(Atom(n)) /\ \E x \in ToSet(note[d].body[i]) : Marker(x)
  BY <1>1 DEF Markers, Bodies
<1>3. note[d].body[i] # <<>>
  BY <1>2, ToSetEmpty
<1>4. ToSet(note[d].body[i]) \subseteq Atom(n) /\ IsFiniteSet(ToSet(note[d].body[i]))
  BY <1>2, ToSetIn, RangeFinite
<1>5. {x \in ToSet(note[d].body[i]) : ~Marker(x)} \in SUBSET ToSet(note[d].body[i])
  OBVIOUS
<1>6. IsFiniteSet({x \in ToSet(note[d].body[i]) : ~Marker(x)})
  BY <1>4, <1>5, FS_Subset
<1> QED
  BY <1>2, <1>3, <1>4, <1>5, <1>6 DEF Atom

LEMMA Settled ==
  ASSUME NEW n \in Nat, Typed(n), NEW d \in Devices, Settle(d)
  PROVE  /\ conf' = conf /\ server' = server /\ row' = row /\ base' = base /\ clean' = clean
         /\ edits' = edits /\ live' = live /\ tags' = tags
         /\ \E i \in 1..2, s \in Seq(Atom(n)) :
               /\ note' = [note EXCEPT ![d] = Replace(d, i, s)] /\ Replace(d, i, s) \in Content(n)
               /\ ToSet(s) = {x \in ToSet(note[d].body[i]) : ~Marker(x)}
<1>1. /\ conf' = conf /\ server' = server /\ row' = row /\ base' = base /\ clean' = clean
      /\ edits' = edits /\ live' = live /\ tags' = tags
  BY DEF Settle
<1>2. PICK i \in Markers(d) :
          note' = [note EXCEPT ![d] = Replace(d, i, InOrder({x \in ToSet(note[d].body[i]) : ~Marker(x)}))]
  BY DEF Settle
<1> DEFINE lines == {x \in ToSet(note[d].body[i]) : ~Marker(x)}
<1>3. i \in 1..2 /\ lines \in SUBSET Int /\ lines \in SUBSET Atom(n) /\ IsFiniteSet(lines)
  BY MarkedRegion
<1> HIDE DEF lines
<1>4. InOrder(lines) \in Seq(lines) /\ ToSet(InOrder(lines)) = lines
  BY <1>3, Ordered
<1>5. InOrder(lines) \in Seq(Atom(n))
  BY <1>3, <1>4, SeqMonotonic
<1>6. Replace(d, i, InOrder(lines)) \in Content(n)
  BY <1>3, <1>5, SameLeft, Replaced DEF Replace
<1> QED
  BY <1>1, <1>2, <1>3, <1>4, <1>5, <1>6 DEF lines

LEMMA OneKept ==
  ASSUME NEW n \in Nat, Typed(n), NEW d \in Devices, KeepOne(d)
  PROVE  \E i \in 1..2, x \in Atom(n) :
            LET lines == {y \in ToSet(note[d].body[i]) : ~Marker(y)}
            IN  /\ x \in lines /\ <<x>> \in Seq(Atom(n)) /\ Replace(d, i, <<x>>) \in Content(n)
                /\ Edit(d, Replace(d, i, <<x>>), live \ (lines \ {x}), tags)
<1>1. PICK i \in Markers(d) :
          LET lines == {y \in ToSet(note[d].body[i]) : ~Marker(y)}
          IN  \E x \in lines : Edit(d, Replace(d, i, <<x>>), live \ (lines \ {x}), tags)
  BY DEF KeepOne
<1> DEFINE lines == {y \in ToSet(note[d].body[i]) : ~Marker(y)}
<1>2. PICK x \in lines : Edit(d, Replace(d, i, <<x>>), live \ (lines \ {x}), tags)
  BY <1>1
<1>3. i \in 1..2 /\ lines \in SUBSET Atom(n)
  BY MarkedRegion
<1>4. x \in Atom(n) /\ <<x>> \in Seq(Atom(n))
  BY <1>3, OneLine
<1>5. Replace(d, i, <<x>>) \in Content(n)
  BY <1>3, <1>4, SameLeft, Replaced DEF Replace
<1> QED
  BY <1>2, <1>3, <1>4, <1>5

LEMMA Halved ==
  ASSUME NEW n \in Nat, Typed(n), NEW d \in Devices, HalveMarkers(d)
  PROVE  \E i \in 1..2, s \in Seq(Atom(n)) :
            /\ Replace(d, i, s) \in Content(n) /\ Edit(d, Replace(d, i, s), live, tags)
            /\ ToSet(note[d].body[i]) = ToSet(s) \cup {Close}
<1>1. PICK i \in Markers(d) : /\ Last(note[d].body[i]) = Close
                              /\ Edit(d, Replace(d, i, Front(note[d].body[i])), live, tags)
  BY DEF HalveMarkers
<1> DEFINE s == Front(note[d].body[i])
<1>2. i \in 1..2 /\ note[d].body[i] \in Seq(Atom(n)) /\ note[d].body[i] # <<>>
  BY MarkedRegion
<1>3. s \in Seq(Atom(n)) /\ ToSet(note[d].body[i]) = ToSet(s) \cup {Close}
  BY <1>1, <1>2, FrontKeeps
<1> HIDE DEF s
<1>4. Replace(d, i, s) \in Content(n)
  BY <1>2, <1>3, SameLeft, Replaced DEF Replace
<1> QED
  BY <1>1, <1>2, <1>3, <1>4 DEF s

\* The commands that take one side.
Taken(d) ==
    \/ pushLocalToRemote(d) \/ pullRemoteToLocal(d)
    \/ applyCleanSide(d, clean[d].local) \/ applyCleanSide(d, clean[d].remote)
Commanded(d) == Taken(d) /\ Counted /\ tags' = {Untracked} /\ conf' = conf /\ faults' = faults

LEMMA CommandsTake ==
  ASSUME NEW d
  PROVE  /\ CompareCommand(d) => Commanded(d)
         /\ \A choice : ForceResolve(d, choice) => Commanded(d)
<1>1. CompareCommand(d) => Commanded(d)
  BY DEF CompareCommand, Commanded, Taken
<1>2. ASSUME NEW choice, ForceResolve(d, choice) PROVE Commanded(d)
  <2>1. Counted /\ tags' = {Untracked} /\ conf' = conf /\ faults' = faults
    BY <1>2 DEF ForceResolve
  <2>2. Taken(d)
    BY <1>2 DEF ForceResolve, Taken
  <2> QED
    BY <2>1, <2>2 DEF Commanded
<1> QED
  BY <1>1, <1>2

\* Both sides, or one of them, become content c.
LEMMA TakenIs ==
  ASSUME NEW n \in Nat, Typed(n), NEW d \in Devices, Taken(d)
  PROVE  \E c \in Content(n) :
            /\ row' = [row EXCEPT ![d] = Row(c)] /\ Discards(d, c)
            /\ note' = [note EXCEPT ![d] = c]
            /\ server'.content = c
            /\ server' = server \/ server' = [known |-> TRUE, content |-> c]
            /\ base' = base \/ base' = [base EXCEPT ![d] = Base(c)]
            /\ clean' = clean \/ clean' = [clean EXCEPT ![d] = NoSides]
<1>1. CASE pushLocalToRemote(d)
  <2>1. note[d] \in Content(n) /\ note' = [note EXCEPT ![d] = note[d]]
    BY <1>1, SameLeft DEF pushLocalToRemote
  <2> QED
    BY <1>1, <2>1 DEF pushLocalToRemote, Put, SetRow
<1>2. CASE pullRemoteToLocal(d)
  <2>1. server.content \in Content(n)
    BY SameLeft
  <2> QED
    BY <1>2, <2>1 DEF pullRemoteToLocal, SetRow
<1>3. ASSUME NEW c \in Content(n), applyCleanSide(d, c)
      PROVE  /\ row' = [row EXCEPT ![d] = Row(c)] /\ Discards(d, c)
             /\ note' = [note EXCEPT ![d] = c]
             /\ server' = [known |-> TRUE, content |-> c] /\ server'.content = c
             /\ base' = [base EXCEPT ![d] = Base(c)]
             /\ clean' = [clean EXCEPT ![d] = NoSides]
  BY <1>3 DEF applyCleanSide, Put, SetRow, SetBase
<1>4. clean[d].local \in Content(n) /\ clean[d].remote \in Content(n)
  BY SameLeft
<1>5. CASE applyCleanSide(d, clean[d].local)
  BY <1>3, <1>4, <1>5
<1>6. CASE applyCleanSide(d, clean[d].remote)
  BY <1>3, <1>4, <1>6
<1> QED
  BY <1>1, <1>2, <1>5, <1>6 DEF Taken

LEMMA TakenLeft ==
  ASSUME NEW n \in Nat, Typed(n), NEW d \in Devices, Taken(d), conf' = conf
  PROVE  Left(n, d) /\ live' \subseteq live
<1>1. PICK c \in Content(n) :
            /\ row' = [row EXCEPT ![d] = Row(c)] /\ Discards(d, c)
            /\ note' = [note EXCEPT ![d] = c]
            /\ server' = server \/ server' = [known |-> TRUE, content |-> c]
            /\ base' = base \/ base' = [base EXCEPT ![d] = Base(c)]
            /\ clean' = clean \/ clean' = [clean EXCEPT ![d] = NoSides]
  BY TakenIs
<1>2. Row(c) \in Rows(n) /\ Base(c) \in Bases(n) /\ NoSides \in SideSets(n) /\ ~NoSides.known /\ Row(c).known
  BY RowTyped, EmptyTyped, RowKnown DEF NoSides
<1>3. row'[d].known
  BY <1>1, <1>2 DEF Typed
<1> QED
  BY <1>1, <1>2, <1>3 DEF Left, Discards

\* Every step of the user, but for settling, counts as an edit.
LEMMA UserLeft ==
  ASSUME NEW n \in Nat, Typed(n), NEW d \in Devices, User(d), edits \in Nat, 10 + edits < n
  PROVE  /\ Left(n, d) /\ Counted /\ faults' = faults
         /\ live' \subseteq live \cup {10 + edits}
         /\ tags' \subseteq tags \cup {10 + edits, Untracked}
<1>1. ASSUME NEW c \in Content(n), NEW lines, NEW items, Edit(d, c, lines, items),
             lines \subseteq live \cup {10 + edits}, items \subseteq tags \cup {10 + edits, Untracked}
      PROVE  /\ Left(n, d) /\ Counted /\ faults' = faults
             /\ live' \subseteq live \cup {10 + edits}
             /\ tags' \subseteq tags \cup {10 + edits, Untracked}
  BY <1>1, EditLeft DEF Edit
<1>2. ASSUME NEW i \in 1..2, EditLine(d, i)
      PROVE  /\ Left(n, d) /\ Counted /\ faults' = faults
             /\ live' \subseteq live \cup {10 + edits}
             /\ tags' \subseteq tags \cup {10 + edits, Untracked}
  <2>1. PICK new \in Seq(Atom(n)) :
            /\ new \in {<<>>, <<10 + edits>>} /\ Replace(d, i, new) \in Content(n)
            /\ ToSet(new) \subseteq {10 + edits}
            /\ Edit(d, Replace(d, i, new), (live \ ToSet(note[d].body[i])) \cup ToSet(new), tags)
    BY <1>2, LineEdited
  <2> QED
    BY <1>1, <2>1
<1>3. CASE EditTags(d)
  <2> DEFINE old == note[d].fm.map["tags"]
  <2>1. PICK new \in SUBSET Atom(n) :
            /\ Field(d, [note[d].fm.map EXCEPT !["tags"] = new]) \in Content(n)
            /\ Edit(d, Field(d, [note[d].fm.map EXCEPT !["tags"] = new]), live,
                    IF Untracked \in tags THEN tags ELSE (tags \ old) \cup (new \ (old \ tags)))
            /\ new \subseteq old \cup {10 + edits}
    BY <1>3, TagsEdited
  <2>2. (IF Untracked \in tags THEN tags ELSE (tags \ old) \cup (new \ (old \ tags)))
            \subseteq tags \cup {10 + edits, Untracked}
    BY <2>1
  <2> HIDE DEF old
  <2> QED
    BY <1>1, <2>1, <2>2
<1>4. CASE EditTitle(d)
  <2>1. PICK m \in Maps(n) : Field(d, m) \in Content(n) /\ Edit(d, Field(d, m), live, tags)
    BY <1>4, TitleEdited
  <2> QED
    BY <1>1, <2>1
<1>5. CASE BreakFrontmatter(d)
  <2>1. PICK c \in Content(n) : Edit(d, c, live, {Untracked})
    BY <1>5, Broken
  <2> QED
    BY <1>1, <2>1
<1>6. CASE KeepOne(d)
  <2>1. PICK i \in 1..2, x \in Atom(n) :
            LET lines == {y \in ToSet(note[d].body[i]) : ~Marker(y)}
            IN  /\ Replace(d, i, <<x>>) \in Content(n)
                /\ Edit(d, Replace(d, i, <<x>>), live \ (lines \ {x}), tags)
    BY <1>6, OneKept
  <2> QED
    BY <1>1, <2>1
<1>7. CASE HalveMarkers(d)
  <2>1. PICK i \in 1..2, s \in Seq(Atom(n)) : Replace(d, i, s) \in Content(n) /\ Edit(d, Replace(d, i, s), live, tags)
    BY <1>7, Halved
  <2> QED
    BY <1>1, <2>1
<1>8. CASE Commanded(d)
  <2>1. Left(n, d) /\ live' \subseteq live
    BY <1>8, TakenLeft DEF Commanded
  <2> QED
    BY <1>8, <2>1 DEF Commanded
<1> QED
  BY <1>2, <1>3, <1>4, <1>5, <1>6, <1>7, <1>8, CommandsTake DEF User

LEMMA NextTypes == Types /\ [Next]_vars => Types'
<1> SUFFICES ASSUME Types, [Next]_vars PROVE Types'
  OBVIOUS
<1> USE ConflictAssumption
<1>1. PICK n \in Nat : n = Limit
  BY DEF Types, Limit
<1>2. Typed(n) /\ n = 10 + edits /\ edits \in Nat /\ live \in SUBSET (Nat \cap Atom(n)) /\ tags \in SUBSET Atom(n)
  BY <1>1 DEF Types, Limit, Typed
<1>3. ASSUME NEW d \in Devices, Left(n, d), edits' = edits, live' = live, tags' = tags, faults' \in 0..MaxFaults
      PROVE  Types'
  <2>1. Typed(n)'
    BY <1>2, <1>3, LeftTyped
  <2>2. Limit' = n
    BY <1>2, <1>3 DEF Limit
  <2>3. Typed(Limit)'
    BY <2>1, <2>2 DEF Typed
  <2>4. conf' = conf
    BY <1>3 DEF Left
  <2>5. TypeOK' /\ (~server.known => server.content = Blank)'
    BY <1>2, <1>3, LeftKnown DEF Types, TypeOK
  <2> QED
    BY <1>2, <1>3, <2>2, <2>3, <2>4, <2>5 DEF Types
<1>4. ASSUME NEW d \in Devices, User(d) PROVE Types'
  <2>0. n + 1 \in Nat /\ n <= n + 1 /\ 10 + edits < n + 1
    BY <1>2
  <2>1. Typed(n + 1)
    BY <1>2, <2>0, TypedGrows
  <2>2. /\ Left(n + 1, d) /\ Counted /\ faults' = faults
        /\ live' \subseteq live \cup {10 + edits}
        /\ tags' \subseteq tags \cup {10 + edits, Untracked}
    BY <1>2, <1>4, <2>0, <2>1, UserLeft
  <2>3. edits < MaxEdits /\ edits' = edits + 1 /\ Limit' = n + 1
    BY <1>2, <2>2 DEF Limit, Counted
  <2>4. Typed(Limit)'
    <3>1. Typed(n + 1)'
      BY <2>0, <2>1, <2>2, LeftTyped
    <3> QED
      BY <2>3, <3>1 DEF Typed
  <2>5. live' \in SUBSET (Nat \cap Atom(n + 1)) /\ tags' \in SUBSET Atom(n + 1)
    BY <1>2, <2>2 DEF Atom, Untracked
  <2>6. conf' = conf
    BY <2>2 DEF Left
  <2>7. /\ (~server.known => server.content = Blank)'
        /\ (\A e \in Devices : clean[e].known => row[e].known)'
        /\ (\A e \in Devices : ~row[e].known => ~base[e].known)'
    BY <2>0, <2>1, <2>2, LeftKnown DEF Types, TypeOK
  <2>8. TypeOK'
    BY <1>2, <2>2, <2>3, <2>7 DEF Types, TypeOK
  <2> QED
    BY <1>2, <2>3, <2>4, <2>5, <2>6, <2>7, <2>8 DEF Types
<1>5. ASSUME NEW d \in Devices, Settle(d) PROVE Types'
  <2>1. /\ conf' = conf /\ server' = server /\ row' = row /\ base' = base /\ clean' = clean
        /\ edits' = edits /\ live' = live /\ tags' = tags
        /\ \E c \in Content(n) : note' = [note EXCEPT ![d] = c]
    BY <1>2, <1>5, Settled
  <2>2. Left(n, d)
    BY <1>2, <2>1, SameLeft DEF Left
  <2>3. faults' = faults
    BY <1>5 DEF Settle
  <2> QED
    BY <1>3, <2>1, <2>2, <2>3 DEF Types, TypeOK
<1>6. ASSUME NEW d \in Devices, Sync(d) PROVE Types'
  <2>1. Left(n, d) /\ edits' = edits /\ live' = live /\ tags' = tags
    BY <1>2, <1>6, SyncLeft
  <2>2. faults' \in 0..MaxFaults
    BY <1>6, Z3 DEF Types, TypeOK, Sync, Upload, Download, Converge, handleConflict, HoldConflict, PreferLocal,
           PreferRemote, WriteMerge, Fail
  <2> QED
    BY <1>3, <2>1, <2>2
<1>7. CASE UNCHANGED vars
  BY <1>7 DEF Types, TypeOK, Typed, Limit, vars
<1> QED
  BY <1>4, <1>5, <1>6, <1>7 DEF Next

\* Rows, bases and captures name contents, whatever merges, commands and failures do.
THEOREM ConflictTyped == Spec => []TypeOK
<1>1. Types => TypeOK
  BY DEF Types
<1> QED
  BY <1>1, InitTypes, NextTypes, PTL DEF Spec

-----------------------------------------------------------------------------
(* The ancestor, and markers on markers. *)

\* A base that changes is what the server then has.
LEMMA BaseFollows ==
  ASSUME Types, NEW d \in Devices, User(d) \/ Settle(d) \/ Sync(d)
  PROVE  base' = base \/ \E c : base' = [base EXCEPT ![d] = Base(c)] /\ server'.content = c
<1>1. PICK n \in Nat : n = Limit
  BY DEF Types, Limit
<1>2. Typed(n)
  BY <1>1 DEF Types, Typed
<1>3. CASE Sync(d)
  <2>1. CASE Upload(d)
    BY <2>1 DEF Upload, SetBase, Put
  <2>2. CASE Download(d)
    BY <2>2 DEF Download, SetBase
  <2>3. CASE Converge(d)
    BY <2>3 DEF Converge, Identical, SetBase
  <2>4. CASE handleConflict(d)
    <3>1. PICK e : HoldConflict(d, e) \/ PreferLocal(d, e) \/ PreferRemote(d, e) \/ WriteMerge(d, e)
      BY <1>2, <2>4, HandledBy
    <3>2. CASE HoldConflict(d, e)
      BY <3>2 DEF HoldConflict
    <3>3. CASE PreferLocal(d, e)
      BY <3>3 DEF PreferLocal, Put, SetBase
    <3>4. CASE PreferRemote(d, e)
      BY <3>4 DEF PreferRemote, SetBase
    <3>5. CASE WriteMerge(d, e)
      <4>1. PICK pushed \in BOOLEAN : Merged(d, e.content, e.clean, pushed)
        BY <3>5, WriteMerged
      <4> QED
        BY <4>1 DEF Merged
    <3> QED
      BY <3>1, <3>2, <3>3, <3>4, <3>5
  <2> QED
    BY <1>3, <2>1, <2>2, <2>3, <2>4 DEF Sync
<1>4. CASE Settle(d)
  BY <1>4 DEF Settle
<1>5. CASE User(d)
  <2>1. CASE Commanded(d)
    BY <1>2, <2>1, TakenIs, SMTT(40) DEF Commanded
  <2>2. CASE ~Commanded(d)
    BY <1>5, <2>2, CommandsTake, Zenon DEF User, EditLine, EditTags, EditTitle, BreakFrontmatter, KeepOne, HalveMarkers, Edit
  <2> QED
    BY <2>1, <2>2
<1> QED
  BY <1>3, <1>4, <1>5

\* The common ancestor of a later merge is what the server holds when it is recorded:
\* whatever fails, a merge that was not pushed never becomes a base.
THEOREM AncestorShared == Spec => BaseIsShared
<1> DEFINE Shares == \A d \in Devices : base'[d] # base[d] => base'[d].content = server'.content
<1>1. Types /\ [Next]_vars => Shares
  <2> SUFFICES ASSUME Types, [Next]_vars PROVE Shares
    OBVIOUS
  <2>1. CASE UNCHANGED vars
    BY <2>1 DEF vars
  <2>2. ASSUME NEW d \in Devices, User(d) \/ Settle(d) \/ Sync(d) PROVE Shares
    <3>1. CASE base' = base
      BY <3>1
    <3>2. CASE base' # base
      <4>1. PICK c : base' = [base EXCEPT ![d] = Base(c)] /\ server'.content = c
        BY <2>2, <3>2, BaseFollows
      <4>2. \A e \in Devices : e # d => base'[e] = base[e]
        BY <4>1 DEF Types, Typed
      <4>3. base'[d] = Base(c)
        BY <4>1 DEF Types, Typed
      <4> QED
        BY <4>1, <4>2, <4>3 DEF Base
    <3> QED
      BY <3>1, <3>2
  <2> QED
    BY <2>1, <2>2 DEF Next
<1> QED
  BY <1>1, InitTypes, NextTypes, PTL DEF Spec, BaseIsShared

\* Where the elements of two regions stand in the body.
LEMMA ConcatAt ==
  ASSUME NEW A, NEW s \in Seq(A), NEW t \in Seq(A)
  PROVE  /\ Len(s) \in Nat /\ Len(t) \in Nat /\ DOMAIN (s \o t) = 1..(Len(s) + Len(t))
         /\ \A k \in 1..Len(s) : (s \o t)[k] = s[k] /\ s[k] \in ToSet(s)
         /\ \A k \in 1..Len(t) : (s \o t)[Len(s) + k] = t[k] /\ t[k] \in ToSet(t)
<1>1. Len(s) \in Nat /\ Len(t) \in Nat /\ DOMAIN (s \o t) = 1..(Len(s) + Len(t))
  BY LenProperties, ConcatProperties
<1>2. \A k \in 1..Len(s) : (s \o t)[k] = s[k]
  BY <1>1, ConcatProperties
<1>3. \A k \in 1..Len(t) : (s \o t)[Len(s) + k] = t[k]
  BY <1>1, ConcatProperties
<1>4. DOMAIN s = 1..Len(s) /\ DOMAIN t = 1..Len(t)
  BY LenProperties
<1> QED
  BY <1>1, <1>2, <1>3, <1>4 DEF ToSet

StackedAt(s, i, j) == i < j /\ s[i] = Open /\ s[j] = Open /\ \A k \in i..j : s[k] # Close

\* Lines without markers, in place of a region, stack nothing.
LEMMA SettledStack ==
  ASSUME NEW A, NEW s \in Seq(A), Open \notin ToSet(s),
         NEW a \in Seq(A), NEW b \in Seq(A)
  PROVE  /\ (\E i, j \in DOMAIN (s \o b) : StackedAt(s \o b, i, j))
                => \E i, j \in DOMAIN (a \o b) : StackedAt(a \o b, i, j)
         /\ (\E i, j \in DOMAIN (a \o s) : StackedAt(a \o s, i, j))
                => \E i, j \in DOMAIN (a \o b) : StackedAt(a \o b, i, j)
<1>0. Len(s) \in Nat /\ Len(a) \in Nat /\ Len(b) \in Nat
  BY LenProperties
<1>1. ASSUME NEW i \in DOMAIN (s \o b), NEW j \in DOMAIN (s \o b), StackedAt(s \o b, i, j)
      PROVE  \E p, q \in DOMAIN (a \o b) : StackedAt(a \o b, p, q)
  <2> DEFINE z == s \o b
             y == a \o b
             p == i - Len(s) + Len(a)
             q == j - Len(s) + Len(a)
  <2>1. /\ DOMAIN z = 1..(Len(s) + Len(b)) /\ DOMAIN y = 1..(Len(a) + Len(b))
        /\ \A k \in 1..Len(s) : z[k] \in ToSet(s)
        /\ \A k \in 1..Len(b) : z[Len(s) + k] = b[k] /\ y[Len(a) + k] = b[k]
    BY ConcatAt
  <2>2. i < j /\ z[i] = Open /\ z[j] = Open /\ \A k \in i..j : z[k] # Close
    BY <1>1 DEF StackedAt
  <2>3. i \in 1..(Len(s) + Len(b)) /\ j \in 1..(Len(s) + Len(b))
    BY <1>1, <2>1
  <2> HIDE DEF z, y
  <2>4. i > Len(s)
    BY <1>0, <2>1, <2>2, <2>3
  <2>5. \A k \in i..j : /\ k - Len(s) \in 1..Len(b) /\ k = Len(s) + (k - Len(s))
                        /\ (k - Len(s)) + Len(a) = Len(a) + (k - Len(s))
    BY <1>0, <2>3, <2>4
  <2>6. \A k \in i..j : z[k] = y[(k - Len(s)) + Len(a)]
    <3> SUFFICES ASSUME NEW k \in i..j PROVE z[k] = y[(k - Len(s)) + Len(a)]
      OBVIOUS
    <3> DEFINE m == k - Len(s)
    <3>1. m \in 1..Len(b) /\ k = Len(s) + m /\ m + Len(a) = Len(a) + m
      BY <2>5
    <3> HIDE DEF m
    <3>2. z[Len(s) + m] = b[m] /\ y[Len(a) + m] = b[m]
      BY <2>1, <3>1
    <3>3. z[k] = y[m + Len(a)]
      BY <3>1, <3>2
    <3> QED
      BY <3>3 DEF m
  <2>7. p \in DOMAIN y /\ q \in DOMAIN y /\ p < q /\ i \in i..j /\ j \in i..j
    BY <1>0, <2>1, <2>2, <2>3, <2>4
  <2>8. y[p] = Open /\ y[q] = Open
    BY <2>2, <2>6, <2>7
  <2>9. ASSUME NEW m \in p..q PROVE y[m] # Close
    <3> DEFINE k == m - Len(a) + Len(s)
    <3>1. k \in i..j /\ (k - Len(s)) + Len(a) = m
      BY <1>0, <2>3, <2>4
    <3> HIDE DEF k
    <3> QED
      BY <2>2, <2>6, <3>1
  <2> HIDE DEF p, q
  <2>10. StackedAt(y, p, q)
    BY <2>7, <2>8, <2>9 DEF StackedAt
  <2> QED
    BY <2>7, <2>10 DEF y
<1>2. ASSUME NEW i \in DOMAIN (a \o s), NEW j \in DOMAIN (a \o s), StackedAt(a \o s, i, j)
      PROVE  \E p, q \in DOMAIN (a \o b) : StackedAt(a \o b, p, q)
  <2> DEFINE z == a \o s
             y == a \o b
  <2>1. /\ DOMAIN z = 1..(Len(a) + Len(s)) /\ DOMAIN y = 1..(Len(a) + Len(b))
        /\ \A k \in 1..Len(s) : z[Len(a) + k] \in ToSet(s)
        /\ \A k \in 1..Len(a) : z[k] = a[k] /\ y[k] = a[k]
    BY ConcatAt
  <2>2. i < j /\ z[i] = Open /\ z[j] = Open /\ \A k \in i..j : z[k] # Close
    BY <1>2 DEF StackedAt
  <2>3. i \in 1..(Len(a) + Len(s)) /\ j \in 1..(Len(a) + Len(s))
    BY <1>2, <2>1
  <2> HIDE DEF z, y
  <2>4. j <= Len(a)
    <3> SUFFICES ASSUME ~(j <= Len(a)) PROVE FALSE
      OBVIOUS
    <3>1. j - Len(a) \in 1..Len(s) /\ j = Len(a) + (j - Len(a))
      BY <1>0, <2>3
    <3> QED
      BY <2>1, <2>2, <3>1
  <2>5. \A k \in i..j : k \in 1..Len(a) /\ y[k] = z[k]
    BY <1>0, <2>1, <2>3, <2>4
  <2>6. i \in DOMAIN y /\ j \in DOMAIN y /\ i \in i..j /\ j \in i..j
    BY <1>0, <2>1, <2>2, <2>3, <2>4
  <2>7. StackedAt(y, i, j)
    BY <2>2, <2>5, <2>6 DEF StackedAt
  <2> QED
    BY <2>6, <2>7 DEF y
<1> QED
  BY <1>1, <1>2

LEMMA StackedIs ==
  ASSUME NEW A, NEW c, c.body \in Bodies(A)
  PROVE  Stacked(c) <=> \E i, j \in DOMAIN (c.body[1] \o c.body[2]) : StackedAt(c.body[1] \o c.body[2], i, j)
<1>1. Flat(c.body) = c.body[1] \o c.body[2]
  BY Flattened
<1> QED
  BY <1>1 DEF Stacked, StackedAt

LEMMA SettleStacks ==
  ASSUME NEW n \in Nat, NEW c \in Content(n), NEW f \in Content(n), NEW i \in 1..2,
         NEW s \in Seq(Atom(n)), Open \notin ToSet(s),
         f.body[i] = s, \A j \in 1..2 : j # i => f.body[j] = c.body[j], Stacked(f)
  PROVE  Stacked(c)
<1>2. c.body \in Bodies(Atom(n)) /\ f.body \in Bodies(Atom(n))
  BY DEF Content
<1> DEFINE a == c.body[1]
           b == c.body[2]
<1>3. a \in Seq(Atom(n)) /\ b \in Seq(Atom(n))
  BY <1>2 DEF Bodies
<1>4. \E p, q \in DOMAIN (f.body[1] \o f.body[2]) : StackedAt(f.body[1] \o f.body[2], p, q)
  BY <1>2, StackedIs
<1>5. Stacked(c) <=> \E p, q \in DOMAIN (a \o b) : StackedAt(a \o b, p, q)
  BY <1>2, StackedIs
<1>6. i = 1 => f.body[1] = s /\ f.body[2] = b
  OBVIOUS
<1>7. i = 2 => f.body[2] = s /\ f.body[1] = a
  OBVIOUS
<1> HIDE DEF a, b
<1>8. CASE i = 1
  <2>1. \E p, q \in DOMAIN (s \o b) : StackedAt(s \o b, p, q)
    BY <1>4, <1>6, <1>8
  <2> QED
    BY <1>3, <1>5, <2>1, SettledStack
<1>9. CASE i = 2
  <2>1. \E p, q \in DOMAIN (a \o s) : StackedAt(a \o s, p, q)
    BY <1>4, <1>7, <1>9
  <2> QED
    BY <1>3, <1>5, <2>1, SettledStack
<1> QED
  BY <1>8, <1>9

\* A note with one region replaced.
LEMMA RegionReplaced ==
  ASSUME NEW n \in Nat, Typed(n), NEW d \in Devices, NEW i \in 1..2, NEW s \in Seq(Atom(n)),
         NEW f, f = Replace(d, i, s)
  PROVE  /\ f \in Content(n) /\ f.fm = note[d].fm /\ f.body[i] = s
         /\ \A j \in 1..2 : j # i => f.body[j] = note[d].body[j]
<1>1. PICK c \in Content(n) : c = note[d]
  BY SameLeft
<1>2. f = [c EXCEPT !.body[i] = s]
  BY <1>1 DEF Replace
<1>3. c.body \in [1..2 -> Seq(Atom(n))] /\ c.fm \in Fms(n) /\ c = [fm |-> c.fm, body |-> c.body]
  BY DEF Content, Bodies
<1>4. f = [fm |-> c.fm, body |-> [c.body EXCEPT ![i] = s]]
  BY <1>2, <1>3
<1>5. [c.body EXCEPT ![i] = s] \in Bodies(Atom(n))
  BY <1>3 DEF Bodies
<1> QED
  BY <1>1, <1>3, <1>4, <1>5 DEF Content

\* No merge stacks markers on markers: what a decision writes is not stacked, settled
\* lines have no markers, and the rest comes from the server or the user's hand.
THEOREM NothingStacks == Spec => MergesNeverStack
<1> DEFINE Unstacked == \A d \in Devices : Stacked(note'[d]) /\ note'[d] # note[d] =>
               note'[d] = server.content \/ edits' # edits \/ Stacked(note[d])
<1>1. Types /\ [Next]_vars => Unstacked
  <2> SUFFICES ASSUME Types, [Next]_vars, NEW d \in Devices, Stacked(note'[d]), note'[d] # note[d]
               PROVE  note'[d] = server.content \/ edits' # edits \/ Stacked(note[d])
    OBVIOUS
  <2> DEFINE Fair == note'[d] = server.content \/ edits' # edits \/ Stacked(note[d])
  <2>0. PICK n \in Nat : n = Limit
    BY DEF Types, Limit
  <2>1. Typed(n) /\ n = 10 + edits /\ edits \in Nat
    BY <2>0 DEF Types, Typed, Limit
  <2>2. CASE UNCHANGED vars
    BY <2>2 DEF vars
  <2>3. ASSUME NEW e \in Devices, User(e) PROVE Fair
    <3>1. n + 1 \in Nat /\ n <= n + 1 /\ 10 + edits < n + 1
      BY <2>1
    <3>2. Typed(n + 1)
      BY <2>1, <3>1, TypedGrows
    <3>3. Counted
      BY <2>1, <2>3, <3>1, <3>2, UserLeft
    <3> QED
      BY <2>1, <3>3 DEF Counted
  <2>4. ASSUME NEW e \in Devices, Settle(e) PROVE Fair
    <3>1. PICK i \in 1..2, s \in Seq(Atom(n)) :
             /\ note' = [note EXCEPT ![e] = Replace(e, i, s)] /\ Replace(e, i, s) \in Content(n)
             /\ ToSet(s) = {x \in ToSet(note[e].body[i]) : ~Marker(x)}
      BY <2>1, <2>4, Settled
    <3>2. d = e /\ note'[d] = Replace(d, i, s)
      BY <2>1, <3>1 DEF Typed
    <3>3. Open \notin ToSet(s)
      BY <3>1 DEF Open, Marker
    <3>4. note[d] \in Content(n)
      BY <2>1, SameLeft
    <3>5. PICK f \in Content(n) : f = Replace(d, i, s)
      BY <3>1, <3>2
    <3>6. f.body[i] = s /\ \A j \in 1..2 : j # i => f.body[j] = note[d].body[j]
      BY <2>1, <3>5, RegionReplaced
    <3>7. Stacked(f)
      BY <3>2, <3>5
    <3>8. Stacked(note[d])
      BY <3>3, <3>4, <3>6, <3>7, SettleStacks
    <3> QED
      BY <3>8
  <2>5. ASSUME NEW e \in Devices, Sync(e) PROVE Fair
    <3>1. CASE Upload(e)
      BY <3>1 DEF Upload
    <3>2. CASE Download(e)
      <4>1. note' = [note EXCEPT ![e] = server.content]
        BY <3>2 DEF Download
      <4> QED
        BY <2>1, <4>1 DEF Typed
    <3>3. CASE Converge(e)
      BY <3>3 DEF Converge
    <3>4. CASE handleConflict(e)
      <4>1. PICK z : /\ Wrote(n, base[e].content, note[e], server.content, z)
                     /\ \/ HoldConflict(e, z) \/ PreferLocal(e, z)
                        \/ PreferRemote(e, z) \/ WriteMerge(e, z)
        BY <2>1, <3>4, HandledBy
      <4>2. CASE HoldConflict(e, z) \/ PreferLocal(e, z)
        BY <4>2 DEF HoldConflict, PreferLocal
      <4>3. CASE PreferRemote(e, z)
        <5>1. note' = [note EXCEPT ![e] = server.content]
          BY <4>3 DEF PreferRemote
        <5> QED
          BY <2>1, <5>1 DEF Typed
      <4>4. CASE WriteMerge(e, z)
        <5>1. note' = [note EXCEPT ![e] = z.content] /\ z.action = "write"
          BY <4>4 DEF WriteMerge
        <5>2. ~Stacked(z.content)
          BY <4>1, <5>1 DEF Wrote
        <5>3. note'[d] = z.content
          BY <2>1, <5>1 DEF Typed
        <5> QED
          BY <5>2, <5>3
      <4> QED
        BY <4>1, <4>2, <4>3, <4>4
    <3> QED
      BY <2>5, <3>1, <3>2, <3>3, <3>4 DEF Sync
  <2> QED
    BY <2>2, <2>3, <2>4, <2>5 DEF Next
<1> QED
  BY <1>1, InitTypes, NextTypes, PTL DEF Spec, MergesNeverStack

-----------------------------------------------------------------------------
(* What is kept.  The same argument for the lines of a body and for the items of a *)
(* list: of[c] is what content c has of them.                                      *)

All == UNION {Content(n) : n \in Nat}
LinesIn == [c \in All |-> Lines(c)]
ItemsIn == [c \in All |-> Items(c.fm.map)]

\* The ancestor has x only if both sides have it; the server has what a note last synced
\* had, and a note what the server last synced had.
Follows(x, of) ==
    \A d \in Devices :
        /\ x \in of[base[d].content] => x \in of[note[d]] /\ x \in of[server.content]
        /\ x \in of[row[d].hash] => x \in of[server.content]
        /\ x \in of[row[d].id] => x \in of[note[d]]
Somewhere(x, of) == x \in of[server.content] \/ \E d \in Devices : x \in of[note[d]]
Kept(x, of) == Follows(x, of) /\ Somewhere(x, of)
\* What a step does that loses x on neither side.
Keeps(x, of) == Follows(x, of)' /\ (Somewhere(x, of) => Somewhere(x, of)')

\* A step that leaves note c and server content s, of which neither loses x.
LEMMA KeptStep ==
  ASSUME NEW n \in Nat, Typed(n), NEW d \in Devices, NEW x, NEW of, Follows(x, of),
         NEW c, NEW s, NEW r, NEW b,
         note' = [note EXCEPT ![d] = c], server'.content = s, row' = [row EXCEPT ![d] = r],
         base' = base \/ base' = [base EXCEPT ![d] = b],
         x \in of[note[d]] => x \in of[c],
         x \in of[server.content] => x \in of[s],
         x \in of[r.hash] => x \in of[s],
         x \in of[r.id] => x \in of[c],
         base' = base \/ (x \in of[b.content] => x \in of[c] /\ x \in of[s])
  PROVE  Keeps(x, of)
<1>1. /\ note'[d] = c /\ row'[d] = r
      /\ \A e \in Devices : e # d => note'[e] = note[e] /\ row'[e] = row[e] /\ base'[e] = base[e]
      /\ base'[d] = base[d] \/ (base'[d] = b /\ (x \in of[b.content] => x \in of[c] /\ x \in of[s]))
  BY DEF Typed
<1>2. \A e \in Devices : x \in of[note[e]] => x \in of[note'[e]]
  BY <1>1
<1>3. ASSUME NEW e \in Devices
      PROVE  /\ x \in of[base'[e].content] => x \in of[note'[e]] /\ x \in of[server'.content]
             /\ x \in of[row'[e].hash] => x \in of[server'.content]
             /\ x \in of[row'[e].id] => x \in of[note'[e]]
  <2>1. CASE e # d
    BY <1>1, <1>2, <2>1 DEF Follows
  <2>2. CASE e = d
    <3>1. /\ x \in of[row'[e].hash] => x \in of[server'.content]
          /\ x \in of[row'[e].id] => x \in of[note'[e]]
      BY <1>1, <2>2
    <3>2. x \in of[base'[e].content] => x \in of[note'[e]] /\ x \in of[server'.content]
      BY <1>1, <1>2, <2>2 DEF Follows
    <3> QED
      BY <3>1, <3>2
  <2> QED
    BY <2>1, <2>2
<1>4. Somewhere(x, of) => Somewhere(x, of)'
  BY <1>2 DEF Somewhere
<1> QED
  BY <1>3, <1>4 DEF Follows, Keeps

\* A sync keeps x, if a merge does.
LEMMA SyncKept ==
  ASSUME NEW n \in Nat, Typed(n), NEW d \in Devices, NEW x, NEW of, Follows(x, of), Sync(d),
         x \notin of[Blank], ~server.known => server.content = Blank,
         \A e : Wrote(n, base[d].content, note[d], server.content, e) =>
                    /\ e.action \in {"write", "safe-hold"}
                    /\ e.action = "write" /\ server.known /\ (x \in of[note[d]] \/ x \in of[server.content])
                           => x \in of[e.content]
  PROVE  Keeps(x, of)
<1>0. /\ note[d] \in Content(n) /\ note = [note EXCEPT ![d] = note[d]]
      /\ row = [row EXCEPT ![d] = row[d]]
  BY SameLeft
<1>1. \A c : Row(c).hash = c /\ Row(c).id = c /\ Base(c).content = c
  BY DEF Row, Base
<1>2. CASE Upload(d)
  <2>1. /\ note' = note /\ server'.content = note[d] /\ row' = [row EXCEPT ![d] = Row(note[d])]
        /\ base' = [base EXCEPT ![d] = Base(note[d])]
    BY <1>2 DEF Upload, Put, SetRow, SetBase
  <2>2. x \in of[server.content] => x \in of[note[d]]
    <3>1. ~server.known \/ server.content = row[d].id
      BY <1>2 DEF Upload, RemoteChanged
    <3> QED
      BY <3>1 DEF Follows
  <2>3. note' = [note EXCEPT ![d] = note[d]]
    BY <1>0, <2>1
  <2> DEFINE c == note[d]
             r == Row(c)
             b == Base(c)
  <2>4. /\ note' = [note EXCEPT ![d] = c] /\ server'.content = c /\ row' = [row EXCEPT ![d] = r]
        /\ base' = [base EXCEPT ![d] = b] /\ r.hash = c /\ r.id = c /\ b.content = c
        /\ x \in of[server.content] => x \in of[c]
        /\ c = note[d]
    BY <1>1, <2>1, <2>2, <2>3
  <2> HIDE DEF c, r, b
  <2> QED
    BY <2>4, KeptStep
<1>3. CASE Download(d)
  <2>1. /\ note' = [note EXCEPT ![d] = server.content] /\ server'.content = server.content
        /\ row' = [row EXCEPT ![d] = Row(server.content)]
        /\ base' = [base EXCEPT ![d] = Base(server.content)]
    BY <1>3 DEF Download, SetRow, SetBase
  <2>2. x \in of[note[d]] => x \in of[server.content]
    <3>1. note[d] = row[d].hash
      BY <1>3 DEF Download, LocalChanged
    <3> QED
      BY <3>1 DEF Follows
  <2> QED
    BY <1>1, <2>1, <2>2, KeptStep, ZenonT(60)
<1>4. CASE Converge(d)
  <2>1. note' = [note EXCEPT ![d] = note[d]] /\ server'.content = server.content
    BY <1>0, <1>4 DEF Converge
  <2>2. CASE /\ Identical(d) /\ row' = [row EXCEPT ![d] = Row(note[d])]
             /\ base' = base \/ base' = [base EXCEPT ![d] = Base(note[d])]
    <3> DEFINE c == note[d]
               r == Row(c)
               b == Base(c)
    <3>1. /\ c = note[d] /\ c = server.content /\ r.hash = c /\ r.id = c /\ row' = [row EXCEPT ![d] = r]
          /\ note' = [note EXCEPT ![d] = c] /\ server'.content = c
      BY <1>1, <2>1, <2>2 DEF Identical
    <3>2. (x \in of[note[d]] => x \in of[c]) /\ (x \in of[server.content] => x \in of[c])
          /\ (x \in of[r.hash] => x \in of[c]) /\ (x \in of[r.id] => x \in of[c])
      BY <2>1, <3>1
    <3>3. base' = base \/ base' = [base EXCEPT ![d] = b]
      BY <2>2
    <3>4. b.content = c
      BY DEF Base
    <3> HIDE DEF c, r, b
    <3>5. CASE base' = base
      BY <3>1, <3>2, <3>5, KeptStep
    <3>6. CASE base' = [base EXCEPT ![d] = b]
      <4>1. x \in of[b.content] => x \in of[c]
        BY <3>4
      <4> QED
        BY <3>1, <3>2, <3>6, <4>1, KeptStep
    <3> QED
      BY <3>3, <3>5, <3>6
  <2>3. CASE base' = base /\ row' = [row EXCEPT ![d] = [row[d] EXCEPT !.conflicted = FALSE]]
    <3> DEFINE r == [row[d] EXCEPT !.conflicted = FALSE]
    <3>1. r.hash = row[d].hash /\ r.id = row[d].id
      BY SameLeft DEF Rows
    <3>2. row' = [row EXCEPT ![d] = r]
      BY <2>3
    <3> HIDE DEF r
    <3>3. (x \in of[r.hash] => x \in of[server.content]) /\ (x \in of[r.id] => x \in of[note[d]])
      BY <3>1 DEF Follows
    <3> QED
      BY <2>1, <2>3, <3>2, <3>3, KeptStep
  <2> QED
    BY <1>4, <2>2, <2>3 DEF Converge, SetRow, SetBase
<1>5. CASE handleConflict(d)
  <2>1. server.known
    BY <1>5, HandledBy
  <2>2. PICK e : /\ Wrote(n, base[d].content, note[d], server.content, e)
                 /\ \/ HoldConflict(d, e) \/ PreferLocal(d, e)
                    \/ PreferRemote(d, e) \/ WriteMerge(d, e)
    BY <1>5, HandledBy
  <2>3. /\ e.action \in {"write", "safe-hold"}
        /\ e.action = "write" /\ (x \in of[note[d]] \/ x \in of[server.content]) => x \in of[e.content]
    BY <2>1, <2>2
  <2>4. ~PreferLocal(d, e) /\ ~PreferRemote(d, e)
    BY <2>3 DEF PreferLocal, PreferRemote
  <2>5. CASE HoldConflict(d, e)
    <3>1. note' = [note EXCEPT ![d] = note[d]] /\ server'.content = server.content /\ base' = base
      BY <1>0, <2>5 DEF HoldConflict
    <3>2. row' = [row EXCEPT ![d] = [row[d] EXCEPT !.conflicted = TRUE]] \/ row' = [row EXCEPT ![d] = row[d]]
      BY <2>5 DEF HoldConflict, SetRow
    <3> DEFINE r == [row[d] EXCEPT !.conflicted = TRUE]
    <3>3. r.hash = row[d].hash /\ r.id = row[d].id
      BY SameLeft DEF Rows
    <3>4. row' = [row EXCEPT ![d] = r] \/ row' = [row EXCEPT ![d] = row[d]]
      BY <3>2
    <3> HIDE DEF r
    <3>5. PICK z \in {r, row[d]} : row' = [row EXCEPT ![d] = z]
      BY <3>4
    <3>6. (x \in of[z.hash] => x \in of[server.content]) /\ (x \in of[z.id] => x \in of[note[d]])
      BY <3>3, <3>5 DEF Follows
    <3> QED
      BY <3>1, <3>5, <3>6, KeptStep
  <2>6. CASE WriteMerge(d, e)
    <3> DEFINE c == e.content
               flagged == [Row(c) EXCEPT !.conflicted = ~e.clean]
               held == [hash |-> row[d].hash, id |-> server.content, size |-> Size(c),
                        known |-> TRUE, conflicted |-> TRUE]
    <3>1. PICK pushed \in BOOLEAN : Merged(d, c, e.clean, pushed)
      BY <2>6, WriteMerged
    <3>2. x \in of[note[d]] \/ x \in of[server.content] => x \in of[c]
      BY <2>3, <2>6 DEF WriteMerge
    <3>3. flagged.hash = c /\ flagged.id = c /\ held.hash = row[d].hash /\ held.id = server.content
          /\ Base(c).content = c
      BY DEF Row, Base
    <3>4. note' = [note EXCEPT ![d] = c]
      BY <3>1 DEF Merged
    <3>5. CASE pushed
      <4>1. /\ server'.content = c /\ row' = [row EXCEPT ![d] = flagged]
            /\ base' = base \/ base' = [base EXCEPT ![d] = Base(c)]
        BY <3>1, <3>5 DEF Merged
      <4> HIDE DEF flagged, held, c
      <4> QED
        BY <3>2, <3>3, <3>4, <4>1, KeptStep
    <3>6. CASE ~pushed
      <4>1. server'.content = server.content /\ row' = [row EXCEPT ![d] = held] /\ base' = base
        BY <3>1, <3>6 DEF Merged
      <4>2. x \in of[held.hash] => x \in of[server.content]
        BY <3>3 DEF Follows
      <4> HIDE DEF flagged, held, c
      <4> QED
        BY <3>2, <3>3, <3>4, <4>1, <4>2, KeptStep
    <3> QED
      BY <3>5, <3>6
  <2> QED
    BY <2>2, <2>4, <2>5, <2>6
<1> QED
  BY <1>2, <1>3, <1>4, <1>5 DEF Sync

\* An edit that leaves x in the note.
LEMMA NoteKept ==
  ASSUME NEW n \in Nat, Typed(n), NEW d \in Devices, NEW x, NEW of, Follows(x, of), NEW c,
         note' = [note EXCEPT ![d] = c], server' = server, row' = row, base' = base,
         x \in of[note[d]] => x \in of[c]
  PROVE  Keeps(x, of)
<1>1. row' = [row EXCEPT ![d] = row[d]] /\ server'.content = server.content
  BY SameLeft
<1>2. (x \in of[row[d].hash] => x \in of[server.content]) /\ (x \in of[row[d].id] => x \in of[c])
  BY DEF Follows
<1> QED
  BY <1>1, <1>2, KeptStep

\* An edit that writes x, which nothing had before.
LEMMA FreshKept ==
  ASSUME NEW n \in Nat, Typed(n), NEW d \in Devices, NEW x, NEW of, NEW c,
         note' = [note EXCEPT ![d] = c], server' = server, row' = row, base' = base,
         x \in of[c], \A e \in Content(n) : x \notin of[e]
  PROVE  Kept(x, of)'
<1>1. \A e \in Devices : base[e].content \in Content(n) /\ row[e].hash \in Content(n) /\ row[e].id \in Content(n)
  BY SameLeft
<1>2. note'[d] = c
  BY DEF Typed
<1> QED
  BY <1>1, <1>2 DEF Kept, Follows, Somewhere

\* One side taken by a command, if x is not given up with the other.
LEMMA TakenKept ==
  ASSUME NEW n \in Nat, Typed(n), NEW d \in Devices, NEW x, NEW of, Follows(x, of), NEW c,
         note' = [note EXCEPT ![d] = c], server'.content = c, row' = [row EXCEPT ![d] = Row(c)],
         base' = base \/ base' = [base EXCEPT ![d] = Base(c)],
         x \in of[note[d]] \/ x \in of[server.content] => x \in of[c]
  PROVE  Keeps(x, of)
<1>1. Row(c).hash = c /\ Row(c).id = c /\ Base(c).content = c
  BY DEF Row, Base
<1> QED
  BY <1>1, KeptStep, ZenonT(60)

\* What a content has of lines and items.
LEMMA OfIs ==
  ASSUME NEW n \in Nat, NEW c \in Content(n)
  PROVE  /\ LinesIn[c] = Lines(c) /\ ItemsIn[c] = Items(c.fm.map)
         /\ Lines(c) \subseteq Atom(n) /\ Items(c.fm.map) \subseteq Atom(n)
         /\ \A x : x \in LinesIn[c] <=> InBody(x, c.body)
<1>1. c \in All
  BY DEF All
<1>2. c.body \in Bodies(Atom(n)) /\ c.fm.map \in Maps(n)
  BY DEF Content, Fms
<1>3. Lines(c) \subseteq Atom(n) /\ \A x : x \in Lines(c) <=> InBody(x, c.body)
  BY <1>2, LinesOf, InLines
<1>4. Items(c.fm.map) \subseteq Atom(n)
  BY <1>2, ItemsTyped
<1>5. LinesIn[c] = Lines(c)
  BY <1>1 DEF LinesIn
<1>6. ItemsIn[c] = Items(c.fm.map)
  BY <1>1 DEF ItemsIn
<1> QED
  BY <1>3, <1>4, <1>5, <1>6

LEMMA BlankHas == \A x : x \notin LinesIn[Blank] /\ x \notin ItemsIn[Blank]
<1>1. 0 \in Nat /\ Blank \in Content(0) /\ Lines(Blank) = {}
  BY BlankTyped
<1>2. LinesIn[Blank] = {} /\ ItemsIn[Blank] = Items(Blank.fm.map)
  BY <1>1, OfIs
<1>3. Items(Blank.fm.map) = {}
  BY DEF Blank, None, Items
<1> QED
  BY <1>2, <1>3

\* An edit of note c keeps x, when x is the line or item it adds or stays in the note.
LEMMA EditKept ==
  ASSUME NEW n \in Nat, Typed(n), NEW d \in Devices, NEW c, NEW lines, NEW items, Edit(d, c, lines, items),
         NEW of \in {LinesIn, ItemsIn}, NEW x,
         \/ x = n /\ x \in of[c]
         \/ Kept(x, of) /\ (x \in of[note[d]] => x \in of[c])
  PROVE  Kept(x, of)'
<1>1. note' = [note EXCEPT ![d] = c] /\ server' = server /\ row' = row /\ base' = base
  BY DEF Edit
<1>2. CASE x = n /\ x \in of[c]
  <2>1. \A e \in Content(n) : of[e] \subseteq Atom(n)
    BY OfIs
  <2>2. \A e \in Content(n) : x \notin of[e]
    BY <1>2, <2>1 DEF Atom
  <2> QED
    BY <1>1, <1>2, <2>2, FreshKept
<1>3. CASE Kept(x, of) /\ (x \in of[note[d]] => x \in of[c])
  BY <1>1, <1>3, NoteKept DEF Kept, Keeps
<1> QED
  BY <1>2, <1>3

-----------------------------------------------------------------------------
(* Items of a list. *)

Legible == (\A d \in Devices : Readable(note[d].fm)) /\ (server.known => Readable(server.content.fm))
ListsMerge == conf.kind = "markdown" /\ conf.fm = "merge" /\ Untracked \notin tags
TagsInv == ListsMerge => Legible /\ \A x \in tags : Kept(x, ItemsIn)

LEMMA InitTags == Init => TagsInv
<1> SUFFICES ASSUME Init PROVE TagsInv
  OBVIOUS
<1>1. tags = {}
  BY DEF Init
<1>2. \A body : Readable(Note(body).fm)
  BY DEF Note, Readable
<1>3. Legible
  <2>1. \A d \in Devices : \E body : note[d] = Note(body)
    BY ZenonT(60) DEF Init, TwoLines
  <2>2. ~server.known \/ \E body : server.content = Note(body)
    BY DEF Init, TwoLines, NoServer
  <2> QED
    BY <1>2, <2>1, <2>2 DEF Legible
<1> QED
  BY <1>1, <1>3 DEF TagsInv

\* A frontmatter that every side can read is still one after a sync.
LEMMA SyncLegible ==
  ASSUME NEW n \in Nat, Typed(n), NEW d \in Devices, Sync(d),
         conf.kind = "markdown", conf.fm = "merge", Legible
  PROVE  Legible'
<1>1. ASSUME NEW c, Readable(c.fm), note' = [note EXCEPT ![d] = c],
             server' = server \/ server' = [known |-> TRUE, content |-> c]
      PROVE  Legible'
  <2>1. \A e \in Devices : note'[e] = note[e] \/ note'[e] = c
    BY <1>1 DEF Typed
  <2>2. server' = server \/ server'.content = c
    BY <1>1
  <2>3. \A e \in Devices : Readable(note'[e].fm)
    BY <1>1, <2>1 DEF Legible
  <2>4. server'.known => Readable(server'.content.fm)
    BY <1>1, <2>2 DEF Legible
  <2> QED
    BY <2>3, <2>4 DEF Legible, Readable
<1>2. Readable(note[d].fm) /\ note = [note EXCEPT ![d] = note[d]]
  BY SameLeft DEF Legible
<1>3. CASE Upload(d)
  <2> DEFINE c == note[d]
  <2>1. note' = [note EXCEPT ![d] = c] /\ server' = [known |-> TRUE, content |-> c] /\ Readable(c.fm)
    BY <1>2, <1>3 DEF Upload, Put
  <2> HIDE DEF c
  <2> QED
    BY <1>1, <2>1
<1>4. CASE Download(d)
  <2> DEFINE c == server.content
  <2>1. note' = [note EXCEPT ![d] = c] /\ server' = server /\ Readable(c.fm)
    BY <1>4 DEF Download, Legible
  <2> HIDE DEF c
  <2> QED
    BY <1>1, <2>1
<1>5. CASE Converge(d)
  <2>1. note' = note /\ server' = server
    BY <1>5 DEF Converge
  <2> QED
    BY <1>1, <1>2, <2>1
<1>6. CASE handleConflict(d)
  <2>1. PICK e : /\ Wrote(n, base[d].content, note[d], server.content, e)
                 /\ \/ HoldConflict(d, e) \/ PreferLocal(d, e)
                    \/ PreferRemote(d, e) \/ WriteMerge(d, e)
    BY <1>6, HandledBy
  <2>2. e.action \in {"write", "safe-hold"}
    BY <2>1 DEF Wrote
  <2>3. ~PreferLocal(d, e) /\ ~PreferRemote(d, e)
    BY <2>2 DEF PreferLocal, PreferRemote
  <2>4. CASE HoldConflict(d, e)
    <3>1. note' = note /\ server' = server
      BY <2>4 DEF HoldConflict
    <3> QED
      BY <1>1, <1>2, <3>1
  <2>5. CASE WriteMerge(d, e)
    <3> DEFINE c == e.content
    <3>1. PICK pushed \in BOOLEAN : Merged(d, c, e.clean, pushed)
      BY <2>5, WriteMerged
    <3>2. note' = [note EXCEPT ![d] = c] /\ (server' = server \/ server' = [known |-> TRUE, content |-> c])
      BY <3>1 DEF Merged
    <3>3. server.known /\ e.action = "write"
      BY <1>6, <2>5, HandledBy DEF WriteMerge
    <3>4. Readable(c.fm)
      BY <1>2, <2>1, <3>3 DEF Wrote, Legible
    <3> HIDE DEF c
    <3> QED
      BY <1>1, <3>2, <3>4
  <2> QED
    BY <2>1, <2>3, <2>4, <2>5
<1> QED
  BY <1>3, <1>4, <1>5, <1>6 DEF Sync

\* A note that is edited keeps its list, but for what the user takes out of it.
LEMMA ListEdited ==
  ASSUME NEW n \in Nat, n = Limit, Typed(n), TagsInv, NEW d \in Devices,
         NEW m \in Nat, NEW c \in Content(m), NEW lines, NEW items, Edit(d, c, lines, items),
         Untracked \in tags => Untracked \in items,
         Readable(note[d].fm) => Readable(c.fm),
         Untracked \notin items =>
            \A x \in items : \/ x = n /\ x \in Items(c.fm.map)
                             \/ x \in tags /\ (x \in Items(note[d].fm.map) => x \in Items(c.fm.map))
  PROVE  TagsInv'
<1>1. /\ note' = [note EXCEPT ![d] = c] /\ server' = server /\ conf' = conf /\ tags' = items
  BY DEF Edit
<1>2. ItemsIn[c] = Items(c.fm.map) /\ ItemsIn[note[d]] = Items(note[d].fm.map)
  BY OfIs, SameLeft
<1> SUFFICES ASSUME ListsMerge' PROVE Legible' /\ \A x \in tags' : Kept(x, ItemsIn)'
  BY DEF TagsInv
<1>3. ListsMerge /\ Untracked \notin items
  BY <1>1 DEF ListsMerge
<1>4. Legible /\ \A x \in tags : Kept(x, ItemsIn)
  BY <1>3 DEF TagsInv
<1>5. Legible'
  <2>1. \A e \in Devices : note'[e] = note[e] \/ (e = d /\ note'[e] = c)
    BY <1>1 DEF Typed
  <2>2. \A e \in Devices : Readable(note'[e].fm)
    BY <1>4, <2>1 DEF Legible
  <2> QED
    BY <1>1, <1>4, <2>2 DEF Legible, Readable
<1>6. ASSUME NEW x \in items PROVE Kept(x, ItemsIn)'
  <2>1. \/ x = n /\ x \in ItemsIn[c]
        \/ Kept(x, ItemsIn) /\ (x \in ItemsIn[note[d]] => x \in ItemsIn[c])
    BY <1>2, <1>3, <1>4, <1>6
  <2> QED
    BY <2>1, EditKept
<1> QED
  BY <1>1, <1>5, <1>6

\* A note with another frontmatter.
LEMMA FieldIs ==
  ASSUME NEW n \in Nat, Typed(n), NEW d \in Devices, NEW m \in Maps(n), NEW f, f = Field(d, m)
  PROVE  f \in Content(n) /\ f.body = note[d].body /\ f.fm.map = m /\ f.fm.ok = note[d].fm.ok
<1>1. PICK c \in Content(n) : c = note[d]
  BY SameLeft
<1>2. f = [c EXCEPT !.fm.map = m]
  BY <1>1 DEF Field
<1>3. c.body \in Bodies(Atom(n)) /\ c = [fm |-> c.fm, body |-> c.body]
      /\ c.fm = [ok |-> c.fm.ok, map |-> c.fm.map] /\ c.fm.ok \in BOOLEAN
  BY DEF Content, Fms
<1>4. f = [fm |-> [ok |-> c.fm.ok, map |-> m], body |-> c.body]
  BY <1>2, <1>3
<1> QED
  BY <1>1, <1>3, <1>4 DEF Content, Fms

\* A merge of lists keeps what the two sides added.
LEMMA SyncTags ==
  ASSUME Types, TagsInv, NEW d \in Devices, Sync(d)
  PROVE  TagsInv'
<1>1. PICK n \in Nat : n = Limit
  BY DEF Types, Limit
<1>2. Typed(n) /\ (~server.known => server.content = Blank)
  BY <1>1 DEF Types, Typed
<1>3. conf' = conf /\ tags' = tags
  BY <1>2, SyncLeft DEF Left
<1> SUFFICES ASSUME ListsMerge' PROVE Legible' /\ \A x \in tags' : Kept(x, ItemsIn)'
  BY DEF TagsInv
<1>4. ListsMerge /\ Legible /\ \A x \in tags : Kept(x, ItemsIn)
  BY <1>3 DEF TagsInv, ListsMerge
<1>5. Legible'
  BY <1>2, <1>4, SyncLegible DEF ListsMerge
<1>6. ASSUME NEW x \in tags PROVE Kept(x, ItemsIn)'
  <2>1. ASSUME NEW e, Wrote(n, base[d].content, note[d], server.content, e)
        PROVE  /\ e.action \in {"write", "safe-hold"}
               /\ e.action = "write" /\ server.known /\ (x \in ItemsIn[note[d]] \/ x \in ItemsIn[server.content])
                      => x \in ItemsIn[e.content]
    <3>1. e.action \in {"write", "safe-hold"} /\ e.content \in Content(n)
      BY <1>4, <2>1 DEF Wrote, ListsMerge
    <3>2. /\ ItemsIn[e.content] = Items(e.content.fm.map) /\ ItemsIn[note[d]] = Items(note[d].fm.map)
          /\ ItemsIn[server.content] = Items(server.content.fm.map)
          /\ ItemsIn[base[d].content] = Items(base[d].content.fm.map)
      BY <1>2, <3>1, SameLeft, OfIs
    <3>3. x \in Items(base[d].content.fm.map) =>
              x \in Items(note[d].fm.map) /\ x \in Items(server.content.fm.map)
      BY <1>4, <3>2 DEF Kept, Follows, Somewhere
    <3>4. ASSUME e.action = "write", server.known, x \in Items(note[d].fm.map) \/ x \in Items(server.content.fm.map)
          PROVE  x \in Items(e.content.fm.map)
      <4>1. Readable(note[d].fm) /\ Readable(server.content.fm) /\ conf.kind = "markdown" /\ conf.fm = "merge"
        BY <1>4, <3>4 DEF Legible, ListsMerge
      <4> QED
        BY <2>1, <3>3, <3>4, <4>1 DEF Wrote
    <3> QED
      BY <3>1, <3>2, <3>4
  <2>2. Kept(x, ItemsIn) /\ x \notin ItemsIn[Blank]
    BY <1>4, BlankHas
  <2> QED
    BY <1>2, <2>1, <2>2, SyncKept DEF Kept, Keeps
<1> QED
  BY <1>3, <1>5, <1>6

LEMMA UserTags ==
  ASSUME Types, TagsInv, NEW d \in Devices, User(d)
  PROVE  TagsInv'
<1>1. PICK n \in Nat : n = Limit
  BY DEF Types, Limit
<1>2. Typed(n) /\ n = 10 + edits /\ edits \in Nat
  BY <1>1 DEF Types, Typed, Limit
<1>3. n + 1 \in Nat /\ n <= n + 1 /\ 10 + edits < n + 1 /\ Typed(n + 1)
  BY <1>2, TypedGrows
<1>4. PICK m \in Nat : m = n + 1
  BY <1>3
<1>5. Typed(m) /\ 10 + edits < m
  BY <1>3, <1>4
\* The frontmatter stays as it is.
<1>6. ASSUME NEW c \in Content(m), NEW lines, Edit(d, c, lines, tags), c.fm = note[d].fm PROVE TagsInv'
  <2>1. PICK items : items = tags
    OBVIOUS
  <2>2. \A x \in items : x \in tags /\ (x \in Items(note[d].fm.map) => x \in Items(c.fm.map))
    BY <1>6, <2>1
  <2> QED
    BY <1>1, <1>2, <1>6, <2>1, <2>2, ListEdited
<1>7. CASE \E i \in {1, 2} : EditLine(d, i)
  <2>1. PICK i \in 1..2 : EditLine(d, i)
    BY <1>7
  <2>2. PICK new \in Seq(Atom(m)) :
            /\ Replace(d, i, new) \in Content(m)
            /\ Edit(d, Replace(d, i, new), (live \ ToSet(note[d].body[i])) \cup ToSet(new), tags)
    BY <1>2, <1>5, <2>1, LineEdited
  <2>3. Replace(d, i, new).fm = note[d].fm
    BY <1>5, RegionReplaced
  <2> QED
    BY <1>6, <2>2, <2>3
<1>8. CASE KeepOne(d)
  <2>1. PICK i \in 1..2, x \in Atom(m) :
            /\ <<x>> \in Seq(Atom(m)) /\ Replace(d, i, <<x>>) \in Content(m)
            /\ \E lines : Edit(d, Replace(d, i, <<x>>), lines, tags)
    BY <1>5, <1>8, OneKept
  <2>2. PICK s \in Seq(Atom(m)) : s = <<x>>
    BY <2>1
  <2>3. Replace(d, i, s).fm = note[d].fm
    BY <1>5, RegionReplaced
  <2> QED
    BY <1>6, <2>1, <2>2, <2>3
<1>9. CASE HalveMarkers(d)
  <2>1. PICK i \in 1..2, s \in Seq(Atom(m)) : Replace(d, i, s) \in Content(m) /\ Edit(d, Replace(d, i, s), live, tags)
    BY <1>5, <1>9, Halved
  <2>2. Replace(d, i, s).fm = note[d].fm
    BY <1>5, RegionReplaced
  <2> QED
    BY <1>6, <2>1, <2>2
<1>10. CASE BreakFrontmatter(d) \/ Commanded(d)
  <2>1. tags' = {Untracked}
    BY <1>10 DEF BreakFrontmatter, Edit, Commanded
  <2> QED
    BY <2>1 DEF TagsInv, ListsMerge
<1>11. CASE EditTitle(d)
  <2>1. PICK t \in Maps(m) :
            /\ Field(d, t) \in Content(m) /\ Edit(d, Field(d, t), live, tags)
            /\ "tags" \in DOMAIN note[d].fm.map <=> "tags" \in DOMAIN t
            /\ "tags" \in DOMAIN t => t["tags"] = note[d].fm.map["tags"]
    BY <1>2, <1>5, <1>11, TitleEdited
  <2>2. Field(d, t).fm.map = t /\ Field(d, t).fm.ok = note[d].fm.ok
    BY <1>5, FieldIs
  <2>3. PICK c \in Content(m) : c = Field(d, t)
    BY <2>1
  <2>4. Items(c.fm.map) = Items(note[d].fm.map) /\ (Readable(note[d].fm) => Readable(c.fm))
    BY <2>1, <2>2, <2>3 DEF Items, Readable
  <2>5. PICK items : items = tags
    OBVIOUS
  <2>6. \A x \in items : x \in tags /\ (x \in Items(note[d].fm.map) => x \in Items(c.fm.map))
    BY <2>4, <2>5
  <2>7. Edit(d, c, live, items)
    BY <2>1, <2>3, <2>5
  <2> QED
    BY <1>1, <1>2, <2>4, <2>5, <2>6, <2>7, ListEdited
<1>12. CASE EditTags(d)
  <2> DEFINE old == note[d].fm.map["tags"]
             left(new) == IF Untracked \in tags THEN tags ELSE (tags \ old) \cup (new \ (old \ tags))
  <2>1. PICK new \in SUBSET Atom(m) :
            /\ Field(d, [note[d].fm.map EXCEPT !["tags"] = new]) \in Content(m)
            /\ Edit(d, Field(d, [note[d].fm.map EXCEPT !["tags"] = new]), live, left(new))
            /\ new \subseteq old \cup {10 + edits}
    BY <1>2, <1>5, <1>12, TagsEdited
  <2>2. "tags" \in DOMAIN note[d].fm.map
    BY <1>12 DEF EditTags, HasTags
  <2>3. PICK t \in Maps(m) : t = [note[d].fm.map EXCEPT !["tags"] = new]
    <3>1. [note[d].fm.map EXCEPT !["tags"] = new] \in Maps(m)
      <4> DEFINE map == note[d].fm.map
                 g == [map EXCEPT !["tags"] = new]
      <4>1. map \in Maps(m)
        BY <1>5, SameLeft DEF Content, Fms
      <4>2. "tags" \in DOMAIN map
        BY <2>2
      <4> HIDE DEF map
      <4>3. DOMAIN g = DOMAIN map /\ g["tags"] = new /\ \A k \in DOMAIN map : k # "tags" => g[k] = map[k]
        BY <4>2
      <4>4. g = [k \in DOMAIN map |-> g[k]]
        BY <4>3
      <4>5. DOMAIN map \in SUBSET Keys /\ \A k \in DOMAIN map : map[k] \in Atom(m) \cup SUBSET Atom(m)
        BY <4>1, MapHas
      <4> HIDE DEF g
      <4>6. \A k \in DOMAIN map : g[k] \in Atom(m) \cup SUBSET Atom(m)
        BY <2>1, <4>3, <4>5
      <4> QED
        BY <2>1, <4>2, <4>3, <4>4, <4>5, <4>6, MapTyped DEF g, map
    <3> QED
      BY <3>1
  <2>4. t["tags"] = new /\ "tags" \in DOMAIN t
    BY <2>2, <2>3
  <2>5. Field(d, t).fm.map = t /\ Field(d, t).fm.ok = note[d].fm.ok
    BY <1>5, FieldIs
  <2>6. PICK c \in Content(m) : c = Field(d, t)
    BY <2>1, <2>3
  <2>7. Items(c.fm.map) = new /\ Items(note[d].fm.map) = old /\ (Readable(note[d].fm) => Readable(c.fm))
    BY <2>2, <2>4, <2>5, <2>6 DEF Items, Readable
  <2>8. PICK items : items = left(new)
    OBVIOUS
  <2>9. Edit(d, c, live, items)
    BY <2>1, <2>3, <2>6, <2>8
  <2> HIDE DEF old
  <2>10. Untracked \in tags => Untracked \in items
    BY <2>8
  <2>11. ASSUME Untracked \notin items, NEW x \in items
         PROVE  \/ x = n /\ x \in new
                \/ x \in tags /\ (x \in old => x \in new)
    <3>1. items = (tags \ old) \cup (new \ (old \ tags))
      BY <2>8, <2>10, <2>11
    <3>2. new \subseteq old \cup {n}
      BY <1>2, <2>1
    <3> QED
      BY <2>11, <3>1, <3>2
  <2> QED
    BY <1>1, <1>2, <2>7, <2>9, <2>10, <2>11, ListEdited
<1> QED
  BY <1>7, <1>8, <1>9, <1>10, <1>11, <1>12, CommandsTake DEF User

LEMMA SettleTags ==
  ASSUME Types, TagsInv, NEW d \in Devices, Settle(d)
  PROVE  TagsInv'
<1>1. PICK n \in Nat : n = Limit
  BY DEF Types, Limit
<1>2. Typed(n)
  BY <1>1 DEF Types, Typed
<1>3. PICK i \in 1..2, s \in Seq(Atom(n)) :
         note' = [note EXCEPT ![d] = Replace(d, i, s)] /\ Replace(d, i, s) \in Content(n)
  BY <1>2, Settled
<1>4. /\ conf' = conf /\ server' = server /\ row' = row /\ base' = base /\ tags' = tags
  BY <1>2, Settled
<1>5. PICK c \in Content(n) : c = Replace(d, i, s)
  BY <1>3
<1>6. c.fm = note[d].fm /\ note' = [note EXCEPT ![d] = c]
  BY <1>2, <1>3, <1>5, RegionReplaced
<1>7. ItemsIn[c] = ItemsIn[note[d]]
  BY <1>2, <1>6, SameLeft, OfIs
<1> SUFFICES ASSUME ListsMerge' PROVE Legible' /\ \A x \in tags' : Kept(x, ItemsIn)'
  BY DEF TagsInv
<1>8. Legible /\ \A x \in tags : Kept(x, ItemsIn)
  BY <1>4 DEF TagsInv, ListsMerge
<1>9. \A e \in Devices : note'[e].fm = note[e].fm
  BY <1>2, <1>6 DEF Typed
<1>10. Legible'
  BY <1>4, <1>8, <1>9 DEF Legible, Readable
<1>11. ASSUME NEW x \in tags PROVE Kept(x, ItemsIn)'
  BY <1>2, <1>4, <1>6, <1>7, <1>8, NoteKept DEF Kept, Keeps
<1> QED
  BY <1>4, <1>10, <1>11

LEMMA TagsSaved == Types /\ TagsInv => TagsAreNeverLost
<1> SUFFICES ASSUME Types, TagsInv, ListsMerge, NEW x \in tags
             PROVE  x \in UNION {c.fm.map["tags"] : c \in {c \in Contents : c.fm.ok /\ "tags" \in DOMAIN c.fm.map}}
  BY DEF TagsAreNeverLost, ListsMerge
<1>1. PICK n \in Nat : n = Limit
  BY DEF Types, Limit
<1>2. Typed(n) /\ (~server.known => server.content = Blank)
  BY <1>1 DEF Types, Typed
<1>3. Legible /\ Kept(x, ItemsIn)
  BY DEF TagsInv
<1>4. ASSUME NEW c \in Contents, Readable(c.fm), x \in Items(c.fm.map)
      PROVE  x \in UNION {e.fm.map["tags"] : e \in {e \in Contents : e.fm.ok /\ "tags" \in DOMAIN e.fm.map}}
  BY <1>4 DEF Items, Readable
<1>5. CASE x \in ItemsIn[server.content]
  <2>1. server.known
    BY <1>2, <1>5, BlankHas
  <2>2. x \in Items(server.content.fm.map)
    BY <1>2, <1>5, SameLeft, OfIs DEF Typed, Bases
  <2> QED
    BY <1>3, <1>4, <2>1, <2>2 DEF Legible, Contents
<1>6. ASSUME NEW d \in Devices, x \in ItemsIn[note[d]]
      PROVE  x \in UNION {c.fm.map["tags"] : c \in {c \in Contents : c.fm.ok /\ "tags" \in DOMAIN c.fm.map}}
  <2>1. x \in Items(note[d].fm.map)
    BY <1>2, <1>6, SameLeft, OfIs
  <2> QED
    BY <1>3, <1>4, <2>1 DEF Legible, Contents
<1> QED
  BY <1>3, <1>5, <1>6 DEF Kept, Follows, Somewhere

\* An item that some user added to a list and none took out is in a note or on the
\* server, whatever was merged, held, pushed in vain or retried in between, until the
\* user takes one side whole or leaves a frontmatter that cannot be read.
THEOREM TagsKept == Spec => []TagsAreNeverLost
<1>1. Types /\ TagsInv /\ [Next]_vars => TagsInv'
  <2> SUFFICES ASSUME Types, TagsInv, [Next]_vars PROVE TagsInv'
    OBVIOUS
  <2>1. CASE UNCHANGED vars
    BY <2>1 DEF vars, TagsInv, ListsMerge, Legible, Readable, Kept, Follows, Somewhere
  <2> QED
    BY <2>1, SyncTags, UserTags, SettleTags DEF Next
<1> QED
  BY <1>1, InitTypes, NextTypes, InitTags, TagsSaved, PTL DEF Spec

-----------------------------------------------------------------------------
(* Lines of a body. *)

BodiesMerge == Merging /\ conf.conflict = "conflict-markers"
LinesInv == BodiesMerge => \A x \in live : Kept(x, LinesIn)

\* No device is about to merge a line that stands in both regions of its ancestor, and
\* of which each side has dropped another one.  A merge of regions respects both.
NothingTorn == BodiesMerge =>
    \A d \in Devices : \A x \in live : ~Torn(x, base[d].content.body, note[d].body, server.content.body)

LEMMA InitLines == Init => LinesInv
<1> SUFFICES ASSUME Init, NEW x \in live PROVE Kept(x, LinesIn)
  BY DEF LinesInv
<1>1. PICK start \in Starts, own \in [Devices -> {<<1>>, <<3>>}] :
           LET c == IF start = "empty" THEN Note(<<<<>>, <<>>>>) ELSE TwoLines
               first == [d \in Devices |-> Note(<<own[d], <<2>>>>)]
           IN  IF start = "first"
               THEN /\ edits = 2 /\ note = first /\ server = NoServer
                    /\ row = [d \in Devices |-> NoRow] /\ base = [d \in Devices |-> NoBase]
                    /\ live = UNION {Lines(first[d]) : d \in Devices}
               ELSE /\ edits = 0 /\ note = [d \in Devices |-> c] /\ server = [known |-> TRUE, content |-> c]
                    /\ row = [d \in Devices |-> Row(c)] /\ base = [d \in Devices |-> Base(c)]
                    /\ live = Lines(c)
  BY DEF Init
<1>2. \A c \in Content(10) : LinesIn[c] = Lines(c)
  BY OfIs
<1>3. CASE start = "first"
  <2> DEFINE first == [d \in Devices |-> Note(<<own[d], <<2>>>>)]
  <2>1. /\ note = first /\ row = [d \in Devices |-> NoRow] /\ base = [d \in Devices |-> NoBase]
        /\ live = UNION {Lines(first[d]) : d \in Devices}
    BY <1>1, <1>3
  <2>2. \A d \in Devices : first[d] \in Content(10)
    BY StartTyped
  <2>3. \E d \in Devices : x \in Lines(first[d])
    BY <2>1
  <2>4. \E d \in Devices : x \in LinesIn[note[d]]
    BY <1>2, <2>1, <2>2, <2>3
  <2>5. \A d \in Devices : base[d].content = Blank /\ row[d].hash = Blank /\ row[d].id = Blank
    BY <2>1 DEF NoBase, NoRow
  <2> QED
    BY <2>4, <2>5, BlankHas DEF Kept, Follows, Somewhere
<1>4. CASE start # "first"
  <2> DEFINE c == IF start = "empty" THEN Note(<<<<>>, <<>>>>) ELSE TwoLines
  <2>1. /\ note = [d \in Devices |-> c] /\ server = [known |-> TRUE, content |-> c]
        /\ row = [d \in Devices |-> Row(c)] /\ base = [d \in Devices |-> Base(c)]
        /\ live = Lines(c)
    BY <1>1, <1>4
  <2>2. c \in Content(10)
    BY StartTyped DEF TwoLines
  <2>3. Row(c).hash = c /\ Row(c).id = c /\ Base(c).content = c
    BY DEF Row, Base
  <2> HIDE DEF c
  <2>4. x \in LinesIn[c]
    BY <1>2, <2>1, <2>2
  <2>5. server.content = c
    BY <2>1
  <2>6. \A d \in Devices : note[d] = c /\ base[d].content = c /\ row[d].hash = c /\ row[d].id = c
    BY <2>1, <2>3
  <2> QED
    BY <2>4, <2>5, <2>6 DEF Kept, Follows, Somewhere
<1> QED
  BY <1>3, <1>4

\* A merge of bodies keeps what the two sides added.
LEMMA SyncLines ==
  ASSUME Types, LinesInv, NothingTorn, NEW d \in Devices, Sync(d)
  PROVE  LinesInv'
<1>1. PICK n \in Nat : n = Limit
  BY DEF Types, Limit
<1>2. Typed(n) /\ (~server.known => server.content = Blank)
  BY <1>1 DEF Types, Typed
<1>3. conf' = conf /\ live' = live
  BY <1>2, SyncLeft DEF Left
<1> SUFFICES ASSUME BodiesMerge', NEW x \in live PROVE Kept(x, LinesIn)'
  BY <1>3 DEF LinesInv
<1>4. BodiesMerge /\ Kept(x, LinesIn)
  BY <1>3 DEF LinesInv, BodiesMerge, Merging
<1>5. ASSUME NEW e, Wrote(n, base[d].content, note[d], server.content, e)
      PROVE  /\ e.action \in {"write", "safe-hold"}
             /\ e.action = "write" /\ server.known /\ (x \in LinesIn[note[d]] \/ x \in LinesIn[server.content])
                    => x \in LinesIn[e.content]
  <2>1. e.action \in {"write", "safe-hold"} /\ e.content \in Content(n)
    BY <1>4, <1>5 DEF Wrote, BodiesMerge
  <2>2. /\ x \in LinesIn[e.content] <=> InBody(x, e.content.body)
        /\ x \in LinesIn[note[d]] <=> InBody(x, note[d].body)
        /\ x \in LinesIn[server.content] <=> InBody(x, server.content.body)
        /\ x \in LinesIn[base[d].content] <=> InBody(x, base[d].content.body)
    BY <1>2, <2>1, SameLeft, OfIs
  <2>3. Owed(x, base[d].content.body, note[d].body, server.content.body)
    BY <1>4, <2>2 DEF Kept, Follows, Somewhere, NothingTorn, Owed
  <2>4. ASSUME e.action = "write", InBody(x, note[d].body) \/ InBody(x, server.content.body)
        PROVE  InBody(x, e.content.body)
    <3>1. \A y : Owed(y, base[d].content.body, note[d].body, server.content.body)
                 /\ (InBody(y, note[d].body) \/ InBody(y, server.content.body)) => InBody(y, e.content.body)
      BY <1>4, <1>5, <2>4 DEF Wrote, BodiesMerge
    <3> QED
      BY <2>3, <2>4, <3>1
  <2> QED
    BY <2>1, <2>2, <2>4
<1>6. x \notin LinesIn[Blank]
  BY BlankHas
<1> QED
  BY <1>2, <1>4, <1>5, <1>6, SyncKept DEF Kept, Keeps

\* A note that is edited keeps its lines, but for what the user takes out of it.
LEMMA BodyEdited ==
  ASSUME NEW n \in Nat, n = Limit, Typed(n), LinesInv, NEW d \in Devices,
         NEW m \in Nat, NEW c \in Content(m), NEW lines, NEW items, Edit(d, c, lines, items),
         \A x \in lines : \/ x = n /\ InBody(x, c.body)
                          \/ x \in live /\ (InBody(x, note[d].body) => InBody(x, c.body))
  PROVE  LinesInv'
<1>1. conf' = conf /\ live' = lines
  BY DEF Edit
<1>2. \A x : /\ x \in LinesIn[c] <=> InBody(x, c.body)
             /\ x \in LinesIn[note[d]] <=> InBody(x, note[d].body)
  BY OfIs, SameLeft
<1> SUFFICES ASSUME BodiesMerge', NEW x \in lines PROVE Kept(x, LinesIn)'
  BY <1>1 DEF LinesInv
<1>3. \A y \in live : Kept(y, LinesIn)
  BY <1>1 DEF LinesInv, BodiesMerge, Merging
<1>4. \/ x = n /\ x \in LinesIn[c]
      \/ Kept(x, LinesIn) /\ (x \in LinesIn[note[d]] => x \in LinesIn[c])
  BY <1>2, <1>3
<1> QED
  BY <1>4, EditKept

\* A line that an edit of note d into c leaves alone: the one it writes, or one that stays
\* in each region it is in.
Spares(x, d, c) ==
    \/ x = Limit /\ InBody(x, c.body)
    \/ x \in live /\ \A j \in 1..2 : x \in ToSet(note[d].body[j]) => x \in ToSet(c.body[j])
Edited(m, d) == \E lines, items : \E c \in Content(m) : Edit(d, c, lines, items) /\ \A x \in lines : Spares(x, d, c)

\* One region replaced: what is not in the region stays.
LEMMA RegionEdited ==
  ASSUME NEW n \in Nat, n = Limit, NEW d \in Devices, NEW i \in 1..2,
         NEW m \in Nat, Typed(m), NEW s \in Seq(Atom(m)), NEW lines, NEW items, Edit(d, Replace(d, i, s), lines, items),
         \A x \in lines : \/ x = n /\ x \in ToSet(s)
                          \/ x \in live /\ (x \in ToSet(note[d].body[i]) => x \in ToSet(s))
  PROVE  Edited(m, d)
<1>1. PICK c \in Content(m) : c = Replace(d, i, s)
  BY RegionReplaced
<1>2. c.body[i] = s /\ \A j \in 1..2 : j # i => c.body[j] = note[d].body[j]
  BY <1>1, RegionReplaced
<1>3. ASSUME NEW x \in lines PROVE Spares(x, d, c)
  <2>1. CASE x = n /\ x \in ToSet(s)
    BY <1>2, <2>1 DEF Spares, InBody
  <2>2. CASE x \in live /\ (x \in ToSet(note[d].body[i]) => x \in ToSet(s))
    BY <1>2, <2>2 DEF Spares
  <2> QED
    BY <2>1, <2>2
<1>4. Edit(d, c, lines, items)
  BY <1>1
<1> QED
  BY <1>3, <1>4 DEF Edited

\* What a user does: an edit, or a command that takes one side.
LEMMA UserEdits ==
  ASSUME Types, NEW d \in Devices, User(d)
  PROVE  Edited(Limit + 1, d) \/ (Commanded(d) /\ Commands \cap {"force", "compare"} # {})
<1>1. PICK n \in Nat : n = Limit
  BY DEF Types, Limit
<1>2. Typed(n) /\ n = 10 + edits /\ edits \in Nat /\ live \subseteq Nat
  BY <1>1 DEF Types, Typed, Limit
<1>3. n + 1 \in Nat /\ n <= n + 1 /\ 10 + edits < n + 1 /\ Typed(n + 1)
  BY <1>2, TypedGrows
<1>4. PICK m \in Nat : m = n + 1
  BY <1>3
<1>5. Typed(m) /\ 10 + edits < m
  BY <1>3, <1>4
<1> SUFFICES Edited(m, d) \/ (Commanded(d) /\ Commands \cap {"force", "compare"} # {})
  BY <1>1, <1>4
\* The body stays as it is.
<1>6. ASSUME NEW c \in Content(m), NEW items, Edit(d, c, live, items), c.body = note[d].body PROVE Edited(m, d)
  <2>1. \A x \in live : Spares(x, d, c)
    BY <1>6 DEF Spares
  <2> QED
    BY <1>6, <2>1 DEF Edited
<1>7. CASE \E i \in {1, 2} : EditLine(d, i)
  <2>1. PICK i \in 1..2 : EditLine(d, i)
    BY <1>7
  <2>2. PICK new \in Seq(Atom(m)) :
            /\ ToSet(new) \subseteq {10 + edits}
            /\ Edit(d, Replace(d, i, new), (live \ ToSet(note[d].body[i])) \cup ToSet(new), tags)
    BY <1>2, <1>5, <2>1, LineEdited
  <2>3. PICK lines : lines = (live \ ToSet(note[d].body[i])) \cup ToSet(new)
    OBVIOUS
  <2>4. \A x \in lines : \/ x = n /\ x \in ToSet(new)
                         \/ x \in live /\ (x \in ToSet(note[d].body[i]) => x \in ToSet(new))
    BY <1>2, <2>2, <2>3
  <2>5. Edit(d, Replace(d, i, new), lines, tags)
    BY <2>2, <2>3
  <2> QED
    BY <1>1, <1>5, <2>4, <2>5, RegionEdited
<1>8. CASE KeepOne(d)
  <2>1. PICK i \in 1..2, x \in Atom(m) :
            LET lines == {y \in ToSet(note[d].body[i]) : ~Marker(y)}
            IN  /\ x \in lines /\ <<x>> \in Seq(Atom(m))
                /\ Edit(d, Replace(d, i, <<x>>), live \ (lines \ {x}), tags)
    BY <1>5, <1>8, OneKept
  <2>2. PICK s \in Seq(Atom(m)) : s = <<x>>
    BY <2>1
  <2>3. ToSet(s) = {x}
    BY <2>2, OneLine
  <2>4. PICK left : left = live \ ({y \in ToSet(note[d].body[i]) : ~Marker(y)} \ {x})
    OBVIOUS
  <2>5. \A y \in left : y \in live /\ (y \in ToSet(note[d].body[i]) => y \in ToSet(s))
    BY <1>2, <2>3, <2>4 DEF Marker
  <2>6. Edit(d, Replace(d, i, s), left, tags)
    BY <2>1, <2>2, <2>4
  <2> QED
    BY <1>1, <1>2, <1>5, <2>5, <2>6, RegionEdited
<1>9. CASE HalveMarkers(d)
  <2>1. PICK i \in 1..2, s \in Seq(Atom(m)) : /\ Edit(d, Replace(d, i, s), live, tags)
                                              /\ ToSet(note[d].body[i]) = ToSet(s) \cup {Close}
    BY <1>5, <1>9, Halved
  <2>2. PICK lines : lines = live
    OBVIOUS
  <2>3. \A y \in lines : y \in live /\ (y \in ToSet(note[d].body[i]) => y \in ToSet(s))
    BY <1>2, <2>1, <2>2 DEF Close
  <2>4. Edit(d, Replace(d, i, s), lines, tags)
    BY <2>1, <2>2
  <2> QED
    BY <1>1, <1>2, <1>5, <2>3, <2>4, RegionEdited
<1>10. CASE BreakFrontmatter(d)
  <2>1. PICK c \in Content(m) : c.body = note[d].body /\ Edit(d, c, live, {Untracked})
    BY <1>5, <1>10, Broken
  <2> QED
    BY <1>6, <2>1
<1>11. CASE EditTitle(d)
  <2>1. PICK t \in Maps(m) : Field(d, t) \in Content(m) /\ Edit(d, Field(d, t), live, tags)
    BY <1>2, <1>5, <1>11, TitleEdited
  <2>2. Field(d, t).body = note[d].body
    BY <1>5, FieldIs
  <2> QED
    BY <1>6, <2>1, <2>2
<1>12. CASE EditTags(d)
  <2>1. PICK c \in Content(m) : c.body = note[d].body /\ \E items : Edit(d, c, live, items)
    <3> DEFINE t(new) == [note[d].fm.map EXCEPT !["tags"] = new]
    <3>1. PICK new, items : Field(d, t(new)) \in Content(m) /\ Edit(d, Field(d, t(new)), live, items)
      BY <1>2, <1>5, <1>12, TagsEdited
    <3>2. Field(d, t(new)).body = note[d].body
      <4>1. PICK c \in Content(m) : c = note[d]
        BY <1>5, SameLeft
      <4>2. PICK z : z = t(new)
        OBVIOUS
      <4>3. c = [fm |-> c.fm, body |-> c.body]
        BY DEF Content
      <4>4. Field(d, z) = [c EXCEPT !.fm.map = z]
        BY <4>1 DEF Field
      <4>5. Field(d, z).body = c.body
        BY <4>3, <4>4
      <4> QED
        BY <4>1, <4>2, <4>5
    <3> QED
      BY <3>1, <3>2
  <2> QED
    BY <1>6, <2>1
<1>13. ASSUME NEW choice, ForceResolve(d, choice) PROVE Commanded(d) /\ Commands \cap {"force", "compare"} # {}
  BY <1>13, CommandsTake DEF ForceResolve
<1>14. CASE CompareCommand(d)
  BY <1>14, CommandsTake DEF CompareCommand
<1> QED
  BY <1>7, <1>8, <1>9, <1>10, <1>11, <1>12, <1>13, <1>14 DEF User

LEMMA UserLines ==
  ASSUME Types, LinesInv, NEW d \in Devices, User(d)
  PROVE  LinesInv'
<1>1. PICK n \in Nat : n = Limit
  BY DEF Types, Limit
<1>2. Typed(n) /\ n + 1 \in Nat
  BY <1>1 DEF Types, Typed
<1>3. CASE Edited(n + 1, d)
  <2>0. PICK lines, items : \E c \in Content(n + 1) : Edit(d, c, lines, items) /\ \A x \in lines : Spares(x, d, c)
    BY <1>3 DEF Edited
  <2>1. PICK c \in Content(n + 1) : Edit(d, c, lines, items) /\ \A x \in lines : Spares(x, d, c)
    BY <2>0
  <2>2. \A x \in lines : \/ x = n /\ InBody(x, c.body)
                         \/ x \in live /\ (InBody(x, note[d].body) => InBody(x, c.body))
    BY <1>1, <2>1 DEF Spares, InBody
  <2> QED
    BY <1>1, <1>2, <2>1, <2>2, BodyEdited
<1>4. CASE Commanded(d)
  <2>1. Taken(d) /\ conf' = conf
    BY <1>4 DEF Commanded
  <2>2. PICK c \in Content(n) :
            /\ row' = [row EXCEPT ![d] = Row(c)] /\ Discards(d, c)
            /\ note' = [note EXCEPT ![d] = c]
            /\ server'.content = c
            /\ base' = base \/ base' = [base EXCEPT ![d] = Base(c)]
    BY <1>2, <2>1, TakenIs
  <2> SUFFICES ASSUME BodiesMerge', NEW x \in live' PROVE Kept(x, LinesIn)'
    BY DEF LinesInv
  <2>3. x \in live /\ x \notin (Lines(note[d]) \cup Lines(server.content)) \ Lines(c)
    BY <2>2 DEF Discards
  <2>4. Kept(x, LinesIn)
    BY <2>1, <2>3 DEF LinesInv, BodiesMerge, Merging
  <2>5. LinesIn[c] = Lines(c) /\ LinesIn[note[d]] = Lines(note[d]) /\ LinesIn[server.content] = Lines(server.content)
    BY <1>2, SameLeft, OfIs
  <2>6. x \in LinesIn[note[d]] \/ x \in LinesIn[server.content] => x \in LinesIn[c]
    BY <2>3, <2>5
  <2> QED
    BY <1>2, <2>2, <2>4, <2>6, TakenKept DEF Kept, Keeps
<1> QED
  BY <1>1, <1>3, <1>4, UserEdits

LEMMA SettleLines ==
  ASSUME Types, LinesInv, NEW d \in Devices, Settle(d)
  PROVE  LinesInv'
<1>1. PICK n \in Nat : n = Limit
  BY DEF Types, Limit
<1>2. Typed(n) /\ live \subseteq Nat
  BY <1>1 DEF Types, Typed
<1>3. PICK i \in 1..2, s \in Seq(Atom(n)) :
         /\ note' = [note EXCEPT ![d] = Replace(d, i, s)] /\ Replace(d, i, s) \in Content(n)
         /\ ToSet(s) = {x \in ToSet(note[d].body[i]) : ~Marker(x)}
  BY <1>2, Settled
<1>4. /\ conf' = conf /\ server' = server /\ row' = row /\ base' = base /\ live' = live
  BY <1>2, Settled
<1>5. PICK c \in Content(n) : c = Replace(d, i, s)
  BY <1>3
<1>6. /\ c.body[i] = s /\ \A j \in 1..2 : j # i => c.body[j] = note[d].body[j]
      /\ note' = [note EXCEPT ![d] = c]
  BY <1>2, <1>3, <1>5, RegionReplaced
<1> SUFFICES ASSUME BodiesMerge', NEW x \in live PROVE Kept(x, LinesIn)'
  BY <1>4 DEF LinesInv
<1>7. Kept(x, LinesIn)
  BY <1>4 DEF LinesInv, BodiesMerge, Merging
<1>8. InBody(x, note[d].body) => InBody(x, c.body)
  BY <1>2, <1>3, <1>6 DEF InBody, Marker
<1>9. x \in LinesIn[note[d]] => x \in LinesIn[c]
  BY <1>2, <1>8, SameLeft, OfIs
<1> QED
  BY <1>2, <1>4, <1>6, <1>7, <1>9, NoteKept DEF Kept, Keeps

LEMMA LinesSaved == Types /\ LinesInv => WritingIsNeverLost
<1> SUFFICES ASSUME Types, LinesInv, BodiesMerge, NEW x \in live PROVE x \in UNION {Lines(c) : c \in Contents}
  BY DEF WritingIsNeverLost, BodiesMerge
<1>1. PICK n \in Nat : n = Limit
  BY DEF Types, Limit
<1>2. Typed(n)
  BY <1>1 DEF Types, Typed
<1>3. Kept(x, LinesIn)
  BY DEF LinesInv
<1>4. LinesIn[server.content] = Lines(server.content) /\ \A d \in Devices : LinesIn[note[d]] = Lines(note[d])
  BY <1>2, SameLeft, OfIs DEF Typed, Bases
<1> QED
  BY <1>3, <1>4 DEF Kept, Follows, Somewhere, Contents

LEMMA LinesNext == Types /\ LinesInv /\ NothingTorn /\ [Next]_vars => LinesInv'
<1> SUFFICES ASSUME Types, LinesInv, NothingTorn, [Next]_vars PROVE LinesInv'
  OBVIOUS
<1>1. CASE UNCHANGED vars
  BY <1>1 DEF vars, LinesInv, BodiesMerge, Merging, Kept, Follows, Somewhere
<1> QED
  BY <1>1, SyncLines, UserLines, SettleLines DEF Next

\* While no device merges a line of which each side dropped another standing, a line
\* some user wrote and none removed is in a note or on the server.
THEOREM WritingKept == Spec /\ []NothingTorn => []WritingIsNeverLost
BY LinesNext, InitTypes, NextTypes, InitLines, LinesSaved, PTL DEF Spec

\* All of the safety of merges, under the same condition.
THEOREM ConflictSafe == Spec /\ []NothingTorn => []Safety
<1>1. TypeOK /\ WritingIsNeverLost /\ TagsAreNeverLost => Safety
  BY DEF Safety
<1> QED
  BY <1>1, ConflictTyped, WritingKept, TagsKept, PTL

-----------------------------------------------------------------------------
(* Standings.  A line that is in the first region of a body goes nowhere else:     *)
(* diff3 merges each region alone, a union joins the regions one by one, and a     *)
(* body marked as a whole has all of its lines in the first.  So an ancestor that  *)
(* has a line twice has sides that both have the first one, and nothing is torn.   *)

FirstIn == [c \in All |-> ToSet(c.body[1])]
FirstInv == BodiesMerge => \A x \in live : Follows(x, FirstIn)

\* A command takes a side which has a line further down only, where the other has it
\* first, so that the line does not go with the side given up.
Uproots ==
    /\ BodiesMerge
    /\ \E x \in live' : \/ x \in FirstIn[server.content] /\ x \notin FirstIn[server'.content]
                        \/ \E d \in Devices : x \in FirstIn[note[d]] /\ x \notin FirstIn[note'[d]]
Untaken == Commands \cap {"force", "compare"} = {}

LEMMA FirstIs ==
  ASSUME NEW n \in Nat, NEW c \in Content(n)
  PROVE  FirstIn[c] = ToSet(c.body[1]) /\ FirstIn[c] \subseteq Atom(n)
<1>1. c \in All
  BY DEF All
<1>2. FirstIn[c] = ToSet(c.body[1])
  BY <1>1 DEF FirstIn
<1>3. c.body[1] \in Seq(Atom(n))
  BY DEF Content, Bodies
<1> QED
  BY <1>2, <1>3, ToSetIn

LEMMA BlankFirst == \A x : x \notin FirstIn[Blank]
<1>1. 0 \in Nat /\ Blank \in Content(0)
  BY BlankTyped
<1>2. \A x : ~InBody(x, Blank.body)
  BY <1>1, OfIs, BlankHas
<1>3. \A x : x \notin ToSet(Blank.body[1])
  BY <1>2 DEF InBody
<1> QED
  BY <1>1, <1>3, FirstIs

LEMMA InitFirst == Init => FirstInv
<1> SUFFICES ASSUME Init, NEW x \in live PROVE Follows(x, FirstIn)
  BY DEF FirstInv
<1>1. PICK start \in Starts, own \in [Devices -> {<<1>>, <<3>>}] :
           LET c == IF start = "empty" THEN Note(<<<<>>, <<>>>>) ELSE TwoLines
               first == [d \in Devices |-> Note(<<own[d], <<2>>>>)]
           IN  IF start = "first"
               THEN /\ edits = 2 /\ note = first /\ server = NoServer
                    /\ row = [d \in Devices |-> NoRow] /\ base = [d \in Devices |-> NoBase]
                    /\ live = UNION {Lines(first[d]) : d \in Devices}
               ELSE /\ edits = 0 /\ note = [d \in Devices |-> c] /\ server = [known |-> TRUE, content |-> c]
                    /\ row = [d \in Devices |-> Row(c)] /\ base = [d \in Devices |-> Base(c)]
                    /\ live = Lines(c)
  BY DEF Init
<1>2. CASE start = "first"
  <2>1. row = [d \in Devices |-> NoRow] /\ base = [d \in Devices |-> NoBase]
    BY <1>1, <1>2
  <2>2. \A d \in Devices : base[d].content = Blank /\ row[d].hash = Blank /\ row[d].id = Blank
    BY <2>1 DEF NoBase, NoRow
  <2> QED
    BY <2>2, BlankFirst DEF Follows
<1>3. CASE start # "first"
  <2> DEFINE c == IF start = "empty" THEN Note(<<<<>>, <<>>>>) ELSE TwoLines
  <2>1. /\ note = [d \in Devices |-> c] /\ server = [known |-> TRUE, content |-> c]
        /\ row = [d \in Devices |-> Row(c)] /\ base = [d \in Devices |-> Base(c)]
    BY <1>1, <1>3
  <2>2. Row(c).hash = c /\ Row(c).id = c /\ Base(c).content = c
    BY DEF Row, Base
  <2> HIDE DEF c
  <2>3. server.content = c
    BY <2>1
  <2>4. \A d \in Devices : note[d] = c /\ base[d].content = c /\ row[d].hash = c /\ row[d].id = c
    BY <2>1, <2>2
  <2> QED
    BY <2>3, <2>4 DEF Follows
<1> QED
  BY <1>2, <1>3

LEMMA SyncFirst ==
  ASSUME Types, FirstInv, NEW d \in Devices, Sync(d)
  PROVE  FirstInv'
<1>1. PICK n \in Nat : n = Limit
  BY DEF Types, Limit
<1>2. Typed(n) /\ (~server.known => server.content = Blank)
  BY <1>1 DEF Types, Typed
<1>3. conf' = conf /\ live' = live
  BY <1>2, SyncLeft DEF Left
<1> SUFFICES ASSUME BodiesMerge', NEW x \in live PROVE Follows(x, FirstIn)'
  BY <1>3 DEF FirstInv
<1>4. BodiesMerge /\ Follows(x, FirstIn)
  BY <1>3 DEF FirstInv, BodiesMerge, Merging
<1>5. ASSUME NEW e, Wrote(n, base[d].content, note[d], server.content, e)
      PROVE  /\ e.action \in {"write", "safe-hold"}
             /\ e.action = "write" /\ server.known /\ (x \in FirstIn[note[d]] \/ x \in FirstIn[server.content])
                    => x \in FirstIn[e.content]
  <2>1. e.action \in {"write", "safe-hold"} /\ e.content \in Content(n)
    BY <1>4, <1>5 DEF Wrote, BodiesMerge
  <2>2. /\ FirstIn[e.content] = ToSet(e.content.body[1])
        /\ FirstIn[note[d]] = ToSet(note[d].body[1])
        /\ FirstIn[server.content] = ToSet(server.content.body[1])
        /\ FirstIn[base[d].content] = ToSet(base[d].content.body[1])
    BY <1>2, <2>1, SameLeft, FirstIs
  <2>3. Upheld(x, base[d].content.body, note[d].body, server.content.body)
    BY <1>4, <2>2 DEF Follows, Upheld
  <2>4. ASSUME e.action = "write", x \in ToSet(note[d].body[1]) \cup ToSet(server.content.body[1])
        PROVE  x \in ToSet(e.content.body[1])
    <3>1. \A y : Upheld(y, base[d].content.body, note[d].body, server.content.body)
                 /\ y \in ToSet(note[d].body[1]) \cup ToSet(server.content.body[1]) => y \in ToSet(e.content.body[1])
      BY <1>4, <1>5, <2>4 DEF Wrote, BodiesMerge
    <3> QED
      BY <2>3, <2>4, <3>1
  <2> QED
    BY <2>1, <2>2, <2>4
<1>6. x \notin FirstIn[Blank]
  BY BlankFirst
<1> QED
  BY <1>2, <1>4, <1>5, <1>6, SyncKept DEF Keeps

\* An edit, or the settling of a region: what stays in the note stays where it is.
LEMMA NoteFirst ==
  ASSUME NEW n \in Nat, Typed(n), FirstInv, NEW d \in Devices, NEW m \in Nat, NEW c \in Content(m), NEW x,
         BodiesMerge, note' = [note EXCEPT ![d] = c], server' = server, row' = row, base' = base,
         x = n \/ (x \in live /\ (x \in ToSet(note[d].body[1]) => x \in ToSet(c.body[1])))
  PROVE  Follows(x, FirstIn)'
<1>1. CASE x = n
  <2>1. \A e \in Content(n) : x \notin FirstIn[e]
    BY <1>1, FirstIs DEF Atom
  <2>2. \A e \in Devices : base[e].content \in Content(n) /\ row[e].hash \in Content(n) /\ row[e].id \in Content(n)
    BY SameLeft
  <2> QED
    BY <2>1, <2>2 DEF Follows
<1>2. CASE x \in live /\ (x \in ToSet(note[d].body[1]) => x \in ToSet(c.body[1]))
  <2>1. Follows(x, FirstIn)
    BY <1>2 DEF FirstInv
  <2>2. x \in FirstIn[note[d]] => x \in FirstIn[c]
    BY <1>2, SameLeft, FirstIs
  <2> QED
    BY <2>1, <2>2, NoteKept DEF Keeps
<1> QED
  BY <1>1, <1>2

LEMMA UserFirst ==
  ASSUME Types, FirstInv, NEW d \in Devices, User(d), Untaken \/ ~Uproots
  PROVE  FirstInv'
<1>1. PICK n \in Nat : n = Limit
  BY DEF Types, Limit
<1>2. Typed(n) /\ n + 1 \in Nat
  BY <1>1 DEF Types, Typed
<1>3. CASE Edited(n + 1, d)
  <2>0. PICK lines, items : \E c \in Content(n + 1) : Edit(d, c, lines, items) /\ \A x \in lines : Spares(x, d, c)
    BY <1>3 DEF Edited
  <2>1. PICK c \in Content(n + 1) : Edit(d, c, lines, items) /\ \A x \in lines : Spares(x, d, c)
    BY <2>0
  <2>2. /\ note' = [note EXCEPT ![d] = c] /\ server' = server /\ row' = row /\ base' = base
        /\ conf' = conf /\ live' = lines
    BY <2>1 DEF Edit
  <2> SUFFICES ASSUME BodiesMerge', NEW x \in lines PROVE Follows(x, FirstIn)'
    BY <2>2 DEF FirstInv
  <2>3. BodiesMerge
    BY <2>2 DEF BodiesMerge, Merging
  <2>4. x = n \/ (x \in live /\ (x \in ToSet(note[d].body[1]) => x \in ToSet(c.body[1])))
    BY <1>1, <2>1 DEF Spares
  <2> QED
    BY <1>2, <2>2, <2>3, <2>4, NoteFirst
<1>4. CASE Commanded(d) /\ ~Uproots
  <2>1. Taken(d) /\ conf' = conf
    BY <1>4 DEF Commanded
  <2>2. PICK c \in Content(n) :
            /\ row' = [row EXCEPT ![d] = Row(c)] /\ Discards(d, c)
            /\ note' = [note EXCEPT ![d] = c]
            /\ server'.content = c
            /\ base' = base \/ base' = [base EXCEPT ![d] = Base(c)]
    BY <1>2, <2>1, TakenIs
  <2> SUFFICES ASSUME BodiesMerge', NEW x \in live' PROVE Follows(x, FirstIn)'
    BY DEF FirstInv
  <2>3. x \in live
    BY <2>2 DEF Discards
  <2>4. BodiesMerge /\ Follows(x, FirstIn)
    BY <2>1, <2>3 DEF FirstInv, BodiesMerge, Merging
  <2>5. note'[d] = c
    BY <1>2, <2>2 DEF Typed
  <2>6. x \in FirstIn[note[d]] \/ x \in FirstIn[server.content] => x \in FirstIn[c]
    BY <1>4, <2>2, <2>4, <2>5 DEF Uproots
  <2> QED
    BY <1>2, <2>2, <2>4, <2>6, TakenKept DEF Keeps
<1> QED
  BY <1>1, <1>3, <1>4, UserEdits DEF Untaken

LEMMA SettleFirst ==
  ASSUME Types, FirstInv, NEW d \in Devices, Settle(d)
  PROVE  FirstInv'
<1>1. PICK n \in Nat : n = Limit
  BY DEF Types, Limit
<1>2. Typed(n) /\ live \subseteq Nat
  BY <1>1 DEF Types, Typed
<1>3. PICK i \in 1..2, s \in Seq(Atom(n)) :
         /\ note' = [note EXCEPT ![d] = Replace(d, i, s)] /\ Replace(d, i, s) \in Content(n)
         /\ ToSet(s) = {x \in ToSet(note[d].body[i]) : ~Marker(x)}
  BY <1>2, Settled
<1>4. /\ conf' = conf /\ server' = server /\ row' = row /\ base' = base /\ live' = live
  BY <1>2, Settled
<1>5. PICK c \in Content(n) : c = Replace(d, i, s)
  BY <1>3
<1>6. /\ c.body[i] = s /\ \A j \in 1..2 : j # i => c.body[j] = note[d].body[j]
      /\ note' = [note EXCEPT ![d] = c]
  BY <1>2, <1>3, <1>5, RegionReplaced
<1> SUFFICES ASSUME BodiesMerge', NEW x \in live PROVE Follows(x, FirstIn)'
  BY <1>4 DEF FirstInv
<1>7. BodiesMerge
  BY <1>4 DEF BodiesMerge, Merging
<1>8. x \in ToSet(note[d].body[1]) => x \in ToSet(c.body[1])
  BY <1>2, <1>3, <1>6 DEF Marker
<1> QED
  BY <1>2, <1>4, <1>6, <1>7, <1>8, NoteFirst

LEMMA FirstNext == Types /\ FirstInv /\ [Next]_vars /\ (Untaken \/ [~Uproots]_vars) => FirstInv'
<1>1. ASSUME FirstInv, UNCHANGED vars PROVE FirstInv'
  BY <1>1 DEF vars, FirstInv, BodiesMerge, Merging, Follows
<1>2. ASSUME Types, FirstInv, Next, Untaken \/ ~Uproots PROVE FirstInv'
  BY <1>2, SyncFirst, UserFirst, SettleFirst DEF Next
<1> QED
  BY <1>1, <1>2

LEMMA FirstHolds == Types /\ FirstInv => NothingTorn
<1> SUFFICES ASSUME Types, FirstInv, BodiesMerge, NEW d \in Devices, NEW x \in live
             PROVE  ~Torn(x, base[d].content.body, note[d].body, server.content.body)
  BY DEF NothingTorn
<1>1. PICK n \in Nat : n = Limit
  BY DEF Types, Limit
<1>2. Typed(n)
  BY <1>1 DEF Types, Typed
<1>3. /\ FirstIn[note[d]] = ToSet(note[d].body[1])
      /\ FirstIn[server.content] = ToSet(server.content.body[1])
      /\ FirstIn[base[d].content] = ToSet(base[d].content.body[1])
  BY <1>2, SameLeft, FirstIs
<1>4. x \in ToSet(base[d].content.body[1]) => x \in ToSet(note[d].body[1]) /\ x \in ToSet(server.content.body[1])
  BY <1>3 DEF FirstInv, Follows
<1> QED
  BY <1>4 DEF Torn

\* The one way to tear a line is a command: as long as none takes a side that has a
\* line further down than the side given up, no merge finds a line of its ancestor of
\* which each side has dropped another standing.
THEOREM TornByCommands == Spec /\ [][~Uproots]_vars => []NothingTorn
BY FirstNext, FirstHolds, InitTypes, NextTypes, InitFirst, PTL DEF Spec

\* Without such a command the safety of merges has no other condition.
THEOREM SafeUnlessUprooted == Spec /\ [][~Uproots]_vars => []Safety
BY TornByCommands, ConflictSafe, PTL

\* Nor where the user settles conflicts in the note, with neither of the commands that
\* take a side whole, for any settings, starts, devices, edits and failed pushes.
THEOREM SafeWithoutCommands == ASSUME Untaken PROVE Spec => []Safety
<1>1. Types /\ FirstInv /\ [Next]_vars => FirstInv'
  BY FirstNext
<1>2. Spec => []NothingTorn
  BY <1>1, FirstHolds, InitTypes, NextTypes, InitFirst, PTL DEF Spec
<1> QED
  BY <1>2, ConflictSafe, PTL
=============================================================================
