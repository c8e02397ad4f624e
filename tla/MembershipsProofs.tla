-------------------------- MODULE MembershipsProofs --------------------------
(* Proofs about Memberships, for any documents, memberships and bounds.        *)
EXTENDS Memberships, TLAPS

-----------------------------------------------------------------------------
(* Paths, along the parents par.                                              *)

Parents == [Docs -> Docs \cup {NoDoc}]

PathOf(par, d) ==
    {x \in Docs : \A S \in SUBSET Docs :
        d \in S /\ (\A y \in S : par[y] \in S \cup {NoDoc}) => x \in S}

\* The path of a document includes the document.
LEMMA PathSelf ==
    ASSUME NEW par, NEW d \in Docs
    PROVE  d \in PathOf(par, d) /\ PathOf(par, d) \subseteq Docs
  BY DEF PathOf

\* It includes the parents of all it includes.
LEMMA PathClosed ==
    ASSUME NEW par \in Parents, NEW d \in Docs, NEW y \in PathOf(par, d), par[y] # NoDoc
    PROVE  par[y] \in PathOf(par, d) /\ par[y] \in Docs
<1>1. y \in Docs /\ par[y] \in Docs
  BY DEF Parents, PathOf
<1> SUFFICES ASSUME NEW S \in SUBSET Docs, d \in S, \A z \in S : par[z] \in S \cup {NoDoc}
             PROVE  par[y] \in S
  BY <1>1 DEF PathOf
<1>2. y \in S
  BY DEF PathOf
<1> QED
  BY <1>2

\* It is part of every set that has these two properties.
LEMMA PathLeast ==
    ASSUME NEW par \in Parents, NEW d \in Docs, NEW S, d \in S,
           \A y \in S : y \in Docs /\ par[y] # NoDoc => par[y] \in S
    PROVE  PathOf(par, d) \subseteq S
<1> DEFINE T == S \cap Docs
<1>1. d \in T /\ T \in SUBSET Docs /\ \A y \in T : par[y] \in T \cup {NoDoc}
  BY DEF Parents
<1> HIDE DEF T
<1>2. PathOf(par, d) \subseteq T
  BY <1>1 DEF PathOf
<1> QED
  BY <1>2 DEF T

\* The path of a document above another one is part of the other's path.
LEMMA PathAbove ==
    ASSUME NEW par \in Parents, NEW d \in Docs, NEW x \in PathOf(par, d)
    PROVE  PathOf(par, x) \subseteq PathOf(par, d) /\ x \in Docs
<1>1. x \in Docs
  BY PathSelf
<1>2. \A y \in PathOf(par, d) : y \in Docs /\ par[y] # NoDoc => par[y] \in PathOf(par, d)
  BY PathClosed
<1> QED
  BY <1>1, <1>2, PathLeast

\* A path is the document and the path of its parent.
LEMMA PathStep ==
    ASSUME NEW par \in Parents, NEW d \in Docs
    PROVE  /\ par[d] = NoDoc => PathOf(par, d) = {d}
           /\ par[d] # NoDoc => /\ par[d] \in Docs
                                /\ PathOf(par, d) = {d} \cup PathOf(par, par[d])
<1>1. CASE par[d] = NoDoc
  <2> DEFINE S == {d}
  <2>1. d \in S /\ \A y \in S : y \in Docs /\ par[y] # NoDoc => par[y] \in S
    BY <1>1
  <2> HIDE DEF S
  <2>2. PathOf(par, d) \subseteq S
    BY <2>1, PathLeast
  <2> QED
    BY <1>1, <2>2, PathSelf DEF S
<1>2. CASE par[d] # NoDoc
  <2> DEFINE p == par[d]
             S == {d} \cup PathOf(par, p)
  <2>1. p \in Docs
    BY <1>2 DEF Parents
  <2>2. \A y \in PathOf(par, p) : par[y] # NoDoc => par[y] \in PathOf(par, p)
    BY <2>1, PathClosed
  <2>3. p \in PathOf(par, p)
    BY <2>1, PathSelf
  <2>4. d \in S /\ \A y \in S : y \in Docs /\ par[y] # NoDoc => par[y] \in S
    BY <2>2, <2>3
  <2> HIDE DEF S
  <2>5. PathOf(par, d) \subseteq S
    BY <2>4, PathLeast
  <2>6. p \in PathOf(par, d)
    BY <1>2, PathSelf, PathClosed
  <2>7. PathOf(par, p) \subseteq PathOf(par, d)
    BY <2>6, PathAbove
  <2> QED
    BY <1>2, <2>1, <2>5, <2>7, PathSelf DEF S
<1> QED
  BY <1>1, <1>2

\* Paths that do not lead over a document stay the same when its parent changes.
LEMMA PathStays ==
    ASSUME NEW old \in Parents, NEW new \in Parents, NEW d \in Docs,
           \A x \in Docs \ {d} : new[x] = old[x], NEW x \in Docs, d \notin PathOf(old, x)
    PROVE  PathOf(new, x) = PathOf(old, x)
<1> DEFINE A == PathOf(old, x)
           B == PathOf(new, x)
<1>1. x \in A /\ x \in B /\ A \subseteq Docs /\ B \subseteq Docs
  BY PathSelf
<1>2. /\ \A y \in A : old[y] # NoDoc => old[y] \in A
      /\ \A y \in B : new[y] # NoDoc => new[y] \in B
  BY PathClosed
<1> HIDE DEF A, B
<1>3. B \subseteq A
  <2>1. \A y \in A : y \in Docs /\ new[y] # NoDoc => new[y] \in A
    BY <1>1, <1>2 DEF A
  <2> QED
    BY <1>1, <2>1, PathLeast DEF B
<1>4. \A y \in B : y \in Docs /\ old[y] # NoDoc => old[y] \in B
  BY <1>1, <1>2, <1>3 DEF A
<1>5. A \subseteq B
  BY <1>1, <1>4, PathLeast DEF A
<1> QED
  BY <1>3, <1>5 DEF A, B

\* No document is above itself.
Loopless(par) == \A x \in Docs : par[x] # NoDoc => x \notin PathOf(par, par[x])

\* This stays so when a document is put under one that it is not above.
LEMMA LooplessMove ==
    ASSUME NEW old \in Parents, NEW new \in Parents, NEW d \in Docs, Loopless(old),
           \A x \in Docs \ {d} : new[x] = old[x],
           new[d] # NoDoc => d \notin PathOf(old, new[d])
    PROVE  Loopless(new)
<1> SUFFICES ASSUME NEW x \in Docs, new[x] # NoDoc, x \in PathOf(new, new[x]) PROVE FALSE
  BY DEF Loopless
<1> DEFINE q == new[x]
<1>1. q \in Docs
  BY DEF Parents
<1>2. CASE d \notin PathOf(old, q)
  <2>1. x \in PathOf(old, q)
    BY <1>1, <1>2, PathStays
  <2>2. x # d
    BY <1>2, <2>1
  <2> QED
    BY <2>1, <2>2 DEF Loopless
<1>3. CASE d \in PathOf(old, q)
  <2>1. x # d
    BY <1>3
  <2>2. old[x] = q /\ x \notin PathOf(old, q)
    BY <2>1 DEF Loopless
  <2>3. d \in PathOf(old, x)
    BY <1>1, <1>3, <2>2, PathStep
  <2> DEFINE P == IF new[d] = NoDoc THEN {} ELSE PathOf(old, new[d])
             S == PathOf(old, q) \cup P
  <2>4. new[d] # NoDoc => new[d] \in Docs /\ new[d] \in PathOf(old, new[d])
    BY PathSelf DEF Parents
  <2>5. \A y \in PathOf(old, q) : old[y] # NoDoc => old[y] \in PathOf(old, q)
    BY <1>1, PathClosed
  <2>6. \A y \in P : old[y] # NoDoc => old[y] \in P
    BY <2>4, PathClosed
  <2>7. q \in S
    BY <1>1, PathSelf
  <2>8. \A y \in S : y \in Docs /\ new[y] # NoDoc => new[y] \in S
    BY <2>4, <2>5, <2>6
  <2> HIDE DEF S
  <2>9. x \in S
    BY <1>1, <2>7, <2>8, PathLeast
  <2>10. new[d] # NoDoc /\ x \in PathOf(old, new[d])
    BY <2>2, <2>9 DEF S
  <2>11. d \in PathOf(old, new[d])
    BY <2>3, <2>4, <2>10, PathAbove
  <2> QED
    BY <2>10, <2>11
<1> QED
  BY <1>2, <1>3

\* Of two documents on one path one is on the path of the other.
LEMMA PathLinear ==
    ASSUME NEW par \in Parents, NEW x \in Docs, NEW a \in PathOf(par, x), NEW b \in PathOf(par, x)
    PROVE  a \in PathOf(par, b) \/ b \in PathOf(par, a)
<1> DEFINE S == {y \in Docs : a \in PathOf(par, y)} \cup PathOf(par, a)
<1>1. a \in Docs /\ a \in PathOf(par, a)
  BY PathSelf
<1>2. \A y \in PathOf(par, a) : y \in Docs /\ par[y] # NoDoc => par[y] \in PathOf(par, a)
  BY <1>1, PathClosed
<1>3. \A y \in S : y \in Docs /\ par[y] # NoDoc => par[y] \in S
  <2> SUFFICES ASSUME NEW y \in Docs, a \in PathOf(par, y), par[y] # NoDoc
               PROVE  par[y] \in S
    BY <1>2
  <2>1. par[y] \in Docs /\ PathOf(par, y) = {y} \cup PathOf(par, par[y])
    BY PathStep
  <2> QED
    BY <1>1, <1>2, <2>1
<1>4. x \in S
  OBVIOUS
<1> HIDE DEF S
<1>5. PathOf(par, x) \subseteq S
  BY <1>3, <1>4, PathLeast
<1> QED
  BY <1>5 DEF S

\* Two documents are not above each other.
LEMMA PathAntisym ==
    ASSUME NEW par \in Parents, Loopless(par), NEW a \in Docs, NEW b \in PathOf(par, a),
           a \in PathOf(par, b)
    PROVE  a = b
<1> SUFFICES ASSUME a # b PROVE FALSE
  OBVIOUS
<1>1. par[a] # NoDoc /\ par[a] \in Docs /\ PathOf(par, a) = {a} \cup PathOf(par, par[a])
  BY PathStep
<1>2. b \in PathOf(par, par[a])
  BY <1>1
<1>3. a \in PathOf(par, par[a])
  BY <1>1, <1>2, PathAbove
<1> QED
  BY <1>1, <1>3 DEF Loopless

\* x and what is above it up to r.
Stretch(par, x, r) == {y \in PathOf(par, x) : r \in PathOf(par, y)}

\* A stretch that starts further up is part of the longer one, one that ends earlier too.
LEMMA StretchPart ==
    ASSUME NEW par \in Parents, NEW x \in Docs, NEW r \in Docs
    PROVE  /\ \A y \in PathOf(par, x) : Stretch(par, y, r) \subseteq Stretch(par, x, r)
           /\ \A y \in Docs : r \in PathOf(par, y) =>
                 Stretch(par, x, y) \subseteq Stretch(par, x, r)
<1>1. \A y \in PathOf(par, x) : PathOf(par, y) \subseteq PathOf(par, x)
  BY PathAbove
<1>2. \A y \in Docs, z \in PathOf(par, x) :
          y \in PathOf(par, z) => PathOf(par, y) \subseteq PathOf(par, z)
  BY PathSelf, PathAbove
<1> QED
  BY <1>1, <1>2 DEF Stretch

\* Where the parent of d changes, the same paths lead over d.
LEMMA PathOver ==
    ASSUME NEW old \in Parents, NEW new \in Parents, NEW d \in Docs,
           \A x \in Docs \ {d} : new[x] = old[x], NEW x \in Docs
    PROVE  d \in PathOf(old, x) <=> d \in PathOf(new, x)
<1>1. d \notin PathOf(old, x) => PathOf(new, x) = PathOf(old, x)
  BY PathStays
<1>2. d \notin PathOf(new, x) => PathOf(old, x) = PathOf(new, x)
  <2>1. \A y \in Docs \ {d} : old[y] = new[y]
    OBVIOUS
  <2> QED
    BY <2>1, PathStays
<1> QED
  BY <1>1, <1>2

\* A path keeps what it does not reach over d.
LEMMA PathKept ==
    ASSUME NEW old \in Parents, NEW new \in Parents, NEW d \in Docs,
           \A x \in Docs \ {d} : new[x] = old[x], NEW x \in Docs,
           NEW r \in PathOf(old, x), d \notin PathOf(old, x) \/ r \notin PathOf(old, d)
    PROVE  r \in PathOf(new, x)
<1>1. CASE d \notin PathOf(old, x)
  BY <1>1, PathStays
<1>2. CASE r \notin PathOf(old, d)
  <2> DEFINE S == (PathOf(old, x) \cap PathOf(new, x)) \cup PathOf(old, d)
  <2>1. /\ \A y \in PathOf(old, x) : old[y] # NoDoc => old[y] \in PathOf(old, x)
        /\ \A y \in PathOf(old, d) : old[y] # NoDoc => old[y] \in PathOf(old, d)
        /\ \A y \in PathOf(new, x) : new[y] # NoDoc => new[y] \in PathOf(new, x)
    BY PathClosed
  <2>2. x \in S /\ d \in PathOf(old, d)
    BY PathSelf
  <2>3. \A y \in S : y \in Docs /\ old[y] # NoDoc => old[y] \in S
    BY <2>1, <2>2
  <2> HIDE DEF S
  <2>4. PathOf(old, x) \subseteq S
    BY <2>2, <2>3, PathLeast
  <2> QED
    BY <1>2, <2>4 DEF S
<1> QED
  BY <1>1, <1>2

\* A stretch that does not include d now was there before, and did not include d.
LEMMA StretchKept ==
    ASSUME NEW old \in Parents, Loopless(old), NEW new \in Parents, NEW d \in Docs,
           \A x \in Docs \ {d} : new[x] = old[x], NEW x \in Docs,
           NEW r \in PathOf(new, x), d \notin Stretch(new, x, r)
    PROVE  /\ r \in PathOf(old, x)
           /\ d \notin Stretch(old, x, r)
           /\ Stretch(old, x, r) \subseteq Stretch(new, x, r)
<1>0. r \in Docs /\ \A y \in Docs \ {d} : old[y] = new[y]
  BY PathSelf
<1>1. r \in PathOf(old, x)
  <2>1. d \notin PathOf(new, x) \/ r \notin PathOf(new, d)
    BY DEF Stretch
  <2> QED
    BY <1>0, <2>1, PathKept
<1>2. ~(d \in PathOf(old, x) /\ r \in PathOf(old, d))
  <2> SUFFICES ASSUME d \in PathOf(old, x), r \in PathOf(old, d) PROVE FALSE
    OBVIOUS
  <2>1. d \in PathOf(new, x)
    BY PathOver
  <2>2. r \notin PathOf(new, d)
    BY <2>1 DEF Stretch
  <2>3. d \in PathOf(new, r)
    BY <2>1, <2>2, PathLinear
  <2>4. d \in PathOf(old, r)
    BY <1>0, <2>3, PathOver
  <2>5. r = d
    BY <1>0, <2>4, PathAntisym
  <2> QED
    BY <2>2, <2>5, PathSelf
<1>3. ASSUME NEW y \in PathOf(old, x), r \in PathOf(old, y)
      PROVE  y \in PathOf(new, x) /\ r \in PathOf(new, y)
  <2>1. y \in Docs /\ PathOf(old, y) \subseteq PathOf(old, x)
    BY PathAbove
  <2>2. y \in PathOf(new, x)
    <3>1. y \in PathOf(old, d) => r \in PathOf(old, d)
      BY <1>3, PathAbove
    <3>2. d \notin PathOf(old, x) \/ y \notin PathOf(old, d)
      BY <1>2, <3>1
    <3> QED
      BY <3>2, PathKept
  <2>3. r \in PathOf(new, y)
    <3>1. d \notin PathOf(old, y) \/ r \notin PathOf(old, d)
      BY <1>2, <2>1
    <3> QED
      BY <1>3, <2>1, <3>1, PathKept
  <2> QED
    BY <2>2, <2>3
<1> QED
  BY <1>1, <1>2, <1>3 DEF Stretch

\* The stretches that end with d are the same.
LEMMA StretchTop ==
    ASSUME NEW old \in Parents, Loopless(old), NEW new \in Parents, NEW d \in Docs,
           \A x \in Docs \ {d} : new[x] = old[x], NEW x \in Docs
    PROVE  Stretch(old, x, d) \subseteq Stretch(new, x, d)
<1> SUFFICES ASSUME NEW y \in PathOf(old, x), d \in PathOf(old, y)
             PROVE  y \in PathOf(new, x) /\ d \in PathOf(new, y)
  BY DEF Stretch
<1>1. y \in Docs /\ PathOf(old, y) \subseteq PathOf(old, x)
  BY PathAbove
<1>2. d \in PathOf(new, y)
  BY <1>1, PathOver
<1>3. CASE y \in PathOf(old, d)
  <2>1. y = d
    BY <1>1, <1>3, PathAntisym
  <2> QED
    BY <1>1, <1>2, <2>1, PathOver
<1>4. CASE y \notin PathOf(old, d)
  BY <1>2, <1>4, PathKept
<1> QED
  BY <1>3, <1>4

-----------------------------------------------------------------------------
(* What is below a document.                                                  *)

LEMMA PathIs ==
    ASSUME NEW d
    PROVE  Path(d) = PathOf(parent, d) /\ Path(d)' = PathOf(parent', d)
<1> DEFINE Same(par) ==
             {x \in Docs : \A S \in SUBSET (Docs \ {x}) :
                 d \in S => \E y \in S : par[y] \notin S \cup {NoDoc}}
<1>1. ASSUME NEW par PROVE Same(par) = PathOf(par, d)
  <2>1. ASSUME NEW x \in Docs PROVE x \in Same(par) <=> x \in PathOf(par, d)
    <3>1. ASSUME x \in Same(par) PROVE x \in PathOf(par, d)
      BY <3>1 DEF PathOf
    <3>2. ASSUME x \in PathOf(par, d) PROVE x \in Same(par)
      BY <3>2 DEF PathOf
    <3> QED
      BY <3>1, <3>2
  <2> QED
    BY <2>1 DEF PathOf
<1>2. Path(d) = Same(parent) /\ Path(d)' = Same(parent')
  BY DEF Path
<1> HIDE DEF Same
<1> QED
  BY <1>1, <1>2

\* A document that is below another one has it on its path and is not the same.
LEMMA BelowHas ==
    ASSUME parent \in Parents, Loopless(parent), NEW among \in SUBSET Docs, NEW d \in Docs,
           NEW x \in BelowIn(among, d)
    PROVE  x \in among /\ d \in PathOf(parent, x) /\ x # d
<1> DEFINE S == {y \in among : parent[y] # NoDoc /\ d \in PathOf(parent, parent[y])}
<1>1. \A y \in among \ S : parent[y] \notin S \cup {d}
  <2> SUFFICES ASSUME NEW y \in among, parent[y] \in S \cup {d} PROVE y \in S
    OBVIOUS
  <2> DEFINE p == parent[y]
  <2>1. p \in Docs /\ parent[p] \in Docs \cup {NoDoc} /\ NoDoc \notin Docs
    BY ParametersAssumption DEF Parents
  <2>2. CASE p = d
    BY <2>1, <2>2, PathSelf
  <2>3. CASE p \in S
    <3>1. PathOf(parent, p) = {p} \cup PathOf(parent, parent[p])
      BY <2>1, <2>3, PathStep
    <3> QED
      BY <2>1, <2>3, <3>1
  <2> QED
    BY <2>2, <2>3
<1> HIDE DEF S
<1>2. x \in S
  <2>1. S \in SUBSET among
    BY DEF S
  <2> QED
    BY <1>1, <2>1 DEF BelowIn
<1>3. x \in among /\ parent[x] # NoDoc /\ d \in PathOf(parent, parent[x])
  BY <1>2 DEF S
<1>4. PathOf(parent, x) = {x} \cup PathOf(parent, parent[x])
  BY <1>3, PathStep
<1>5. x \notin PathOf(parent, parent[x])
  BY <1>3 DEF Loopless
<1> QED
  BY <1>3, <1>4, <1>5

\* One that has another on its path is below it, if all in between are counted.
LEMMA BelowGets ==
    ASSUME parent \in Parents, NEW among \in SUBSET Docs, NEW d \in Docs, NEW x \in Docs,
           d \in PathOf(parent, x), x # d,
           \A y \in PathOf(parent, x) : y # d /\ d \in PathOf(parent, y) => y \in among
    PROVE  x \in BelowIn(among, d)
<1>0. x \in among
  BY PathSelf
<1> SUFFICES ASSUME NEW S \in SUBSET among,
                    \A y \in among \ S : parent[y] \notin S \cup {d},
                    x \notin S
             PROVE  FALSE
  BY <1>0 DEF BelowIn
<1> DEFINE Q == {y \in PathOf(parent, x) : y \notin S /\ y # d /\ d \in PathOf(parent, y)}
<1>1. x \in Q
  BY PathSelf
<1>2. \A y \in Q : y \in Docs /\ parent[y] # NoDoc => parent[y] \in Q
  <2> SUFFICES ASSUME NEW y \in Q, parent[y] # NoDoc PROVE parent[y] \in Q
    OBVIOUS
  <2> DEFINE p == parent[y]
  <2>1. y \in Docs /\ y \in among
    BY PathSelf
  <2>2. p \in PathOf(parent, x) /\ p \in Docs
    BY PathClosed
  <2>3. p \notin S /\ p # d
    BY <2>1
  <2>4. PathOf(parent, y) = {y} \cup PathOf(parent, p)
    BY <2>1, PathStep
  <2> QED
    BY <2>2, <2>3, <2>4
<1> HIDE DEF Q
<1>3. PathOf(parent, x) \subseteq Q
  BY <1>1, <1>2, PathLeast
<1> QED
  BY <1>3 DEF Q

-----------------------------------------------------------------------------
(* The inductive invariant.                                                   *)

\* An id that is not in use is nowhere referred to.
Coherent ==
    /\ \A x \in Docs : status[x] = "absent" =>
          parent[x] = NoDoc /\ copies[x] = NoRows /\ x \notin moved
    /\ \A x \in Docs : parent[x] # NoDoc => status[parent[x]] # "absent"
    /\ \A g \in Grants : root[g] # NoDoc => status[root[g]] # "absent"

\* The copies of a membership go with it.
NoneDangles == \A g \in Free, x \in Docs : copies[x][g] = 0

\* What is below an unpublished document is not published, with an exception that is cut.
PublishedAbove ==
    \A x \in Docs : WasPublished(x) /\ parent[x] # NoDoc /\ parent[x] \notin cut =>
        WasPublished(parent[x])

SharingInv ==
    /\ TypeOK /\ Coherent /\ Loopless(parent) /\ NoneDangles /\ PublishedAbove
    /\ InheritedFromAbove /\ GrantsReach

\* The number of rows is a number, with none for a free id.
LEMMA RowsNat ==
    ASSUME TypeOK, NEW x \in Docs, NEW g \in Grants
    PROVE  /\ copies[x][g] \in Nat /\ RowsOf(x, g) \in Nat
           /\ RowsOf(x, g) > 0 <=> copies[x][g] > 0 \/ root[g] = x
<1>1. copies[x][g] \in Nat
  BY DEF TypeOK
<1> QED
  BY <1>1 DEF RowsOf

LEMMA CopiedType ==
    ASSUME TypeOK, NEW p \in Docs \cup {NoDoc}
    PROVE  Copied(p) \in [Grants -> Nat] /\ NoRows \in [Grants -> Nat]
<1>1. p \in Docs => \A g \in Grants : RowsOf(p, g) \in Nat
  BY RowsNat
<1> QED
  BY <1>1 DEF Copied, NoRows

\* The parent's rows, of the memberships on it and of its copies.
LEMMA CopiedRows ==
    ASSUME TypeOK, NEW p \in Docs \cup {NoDoc}, NEW g \in Grants
    PROVE  Copied(p)[g] > 0 <=> p # NoDoc /\ (copies[p][g] > 0 \/ root[g] = p)
<1>1. CASE p = NoDoc
  BY <1>1 DEF Copied, NoRows
<1>2. CASE p # NoDoc
  <2>1. p \in Docs /\ Copied(p)[g] = RowsOf(p, g)
    BY <1>2 DEF Copied
  <2> QED
    BY <1>2, <2>1, RowsNat
<1> QED
  BY <1>1, <1>2

\* The module's operators on paths.
LEMMA StretchIs ==
    ASSUME NEW x, NEW r
    PROVE  Between(x, r) = Stretch(parent, x, r) /\ Between(x, r)' = Stretch(parent', x, r)
  BY PathIs DEF Between, Stretch

\* What the two properties say of a document and a membership.
LEMMA Inherits ==
    ASSUME SharingInv, NEW x \in Docs, NEW g \in Grants, copies[x][g] > 0
    PROVE  \/ root[g] \in PathOf(parent, x) \ {x}
           \/ PathOf(parent, x) \cap (moved \cup orphaned) # {}
  BY PathIs DEF SharingInv, InheritedFromAbove, Stray

LEMMA Reaches ==
    ASSUME SharingInv, NEW x \in Docs, NEW g \in Grants, WasPublished(x),
           root[g] \in PathOf(parent, x), Stretch(parent, x, root[g]) \cap (moved \cup cut) = {}
    PROVE  copies[x][g] > 0 \/ root[g] = x
<1>1. RowsOf(x, g) # 0
  BY PathIs, StretchIs DEF SharingInv, GrantsReach
<1>2. RowsOf(x, g) > 0
  BY <1>1, RowsNat DEF SharingInv
<1> QED
  BY <1>2, RowsNat DEF SharingInv

\* A membership of which the parent has a row is above, unless a move is to be processed.
LEMMA CopiedFromAbove ==
    ASSUME SharingInv, NEW p \in Docs \cup {NoDoc}, NEW g \in Grants, Copied(p)[g] > 0
    PROVE  /\ p \in Docs
           /\ \/ root[g] \in PathOf(parent, p)
              \/ PathOf(parent, p) \cap (moved \cup orphaned) # {}
<1>1. p \in Docs /\ (copies[p][g] > 0 \/ root[g] = p)
  BY CopiedRows DEF SharingInv
<1> QED
  BY <1>1, Inherits, PathSelf

\* The documents on a path are in use.
LEMMA PathInUse ==
    ASSUME SharingInv, NEW x \in Docs, status[x] # "absent", NEW y \in PathOf(parent, x)
    PROVE  status[y] # "absent"
<1> DEFINE S == {z \in Docs : status[z] # "absent"}
<1>1. parent \in Parents
  BY DEF SharingInv, TypeOK, Parents
<1>2. x \in S /\ \A z \in S : z \in Docs /\ parent[z] # NoDoc => parent[z] \in S
  BY <1>1 DEF SharingInv, Coherent, Parents
<1> HIDE DEF S
<1>3. PathOf(parent, x) \subseteq S
  BY <1>1, <1>2, PathLeast
<1> QED
  BY <1>3 DEF S

\* A document in use is below every other one on its path.
LEMMA BelowIs ==
    ASSUME SharingInv, NEW d \in Docs, NEW x \in Docs
    PROVE  x \in Below(d) <=> x # d /\ d \in PathOf(parent, x)
<1> DEFINE among == {y \in Docs : status[y] # "absent"}
<1>1. parent \in Parents /\ Loopless(parent)
  BY DEF SharingInv, TypeOK, Parents
<1>2. x \in Below(d) => x # d /\ d \in PathOf(parent, x)
  BY <1>1, BelowHas DEF Below
<1>3. ASSUME x # d, d \in PathOf(parent, x) PROVE x \in Below(d)
  <2>1. status[x] # "absent"
    <3>1. parent[x] # NoDoc
      BY <1>1, <1>3, PathStep
    <3> QED
      BY <3>1 DEF SharingInv, Coherent
  <2>2. \A y \in PathOf(parent, x) : y \in among
    BY <2>1, PathInUse, PathSelf
  <2> HIDE DEF among
  <2>3. among \in SUBSET Docs
    BY DEF among
  <2>4. x \in BelowIn(among, d)
    BY <1>1, <1>3, <2>2, <2>3, BelowGets
  <2> QED
    BY <2>4 DEF among, Below
<1> QED
  BY <1>2, <1>3

LEMMA PublishedBelowIs ==
    ASSUME SharingInv, NEW d \in Docs, NEW x \in PublishedBelow(d)
    PROVE  x \in Docs /\ WasPublished(x) /\ x # d /\ d \in PathOf(parent, x)
<1>1. parent \in Parents /\ Loopless(parent)
  BY DEF SharingInv, TypeOK, Parents
<1> QED
  BY <1>1, BelowHas DEF PublishedBelow

\* With nothing cut on the way all between a published document and r are published.
LEMMA PublishedWay ==
    ASSUME SharingInv, NEW x \in Docs, WasPublished(x), NEW r \in Docs,
           Stretch(parent, x, r) \cap cut = {}, NEW y \in Stretch(parent, x, r)
    PROVE  WasPublished(y)
<1> DEFINE S == {z \in PathOf(parent, x) : r \in PathOf(parent, z) => WasPublished(z)}
<1>1. parent \in Parents
  BY DEF SharingInv, TypeOK, Parents
<1>2. \A z \in S : z \in Docs /\ parent[z] # NoDoc => parent[z] \in S
  <2> SUFFICES ASSUME NEW z \in S, parent[z] # NoDoc, r \in PathOf(parent, parent[z])
               PROVE  WasPublished(parent[z]) /\ parent[z] \in PathOf(parent, x)
    BY <1>1, PathSelf, PathClosed
  <2>1. z \in Docs /\ parent[z] \in PathOf(parent, x)
    BY <1>1, PathSelf, PathClosed
  <2>2. r \in PathOf(parent, z)
    BY <1>1, <2>1, PathStep
  <2>3. parent[z] \notin cut
    BY <2>1 DEF Stretch
  <2> QED
    BY <2>1, <2>2, <2>3 DEF SharingInv, PublishedAbove
<1>3. x \in S
  BY PathSelf
<1> HIDE DEF S
<1>4. PathOf(parent, x) \subseteq S
  BY <1>1, <1>2, <1>3, PathLeast
<1> QED
  BY <1>4 DEF S, Stretch

\* It is then among the published documents below r.
LEMMA CleanBelow ==
    ASSUME SharingInv, NEW x \in Docs, WasPublished(x), NEW r \in PathOf(parent, x), x # r,
           Stretch(parent, x, r) \cap cut = {}
    PROVE  x \in PublishedBelow(r)
<1> DEFINE among == {y \in Docs : WasPublished(y)}
<1>1. parent \in Parents
  BY DEF SharingInv, TypeOK, Parents
<1>2. r \in Docs /\ PathOf(parent, x) \subseteq Docs
  BY PathSelf
<1>3. \A y \in PathOf(parent, x) : r \in PathOf(parent, y) => y \in among
  BY <1>2, PublishedWay DEF Stretch
<1> HIDE DEF among
<1>4. among \in SUBSET Docs
  BY DEF among
<1>5. x \in BelowIn(among, r)
  BY <1>1, <1>2, <1>3, <1>4, BelowGets
<1> QED
  BY <1>5 DEF among, PublishedBelow

-----------------------------------------------------------------------------
(* The types.                                                                 *)

LEMMA InitType == Init => TypeOK
  BY DEF Init, TypeOK, NoRows

LEMMA NextType == TypeOK /\ [Next]_vars => TypeOK'
<1> SUFFICES ASSUME TypeOK, [Next]_vars PROVE TypeOK'
  OBVIOUS
<1> DEFINE Rows == [Grants -> Nat]
<1>1. ASSUME NEW d \in Docs, NEW p \in Docs \cup {NoDoc}, NEW publish \in BOOLEAN,
             Create(d, p, publish)
      PROVE  TypeOK'
  <2>1. Copied(p) \in Rows
    BY CopiedType
  <2> QED
    BY <1>1, <2>1 DEF Create, TypeOK
<1>2. ASSUME NEW d \in Docs, NEW p \in Docs \cup {NoDoc}, Move(d, p) PROVE TypeOK'
  BY <1>2 DEF Move, TypeOK
<1>3. ASSUME NEW d \in Docs, Publish(d) PROVE TypeOK'
  <2> DEFINE rows == [g \in Grants |-> copies[d][g] + Copied(parent[d])[g]]
  <2>1. parent[d] \in Docs \cup {NoDoc}
    BY DEF TypeOK
  <2>2. Copied(parent[d]) \in Rows /\ copies[d] \in Rows
    BY <2>1, CopiedType DEF TypeOK
  <2>3. rows \in Rows
    BY <2>2
  <2>4. /\ status' = [status EXCEPT ![d] = "published"]
        /\ copies' = [copies EXCEPT ![d] = rows]
        /\ UNCHANGED <<parent, root, moved, cut, orphaned>>
    BY <1>3 DEF Publish
  <2> QED
    BY <2>3, <2>4 DEF TypeOK
<1>4. ASSUME NEW d \in Docs, Unpublish(d) PROVE TypeOK'
  BY <1>4 DEF Unpublish, TypeOK
<1>5. ASSUME NEW d \in Docs, Archive(d) PROVE TypeOK'
  BY <1>5 DEF Archive, TypeOK
<1>6. ASSUME NEW d \in Docs, Restore(d) PROVE TypeOK'
  BY <1>6 DEF Restore, TypeOK
<1>7. ASSUME NEW d \in Docs, Process(d) PROVE TypeOK'
  <2>1. parent[d] \in Docs \cup {NoDoc}
    BY DEF TypeOK
  <2>2. Copied(parent[d]) \in Rows /\ NoRows \in Rows /\ copies \in [Docs -> Rows]
    BY <2>1, CopiedType DEF TypeOK
  <2>3. copies' = [x \in Docs |->
          CASE x \in PublishedBelow(d) \cup {d} -> Copied(parent[d])
            [] x \in Below(d) \ PublishedBelow(d) -> NoRows
            [] OTHER -> copies[x]]
    BY <1>7 DEF Process
  <2> HIDE DEF Rows
  <2>4. copies' \in [Docs -> Rows]
    BY <2>2, <2>3
  <2>5. /\ moved' = moved \ {d} /\ UNCHANGED <<status, parent, root>>
        /\ cut' = cut \cup {x \in Below(d) \cup {d} : RootsOf(x) # {}}
        /\ orphaned' = orphaned \ (Below(d) \cup {d})
    BY <1>7 DEF Process
  <2>6. cut' \subseteq Docs
    <3>1. Below(d) \subseteq Docs
      BY DEF Below, BelowIn
    <3> QED
      BY <2>5, <3>1 DEF TypeOK
  <2> QED
    BY <2>4, <2>5, <2>6 DEF TypeOK, Rows
<1>8. ASSUME NEW d \in Docs, NEW g \in Grants, Share(d, g) PROVE TypeOK'
  <2>1. \A x \in Docs : [copies[x] EXCEPT ![g] = 1] \in Rows /\ copies[x] \in Rows
    BY DEF TypeOK
  <2>2. copies' = [x \in Docs |-> IF x \in PublishedBelow(d) THEN [copies[x] EXCEPT ![g] = 1]
                                 ELSE copies[x]]
    BY <1>8 DEF Share
  <2>3. copies' \in [Docs -> Rows]
    BY <2>1, <2>2
  <2> QED
    BY <1>8, <2>3 DEF TypeOK, Share
<1>9. ASSUME NEW d \in Docs, NEW g \in Grants, Unshare(d, g) PROVE TypeOK'
  BY <1>9 DEF TypeOK, Unshare
<1>10. ASSUME NEW d \in Docs, NEW g \in Grants, NEW old \in Grants, Change(d, g, old)
       PROVE  TypeOK'
  <2>1. copies[d][old] \in Nat /\ copies[d][old] > 0 /\ copies[d] \in Rows
    BY <1>10 DEF TypeOK, Change
  <2>2. copies[d][old] - 1 \in Nat
    BY <2>1
  <2>3. copies' = [copies EXCEPT ![d] = [copies[d] EXCEPT ![old] = copies[d][old] - 1]]
    BY <1>10 DEF Change
  <2>4. [copies[d] EXCEPT ![old] = copies[d][old] - 1] \in Rows
    BY <2>1, <2>2
  <2>5. copies' \in [Docs -> Rows]
    BY <2>3, <2>4 DEF TypeOK
  <2> QED
    BY <1>10, <2>5 DEF TypeOK, Change
<1>11. CASE UNCHANGED vars
  BY <1>11 DEF vars, TypeOK
<1> QED
  BY <1>1, <1>2, <1>3, <1>4, <1>5, <1>6, <1>7, <1>8, <1>9, <1>10, <1>11 DEF Next

-----------------------------------------------------------------------------
(* The steps.                                                                 *)

LEMMA InitSharing == Init => SharingInv
<1> SUFFICES ASSUME Init PROVE SharingInv
  OBVIOUS
<1>1. TypeOK
  BY InitType
<1>2. \A x \in Docs : parent[x] = NoDoc /\ copies[x] = NoRows /\ ~WasPublished(x)
  BY DEF Init, WasPublished
<1>3. \A g \in Grants : root[g] = NoDoc /\ NoRows[g] = 0
  BY DEF Init, NoRows
<1>4. Coherent
  BY <1>2, <1>3 DEF Init, Coherent
<1>5. \A x \in Docs, g \in Grants : copies[x][g] = 0
  BY <1>2, <1>3
<1>6. \A x \in Docs, g \in Grants : ~(copies[x][g] > 0)
  BY <1>5
<1>7. Loopless(parent) /\ NoneDangles /\ PublishedAbove
  BY <1>2, <1>5 DEF Loopless, NoneDangles, PublishedAbove, Free
<1>8. InheritedFromAbove
  BY <1>6 DEF InheritedFromAbove, Stray
<1>9. GrantsReach
  BY <1>2 DEF GrantsReach
<1> QED
  BY <1>1, <1>4, <1>7, <1>8, <1>9 DEF SharingInv

\* What is to be shown of a step.
LEMMA InheritsThen ==
    ASSUME \A x \in Docs, g \in Grants : copies'[x][g] > 0 =>
               \/ root'[g] \in PathOf(parent', x) \ {x}
               \/ PathOf(parent', x) \cap (moved' \cup orphaned') # {}
    PROVE  InheritedFromAbove'
  BY PathIs DEF InheritedFromAbove, Stray

LEMMA ReachesThen ==
    ASSUME TypeOK',
           \A x \in Docs, g \in Grants, r \in Docs :
               (/\ WasPublished(x)' /\ root'[g] = r /\ r \in PathOf(parent', x)
                /\ Stretch(parent', x, r) \cap (moved' \cup cut') = {})
                   => copies'[x][g] > 0 \/ r = x
    PROVE  GrantsReach'
<1> SUFFICES ASSUME NEW x \in Docs, NEW g \in Grants, WasPublished(x)', RowsOf(x, g)' = 0,
                    root'[g] \in Path(x)',
                    (Between(x, root[g]) \cap (moved \cup cut))' = {}
             PROVE  FALSE
  BY DEF GrantsReach
<1>1. PICK r : r = root'[g]
  OBVIOUS
<1>2. r \in PathOf(parent', x) /\ r \in Docs
  BY <1>1, PathIs, PathSelf
<1>3. (Between(x, root[g]))' = Between(x, r)'
  BY <1>1 DEF Between
<1>4. Stretch(parent', x, r) \cap (moved' \cup cut') = {}
  BY <1>3, StretchIs
<1>5. copies'[x][g] > 0 \/ r = x
  BY <1>1, <1>2, <1>4
<1>6. copies'[x][g] \in Nat
  BY DEF TypeOK
<1> QED
  BY <1>1, <1>5, <1>6 DEF RowsOf

LEMMA PublishInv ==
    ASSUME SharingInv, TypeOK', NEW d \in Docs, Publish(d)
    PROVE  SharingInv'
<1> DEFINE p == parent[d]
<1>1. /\ status[d] = "draft" /\ (p # NoDoc => status[p] = "published")
      /\ status' = [status EXCEPT ![d] = "published"]
      /\ copies' = [copies EXCEPT ![d] = [g \in Grants |-> copies[d][g] + Copied(p)[g]]]
      /\ parent' = parent /\ root' = root /\ moved' = moved /\ cut' = cut
      /\ orphaned' = orphaned
  BY DEF Publish
<1>2. /\ p \in Docs \cup {NoDoc} /\ parent \in Parents /\ copies \in [Docs -> [Grants -> Nat]]
      /\ status \in [Docs -> {"absent", "draft", "published", "archived"}]
  BY DEF SharingInv, TypeOK, Parents
<1>3. Loopless(parent)'
  BY <1>1 DEF SharingInv, Loopless
<1>4. \A x \in Docs : status'[x] = IF x = d THEN "published" ELSE status[x]
  BY <1>1, <1>2
<1>5. \A x \in Docs : x # d => copies'[x] = copies[x]
  BY <1>1, <1>2
<1>6. \A g \in Grants : copies'[d][g] > 0 <=> copies[d][g] > 0 \/ Copied(p)[g] > 0
  <2> TAKE g \in Grants
  <2>1. Copied(p)[g] \in Nat /\ copies[d][g] \in Nat
    BY <1>2, CopiedType DEF SharingInv
  <2>2. copies'[d][g] = copies[d][g] + Copied(p)[g]
    BY <1>1, <1>2
  <2> QED
    BY <2>1, <2>2
<1>7. /\ p # NoDoc => PathOf(parent, d) = {d} \cup PathOf(parent, p) /\ d \notin PathOf(parent, p)
      /\ p = NoDoc => PathOf(parent, d) = {d}
  BY <1>2, PathStep DEF SharingInv, Loopless
<1>8. Coherent'
  BY <1>1, <1>4, <1>5 DEF SharingInv, Coherent
<1>9. NoneDangles'
  <2> SUFFICES ASSUME NEW g \in Grants, root[g] = NoDoc, NEW x \in Docs
               PROVE  copies'[x][g] = 0
    BY <1>1 DEF NoneDangles, Free
  <2>1. copies[x][g] = 0
    BY DEF SharingInv, NoneDangles, Free
  <2>2. CASE x # d
    BY <2>1, <2>2, <1>5
  <2>3. CASE x = d
    <3>1. Copied(p)[g] = 0
      <4>1. p # NoDoc => copies[p][g] = 0 /\ root[g] # p
        BY <1>2 DEF SharingInv, NoneDangles, Free
      <4>2. ~(Copied(p)[g] > 0)
        BY <1>2, <4>1, CopiedRows DEF SharingInv
      <4> QED
        BY <1>2, <4>2, CopiedType DEF SharingInv
    <3> QED
      BY <1>1, <1>2, <2>1, <2>3, <3>1
  <2> QED
    BY <2>2, <2>3
<1>10. PublishedAbove'
  BY <1>1, <1>2, <1>4 DEF SharingInv, PublishedAbove, WasPublished, Parents
<1>11. InheritedFromAbove'
  <2> SUFFICES ASSUME NEW x \in Docs, NEW g \in Grants, copies'[x][g] > 0
               PROVE  \/ root[g] \in PathOf(parent, x) \ {x}
                      \/ PathOf(parent, x) \cap (moved \cup orphaned) # {}
    BY <1>1, InheritsThen
  <2>1. CASE copies[x][g] > 0
    BY <2>1, Inherits
  <2>2. CASE ~(copies[x][g] > 0)
    <3>1. x = d /\ Copied(p)[g] > 0
      BY <1>5, <1>6, <2>2
    <3>2. /\ p \in Docs
          /\ \/ root[g] \in PathOf(parent, p)
             \/ PathOf(parent, p) \cap (moved \cup orphaned) # {}
      BY <1>2, <3>1, CopiedFromAbove
    <3> QED
      BY <1>7, <3>1, <3>2, ParametersAssumption
  <2> QED
    BY <2>1, <2>2
<1>12. GrantsReach'
  <2> SUFFICES ASSUME NEW x \in Docs, NEW g \in Grants, NEW r \in Docs, WasPublished(x)',
                      root[g] = r, r \in PathOf(parent, x),
                      Stretch(parent, x, r) \cap (moved \cup cut) = {}
               PROVE  copies'[x][g] > 0 \/ r = x
    BY <1>1, ReachesThen
  <2>1. CASE x # d
    <3>1. WasPublished(x)
      BY <1>4, <2>1 DEF WasPublished
    <3> QED
      BY <1>5, <2>1, <3>1, Reaches
  <2>2. CASE x = d /\ r # d
    <3>1. p # NoDoc /\ p \in Docs /\ r \in PathOf(parent, p) /\ p \in PathOf(parent, d)
      BY <1>2, <1>7, <2>2, PathSelf
    <3>2. WasPublished(p)
      BY <1>1, <3>1 DEF WasPublished
    <3>3. Stretch(parent, p, r) \cap (moved \cup cut) = {}
      BY <1>2, <2>2, <3>1, StretchPart
    <3>4. copies[p][g] > 0 \/ root[g] = p
      BY <3>1, <3>2, <3>3, Reaches
    <3>5. Copied(p)[g] > 0
      BY <3>1, <3>4, CopiedRows DEF SharingInv
    <3> QED
      BY <1>6, <2>2, <3>5
  <2> QED
    BY <2>1, <2>2
<1> QED
  BY <1>3, <1>8, <1>9, <1>10, <1>11, <1>12 DEF SharingInv

\* Archiving and restoring in place leave alone who has been published and everything else.
LEMMA SameInv ==
    ASSUME SharingInv, TypeOK', UNCHANGED <<parent, root, copies, moved, cut, orphaned>>,
           \A x \in Docs : /\ WasPublished(x)' <=> WasPublished(x)
                           /\ status'[x] = "absent" <=> status[x] = "absent"
    PROVE  SharingInv'
<1>1. /\ parent' = parent /\ root' = root /\ copies' = copies
      /\ moved' = moved /\ cut' = cut /\ orphaned' = orphaned
  OBVIOUS
<1>2. parent \in Parents /\ root \in [Grants -> Docs \cup {NoDoc}]
  BY DEF SharingInv, TypeOK, Parents
<1>3. Loopless(parent)' /\ NoneDangles'
  BY <1>1 DEF SharingInv, Loopless, NoneDangles, Free
<1>4. Coherent'
  BY <1>1, <1>2 DEF SharingInv, Coherent, Parents
<1>5. PublishedAbove'
  <2> SUFFICES ASSUME NEW x \in Docs, WasPublished(x)', parent[x] # NoDoc, parent[x] \notin cut
               PROVE  status'[parent[x]] \in {"published", "archived"}
    BY DEF PublishedAbove, WasPublished
  <2>1. parent[x] \in Docs /\ WasPublished(parent[x])
    BY <1>2 DEF SharingInv, PublishedAbove, Parents
  <2>2. PICK y \in Docs : y = parent[x]
    BY <2>1
  <2>3. WasPublished(y)'
    BY <2>1, <2>2
  <2> QED
    BY <2>2, <2>3 DEF WasPublished
<1>6. InheritedFromAbove'
  BY <1>1, Inherits, InheritsThen
<1>7. GrantsReach'
  <2> SUFFICES ASSUME NEW x \in Docs, NEW g \in Grants, NEW r \in Docs, WasPublished(x),
                      root[g] = r, r \in PathOf(parent, x),
                      Stretch(parent, x, r) \cap (moved \cup cut) = {}
               PROVE  copies[x][g] > 0 \/ r = x
    BY <1>1, ReachesThen
  <2> QED
    BY Reaches
<1> QED
  BY <1>3, <1>4, <1>5, <1>6, <1>7 DEF SharingInv

LEMMA ArchiveInv ==
    ASSUME SharingInv, TypeOK', NEW d \in Docs, Archive(d)
    PROVE  SharingInv'
<1>1. /\ status[d] = "published"
      /\ status' = [x \in Docs |-> IF x \in PublishedBelow(d) \cup {d} THEN "archived"
                                   ELSE status[x]]
      /\ UNCHANGED <<parent, root, copies, moved, cut, orphaned>>
  BY DEF Archive
<1>2. \A x \in PublishedBelow(d) \cup {d} : status[x] \in {"published", "archived"}
  BY <1>1, PublishedBelowIs DEF WasPublished
<1>3. \A x \in Docs : /\ WasPublished(x)' <=> WasPublished(x)
                      /\ status'[x] = "absent" <=> status[x] = "absent"
  BY <1>1, <1>2 DEF WasPublished
<1> QED
  BY <1>1, <1>3, SameInv

LEMMA RestoreInv ==
    ASSUME SharingInv, TypeOK', NEW d \in Docs, Restore(d)
    PROVE  SharingInv'
<1> DEFINE stays == parent[d] = NoDoc \/ status[parent[d]] = "published"
<1>1. /\ status[d] = "archived"
      /\ parent' = [parent EXCEPT ![d] = IF stays THEN parent[d] ELSE NoDoc]
      /\ status' = [x \in Docs |-> IF x \in PublishedBelow(d) \cup {d} THEN "published"
                                   ELSE status[x]]
      /\ orphaned' = IF stays THEN orphaned ELSE orphaned \cup {d}
      /\ root' = root /\ copies' = copies /\ moved' = moved /\ cut' = cut
  BY DEF Restore
<1> HIDE DEF stays
<1>2. \A x \in PublishedBelow(d) \cup {d} : status[x] \in {"published", "archived"}
  BY <1>1, PublishedBelowIs DEF WasPublished
<1>3. \A x \in Docs : /\ WasPublished(x)' <=> WasPublished(x)
                      /\ status'[x] = "absent" <=> status[x] = "absent"
  BY <1>1, <1>2 DEF WasPublished
<1>4. parent \in Parents /\ parent' \in Parents /\ root \in [Grants -> Docs \cup {NoDoc}]
  BY DEF SharingInv, TypeOK, Parents
<1>5. CASE stays
  <2>1. parent' = parent
    BY <1>1, <1>5 DEF SharingInv, TypeOK
  <2> QED
    BY <1>1, <1>3, <1>5, <2>1, SameInv
<1>6. CASE ~stays
  <2>1. \A x \in Docs : parent'[x] = IF x = d THEN NoDoc ELSE parent[x]
    BY <1>1, <1>4, <1>6 DEF Parents
  <2>2. Loopless(parent)'
    BY <1>4, <2>1, LooplessMove DEF SharingInv
  <2>3. Coherent'
    BY <1>1, <1>3, <1>4, <2>1 DEF SharingInv, Coherent, Parents
  <2>4. NoneDangles'
    BY <1>1 DEF SharingInv, NoneDangles, Free
  <2>5. PublishedAbove'
    <3> SUFFICES ASSUME NEW x \in Docs, WasPublished(x)', parent'[x] # NoDoc, parent'[x] \notin cut
                 PROVE  status'[parent'[x]] \in {"published", "archived"}
      BY <1>1 DEF PublishedAbove, WasPublished
    <3>1. WasPublished(x) /\ parent'[x] = parent[x]
      BY <1>3, <2>1
    <3>2. parent[x] \in Docs /\ WasPublished(parent[x])
      BY <1>4, <3>1 DEF SharingInv, PublishedAbove, Parents
    <3>3. PICK y \in Docs : y = parent[x]
      BY <3>2
    <3>4. WasPublished(y)'
      BY <1>3, <3>2, <3>3
    <3> QED
      BY <3>1, <3>3, <3>4 DEF WasPublished
  <2>6. InheritedFromAbove'
    <3> SUFFICES ASSUME NEW x \in Docs, NEW g \in Grants, copies[x][g] > 0
                 PROVE  \/ root[g] \in PathOf(parent', x) \ {x}
                        \/ PathOf(parent', x) \cap (moved \cup orphaned') # {}
      BY <1>1, InheritsThen
    <3>1. CASE d \in PathOf(parent, x)
      <4>1. d \in PathOf(parent', x)
        BY <1>4, <2>1, <3>1, PathOver
      <4> QED
        BY <1>1, <1>6, <4>1
    <3>2. CASE d \notin PathOf(parent, x)
      <4>1. PathOf(parent', x) = PathOf(parent, x)
        BY <1>4, <2>1, <3>2, PathStays
      <4> QED
        BY <1>1, <1>6, <4>1, Inherits
    <3> QED
      BY <3>1, <3>2
  <2>7. GrantsReach'
    <3> SUFFICES ASSUME NEW x \in Docs, NEW g \in Grants, NEW r \in Docs, WasPublished(x),
                        root[g] = r, r \in PathOf(parent', x),
                        Stretch(parent', x, r) \cap (moved \cup cut) = {}
                 PROVE  copies[x][g] > 0 \/ r = x
      BY <1>1, <1>3, ReachesThen
    <3>1. r \in PathOf(parent, x) /\ Stretch(parent, x, r) \subseteq Stretch(parent', x, r)
      <4>1. CASE r = d
        BY <1>4, <2>1, <4>1, PathOver, StretchTop DEF SharingInv
      <4>2. CASE r # d
        <5>1. PathOf(parent', d) = {d}
          BY <1>4, <2>1, PathStep
        <5>2. d \notin Stretch(parent', x, r)
          BY <4>2, <5>1 DEF Stretch
        <5> QED
          BY <1>4, <2>1, <5>2, StretchKept DEF SharingInv
      <4> QED
        BY <4>1, <4>2
    <3> QED
      BY <3>1, Reaches
  <2> QED
    BY <2>2, <2>3, <2>4, <2>5, <2>6, <2>7 DEF SharingInv
<1> QED
  BY <1>5, <1>6

LEMMA UnpublishInv ==
    ASSUME SharingInv, TypeOK', NEW d \in Docs, Unpublish(d)
    PROVE  SharingInv'
<1>1. /\ status[d] = "published" /\ status' = [status EXCEPT ![d] = "draft"]
      /\ parent' = parent /\ root' = root /\ moved' = moved /\ copies' = copies
      /\ cut' = IF Below(d) = {} THEN cut ELSE cut \cup {d}
      /\ orphaned' = orphaned
  BY DEF Unpublish
<1>2. parent \in Parents /\ root \in [Grants -> Docs \cup {NoDoc}]
  BY DEF SharingInv, TypeOK, Parents
<1>3. \A x \in Docs : status'[x] = IF x = d THEN "draft" ELSE status[x]
  BY <1>1 DEF SharingInv, TypeOK
<1>4. Loopless(parent)' /\ NoneDangles'
  BY <1>1 DEF SharingInv, Loopless, NoneDangles, Free
<1>5. Coherent'
  BY <1>1, <1>2, <1>3 DEF SharingInv, Coherent, Parents
<1>6. InheritedFromAbove'
  BY <1>1, Inherits, InheritsThen
<1>7. PublishedAbove'
  <2> SUFFICES ASSUME NEW x \in Docs, status'[x] \in {"published", "archived"},
                      parent[x] # NoDoc, parent[x] \notin cut'
               PROVE  status'[parent[x]] \in {"published", "archived"}
    BY <1>1 DEF PublishedAbove, WasPublished
  <2>1. parent[x] \in Docs /\ x # d /\ WasPublished(x) /\ parent[x] \notin cut
    BY <1>1, <1>2, <1>3 DEF WasPublished, Parents
  <2>2. WasPublished(parent[x])
    BY <2>1 DEF SharingInv, PublishedAbove
  <2>3. parent[x] # d
    <3>1. parent[x] \in PathOf(parent, x)
      BY <1>2, PathSelf, PathClosed
    <3>2. parent[x] = d => x \in Below(d)
      BY <2>1, <3>1, BelowIs
    <3> QED
      BY <1>1, <3>2
  <2> QED
    BY <1>3, <2>1, <2>2, <2>3 DEF WasPublished
<1>8. GrantsReach'
  <2> SUFFICES ASSUME NEW x \in Docs, NEW g \in Grants, NEW r \in Docs, WasPublished(x)',
                      root[g] = r, r \in PathOf(parent, x),
                      Stretch(parent, x, r) \cap (moved \cup cut') = {}
               PROVE  copies[x][g] > 0 \/ r = x
    BY <1>1, ReachesThen
  <2>1. WasPublished(x) /\ Stretch(parent, x, r) \cap (moved \cup cut) = {}
    BY <1>1, <1>3 DEF WasPublished
  <2> QED
    BY <2>1, Reaches
<1> QED
  BY <1>4, <1>5, <1>6, <1>7, <1>8 DEF SharingInv

LEMMA ShareInv ==
    ASSUME SharingInv, TypeOK', NEW d \in Docs, NEW g \in Grants, Share(d, g)
    PROVE  SharingInv'
<1>1. /\ status[d] # "absent" /\ ~HasRow(d) /\ root[g] = NoDoc
      /\ root' = [root EXCEPT ![g] = d]
      /\ copies' = [x \in Docs |-> IF x \in PublishedBelow(d) THEN [copies[x] EXCEPT ![g] = 1]
                                   ELSE copies[x]]
      /\ status' = status /\ parent' = parent /\ moved' = moved /\ cut' = cut
      /\ orphaned' = orphaned
  BY DEF Share, Free
<1>2. parent \in Parents /\ root \in [Grants -> Docs \cup {NoDoc}]
  BY DEF SharingInv, TypeOK, Parents
<1>3. \A h \in Grants : root'[h] = IF h = g THEN d ELSE root[h]
  BY <1>1, <1>2
<1>4. \A x \in Docs, h \in Grants :
          copies'[x][h] = IF x \in PublishedBelow(d) /\ h = g THEN 1 ELSE copies[x][h]
  BY <1>1 DEF SharingInv, TypeOK
<1>5. Loopless(parent)'
  BY <1>1 DEF SharingInv, Loopless
<1>6. \A x \in PublishedBelow(d) : WasPublished(x) /\ x # d /\ d \in PathOf(parent, x)
  BY PublishedBelowIs
<1>7. Coherent'
  <2>1. \A x \in Docs : status[x] = "absent" => copies'[x] = copies[x]
    BY <1>1, <1>6 DEF WasPublished
  <2> QED
    BY <1>1, <1>3, <2>1 DEF SharingInv, Coherent
<1>8. \A x \in Docs : copies[x][g] = 0
  BY <1>1 DEF SharingInv, NoneDangles, Free
<1>9. NoneDangles'
  <2> SUFFICES ASSUME NEW h \in Grants, root'[h] = NoDoc, NEW x \in Docs
               PROVE  copies'[x][h] = 0
    BY DEF NoneDangles, Free
  <2>1. h # g /\ root[h] = NoDoc
    BY <1>3, ParametersAssumption
  <2> QED
    BY <1>4, <2>1 DEF SharingInv, NoneDangles, Free
<1>10. PublishedAbove'
  BY <1>1 DEF SharingInv, PublishedAbove, WasPublished
<1>11. InheritedFromAbove'
  <2> SUFFICES ASSUME NEW x \in Docs, NEW h \in Grants, copies'[x][h] > 0
               PROVE  \/ root'[h] \in PathOf(parent, x) \ {x}
                      \/ PathOf(parent, x) \cap (moved \cup orphaned) # {}
    BY <1>1, InheritsThen
  <2>1. CASE h = g
    <3>1. x \in PublishedBelow(d)
      BY <1>4, <1>8, <2>1
    <3> QED
      BY <1>3, <1>6, <2>1, <3>1
  <2>2. CASE h # g
    <3>1. copies[x][h] > 0
      BY <1>4, <2>2
    <3> QED
      BY <1>3, <2>2, <3>1, Inherits
  <2> QED
    BY <2>1, <2>2
<1>12. GrantsReach'
  <2> SUFFICES ASSUME NEW x \in Docs, NEW h \in Grants, NEW r \in Docs, WasPublished(x),
                      root'[h] = r, r \in PathOf(parent, x),
                      Stretch(parent, x, r) \cap (moved \cup cut) = {}
               PROVE  copies'[x][h] > 0 \/ r = x
    BY <1>1, ReachesThen DEF WasPublished
  <2>1. CASE h = g
    <3>1. r = d
      BY <1>3, <2>1
    <3>2. x # d => x \in PublishedBelow(d)
      BY <3>1, CleanBelow
    <3>3. x # d => copies'[x][h] = 1
      BY <1>4, <2>1, <3>2
    <3> QED
      BY <3>1, <3>3
  <2>2. CASE h # g
    <3>1. root'[h] = root[h] /\ copies'[x][h] = copies[x][h]
      BY <1>3, <1>4, <2>2
    <3> QED
      BY <3>1, Reaches
  <2> QED
    BY <2>1, <2>2
<1> QED
  BY <1>5, <1>7, <1>9, <1>10, <1>11, <1>12 DEF SharingInv

LEMMA UnshareInv ==
    ASSUME SharingInv, TypeOK', NEW d \in Docs, NEW g \in Grants, Unshare(d, g)
    PROVE  SharingInv'
<1>1. /\ root' = [root EXCEPT ![g] = NoDoc]
      /\ copies' = [x \in Docs |-> [copies[x] EXCEPT ![g] = 0]]
      /\ status' = status /\ parent' = parent /\ moved' = moved /\ cut' = cut
      /\ orphaned' = orphaned
  BY DEF Unshare
<1>2. parent \in Parents /\ root \in [Grants -> Docs \cup {NoDoc}]
  BY DEF SharingInv, TypeOK, Parents
<1>3. \A h \in Grants : root'[h] = IF h = g THEN NoDoc ELSE root[h]
  BY <1>1, <1>2
<1>4. \A x \in Docs, h \in Grants : copies'[x][h] = IF h = g THEN 0 ELSE copies[x][h]
  BY <1>1 DEF SharingInv, TypeOK
<1>5. Loopless(parent)'
  BY <1>1 DEF SharingInv, Loopless
<1>6. Coherent'
  <2>1. \A x \in Docs : status[x] = "absent" => copies'[x] = NoRows
    <3> SUFFICES ASSUME NEW x \in Docs, status[x] = "absent"
                 PROVE  [copies[x] EXCEPT ![g] = 0] = NoRows
      BY <1>1
    <3>1. copies[x] = NoRows
      BY DEF SharingInv, Coherent
    <3> QED
      BY <3>1 DEF NoRows
  <2> QED
    BY <1>1, <1>3, <2>1 DEF SharingInv, Coherent
<1>7. NoneDangles'
  BY <1>3, <1>4 DEF SharingInv, NoneDangles, Free
<1>8. PublishedAbove'
  BY <1>1 DEF SharingInv, PublishedAbove, WasPublished
<1>9. InheritedFromAbove'
  <2> SUFFICES ASSUME NEW x \in Docs, NEW h \in Grants, copies'[x][h] > 0
               PROVE  \/ root'[h] \in PathOf(parent, x) \ {x}
                      \/ PathOf(parent, x) \cap (moved \cup orphaned) # {}
    BY <1>1, InheritsThen
  <2>1. h # g /\ copies[x][h] > 0
    BY <1>4
  <2> QED
    BY <1>3, <2>1, Inherits
<1>10. GrantsReach'
  <2> SUFFICES ASSUME NEW x \in Docs, NEW h \in Grants, NEW r \in Docs, WasPublished(x),
                      root'[h] = r, r \in PathOf(parent, x),
                      Stretch(parent, x, r) \cap (moved \cup cut) = {}
               PROVE  copies'[x][h] > 0 \/ r = x
    BY <1>1, ReachesThen DEF WasPublished
  <2>1. h # g
    BY <1>3, ParametersAssumption
  <2>2. root'[h] = root[h] /\ copies'[x][h] = copies[x][h]
    BY <1>3, <1>4, <2>1
  <2> QED
    BY <2>2, Reaches
<1> QED
  BY <1>5, <1>6, <1>7, <1>8, <1>9, <1>10 DEF SharingInv

LEMMA ChangeInv ==
    ASSUME SharingInv, TypeOK', NEW d \in Docs, NEW g \in Grants, NEW old \in Grants,
           Change(d, g, old)
    PROVE  SharingInv'
<1>1. /\ root[g] = NoDoc /\ copies[d][old] > 0
      /\ root' = [root EXCEPT ![g] = d]
      /\ copies' = [copies EXCEPT ![d][old] = @ - 1]
      /\ status' = status /\ parent' = parent /\ moved' = moved /\ cut' = cut \cup {d}
      /\ orphaned' = orphaned
  BY DEF Change, Free
<1>2. parent \in Parents /\ root \in [Grants -> Docs \cup {NoDoc}]
  BY DEF SharingInv, TypeOK, Parents
<1>3. \A h \in Grants : root'[h] = IF h = g THEN d ELSE root[h]
  BY <1>1, <1>2
<1>4. \A x \in Docs, h \in Grants :
          copies'[x][h] = IF x = d /\ h = old THEN copies[x][h] - 1 ELSE copies[x][h]
  BY <1>1 DEF SharingInv, TypeOK
<1>5. \A x \in Docs, h \in Grants : copies[x][h] \in Nat
  BY DEF SharingInv, TypeOK
<1>6. Loopless(parent)'
  BY <1>1 DEF SharingInv, Loopless
<1>7. status[d] # "absent"
  BY <1>1 DEF SharingInv, Coherent, NoRows
<1>8. \A x \in Docs : x # d => copies'[x] = copies[x]
  BY <1>1 DEF SharingInv, TypeOK
<1>9. Coherent'
  BY <1>1, <1>3, <1>7, <1>8 DEF SharingInv, Coherent
<1>10. \A x \in Docs : copies[x][g] = 0
  BY <1>1 DEF SharingInv, NoneDangles, Free
<1>11. g # old
  BY <1>1, <1>10
<1>12. NoneDangles'
  <2> SUFFICES ASSUME NEW h \in Grants, root'[h] = NoDoc, NEW x \in Docs
               PROVE  copies'[x][h] = 0
    BY DEF NoneDangles, Free
  <2>1. h # g /\ root[h] = NoDoc
    BY <1>3, ParametersAssumption
  <2>2. \A y \in Docs : copies[y][h] = 0
    BY <2>1 DEF SharingInv, NoneDangles, Free
  <2>3. h # old
    BY <1>1, <2>2
  <2> QED
    BY <1>4, <2>2, <2>3
<1>13. PublishedAbove'
  BY <1>1 DEF SharingInv, PublishedAbove, WasPublished
<1>14. InheritedFromAbove'
  <2> SUFFICES ASSUME NEW x \in Docs, NEW h \in Grants, copies'[x][h] > 0
               PROVE  \/ root'[h] \in PathOf(parent, x) \ {x}
                      \/ PathOf(parent, x) \cap (moved \cup orphaned) # {}
    BY <1>1, InheritsThen
  <2>1. copies[x][h] > 0
    BY <1>4, <1>5
  <2>2. h # g
    BY <1>10, <2>1
  <2> QED
    BY <1>3, <2>1, <2>2, Inherits
<1>15. GrantsReach'
  <2> SUFFICES ASSUME NEW x \in Docs, NEW h \in Grants, NEW r \in Docs, WasPublished(x),
                      root'[h] = r, r \in PathOf(parent, x),
                      Stretch(parent, x, r) \cap (moved \cup cut') = {}
               PROVE  copies'[x][h] > 0 \/ r = x
    BY <1>1, ReachesThen DEF WasPublished
  <2>1. /\ d \notin Stretch(parent, x, r)
        /\ Stretch(parent, x, r) \cap (moved \cup cut) = {}
    BY <1>1
  <2>2. r # d /\ x # d
    BY <2>1, PathSelf DEF Stretch
  <2>3. h # g
    BY <1>3, <2>2
  <2>4. root'[h] = root[h] /\ copies'[x][h] = copies[x][h]
    BY <1>3, <1>4, <2>2, <2>3
  <2> QED
    BY <2>1, <2>4, Reaches
<1> QED
  BY <1>6, <1>9, <1>12, <1>13, <1>14, <1>15 DEF SharingInv

LEMMA CreateInv ==
    ASSUME SharingInv, TypeOK', NEW d \in Docs, NEW p \in Docs \cup {NoDoc},
           NEW publish \in BOOLEAN, Create(d, p, publish)
    PROVE  SharingInv'
<1>1. /\ status[d] = "absent" /\ (p # NoDoc => status[p] = "published")
      /\ parent' = [parent EXCEPT ![d] = p]
      /\ status' = [status EXCEPT ![d] = IF publish THEN "published" ELSE "draft"]
      /\ copies' = IF publish THEN [copies EXCEPT ![d] = Copied(p)] ELSE copies
      /\ root' = root /\ moved' = moved /\ cut' = cut /\ orphaned' = orphaned
  BY DEF Create
<1>2. parent \in Parents /\ parent' \in Parents /\ root \in [Grants -> Docs \cup {NoDoc}]
  BY DEF SharingInv, TypeOK, Parents
<1>3. parent[d] = NoDoc /\ copies[d] = NoRows /\ d \notin moved
  BY <1>1 DEF SharingInv, Coherent
<1>4. \A x \in Docs : parent[x] # d
  BY <1>1, ParametersAssumption DEF SharingInv, Coherent
<1>5. \A g \in Grants : root[g] # d
  BY <1>1, ParametersAssumption DEF SharingInv, Coherent
<1>6. \A x \in Docs : parent'[x] = IF x = d THEN p ELSE parent[x]
  BY <1>1, <1>2 DEF Parents
<1>7. \A x \in Docs : status'[x] = IF x # d THEN status[x]
                                   ELSE IF publish THEN "published" ELSE "draft"
  BY <1>1 DEF SharingInv, TypeOK
<1>8. \A x \in Docs : copies'[x] = IF x = d /\ publish THEN Copied(p) ELSE copies[x]
  BY <1>1 DEF SharingInv, TypeOK
<1>9. \A x \in Docs : x # d => d \notin PathOf(parent, x)
  <2> SUFFICES ASSUME NEW x \in Docs, x # d PROVE d \notin PathOf(parent, x)
    OBVIOUS
  <2> DEFINE S == Docs \ {d}
  <2>1. x \in S /\ \A y \in S : y \in Docs /\ parent[y] # NoDoc => parent[y] \in S
    BY <1>2, <1>4 DEF Parents
  <2> HIDE DEF S
  <2>2. PathOf(parent, x) \subseteq S
    BY <1>2, <2>1, PathLeast
  <2> QED
    BY <2>2 DEF S
<1>10. \A x \in Docs : x # d => PathOf(parent', x) = PathOf(parent, x)
  BY <1>2, <1>6, <1>9, PathStays
<1>11. p # d
  BY <1>1, ParametersAssumption
<1>12. Loopless(parent)'
  BY <1>2, <1>6, <1>9, <1>11, LooplessMove DEF SharingInv, Parents
<1>13. /\ p = NoDoc => PathOf(parent', d) = {d}
       /\ p # NoDoc => PathOf(parent', d) = {d} \cup PathOf(parent, p)
  <2>1. parent'[d] = p /\ (p # NoDoc => PathOf(parent', p) = PathOf(parent, p))
    BY <1>6, <1>10, <1>11
  <2> QED
    BY <1>2, <2>1, PathStep
<1>14. Coherent'
  BY <1>1, <1>2, <1>3, <1>6, <1>7, <1>8 DEF SharingInv, Coherent, Parents
<1>15. NoneDangles'
  <2> SUFFICES ASSUME NEW g \in Grants, root[g] = NoDoc, NEW x \in Docs
               PROVE  copies'[x][g] = 0
    BY <1>1 DEF NoneDangles, Free
  <2>1. \A y \in Docs : copies[y][g] = 0
    BY DEF SharingInv, NoneDangles, Free
  <2>2. Copied(p)[g] = 0
    <3>1. ~(Copied(p)[g] > 0)
      BY <2>1, CopiedRows DEF SharingInv
    <3> QED
      BY <3>1, CopiedType DEF SharingInv
  <2> QED
    BY <1>8, <2>1, <2>2
<1>16. PublishedAbove'
  <2> SUFFICES ASSUME NEW x \in Docs, status'[x] \in {"published", "archived"},
                      parent'[x] # NoDoc, parent'[x] \notin cut
               PROVE  status'[parent'[x]] \in {"published", "archived"}
    BY <1>1 DEF PublishedAbove, WasPublished
  <2>1. CASE x = d
    BY <1>1, <1>6, <1>7, <1>11, <2>1
  <2>2. CASE x # d
    <3>1. parent'[x] = parent[x] /\ parent[x] # d /\ parent[x] \in Docs
      BY <1>2, <1>4, <1>6, <2>2 DEF Parents
    <3>2. WasPublished(parent[x])
      BY <1>7, <2>2, <3>1 DEF SharingInv, PublishedAbove, WasPublished
    <3> QED
      BY <1>7, <3>1, <3>2 DEF WasPublished
  <2> QED
    BY <2>1, <2>2
<1>17. InheritedFromAbove'
  <2> SUFFICES ASSUME NEW x \in Docs, NEW g \in Grants, copies'[x][g] > 0
               PROVE  \/ root[g] \in PathOf(parent', x) \ {x}
                      \/ PathOf(parent', x) \cap (moved \cup orphaned) # {}
    BY <1>1, InheritsThen
  <2>1. CASE x # d
    <3>1. copies[x][g] > 0
      BY <1>8, <2>1
    <3> QED
      BY <1>10, <2>1, <3>1, Inherits
  <2>2. CASE x = d
    <3>1. Copied(p)[g] > 0
      BY <1>3, <1>8, <2>2 DEF NoRows
    <3>2. /\ p \in Docs
          /\ \/ root[g] \in PathOf(parent, p)
             \/ PathOf(parent, p) \cap (moved \cup orphaned) # {}
      BY <3>1, CopiedFromAbove
    <3> QED
      BY <1>5, <1>13, <2>2, <3>2, ParametersAssumption
  <2> QED
    BY <2>1, <2>2
<1>18. GrantsReach'
  <2> SUFFICES ASSUME NEW x \in Docs, NEW g \in Grants, NEW r \in Docs,
                      status'[x] \in {"published", "archived"},
                      root[g] = r, r \in PathOf(parent', x),
                      Stretch(parent', x, r) \cap (moved \cup cut) = {}
               PROVE  copies'[x][g] > 0 \/ r = x
    BY <1>1, ReachesThen DEF WasPublished
  <2>1. ASSUME NEW y \in Docs, y # d PROVE Stretch(parent, y, r) = Stretch(parent', y, r)
    <3>1. d \notin PathOf(parent, y) /\ PathOf(parent, y) \subseteq Docs
      BY <1>9, <2>1, PathSelf
    <3>2. \A z \in PathOf(parent, y) : PathOf(parent', z) = PathOf(parent, z)
      BY <1>10, <3>1
    <3> QED
      BY <1>10, <2>1, <3>2 DEF Stretch
  <2>2. CASE x # d
    <3>1. WasPublished(x) /\ PathOf(parent', x) = PathOf(parent, x)
      BY <1>7, <1>10, <2>2 DEF WasPublished
    <3>2. Stretch(parent, x, r) \cap (moved \cup cut) = {}
      BY <2>1, <2>2
    <3> QED
      BY <1>8, <2>2, <3>1, <3>2, Reaches
  <2>3. CASE x = d
    <3>1. publish /\ r # d
      BY <1>5, <1>7, <2>3
    <3>2. p # NoDoc /\ p \in Docs /\ r \in PathOf(parent, p)
      BY <1>13, <2>3, <3>1
    <3>3. p \in PathOf(parent', d)
      BY <1>13, <3>2, PathSelf
    <3>4. Stretch(parent, p, r) \cap (moved \cup cut) = {}
      <4>1. Stretch(parent', p, r) \subseteq Stretch(parent', d, r)
        BY <1>2, <3>3, StretchPart
      <4> QED
        BY <1>11, <2>1, <2>3, <3>2, <4>1
    <3>5. WasPublished(p)
      BY <1>1, <3>2 DEF WasPublished
    <3>6. copies[p][g] > 0 \/ root[g] = p
      BY <3>2, <3>4, <3>5, Reaches
    <3>7. Copied(p)[g] > 0
      BY <3>2, <3>6, CopiedRows DEF SharingInv
    <3> QED
      BY <1>8, <2>3, <3>1, <3>7
  <2> QED
    BY <2>2, <2>3
<1> QED
  BY <1>12, <1>14, <1>15, <1>16, <1>17, <1>18 DEF SharingInv

LEMMA MoveInv ==
    ASSUME SharingInv, TypeOK', NEW d \in Docs, NEW p \in Docs \cup {NoDoc}, Move(d, p)
    PROVE  SharingInv'
<1>1. /\ status[d] \in {"draft", "published"}
      /\ p # d /\ (p # NoDoc => status[p] = "published" /\ p \notin Below(d))
      /\ parent' = [parent EXCEPT ![d] = p] /\ moved' = moved \cup {d}
      /\ status' = status /\ root' = root /\ copies' = copies /\ cut' = cut
      /\ orphaned' = orphaned
  BY DEF Move
<1>2. parent \in Parents /\ parent' \in Parents /\ root \in [Grants -> Docs \cup {NoDoc}]
  BY DEF SharingInv, TypeOK, Parents
<1>3. \A x \in Docs : parent'[x] = IF x = d THEN p ELSE parent[x]
  BY <1>1, <1>2 DEF Parents
<1>4. p # NoDoc => d \notin PathOf(parent, p)
  BY <1>1, BelowIs
<1>5. Loopless(parent)'
  BY <1>2, <1>3, <1>4, LooplessMove DEF SharingInv, Parents
<1>6. Coherent'
  BY <1>1, <1>2, <1>3 DEF SharingInv, Coherent, Parents
<1>7. NoneDangles'
  BY <1>1 DEF SharingInv, NoneDangles, Free
<1>8. PublishedAbove'
  BY <1>1, <1>3 DEF SharingInv, PublishedAbove, WasPublished
<1>9. InheritedFromAbove'
  <2> SUFFICES ASSUME NEW x \in Docs, NEW g \in Grants, copies[x][g] > 0
               PROVE  \/ root[g] \in PathOf(parent', x) \ {x}
                      \/ PathOf(parent', x) \cap (moved' \cup orphaned) # {}
    BY <1>1, InheritsThen
  <2>1. CASE d \in PathOf(parent, x)
    <3>1. d \in PathOf(parent', x)
      BY <1>2, <1>3, <2>1, PathOver
    <3> QED
      BY <1>1, <3>1
  <2>2. CASE d \notin PathOf(parent, x)
    <3>1. PathOf(parent', x) = PathOf(parent, x)
      BY <1>2, <1>3, <2>2, PathStays
    <3> QED
      BY <1>1, <3>1, Inherits
  <2> QED
    BY <2>1, <2>2
<1>10. GrantsReach'
  <2> SUFFICES ASSUME NEW x \in Docs, NEW g \in Grants, NEW r \in Docs, WasPublished(x),
                      root[g] = r, r \in PathOf(parent', x),
                      Stretch(parent', x, r) \cap (moved' \cup cut) = {}
               PROVE  copies[x][g] > 0 \/ r = x
    BY <1>1, ReachesThen DEF WasPublished
  <2>1. d \notin Stretch(parent', x, r)
    BY <1>1
  <2>2. r \in PathOf(parent, x) /\ Stretch(parent, x, r) \subseteq Stretch(parent', x, r)
    BY <1>2, <1>3, <2>1, StretchKept DEF SharingInv
  <2> QED
    BY <1>1, <2>2, Reaches
<1> QED
  BY <1>5, <1>6, <1>7, <1>8, <1>9, <1>10 DEF SharingInv

LEMMA ProcessInv ==
    ASSUME SharingInv, TypeOK', NEW d \in Docs, Process(d)
    PROVE  SharingInv'
<1> DEFINE p == parent[d]
<1>1. /\ d \in moved /\ moved' = moved \ {d}
      /\ copies' = [x \in Docs |->
            CASE x \in PublishedBelow(d) \cup {d} -> Copied(p)
              [] x \in Below(d) \ PublishedBelow(d) -> NoRows
              [] OTHER -> copies[x]]
      /\ cut' = cut \cup {x \in Below(d) \cup {d} : RootsOf(x) # {}}
      /\ orphaned' = orphaned \ (Below(d) \cup {d})
      /\ status' = status /\ parent' = parent /\ root' = root
  BY DEF Process
<1>2. parent \in Parents /\ root \in [Grants -> Docs \cup {NoDoc}] /\ p \in Docs \cup {NoDoc}
  BY DEF SharingInv, TypeOK, Parents
<1>3. Loopless(parent)'
  BY <1>1 DEF SharingInv, Loopless
<1>4. \A x \in Docs : x \in Below(d) \cup {d} <=> d \in PathOf(parent, x)
  BY BelowIs, PathSelf
<1>5. \A x \in PublishedBelow(d) :
          x \in Docs /\ WasPublished(x) /\ x # d /\ d \in PathOf(parent, x)
  BY PublishedBelowIs
<1>6. ASSUME NEW x \in Docs
      PROVE  /\ d \notin PathOf(parent, x) => copies'[x] = copies[x]
             /\ x \in PublishedBelow(d) \cup {d} => copies'[x] = Copied(p)
             /\ d \in PathOf(parent, x) /\ x \notin PublishedBelow(d) \cup {d} =>
                    copies'[x] = NoRows
  <2> DEFINE A == PublishedBelow(d) \cup {d}
             B == Below(d) \ PublishedBelow(d)
             Q == Copied(p)
  <2>1. copies'[x] = CASE x \in A -> Q [] x \in B -> NoRows [] OTHER -> copies[x]
    BY <1>1
  <2>2. x = d => d \in PathOf(parent, x)
    BY PathSelf
  <2>3. x \in Below(d) <=> x # d /\ d \in PathOf(parent, x)
    BY BelowIs
  <2>4. x \in PublishedBelow(d) => d \in PathOf(parent, x)
    BY <1>5
  <2> HIDE DEF A, B, Q
  <2>5. x \in A /\ x \notin B => copies'[x] = Q
    BY <2>1
  <2>6. x \in B /\ x \notin A => copies'[x] = NoRows
    BY <2>1
  <2>7. x \notin A /\ x \notin B => copies'[x] = copies[x]
    BY <2>1
  <2> QED
    BY <2>2, <2>3, <2>4, <2>5, <2>6, <2>7 DEF A, B, Q
<1>7. ASSUME NEW x \in Docs, d \in PathOf(parent, x), p # NoDoc
      PROVE  /\ p \in Docs /\ p \in PathOf(parent, x) /\ d \notin PathOf(parent, p)
             /\ PathOf(parent, p) \subseteq PathOf(parent, x) \ {x}
  <2>1. /\ p \in Docs /\ d \notin PathOf(parent, p)
        /\ PathOf(parent, d) = {d} \cup PathOf(parent, p)
    BY <1>2, <1>7, PathStep DEF SharingInv, Loopless
  <2>2. PathOf(parent, d) \subseteq PathOf(parent, x)
    BY <1>2, <1>7, PathAbove
  <2>3. x \notin PathOf(parent, p)
    <3>1. x \in PathOf(parent, p) => PathOf(parent, x) \subseteq PathOf(parent, p)
      BY <1>2, <2>1, PathAbove
    <3> QED
      BY <1>7, <2>1, <3>1
  <2> QED
    BY <2>1, <2>2, <2>3, PathSelf
<1>8. Coherent'
  <2>1. status[d] # "absent"
    BY <1>1 DEF SharingInv, Coherent
  <2>2. \A x \in Docs : status[x] = "absent" => copies'[x] = NoRows
    <3> SUFFICES ASSUME NEW x \in Docs, status[x] = "absent" PROVE copies'[x] = NoRows
      OBVIOUS
    <3>1. x \notin PublishedBelow(d) \cup {d} /\ copies[x] = NoRows
      BY <1>5, <2>1 DEF WasPublished, SharingInv, Coherent
    <3> QED
      BY <1>6, <3>1
  <2> QED
    BY <1>1, <2>2 DEF SharingInv, Coherent
<1>9. NoneDangles'
  <2> SUFFICES ASSUME NEW g \in Grants, root[g] = NoDoc, NEW x \in Docs
               PROVE  copies'[x][g] = 0
    BY <1>1 DEF NoneDangles, Free
  <2>1. \A y \in Docs : copies[y][g] = 0
    BY DEF SharingInv, NoneDangles, Free
  <2>2. Copied(p)[g] = 0
    <3>1. ~(Copied(p)[g] > 0)
      BY <1>2, <2>1, CopiedRows DEF SharingInv
    <3> QED
      BY <1>2, <3>1, CopiedType DEF SharingInv
  <2> QED
    BY <1>6, <2>1, <2>2 DEF NoRows
<1>10. PublishedAbove'
  BY <1>1 DEF SharingInv, PublishedAbove, WasPublished
<1>11. InheritedFromAbove'
  <2> SUFFICES ASSUME NEW x \in Docs, NEW g \in Grants, copies'[x][g] > 0
               PROVE  \/ root[g] \in PathOf(parent, x) \ {x}
                      \/ PathOf(parent, x) \cap (moved' \cup orphaned') # {}
    BY <1>1, InheritsThen
  <2>1. ASSUME NEW y \in Docs, d \notin PathOf(parent, y),
               PathOf(parent, y) \cap (moved \cup orphaned) # {}
        PROVE  PathOf(parent, y) \cap (moved' \cup orphaned') # {}
    <3>1. PICK z \in PathOf(parent, y) : z \in moved \cup orphaned
      BY <2>1
    <3>2. z \in Docs /\ PathOf(parent, z) \subseteq PathOf(parent, y)
      BY <1>2, PathAbove
    <3>3. z \notin Below(d) \cup {d}
      BY <1>4, <2>1, <3>2
    <3> QED
      BY <1>1, <3>1, <3>3
  <2>2. CASE d \notin PathOf(parent, x)
    <3>1. copies[x][g] > 0
      BY <1>6, <2>2
    <3> QED
      BY <2>1, <2>2, <3>1, Inherits
  <2>3. CASE d \in PathOf(parent, x)
    <3>1. copies'[x] = Copied(p)
      BY <1>6, <2>3 DEF NoRows
    <3>2. /\ p \in Docs
          /\ \/ root[g] \in PathOf(parent, p)
             \/ PathOf(parent, p) \cap (moved \cup orphaned) # {}
      BY <1>2, <3>1, CopiedFromAbove
    <3>3. PathOf(parent, p) \subseteq PathOf(parent, x) \ {x} /\ d \notin PathOf(parent, p)
      BY <1>7, <2>3, <3>2, ParametersAssumption
    <3> QED
      BY <2>1, <3>2, <3>3
  <2> QED
    BY <2>2, <2>3
<1>12. GrantsReach'
  <2> SUFFICES ASSUME NEW x \in Docs, NEW g \in Grants, NEW r \in Docs, WasPublished(x),
                      root[g] = r, r \in PathOf(parent, x),
                      Stretch(parent, x, r) \cap (moved' \cup cut') = {}
               PROVE  copies'[x][g] > 0 \/ r = x
    BY <1>1, ReachesThen DEF WasPublished
  <2>1. Stretch(parent, x, r) \cap cut = {}
    BY <1>1
  <2>2. d \notin PathOf(parent, r)
    <3> SUFFICES ASSUME d \in PathOf(parent, r) PROVE FALSE
      OBVIOUS
    <3>1. r \in Below(d) \cup {d} /\ RootsOf(r) # {}
      BY <1>4 DEF RootsOf
    <3>2. r \in cut' /\ r \in Stretch(parent, x, r)
      BY <1>1, <3>1, PathSelf DEF Stretch
    <3> QED
      BY <3>2
  <2>3. CASE d \notin PathOf(parent, x)
    <3>1. d \notin Stretch(parent, x, r)
      BY <2>3 DEF Stretch
    <3>2. Stretch(parent, x, r) \cap (moved \cup cut) = {}
      BY <1>1, <2>1, <3>1
    <3>3. copies'[x] = copies[x]
      BY <1>6, <2>3
    <3> QED
      BY <3>2, <3>3, Reaches
  <2>4. CASE d \in PathOf(parent, x)
    <3>1. r \in PathOf(parent, d) /\ r # d
      BY <1>2, <2>2, <2>4, PathLinear, PathSelf
    <3>2. p # NoDoc /\ r \in PathOf(parent, p)
      BY <1>2, <3>1, PathStep
    <3>3. p \in Docs /\ p \in PathOf(parent, x) /\ d \notin PathOf(parent, p)
      BY <1>7, <2>4, <3>2
    <3>4. /\ p \in Stretch(parent, x, r)
          /\ Stretch(parent, p, r) \subseteq Stretch(parent, x, r)
          /\ Stretch(parent, x, d) \subseteq Stretch(parent, x, r)
      BY <1>2, <3>1, <3>2, <3>3, StretchPart DEF Stretch
    <3>5. WasPublished(p)
      BY <2>1, <3>4, PublishedWay
    <3>6. d \notin Stretch(parent, p, r)
      BY <3>3 DEF Stretch
    <3>7. Stretch(parent, p, r) \cap (moved \cup cut) = {}
      BY <1>1, <2>1, <3>4, <3>6
    <3>8. copies[p][g] > 0 \/ root[g] = p
      BY <3>2, <3>3, <3>5, <3>7, Reaches
    <3>9. Copied(p)[g] > 0
      BY <1>2, <3>2, <3>8, CopiedRows DEF SharingInv
    <3>10. x # d => x \in PublishedBelow(d)
      BY <2>1, <2>4, <3>4, CleanBelow
    <3>11. copies'[x] = Copied(p)
      BY <1>6, <3>10
    <3> QED
      BY <3>9, <3>11
  <2> QED
    BY <2>3, <2>4
<1> QED
  BY <1>3, <1>8, <1>9, <1>10, <1>11, <1>12 DEF SharingInv

LEMMA NextSharing == SharingInv /\ [Next]_vars => SharingInv'
<1> SUFFICES ASSUME SharingInv, [Next]_vars PROVE SharingInv'
  OBVIOUS
<1>1. TypeOK'
  BY NextType DEF SharingInv
<1>2. CASE Next
  <2>1. PICK d \in Docs :
          \/ \E p \in Docs \cup {NoDoc} :
               \/ \E publish \in BOOLEAN : Create(d, p, publish)
               \/ Move(d, p)
          \/ Publish(d) \/ Unpublish(d) \/ Archive(d) \/ Restore(d) \/ Process(d)
          \/ \E g \in Grants :
               \/ Share(d, g) \/ Unshare(d, g)
               \/ \E old \in Grants : Change(d, g, old)
    BY <1>2 DEF Next
  <2>2. CASE \E p \in Docs \cup {NoDoc} :
               \/ \E publish \in BOOLEAN : Create(d, p, publish)
               \/ Move(d, p)
    BY <1>1, <2>2, CreateInv, MoveInv
  <2>3. CASE Publish(d) \/ Unpublish(d) \/ Archive(d) \/ Restore(d) \/ Process(d)
    BY <1>1, <2>3, PublishInv, UnpublishInv, ArchiveInv, RestoreInv, ProcessInv
  <2>4. CASE \E g \in Grants :
               \/ Share(d, g) \/ Unshare(d, g)
               \/ \E old \in Grants : Change(d, g, old)
    BY <1>1, <2>4, ShareInv, UnshareInv, ChangeInv
  <2> QED
    BY <2>1, <2>2, <2>3, <2>4
<1>3. CASE UNCHANGED vars
  <2>1. UNCHANGED <<parent, root, copies, moved, cut, orphaned>> /\ status' = status
    BY <1>3 DEF vars
  <2>2. \A x \in Docs : /\ WasPublished(x)' <=> WasPublished(x)
                        /\ status'[x] = "absent" <=> status[x] = "absent"
    BY <2>1 DEF WasPublished
  <2> QED
    BY <1>1, <2>1, <2>2, SameInv
<1> QED
  BY <1>2, <1>3

LEMMA SharingHolds == Spec => []SharingInv
  BY InitSharing, NextSharing, PTL DEF Spec

-----------------------------------------------------------------------------
(* The theorems.                                                              *)

\* A document has a status, a parent and a number of rows for every membership.
THEOREM TypeCorrect == Spec => []TypeOK
  BY InitType, NextType, PTL DEF Spec

\* A copy is one of a membership on a document above it, except below a move that is still
\* to be processed or a document restored out of its parent (UserMembership.copy,
\* DocumentMovedProcessor.perform).
THEOREM Inherited == Spec => []InheritedFromAbove
  BY SharingHolds, PTL DEF SharingInv

\* A membership has a row for every published document below it, where nothing was cut on
\* the way down and no move waits to be processed (recreateSourcedMemberships, copy).
THEOREM EveryGrantReaches == Spec => []GrantsReach
  BY SharingHolds, PTL DEF SharingInv
=============================================================================
