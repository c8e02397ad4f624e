------------------------- MODULE DocumentTreeProofs -------------------------
(* Proofs about DocumentTree, for any documents and collections: what holds   *)
(* until a document is in another collection than its parent (parted).        *)
EXTENDS DocumentTree, TLAPS

-----------------------------------------------------------------------------
(* Below.                                                                   *)

Edges == SUBSET (Docs \X (Docs \cup {NoDoc}))

\* What is below a document includes the document.
LEMMA BelowSelf ==
    ASSUME NEW edges, NEW d
    PROVE  d \in Below(edges, d)
  BY DEF Below

\* It includes the children of all it includes.
LEMMA BelowClosed ==
    ASSUME NEW edges \in Edges, NEW d
    PROVE  \A e \in edges : e[2] \in Below(edges, d) => e[1] \in Below(edges, d)
<1> SUFFICES ASSUME NEW e \in edges, e[2] \in Below(edges, d),
                    NEW S \in SUBSET (Docs \cup {d}), d \in S, ClosedDown(edges, S)
             PROVE  e[1] \in S
  BY DEF Below, Edges
<1>1. e[2] \in S
  BY DEF Below
<1> QED
  BY <1>1 DEF ClosedDown

\* It is part of every set that has these two properties.
LEMMA BelowLeast ==
    ASSUME NEW edges \in Edges, NEW d, NEW S, d \in S,
           \A e \in edges : e[2] \in S => e[1] \in S
    PROVE  Below(edges, d) \subseteq S
<1> DEFINE T == S \cap (Docs \cup {d})
<1>1. d \in T /\ T \in SUBSET (Docs \cup {d})
  OBVIOUS
<1>2. ClosedDown(edges, T)
  BY DEF ClosedDown, Edges
<1> HIDE DEF T
<1>3. Below(edges, d) \subseteq T
  BY <1>1, <1>2 DEF Below
<1> QED
  BY <1>3 DEF T

LEMMA BelowTyped ==
    ASSUME NEW edges, NEW d \in Docs
    PROVE  Below(edges, d) \subseteq Docs
  BY DEF Below

\* More edges lead to more documents.
LEMMA BelowGrows ==
    ASSUME NEW few \in Edges, NEW many \in Edges, few \subseteq many, NEW d
    PROVE  Below(few, d) \subseteq Below(many, d)
<1>1. d \in Below(many, d)
  BY BelowSelf
<1>2. \A e \in few : e[2] \in Below(many, d) => e[1] \in Below(many, d)
  BY BelowClosed
<1> QED
  BY <1>1, <1>2, BelowLeast

\* Each document below another one has its parent there.
LEMMA BelowStep ==
    ASSUME NEW edges \in Edges, NEW d, NEW x \in Below(edges, d), x # d
    PROVE  \E e \in edges : e[1] = x /\ e[2] \in Below(edges, d)
<1> SUFFICES ASSUME \A e \in edges : e[2] \in Below(edges, d) => e[1] # x
             PROVE  FALSE
  OBVIOUS
<1> DEFINE S == Below(edges, d) \ {x}
<1>1. d \in S
  BY BelowSelf
<1>2. \A e \in edges : e[2] \in S => e[1] \in S
  BY BelowClosed
<1> HIDE DEF S
<1>3. Below(edges, d) \subseteq S
  BY <1>1, <1>2, BelowLeast
<1> QED
  BY <1>3 DEF S

\* Nothing is below a document that is nobody's parent.
LEMMA BelowLeaf ==
    ASSUME NEW edges \in Edges, NEW d, \A e \in edges : e[2] # d
    PROVE  Below(edges, d) = {d}
<1>1. Below(edges, d) \subseteq {d}
  BY BelowLeast
<1> QED
  BY <1>1, BelowSelf

\* A graph of parents in which every document is below the root keeps this when
\* one document is put under another that is not below it.
LEMMA Reparent ==
    ASSUME NEW old \in Edges, NEW new \in Edges, NEW d \in Docs, NEW p,
           Docs \subseteq Below(old, NoDoc),
           <<d, p>> \in new, p = NoDoc \/ p \in Docs \ Below(old, d),
           \A e \in old : e[1] # d => e \in new
    PROVE  Docs \subseteq Below(new, NoDoc)
<1> DEFINE S == Below(new, NoDoc)
           B == Below(old, d)
<1>1. NoDoc \in S /\ \A e \in new : e[2] \in S => e[1] \in S
  BY BelowSelf, BelowClosed
<1>2. d \in B /\ \A e \in old : e[2] \in B => e[1] \in B
  BY BelowSelf, BelowClosed
<1> HIDE DEF S, B
<1>3. Docs \subseteq S \cup B
  <2>1. \A e \in old : e[2] \in S \cup B => e[1] \in S \cup B
    BY <1>1, <1>2
  <2>2. Below(old, NoDoc) \subseteq S \cup B
    BY <1>1, <2>1, BelowLeast
  <2> QED
    BY <2>2
<1>4. p \in S
  BY <1>1, <1>3 DEF B
<1>5. d \in S
  BY <1>1, <1>4
<1>6. B \subseteq S
  <2>1. \A e \in old : e[2] \in S => e[1] \in S
    BY <1>1, <1>5
  <2> QED
    BY <1>5, <2>1, BelowLeast DEF B
<1> QED
  BY <1>3, <1>6 DEF S

\* So it does when documents are put at the root.
LEMMA Detach ==
    ASSUME NEW old \in Edges, NEW new \in Edges,
           Docs \subseteq Below(old, NoDoc),
           \A e \in old : e \in new \/ <<e[1], NoDoc>> \in new
    PROVE  Docs \subseteq Below(new, NoDoc)
<1> DEFINE S == Below(new, NoDoc)
<1>1. NoDoc \in S /\ \A e \in new : e[2] \in S => e[1] \in S
  BY BelowSelf, BelowClosed
<1> HIDE DEF S
<1>2. \A e \in old : e[2] \in S => e[1] \in S
  <2> SUFFICES ASSUME NEW e \in old, e[2] \in S PROVE e[1] \in S
    OBVIOUS
  <2>1. CASE e \in new
    BY <1>1, <2>1
  <2>2. CASE <<e[1], NoDoc>> \in new
    <3> DEFINE f == <<e[1], NoDoc>>
    <3>1. f \in new /\ f[2] = NoDoc /\ f[1] = e[1]
      BY <2>2
    <3> HIDE DEF f
    <3> QED
      BY <1>1, <3>1
  <2> QED
    BY <2>1, <2>2
<1>3. Below(old, NoDoc) \subseteq S
  BY <1>1, <1>2, BelowLeast
<1> QED
  BY <1>3 DEF S

-----------------------------------------------------------------------------
(* The inductive invariant.                                                 *)

ParentEdges == {<<x, row[x].parent>> : x \in Docs}
PresentEdges == {e \in ParentEdges : Present(row, e[1])}
PublishedEdges == {e \in PresentEdges : row[e[1]].published}
ActiveEdges == {e \in ParentEdges : Active(row, e[1])}

\* What is not there says nothing, parents are there, what is published has a collection, and
\* what is archived was published.
RowsCoherent ==
    \A x \in Docs :
        /\ row[x].exists \/ row[x] = Absent
        /\ row[x].parent # NoDoc => row[row[x].parent].exists
        /\ row[x].published => row[x].collection # NoCollection
        /\ row[x].archived # "no" => row[x].published

Acyclic == Docs \subseteq Below(ParentEdges, NoDoc)

\* A tree, of whichever collection, shows published documents of its collection under their
\* parents, and these too.
TreesFollowRows ==
    \A c \in Collections : \A e \in structure[c] :
        /\ row[e[1]].published /\ row[e[1]].collection = c /\ row[e[1]].parent = e[2]
        /\ e[2] = NoDoc \/ e[2] \in Nodes(structure[c])

\* Archived with its collection, and then so is what it is under.
ArchivedAlong(x) ==
    /\ row[x].archived = "byCollection"
    /\ row[x].parent # NoDoc => row[row[x].parent].archived = "byCollection"

\* What may become of a document in the tree of c while c is archived and after c is deleted.
Fits(c, x) ==
    /\ coll[c] = "active" => Active(row, x)
    /\ coll[c] = "archived" =>
          Present(row, x) /\ (row[x].archived = "no" \/ ArchivedAlong(x))
    /\ coll[c] = "deleted" =>
          \/ row[x].deleted /\ row[x].archived = "no"
          \/ Present(row, x) /\ ArchivedAlong(x)

NodesFit == \A c \in Collections : \A x \in Nodes(structure[c]) : Fits(c, x)

\* A published document is in its collection's tree unless it was archived by itself.
AllShown ==
    \A x \in Docs :
        Present(row, x) /\ row[x].published /\ row[x].archived # "byDocument"
            => <<x, row[x].parent>> \in structure[row[x].collection]

\* A document that was deleted without having been archived took along what was below it,
\* unless it went with its collection.
NoOrphans ==
    \A x \in Docs : LET p == row[x].parent IN
        (/\ Present(row, x) /\ row[x].published /\ p # NoDoc
         /\ row[p].deleted /\ row[p].published /\ row[p].archived = "no")
            => coll[row[x].collection] = "deleted"

TreeInv ==
    /\ TypeOK /\ RowsCoherent /\ Acyclic /\ ChildSharesCollection
    /\ TreesFollowRows /\ NodesFit /\ AllShown /\ NoOrphans

-----------------------------------------------------------------------------
(* What queries on the rows and the trees find.                             *)

LEMMA EdgesTyped ==
    ASSUME row \in [Docs -> Row]
    PROVE  /\ ParentEdges \in Edges /\ PresentEdges \in Edges
           /\ PublishedEdges \in Edges /\ ActiveEdges \in Edges
           /\ PresentEdges \subseteq ParentEdges /\ PublishedEdges \subseteq PresentEdges
           /\ ActiveEdges \subseteq PresentEdges
<1>1. \A x \in Docs : row[x].parent \in Docs \cup {NoDoc}
  BY DEF Row
<1>2. ParentEdges \in Edges
  BY <1>1 DEF ParentEdges, Edges
<1> QED
  BY <1>2 DEF PresentEdges, PublishedEdges, ActiveEdges, Active, Edges

LEMMA PresentQuery ==
    RowEdges(row, LAMBDA x : Present(row, x)) = PresentEdges
  BY DEF RowEdges, PresentEdges, ParentEdges

LEMMA PublishedQuery ==
    RowEdges(row, LAMBDA x : Present(row, x) /\ row[x].published) = PublishedEdges
  BY DEF RowEdges, PublishedEdges, PresentEdges, ParentEdges

LEMMA ActiveQuery ==
    RowEdges(row, LAMBDA y : Active(row, y)) = ActiveEdges
  BY DEF RowEdges, ActiveEdges, ParentEdges

LEMMA QueryChildren ==
    ASSUME NEW d
    PROVE  /\ ChildDocuments(row, d) = Below(PresentEdges, d) \ {d}
           /\ PublishedBelow(row, d) = Below(PublishedEdges, d) \ {d}
<1>1. ChildDocuments(row, d) = Below(RowEdges(row, LAMBDA x : Present(row, x)), d) \ {d}
  BY DEF ChildDocuments
<1>2. PublishedBelow(row, d) =
        Below(RowEdges(row, LAMBDA x : Present(row, x) /\ row[x].published), d) \ {d}
  BY DEF PublishedBelow
<1> QED
  BY <1>1, <1>2, PresentQuery, PublishedQuery

\* Sequelize saves what was changed of what was just read.
LEMMA SavedRow ==
    ASSUME NEW was \in Row, NEW new \in Row
    PROVE  Saved(was, was, new) = new
  BY DEF Saved, Row

\* addDocumentToStructure, where it does something.
LEMMA WithPlace ==
    ASSUME NEW edges, NEW d, NEW p, NEW branch, d \notin Nodes(edges),
           p = NoDoc \/ p \in Nodes(edges)
    PROVE  With(edges, d, p, branch) = edges \cup {<<d, p>>} \cup branch
  BY DEF With

-----------------------------------------------------------------------------
(* Trees that follow the rows.                                              *)

\* A document in a tree is published, in that collection, and under its parent there.
LEMMA ShownRow ==
    ASSUME TypeOK, TreesFollowRows, NEW c \in Collections, NEW x \in Nodes(structure[c])
    PROVE  /\ x \in Docs /\ row[x].published /\ row[x].collection = c
           /\ <<x, row[x].parent>> \in structure[c]
           /\ row[x].parent = NoDoc \/ row[x].parent \in Nodes(structure[c])
<1>1. PICK e \in structure[c] : e[1] = x
  BY DEF Nodes
<1>2. structure[c] \subseteq Docs \X (Docs \cup {NoDoc})
  BY DEF TypeOK
<1>3. e = <<e[1], e[2]>> /\ e[1] \in Docs
  BY <1>1, <1>2
<1> QED
  BY <1>1, <1>3 DEF TreesFollowRows

\* The edges of a tree are edges of the rows, and all of them of present documents if its
\* collection was not deleted.
LEMMA TreeEdges ==
    ASSUME TypeOK, TreesFollowRows, NEW c \in Collections
    PROVE  structure[c] \in Edges /\ structure[c] \subseteq ParentEdges
<1>1. structure[c] \in Edges
  BY DEF TypeOK, Edges
<1>2. ASSUME NEW e \in structure[c] PROVE e \in ParentEdges
  <2>1. e = <<e[1], e[2]>> /\ e[1] \in Docs
    BY <1>1 DEF Edges
  <2>2. row[e[1]].parent = e[2]
    BY DEF TreesFollowRows
  <2> QED
    BY <2>1, <2>2 DEF ParentEdges
<1> QED
  BY <1>1, <1>2

LEMMA PresentTree ==
    ASSUME TypeOK, TreesFollowRows, NodesFit, NEW c \in Collections, coll[c] # "deleted"
    PROVE  structure[c] \subseteq PublishedEdges /\ \A x \in Nodes(structure[c]) : Present(row, x)
<1>1. coll[c] \in {"active", "archived"}
  BY DEF TypeOK
<1>2. \A x \in Nodes(structure[c]) : Present(row, x)
  BY <1>1 DEF NodesFit, Fits, Active
<1>3. ASSUME NEW e \in structure[c] PROVE e \in PublishedEdges
  <2>1. e[1] \in Nodes(structure[c])
    BY DEF Nodes
  <2>2. row[e[1]].published /\ Present(row, e[1]) /\ e \in ParentEdges
    BY <1>2, <2>1, ShownRow, TreeEdges
  <2> QED
    BY <2>2 DEF PublishedEdges, PresentEdges
<1> QED
  BY <1>2, <1>3

\* What hangs below a document in a tree is in that tree, and so is the document.
LEMMA BelowInTree ==
    ASSUME TypeOK, TreesFollowRows, NEW c \in Collections, NEW d \in Docs,
           NEW x \in Below(structure[c], d), x # d
    PROVE  x \in Nodes(structure[c]) /\ d \in Nodes(structure[c])
<1>1. structure[c] \in Edges
  BY TreeEdges
<1>2. PICK e \in structure[c] : e[1] = x
  BY <1>1, BelowStep
<1>3. ASSUME d \notin Nodes(structure[c]) PROVE FALSE
  <2>1. d # NoDoc
    BY ParametersAssumption
  <2>2. \A f \in structure[c] : f[2] # d
    BY <1>3, <2>1 DEF TreesFollowRows
  <2>3. Below(structure[c], d) = {d}
    BY <1>1, <2>2, BelowLeaf
  <2> QED
    BY <2>3
<1> QED
  BY <1>2, <1>3 DEF Nodes

\* What the rows have below a document, along whatever edges, and a tree shows, is below the
\* document in that tree, which shows the document, too.
LEMMA ShownBelow ==
    ASSUME TypeOK, TreesFollowRows, NEW c \in Collections, NEW d \in Docs,
           NEW edges \in Edges, edges \subseteq ParentEdges,
           NEW x \in Below(edges, d), x \in Nodes(structure[c])
    PROVE  x \in Below(structure[c], d) /\ d \in Nodes(structure[c])
<1> DEFINE B == Below(structure[c], d)
           S == B \cup (Docs \ Nodes(structure[c]))
<1>1. structure[c] \in Edges
  BY TreeEdges
<1>2. d \in B /\ \A e \in structure[c] : e[2] \in B => e[1] \in B
  BY <1>1, BelowSelf, BelowClosed
<1> HIDE DEF B
<1>3. \A e \in edges : e[2] \in S => e[1] \in S
  <2> SUFFICES ASSUME NEW e \in edges, e[2] \in S, e[1] \in Nodes(structure[c])
               PROVE  e[1] \in B
    BY DEF Edges
  <2>1. e[2] = row[e[1]].parent /\ e = <<e[1], e[2]>>
    BY DEF ParentEdges
  <2>2. e \in structure[c] /\ (e[2] = NoDoc \/ e[2] \in Nodes(structure[c]))
    BY <2>1, ShownRow
  <2>3. e[2] # NoDoc \/ e[2] \in B
    BY ParametersAssumption
  <2> QED
    BY <1>2, <2>2, <2>3
<1>4. Below(edges, d) \subseteq S
  BY <1>2, <1>3, BelowLeast
<1>5. x \in B
  BY <1>4
<1> QED
  BY <1>5, BelowInTree DEF B

\* Below a document that was not archived with its collection, no document was.
LEMMA UnarchivedBelow ==
    ASSUME TypeOK, TreesFollowRows, NodesFit, NEW c \in Collections,
           NEW d \in Nodes(structure[c]), row[d].archived # "byCollection",
           NEW x \in Below(structure[c], d)
    PROVE  x \in Nodes(structure[c]) /\ row[x].archived = "no"
<1> DEFINE N == Nodes(structure[c])
           S == {y \in N : row[y].archived = "no"}
<1>1. structure[c] \in Edges
  BY TreeEdges
<1>2. \A y \in N : Fits(c, y) /\ coll[c] \in {"active", "archived", "deleted"}
  BY DEF NodesFit, TypeOK
<1>3. d \in S
  BY <1>2 DEF Fits, Active, ArchivedAlong
<1>4. \A e \in structure[c] : e[2] \in S => e[1] \in S
  <2> SUFFICES ASSUME NEW e \in structure[c], e[2] \in S PROVE e[1] \in S
    OBVIOUS
  <2>1. e[1] \in N /\ row[e[1]].parent = e[2]
    BY DEF Nodes, TreesFollowRows
  <2>2. e[2] \in Docs /\ e[2] # NoDoc
    <3> DEFINE y == e[2]
    <3>1. y \in Nodes(structure[c])
      OBVIOUS
    <3> HIDE DEF y
    <3>2. y \in Docs
      BY <3>1, ShownRow
    <3> QED
      BY <3>2, ParametersAssumption DEF y
  <2>3. row[e[2]].archived = "no"
    OBVIOUS
  <2>4. Fits(c, e[1]) /\ coll[c] \in {"active", "archived", "deleted"}
    BY <1>2, <2>1
  <2>5. ~ArchivedAlong(e[1])
    BY <2>1, <2>2, <2>3 DEF ArchivedAlong
  <2>6. row[e[1]].archived = "no"
    BY <2>4, <2>5 DEF Fits, Active
  <2> QED
    BY <2>1, <2>6
<1> HIDE DEF S
<1>5. Below(structure[c], d) \subseteq S
  BY <1>1, <1>3, <1>4, BelowLeast
<1> QED
  BY <1>5 DEF S

\* removeDocumentInStructure leaves a tree: what is left under a document is left with it.
LEMMA WithoutTree ==
    ASSUME TypeOK, TreesFollowRows, NEW c \in Collections, NEW d \in Docs
    PROVE  /\ Without(structure[c], d) \subseteq structure[c]
           /\ Nodes(Without(structure[c], d)) = Nodes(structure[c]) \ Below(structure[c], d)
           /\ \A e \in Without(structure[c], d) :
                 e[2] = NoDoc \/ e[2] \in Nodes(Without(structure[c], d))
<1> DEFINE B == Below(structure[c], d)
           W == Without(structure[c], d)
<1>1. structure[c] \in Edges
  BY TreeEdges
<1>2. \A e \in structure[c] : e[2] \in B => e[1] \in B
  BY <1>1, BelowClosed
<1>3. \A e : e \in W <=> e \in structure[c] /\ e[1] \notin B
  BY DEF Without
<1> HIDE DEF B, W
<1>4. Nodes(W) = Nodes(structure[c]) \ B
  BY <1>3 DEF Nodes
<1>5. ASSUME NEW e \in W, e[2] # NoDoc PROVE e[2] \in Nodes(W)
  BY <1>2, <1>3, <1>4, <1>5 DEF TreesFollowRows
<1> QED
  BY <1>3, <1>4, <1>5 DEF W, B

\* What a request reads is what is there.
LEMMA Seen == Snapshot.row = row /\ Snapshot.coll = coll
  BY DEF Snapshot

-----------------------------------------------------------------------------
(* What moving and restoring write.                                         *)

Moved(d, c, p) == [row[d] EXCEPT !.collection = c, !.parent = p]

\* What a move takes along, and out of which tree.
MovedBranch(d) ==
    LET from == row[d].collection
    IN  IF from # NoCollection /\ d \in Nodes(structure[from])
        THEN Branch(structure[from], d) ELSE NavigationNode(row, d, FALSE)
TakenOut(d) ==
    IF row[d].collection = NoCollection THEN structure
    ELSE [structure EXCEPT ![row[d].collection] = Without(structure[row[d].collection], d)]

LEMMA MoveWrites ==
    ASSUME row \in [Docs -> Row], NEW d \in Docs, NEW c \in Collections,
           NEW p \in Docs \cup {NoDoc}, Move(Snapshot, d, c, p)
    PROVE  /\ row' \in [Docs -> Row] /\ row'[d] = Moved(d, c, p)
           /\ \A x \in Docs \ {d} : row'[x] =
                 IF c # row[d].collection /\ x \in ChildDocuments(row, d) /\ row[x].published
                 THEN [row[x] EXCEPT !.collection = c] ELSE row[x]
           /\ structure' = IF row[d].published
                           THEN [TakenOut(d) EXCEPT ![c] =
                                    With(TakenOut(d)[c], d, p, MovedBranch(d))]
                           ELSE structure
           /\ coll' = coll
<1> DEFINE new == Moved(d, c, p)
<1>1. new \in Row
  BY DEF Moved, Row
<1>2. Saved(row[d], row[d], new) = new
  BY <1>1, SavedRow
<1>3. row' = [x \in Docs |->
          CASE x = d -> Saved(row[d], row[d], new)
            [] c # row[d].collection /\ x \in ChildDocuments(row, d) /\ row[x].published ->
                  [row[x] EXCEPT !.collection = c]
            [] OTHER -> row[x]]
  BY DEF Move, Snapshot, Moved
<1>4. structure' = IF row[d].published
                   THEN [TakenOut(d) EXCEPT ![c] = With(TakenOut(d)[c], d, p, MovedBranch(d))]
                   ELSE structure
  BY Seen DEF Move, TakenOut, MovedBranch
<1>5. coll' = coll
  BY DEF Move
<1> HIDE DEF new
<1>6. row' \in [Docs -> Row]
  BY <1>1, <1>2, <1>3 DEF Row
<1>7. row'[d] = new
  <2>1. d \notin ChildDocuments(row, d)
    BY QueryChildren
  <2> QED
    BY <1>2, <1>3, <2>1
<1>8. \A x \in Docs \ {d} : row'[x] =
         IF c # row[d].collection /\ x \in ChildDocuments(row, d) /\ row[x].published
         THEN [row[x] EXCEPT !.collection = c] ELSE row[x]
  BY <1>3
<1> QED
  BY <1>4, <1>5, <1>6, <1>7, <1>8 DEF new

\* A restored document stays under its parent if that is active and published.
RestoredParent(d) ==
    IF /\ row[d].parent # NoDoc /\ Active(row, row[d].parent)
       /\ row[row[d].parent].published
    THEN row[d].parent ELSE NoDoc
Restored(d, c) ==
    [row[d] EXCEPT !.parent = RestoredParent(d), !.deleted = FALSE,
                   !.archived = "no", !.collection = c]
RestoredKids(d) == IF row[d].archived # "no" THEN PublishedBelow(row, d) ELSE {}
Left(d, c) ==
    IF row[d].collection \in {NoCollection, c} THEN structure
    ELSE [structure EXCEPT ![row[d].collection] = Without(structure[row[d].collection], d)]

LEMMA RestoreWrites ==
    ASSUME row \in [Docs -> Row], NEW d \in Docs, NEW c \in Collections,
           Restore(Snapshot, d, c)
    PROVE  /\ row' \in [Docs -> Row] /\ row'[d] = Restored(d, c)
           /\ \A x \in Docs \ {d} : row'[x] =
                 IF x \in RestoredKids(d)
                 THEN [row[x] EXCEPT !.archived = "no", !.collection = c] ELSE row[x]
           /\ structure' = IF row[d].published
                           THEN [Left(d, c) EXCEPT ![c] =
                                    With(Left(d, c)[c], d, RestoredParent(d),
                                         NavigationNode(row, d, TRUE))]
                           ELSE Left(d, c)
           /\ coll' = coll
<1> DEFINE new == Restored(d, c)
           kids == RestoredKids(d)
<1>1. new \in Row
  <2>1. RestoredParent(d) \in Docs \cup {NoDoc}
    BY DEF RestoredParent, Row
  <2> QED
    BY <2>1 DEF Restored, Row
<1>2. Saved(row[d], row[d], new) = new
  BY <1>1, SavedRow
<1>3. LET was == Snapshot.row[d]
          parent == IF was.parent # NoDoc /\ Active(row, was.parent)
                       /\ row[was.parent].published
                    THEN was.parent ELSE NoDoc
          restored == [was EXCEPT !.parent = parent, !.deleted = FALSE,
                                  !.archived = "no", !.collection = c]
          below == IF was.archived # "no" THEN PublishedBelow(row, d) ELSE {}
      IN  row' = [x \in Docs |->
             CASE x = d -> Saved(row[d], was, restored)
               [] x \in below -> [row[x] EXCEPT !.archived = "no", !.collection = c]
               [] OTHER -> row[x]]
  BY Zenon DEF Restore
<1>4. row' = [x \in Docs |-> row'[x]]
      /\ \A x \in Docs : row'[x] =
            CASE x = d -> Saved(row[d], row[d], new)
              [] x \in kids -> [row[x] EXCEPT !.archived = "no", !.collection = c]
              [] OTHER -> row[x]
  <2> DEFINE G(x, was, parent) ==
        CASE x = d -> Saved(row[d], was,
                            [was EXCEPT !.parent = parent, !.deleted = FALSE,
                                        !.archived = "no", !.collection = c])
          [] x \in (IF was.archived # "no" THEN PublishedBelow(row, d) ELSE {}) ->
               [row[x] EXCEPT !.archived = "no", !.collection = c]
          [] OTHER -> row[x]
      P(was) == IF was.parent # NoDoc /\ Active(row, was.parent)
                   /\ row[was.parent].published
                THEN was.parent ELSE NoDoc
  <2>1. row' = [x \in Docs |-> G(x, Snapshot.row[d], P(Snapshot.row[d]))]
    BY <1>3, Zenon
  <2>2. \A x \in Docs : G(x, row[d], P(row[d])) =
            CASE x = d -> Saved(row[d], row[d], new)
              [] x \in kids -> [row[x] EXCEPT !.archived = "no", !.collection = c]
              [] OTHER -> row[x]
    BY DEF Restored, RestoredParent, RestoredKids
  <2> HIDE DEF G, P
  <2>3. Snapshot.row[d] = row[d]
    BY Seen
  <2>4. \A x \in Docs : row'[x] = G(x, row[d], P(row[d]))
    BY <2>1, <2>3
  <2>5. row' = [x \in Docs |-> row'[x]]
    BY <2>1
  <2> QED
    BY <2>2, <2>4, <2>5
<1>5. structure' = IF row[d].published
                   THEN [Left(d, c) EXCEPT ![c] =
                            With(Left(d, c)[c], d, RestoredParent(d), NavigationNode(row, d, TRUE))]
                   ELSE Left(d, c)
  BY Seen DEF Restore, Left, RestoredParent
<1>6. coll' = coll
  BY DEF Restore
<1>0. d \notin kids
  BY QueryChildren DEF RestoredKids
<1> HIDE DEF new, kids
<1>7. row' \in [Docs -> Row]
  <2>1. \A x \in Docs :
           row'[x] \in {new, row[x], [row[x] EXCEPT !.archived = "no", !.collection = c]}
    BY <1>0, <1>2, <1>4
  <2>2. \A x \in Docs : row[x] \in Row
    OBVIOUS
  <2>3. \A x \in Docs : [row[x] EXCEPT !.archived = "no", !.collection = c] \in Row
    BY <2>2 DEF Row
  <2>4. \A x \in Docs : row'[x] \in Row
    BY <1>1, <2>1, <2>2, <2>3
  <2> QED
    BY <1>4, <2>4
<1>8. row'[d] = new
  BY <1>0, <1>2, <1>4
<1>9. \A x \in Docs \ {d} : row'[x] =
         IF x \in kids THEN [row[x] EXCEPT !.archived = "no", !.collection = c] ELSE row[x]
  BY <1>4
<1> QED
  BY <1>5, <1>6, <1>7, <1>8, <1>9 DEF new, kids

-----------------------------------------------------------------------------
(* Type correctness.                                                        *)

LEMMA TreeTypes ==
    ASSUME NEW edges \in Edges, NEW d \in Docs, NEW p \in Docs \cup {NoDoc}, NEW branch \in Edges
    PROVE  /\ With(edges, d, p, branch) \in Edges
           /\ Without(edges, d) \in Edges /\ Branch(edges, d) \in Edges
<1>1. edges \cup {<<d, p>>} \cup branch \in Edges
  BY DEF Edges
<1>2. With(edges, d, p, branch) \in {edges, edges \cup {<<d, p>>} \cup branch}
  BY DEF With
<1>3. Without(edges, d) \subseteq edges /\ Branch(edges, d) \subseteq edges
  BY DEF Without, Branch
<1> QED
  BY <1>1, <1>2, <1>3 DEF Edges

LEMMA QueryTypes ==
    ASSUME row \in [Docs -> Row], NEW d, NEW all \in BOOLEAN
    PROVE  NavigationNode(row, d, all) \in Edges
<1> DEFINE P(x) == /\ Present(row, x) /\ row[x].published
                   /\ all \/ row[x].archived = "no"
<1>1. RowEdges(row, P) \subseteq ParentEdges
  BY DEF RowEdges, ParentEdges
<1>2. NavigationNode(row, d, all) \subseteq RowEdges(row, P)
  BY DEF NavigationNode
<1> HIDE DEF P
<1> QED
  BY <1>1, <1>2, EdgesTyped DEF Edges

\* The initial states are typed.
LEMMA InitType == Init => TypeOK
<1> SUFFICES ASSUME Init PROVE TypeOK
  OBVIOUS
<1>1. PICK c \in Collections, there \in SUBSET Docs, parent \in [Docs -> Docs \cup {NoDoc}] :
         /\ row = [x \in Docs |-> IF x \notin there THEN Absent ELSE
                      [Absent EXCEPT !.exists = TRUE, !.collection = c,
                                     !.parent = parent[x], !.published = TRUE]]
         /\ structure = [k \in Collections |->
                            IF k = c THEN {<<x, parent[x]>> : x \in there} ELSE {}]
  BY DEF Init
<1>2. row \in [Docs -> Row]
  BY <1>1 DEF Absent, Row
<1>3. coll \in [Collections -> {"active", "archived", "deleted"}]
  BY DEF Init
<1>4. structure \in [Collections -> SUBSET (Docs \X (Docs \cup {NoDoc}))]
  <2> DEFINE tree == {<<x, parent[x]>> : x \in there}
  <2>1. tree \in SUBSET (Docs \X (Docs \cup {NoDoc}))
    OBVIOUS
  <2>2. structure = [k \in Collections |-> IF k = c THEN tree ELSE {}]
    BY <1>1
  <2> HIDE DEF tree
  <2> QED
    BY <2>1, <2>2
<1>5. parted \in BOOLEAN
  BY DEF Init
<1> QED
  BY <1>2, <1>3, <1>4, <1>5 DEF TypeOK

\* What a request for a document writes is typed.
LEMMA DocumentType ==
    ASSUME TypeOK, parted' \in BOOLEAN, NEW d \in Docs,
           \/ \E c \in Collections :
                \/ \E p \in Docs \cup {NoDoc} :
                     \/ \E publish \in BOOLEAN : Create(Snapshot, d, c, p, publish)
                     \/ Move(Snapshot, d, c, p)
                \/ Publish(Snapshot, d, c) \/ Restore(Snapshot, d, c)
           \/ \E detach \in BOOLEAN : Unpublish(Snapshot, d, detach)
           \/ Archive(Snapshot, d) \/ Delete(Snapshot, d)
    PROVE  TypeOK'
<1>1. /\ row \in [Docs -> Row] /\ structure \in [Collections -> Edges]
      /\ row[d] \in Row /\ coll \in [Collections -> {"active", "archived", "deleted"}]
  BY DEF TypeOK, Edges
<1>2. SUFFICES row' \in [Docs -> Row] /\ structure' \in [Collections -> Edges]
  <2>1. coll' = coll
    BY DEF Create, Move, Publish, Restore, Unpublish, Archive, Delete
  <2> QED
    BY <1>1, <2>1 DEF TypeOK, Edges
<1>0. ASSUME NEW c \in Collections \cup {NoCollection},
             structure' = [structure EXCEPT ![c] = Without(structure[c], d)]
      PROVE  structure' \in [Collections -> Edges]
  <2>1. c \in Collections => Without(structure[c], d) \in Edges
    BY <1>1 DEF Without, Edges
  <2> QED
    BY <1>0, <1>1, <2>1
<1>3. {} \in Edges /\ \A all \in BOOLEAN : NavigationNode(row, d, all) \in Edges
  BY <1>1, QueryTypes DEF Edges
<1>4. ASSUME NEW c \in Collections, NEW p \in Docs \cup {NoDoc}, NEW publish \in BOOLEAN,
             Create(Snapshot, d, c, p, publish)
      PROVE  row' \in [Docs -> Row] /\ structure' \in [Collections -> Edges]
  <2>2. row' \in [Docs -> Row]
    BY <1>1, <1>4 DEF Create, Absent, Row
  <2>3. With(structure[c], d, p, {}) \in Edges
    BY <1>1, <1>3, TreeTypes
  <2> QED
    BY <1>1, <1>4, <2>2, <2>3 DEF Create
<1>5. ASSUME NEW c \in Collections, NEW p \in Docs \cup {NoDoc}, Move(Snapshot, d, c, p)
      PROVE  row' \in [Docs -> Row] /\ structure' \in [Collections -> Edges]
  <2>1. row[d].collection \in Collections \cup {NoCollection}
    BY <1>1 DEF Row
  <2>2. MovedBranch(d) \in Edges
    BY <1>1, <1>3, <2>1, TreeTypes DEF MovedBranch
  <2>3. TakenOut(d) \in [Collections -> Edges]
    BY <1>1, <1>3, <2>1, TreeTypes DEF TakenOut
  <2>4. With(TakenOut(d)[c], d, p, MovedBranch(d)) \in Edges
    BY <2>2, <2>3, TreeTypes
  <2> QED
    BY <1>1, <1>5, <2>3, <2>4, MoveWrites
<1>6. ASSUME NEW c \in Collections, Publish(Snapshot, d, c)
      PROVE  row' \in [Docs -> Row] /\ structure' \in [Collections -> Edges]
  <2> DEFINE dest == IF row[d].collection # NoCollection THEN row[d].collection ELSE c
  <2>1. dest \in Collections /\ row[d].parent \in Docs \cup {NoDoc}
    BY <1>1 DEF Row
  <2>2. With(structure[dest], d, row[d].parent, NavigationNode(row, d, FALSE)) \in Edges
    BY <1>1, <1>3, <2>1, TreeTypes
  <2>3. /\ row' = [row EXCEPT ![d].published = TRUE, ![d].collection = dest]
        /\ structure' = IF coll[dest] = "deleted" THEN structure
                        ELSE [structure EXCEPT ![dest] =
                                With(structure[dest], d, row[d].parent,
                                     NavigationNode(row, d, FALSE))]
    BY <1>6 DEF Publish
  <2> HIDE DEF dest
  <2>4. row' \in [Docs -> Row]
    BY <1>1, <2>1, <2>3 DEF Row
  <2> QED
    BY <1>1, <2>1, <2>2, <2>3, <2>4
<1>7. ASSUME NEW c \in Collections, Restore(Snapshot, d, c)
      PROVE  row' \in [Docs -> Row] /\ structure' \in [Collections -> Edges]
  <2>1. /\ row[d].collection \in Collections \cup {NoCollection}
        /\ RestoredParent(d) \in Docs \cup {NoDoc}
    BY <1>1 DEF Row, RestoredParent
  <2>2. Left(d, c) \in [Collections -> Edges]
    BY <1>1, <1>3, <2>1, TreeTypes DEF Left
  <2>3. With(Left(d, c)[c], d, RestoredParent(d), NavigationNode(row, d, TRUE)) \in Edges
    BY <1>3, <2>1, <2>2, TreeTypes
  <2>4. /\ row' \in [Docs -> Row]
        /\ structure' = IF row[d].published
                        THEN [Left(d, c) EXCEPT ![c] =
                                 With(Left(d, c)[c], d, RestoredParent(d),
                                      NavigationNode(row, d, TRUE))]
                        ELSE Left(d, c)
    BY <1>1, <1>7, RestoreWrites
  <2> QED
    BY <2>2, <2>3, <2>4
<1>8. CASE \E detach \in BOOLEAN : Unpublish(Snapshot, d, detach)
  <2>1. PICK detach \in BOOLEAN : Unpublish(Snapshot, d, detach)
    BY <1>8
  <2> DEFINE new == [row[d] EXCEPT !.published = FALSE,
                        !.collection = IF detach THEN NoCollection ELSE row[d].collection]
  <2>2. new \in Row /\ Saved(row[d], row[d], new) = new
    <3>1. new \in Row
      BY <1>1 DEF Row
    <3> QED
      BY <1>1, <3>1, SavedRow
  <2>3. /\ row' = [row EXCEPT ![d] = new]
        /\ \/ structure' = structure
           \/ structure' = [structure EXCEPT ![row[d].collection] =
                              Without(structure[row[d].collection], d)]
    BY <2>1, <2>2, Seen DEF Unpublish
  <2> HIDE DEF new
  <2>4. row[d].collection \in Collections \cup {NoCollection}
    BY <1>1 DEF Row
  <2> QED
    BY <1>0, <1>1, <2>2, <2>3, <2>4
<1>9. CASE Archive(Snapshot, d)
  <2>1. \/ structure' = structure
        \/ structure' = [structure EXCEPT ![row[d].collection] =
                           Without(structure[row[d].collection], d)]
    BY <1>9, Seen DEF Archive
  <2>2. row' \in [Docs -> Row]
    BY <1>1, <1>9 DEF Archive, Row
  <2>3. row[d].collection \in Collections \cup {NoCollection}
    BY <1>1 DEF Row
  <2> QED
    BY <1>0, <1>1, <2>1, <2>2, <2>3
<1>10. CASE Delete(Snapshot, d)
  <2>1. \/ structure' = structure
        \/ structure' = [structure EXCEPT ![row[d].collection] =
                           Without(structure[row[d].collection], d)]
    BY <1>10, Seen DEF Delete
  <2>2. row' \in [Docs -> Row]
    <3>1. PICK gone : row' = [x \in Docs |-> IF x \in gone THEN [row[x] EXCEPT !.deleted = TRUE]
                                            ELSE row[x]]
      BY <1>10 DEF Delete
    <3> QED
      BY <1>1, <3>1 DEF Row
  <2>3. row[d].collection \in Collections \cup {NoCollection}
    BY <1>1 DEF Row
  <2> QED
    BY <1>0, <1>1, <2>1, <2>2, <2>3
<1> QED
  BY <1>4, <1>5, <1>6, <1>7, <1>8, <1>9, <1>10

\* So is what a request for a collection writes.
LEMMA CollectionType ==
    ASSUME TypeOK, parted' \in BOOLEAN, NEW c \in Collections,
           \/ ArchiveCollection(Snapshot, c) \/ RestoreCollection(Snapshot, c)
           \/ DeleteCollection(Snapshot, c) \/ DetachDrafts(c)
    PROVE  TypeOK'
<1>1. /\ row \in [Docs -> Row]
      /\ coll \in [Collections -> {"active", "archived", "deleted"}]
  BY DEF TypeOK
<1>2. structure' = structure
  BY DEF ArchiveCollection, RestoreCollection, DeleteCollection, DetachDrafts
<1>3. coll' \in [Collections -> {"active", "archived", "deleted"}]
  BY <1>1 DEF ArchiveCollection, RestoreCollection, DeleteCollection, DetachDrafts
<1>4. \A x \in Docs : /\ [row[x] EXCEPT !.archived = "byCollection"] \in Row
                      /\ [row[x] EXCEPT !.archived = "no"] \in Row
                      /\ [row[x] EXCEPT !.deleted = TRUE] \in Row
                      /\ [row[x] EXCEPT !.collection = NoCollection, !.parent = NoDoc] \in Row
                      /\ [row[x] EXCEPT !.parent = NoDoc] \in Row /\ row[x] \in Row
  BY <1>1 DEF Row
<1>5. row' \in [Docs -> Row]
  <2>1. CASE ArchiveCollection(Snapshot, c)
    BY <1>4, <2>1 DEF ArchiveCollection
  <2>2. CASE RestoreCollection(Snapshot, c)
    BY <1>4, <2>2 DEF RestoreCollection
  <2>3. CASE DeleteCollection(Snapshot, c)
    BY <1>4, <2>3 DEF DeleteCollection
  <2>4. CASE DetachDrafts(c)
    BY <1>4, <2>4 DEF DetachDrafts
  <2> QED
    BY <2>1, <2>2, <2>3, <2>4
<1> QED
  BY <1>2, <1>3, <1>5 DEF TypeOK

\* Every step keeps the types.
LEMMA TypeStep == TypeOK /\ [Next]_vars => TypeOK'
<1> SUFFICES ASSUME TypeOK, [Next]_vars PROVE TypeOK'
  OBVIOUS
<1>1. CASE Next
  <2>1. parted' \in BOOLEAN /\ Steps(Snapshot)
    BY <1>1 DEF Next, Part, TypeOK
  <2> QED
    BY <2>1, DocumentType, CollectionType DEF Steps
<1>2. CASE UNCHANGED vars
  BY <1>2 DEF vars, TypeOK
<1> QED
  BY <1>1, <1>2

\* Rows, collections and trees are always typed, whatever requests come, and also if they
\* leave documents in other collections than their parents.
THEOREM TypeCorrect == Spec => []TypeOK
  BY InitType, TypeStep, PTL DEF Spec

-----------------------------------------------------------------------------
(* Trees, from step to step.                                                *)

\* What a tree of its collection ought to show.
ToShow(x) == Present(row, x) /\ row[x].published /\ row[x].archived # "byDocument"

\* A step that takes branches out of trees, leaves the rows of what is left alone, and adds
\* documents where their rows put them, keeps the trees and the rows together.
LEMMA TreesKept ==
    ASSUME TypeOK, TreesFollowRows, NodesFit, TypeOK', coll' = coll,
           NEW left, NEW added \in Edges,
           \A k \in Collections :
              /\ left[k] \subseteq structure[k]
              /\ \A e \in left[k] : e[2] = NoDoc \/ e[2] \in Nodes(left[k])
              /\ \A x \in Nodes(left[k]) : row'[x] = row[x]
              /\ structure'[k] = left[k] \cup {e \in added : row'[e[1]].collection = k},
           \A e \in added :
              /\ row'[e[1]].published /\ row'[e[1]].parent = e[2]
              /\ e[2] = NoDoc \/ e[2] \in Nodes(structure'[row'[e[1]].collection])
              /\ \A k \in Collections : row'[e[1]].collection = k => Fits(k, e[1])',
           \A x \in Docs : ToShow(x)' =>
              \/ <<x, row'[x].parent>> \in structure'[row'[x].collection]
              \/ row'[x] = row[x] /\ <<x, row[x].parent>> \in left[row[x].collection]
                 /\ row[x].collection \in Collections
    PROVE  TreesFollowRows' /\ NodesFit' /\ AllShown'
<1>1. ASSUME NEW k \in Collections, NEW e \in structure'[k]
      PROVE  /\ row'[e[1]].published /\ row'[e[1]].collection = k /\ row'[e[1]].parent = e[2]
             /\ e[2] = NoDoc \/ e[2] \in Nodes(structure'[k])
             /\ Fits(k, e[1])'
  <2>1. CASE e \in left[k]
    <3>1. e[1] \in Nodes(left[k]) /\ e[1] \in Nodes(structure[k]) /\ e \in structure[k]
      BY <2>1 DEF Nodes
    <3>2. row'[e[1]] = row[e[1]]
      BY <3>1
    <3>3. row[e[1]].published /\ row[e[1]].collection = k /\ row[e[1]].parent = e[2]
      BY <3>1 DEF TreesFollowRows
    <3>4. e[2] = NoDoc \/ e[2] \in Nodes(left[k])
      BY <2>1
    <3>5. e[2] = NoDoc \/ e[2] \in Nodes(structure'[k])
      BY <3>4 DEF Nodes
    <3>6. e[2] = NoDoc \/ row'[e[2]] = row[e[2]]
      BY <3>4
    <3>7. Fits(k, e[1])
      BY <3>1 DEF NodesFit
    <3>8. Fits(k, e[1])'
      BY <3>2, <3>3, <3>6, <3>7 DEF Fits, Active, Present, ArchivedAlong
    <3> QED
      BY <3>2, <3>3, <3>5, <3>8
  <2>2. CASE e \in added /\ row'[e[1]].collection = k
    BY <2>2
  <2> QED
    BY <2>1, <2>2
<1>2. TreesFollowRows'
  BY <1>1 DEF TreesFollowRows
<1>3. NodesFit'
  BY <1>1 DEF NodesFit, Nodes
<1>4. ASSUME NEW x \in Docs, ToShow(x)'
      PROVE  <<x, row'[x].parent>> \in structure'[row'[x].collection]
  <2>1. CASE /\ row'[x] = row[x] /\ <<x, row[x].parent>> \in left[row[x].collection]
             /\ row[x].collection \in Collections
    <3> DEFINE k == row[x].collection
    <3>1. structure'[k] = left[k] \cup {e \in added : row'[e[1]].collection = k}
      BY <2>1
    <3> QED
      BY <2>1, <3>1
  <2> QED
    BY <1>4, <2>1
<1>5. AllShown'
  BY <1>4 DEF AllShown, ToShow
<1> QED
  BY <1>2, <1>3, <1>5

\* Parents that stay where they are stay free of cycles.
LEMMA ParentsKept ==
    ASSUME Acyclic, \A x \in Docs : row'[x].parent = row[x].parent
    PROVE  Acyclic'
<1>1. ParentEdges' = ParentEdges
  BY DEF ParentEdges
<1> QED
  BY <1>1 DEF Acyclic

\* In the trees of its collection and no others is what the rows put below a document that
\* is shown, and nowhere what they put below one that is not.
LEMMA ShownInOneTree ==
    ASSUME TypeOK, TreesFollowRows, NEW c \in Collections, NEW d \in Docs,
           NEW x \in Below(PresentEdges, d), x \in Nodes(structure[c])
    PROVE  /\ c = row[d].collection /\ d \in Nodes(structure[c]) /\ row[d].published
           /\ x \in Below(structure[c], d)
<1>1. PresentEdges \in Edges /\ PresentEdges \subseteq ParentEdges
  BY EdgesTyped DEF TypeOK
<1>2. x \in Below(structure[c], d) /\ d \in Nodes(structure[c])
  BY <1>1, ShownBelow
<1> QED
  BY <1>2, ShownRow

\* Of a collection that was not deleted the tree shows a document's branch among what the
\* rows have below it.
LEMMA BranchIsBelow ==
    ASSUME TypeOK, TreesFollowRows, NodesFit, NEW c \in Collections, coll[c] # "deleted",
           NEW d \in Docs
    PROVE  /\ Below(structure[c], d) \subseteq Below(PublishedEdges, d)
           /\ Below(PublishedEdges, d) \subseteq Below(PresentEdges, d)
<1>1. /\ PublishedEdges \in Edges /\ PresentEdges \in Edges
      /\ PublishedEdges \subseteq PresentEdges
  BY EdgesTyped DEF TypeOK
<1>2. structure[c] \in Edges /\ structure[c] \subseteq PublishedEdges
  BY TreeEdges, PresentTree
<1> QED
  BY <1>1, <1>2, BelowGrows

\* Queries find documents that are there, and published ones if they ask for these.
LEMMA FoundPresent ==
    ASSUME TypeOK, NEW d \in Docs
    PROVE  /\ \A x \in Below(PresentEdges, d) \ {d} :
                 /\ x \in Docs /\ Present(row, x)
                 /\ row[x].parent \in Below(PresentEdges, d)
           /\ \A x \in Below(PublishedEdges, d) \ {d} :
                 /\ x \in Docs /\ Present(row, x) /\ row[x].published
                 /\ row[x].parent \in Below(PublishedEdges, d)
                 /\ x \in Below(PresentEdges, d)
<1>1. /\ PublishedEdges \in Edges /\ PresentEdges \in Edges
      /\ PublishedEdges \subseteq PresentEdges
  BY EdgesTyped DEF TypeOK
<1>2. \A e \in PresentEdges : e[1] \in Docs /\ Present(row, e[1]) /\ e[2] = row[e[1]].parent
  BY DEF PresentEdges, ParentEdges
<1>3. ASSUME NEW x \in Below(PresentEdges, d), x # d
      PROVE  x \in Docs /\ Present(row, x) /\ row[x].parent \in Below(PresentEdges, d)
  <2>1. PICK e \in PresentEdges : e[1] = x /\ e[2] \in Below(PresentEdges, d)
    BY <1>1, <1>3, BelowStep
  <2> QED
    BY <1>2, <2>1
<1>4. ASSUME NEW x \in Below(PublishedEdges, d), x # d
      PROVE  /\ x \in Docs /\ Present(row, x) /\ row[x].published
             /\ row[x].parent \in Below(PublishedEdges, d)
  <2>1. PICK e \in PublishedEdges : e[1] = x /\ e[2] \in Below(PublishedEdges, d)
    BY <1>1, <1>4, BelowStep
  <2>2. row[x].published /\ e \in PresentEdges
    BY <2>1 DEF PublishedEdges
  <2> QED
    BY <1>2, <2>1, <2>2
<1>5. Below(PublishedEdges, d) \subseteq Below(PresentEdges, d)
  BY <1>1, BelowGrows
<1> QED
  BY <1>3, <1>4, <1>5

-----------------------------------------------------------------------------
(* The initial trees.                                                       *)

LEMMA InitTrees == Init => TreeInv
<1> SUFFICES ASSUME Init PROVE TreeInv
  OBVIOUS
<1>1. TypeOK
  BY InitType
<1>2. PICK c \in Collections, there \in SUBSET Docs, parent \in [Docs -> Docs \cup {NoDoc}] :
         /\ \A x \in Docs : IF x \in there THEN parent[x] \in there \cup {NoDoc}
                            ELSE parent[x] = NoDoc
         /\ \A x \in there : x \in Below({<<y, parent[y]>> : y \in there}, NoDoc)
         /\ row = [x \in Docs |-> IF x \notin there THEN Absent ELSE
                      [Absent EXCEPT !.exists = TRUE, !.collection = c,
                                     !.parent = parent[x], !.published = TRUE]]
         /\ structure = [k \in Collections |->
                            IF k = c THEN {<<x, parent[x]>> : x \in there} ELSE {}]
  BY DEF Init
<1>3. \A x \in Docs :
        /\ row[x].exists <=> x \in there
        /\ row[x].published <=> x \in there
        /\ row[x].parent = parent[x] /\ ~row[x].deleted /\ row[x].archived = "no"
        /\ row[x].collection = IF x \in there THEN c ELSE NoCollection
        /\ x \in there \/ row[x] = Absent
  BY <1>2 DEF Absent
<1>0. \A x \in Docs : /\ x \in there => parent[x] \in there \cup {NoDoc}
                      /\ x \notin there => parent[x] = NoDoc
  BY <1>2
<1>4. coll = [k \in Collections |-> "active"]
  BY DEF Init
<1> DEFINE tree == {<<x, parent[x]>> : x \in there}
<1>5. structure = [k \in Collections |-> IF k = c THEN tree ELSE {}]
  BY <1>2
<1>6. \A e \in tree : e[1] \in there /\ e[2] = parent[e[1]] /\ e = <<e[1], e[2]>>
  OBVIOUS
<1>7. \A x \in there : <<x, parent[x]>> \in tree
  OBVIOUS
<1>8. \A x \in there : x \in Below(tree, NoDoc)
  BY <1>2
<1> HIDE DEF tree
<1>9. Nodes(tree) = there
  BY <1>6, <1>7 DEF Nodes
<1>10. RowsCoherent
  <2>1. ASSUME NEW x \in Docs, row[x].parent # NoDoc PROVE row[row[x].parent].exists
    <3>1. row[x].parent = parent[x] /\ parent[x] # NoDoc
      BY <1>3, <2>1
    <3>2. parent[x] \in there
      BY <1>0, <3>1
    <3> QED
      BY <1>3, <3>1, <3>2
  <2>2. \A x \in Docs : row[x].published => row[x].collection # NoCollection
    BY <1>3, ParametersAssumption
  <2> QED
    BY <1>3, <2>1, <2>2 DEF RowsCoherent
<1>11. Acyclic
  <2>1. tree \subseteq ParentEdges
    BY <1>3, <1>6 DEF ParentEdges
  <2>2. ParentEdges \in Edges
    BY <1>1, EdgesTyped DEF TypeOK
  <2>3. tree \in Edges
    BY <2>1, <2>2 DEF Edges
  <2>4. Below(tree, NoDoc) \subseteq Below(ParentEdges, NoDoc)
    BY <2>1, <2>2, <2>3, BelowGrows
  <2>5. ASSUME NEW x \in Docs, x \notin there PROVE x \in Below(ParentEdges, NoDoc)
    <3>1. <<x, NoDoc>> \in ParentEdges
      BY <1>0, <1>3, <2>5 DEF ParentEdges
    <3>2. NoDoc \in Below(ParentEdges, NoDoc)
      BY BelowSelf
    <3> DEFINE e == <<x, NoDoc>>
    <3>3. e \in ParentEdges /\ e[2] = NoDoc /\ e[1] = x
      BY <3>1
    <3> HIDE DEF e
    <3> QED
      BY <2>2, <3>2, <3>3, BelowClosed
  <2> QED
    BY <1>8, <2>4, <2>5 DEF Acyclic
<1>12. ChildSharesCollection
  BY <1>0, <1>3 DEF ChildSharesCollection, Present
<1>13. TreesFollowRows
  <2> SUFFICES ASSUME NEW k \in Collections, NEW e \in structure[k]
               PROVE  /\ row[e[1]].published /\ row[e[1]].collection = k
                      /\ row[e[1]].parent = e[2]
                      /\ e[2] = NoDoc \/ e[2] \in Nodes(structure[k])
    BY DEF TreesFollowRows
  <2>1. k = c /\ structure[k] = tree /\ e \in tree
    BY <1>5
  <2>2. e[2] \in there \cup {NoDoc}
    BY <1>2, <1>6, <2>1
  <2> QED
    BY <1>3, <1>6, <1>9, <2>1, <2>2
<1>14. NodesFit
  <2> SUFFICES ASSUME NEW k \in Collections, NEW x \in Nodes(structure[k]) PROVE Fits(k, x)
    BY DEF NodesFit
  <2>1. x \in there
    BY <1>5, <1>9 DEF Nodes
  <2> QED
    BY <1>3, <1>4, <2>1 DEF Fits, Active, Present
<1>15. AllShown
  BY <1>3, <1>5, <1>7 DEF AllShown, Present
<1>16. NoOrphans
  BY <1>3, <1>1 DEF NoOrphans, Present, TypeOK, Row
<1> QED
  BY <1>1, <1>10, <1>11, <1>12, <1>13, <1>14, <1>15, <1>16 DEF TreeInv

-----------------------------------------------------------------------------
(* Collections.                                                             *)

LEMMA ArchiveCollectionKeeps ==
    ASSUME TreeInv, NEW c \in Collections, ArchiveCollection(Snapshot, c),
           TypeOK', ChildSharesCollection'
    PROVE  TreeInv'
<1>1. /\ TypeOK /\ RowsCoherent /\ Acyclic /\ TreesFollowRows /\ NodesFit /\ AllShown
      /\ NoOrphans
  BY DEF TreeInv
<1>2. /\ coll[c] = "active" /\ coll' = [coll EXCEPT ![c] = "archived"]
      /\ structure' = structure
  BY Seen DEF ArchiveCollection
<1>3. \A x \in Docs : row'[x] = IF x \in Bulk(c) /\ row[x].archived = "no"
                               THEN [row[x] EXCEPT !.archived = "byCollection"] ELSE row[x]
  BY DEF ArchiveCollection
<1>4. \A x \in Docs :
        /\ row'[x].exists = row[x].exists /\ row'[x].collection = row[x].collection
        /\ row'[x].parent = row[x].parent /\ row'[x].published = row[x].published
        /\ row'[x].deleted = row[x].deleted
        /\ row'[x].archived = IF x \in Bulk(c) /\ row[x].archived = "no"
                              THEN "byCollection" ELSE row[x].archived
  <2>1. \A x \in Docs : row[x] \in Row
    BY <1>1 DEF TypeOK
  <2> QED
    BY <1>3, <2>1 DEF Row
<1>5. \A x \in Docs : x \in Bulk(c) <=>
        Present(row, x) /\ row[x].published /\ row[x].collection = c
  BY DEF Bulk
<1>6. RowsCoherent'
  <2>1. \A x \in Docs : row[x].parent \in Docs \cup {NoDoc}
    BY <1>1 DEF TypeOK, Row
  <2>2. \A x \in Docs : ~row[x].exists => x \notin Bulk(c)
    BY <1>5 DEF Present
  <2>3. \A x \in Docs : row[x].exists \/ row'[x] = Absent
    BY <1>1, <1>3, <2>2 DEF RowsCoherent
  <2> QED
    BY <1>1, <1>4, <1>5, <2>1, <2>3, ParametersAssumption DEF RowsCoherent
<1>7. Acyclic'
  BY <1>1, <1>4, ParentsKept
<1>8. TreesFollowRows'
  <2>1. \A k \in Collections : \A e \in structure[k] : e[1] \in Docs
    BY <1>1 DEF TypeOK
  <2> QED
    BY <1>1, <1>2, <1>4, <2>1 DEF TreesFollowRows
<1>9. NodesFit'
  <2> SUFFICES ASSUME NEW k \in Collections, NEW x \in Nodes(structure[k]) PROVE Fits(k, x)'
    BY <1>2 DEF NodesFit
  <2>1. /\ x \in Docs /\ row[x].published /\ row[x].collection = k
        /\ row[x].parent = NoDoc \/ row[x].parent \in Nodes(structure[k])
    BY <1>1, ShownRow
  <2>2. Fits(k, x)
    BY <1>1 DEF NodesFit
  <2>3. row[x].parent # NoDoc =>
           /\ row[x].parent \in Docs /\ row[row[x].parent].collection = k
           /\ row[row[x].parent].published /\ Fits(k, row[x].parent)
    BY <1>1, <2>1, ShownRow DEF NodesFit
  <2>4. CASE k # c
    <3>1. /\ coll'[k] = coll[k] /\ x \notin Bulk(c)
          /\ row[x].parent # NoDoc => row[x].parent \notin Bulk(c)
      BY <1>1, <1>2, <1>5, <2>1, <2>3, <2>4 DEF TypeOK
    <3>2. /\ row'[x].archived = row[x].archived
          /\ row[x].parent # NoDoc => row'[row[x].parent].archived = row[row[x].parent].archived
      BY <1>4, <2>1, <2>3, <3>1
    <3>3. /\ Present(row, x)' <=> Present(row, x)
          /\ ArchivedAlong(x)' <=> ArchivedAlong(x)
          /\ row'[x].deleted = row[x].deleted
      BY <1>4, <2>1, <3>2 DEF Present, ArchivedAlong
    <3> QED
      BY <2>2, <3>1, <3>2, <3>3 DEF Fits, Active, Present
  <2>5. CASE k = c
    <3>1. coll'[c] = "archived"
      BY <1>1, <1>2 DEF TypeOK
    <3>2. Present(row, x) /\ row[x].archived = "no" /\ x \in Bulk(c)
      BY <1>2, <1>5, <2>1, <2>2, <2>5 DEF Fits, Active
    <3>3. row[x].parent # NoDoc =>
             row[row[x].parent].archived = "no" /\ row[x].parent \in Bulk(c)
      BY <1>2, <1>5, <2>3, <2>5 DEF Fits, Active
    <3>4. Present(row, x)' /\ ArchivedAlong(x)'
      BY <1>4, <2>1, <2>3, <3>2, <3>3 DEF Present, ArchivedAlong
    <3> QED
      BY <2>5, <3>1, <3>4 DEF Fits
  <2> QED
    BY <2>4, <2>5
<1>10. AllShown'
  BY <1>1, <1>2, <1>4 DEF AllShown, Present
<1>11. NoOrphans'
  <2> SUFFICES ASSUME NEW x \in Docs, Present(row, x)', row'[x].published, row'[x].parent # NoDoc,
                      row'[row'[x].parent].deleted, row'[row'[x].parent].published,
                      row'[row'[x].parent].archived = "no"
               PROVE  coll'[row'[x].collection] = "deleted"
    BY DEF NoOrphans
  <2> DEFINE p == row[x].parent
  <2>1. p \in Docs /\ row'[x].parent = p
    BY <1>1, <1>4 DEF TypeOK, Row
  <2>2. row[p].deleted /\ row[p].published /\ row[p].archived = "no"
    BY <1>4, <2>1
  <2>3. Present(row, x) /\ row[x].published /\ row'[x].collection = row[x].collection
    BY <1>4 DEF Present
  <2>4. coll[row[x].collection] = "deleted"
    BY <1>1, <2>1, <2>2, <2>3 DEF NoOrphans
  <2> QED
    BY <1>1, <1>2, <2>3, <2>4 DEF TypeOK
<1> QED
  BY <1>6, <1>7, <1>8, <1>9, <1>10, <1>11 DEF TreeInv

LEMMA RestoreCollectionKeeps ==
    ASSUME TreeInv, NEW c \in Collections, RestoreCollection(Snapshot, c),
           TypeOK', ChildSharesCollection'
    PROVE  TreeInv'
<1>1. /\ TypeOK /\ RowsCoherent /\ Acyclic /\ TreesFollowRows /\ NodesFit /\ AllShown
      /\ NoOrphans
  BY DEF TreeInv
<1>2. /\ coll[c] = "archived" /\ coll' = [coll EXCEPT ![c] = "active"]
      /\ structure' = structure
  BY Seen DEF RestoreCollection
<1>3. \A x \in Docs : row'[x] = IF x \in Bulk(c) /\ row[x].archived = "byCollection"
                               THEN [row[x] EXCEPT !.archived = "no"] ELSE row[x]
  BY DEF RestoreCollection
<1>4. \A x \in Docs :
        /\ row'[x].exists = row[x].exists /\ row'[x].collection = row[x].collection
        /\ row'[x].parent = row[x].parent /\ row'[x].published = row[x].published
        /\ row'[x].deleted = row[x].deleted
        /\ row'[x].archived = IF x \in Bulk(c) /\ row[x].archived = "byCollection"
                              THEN "no" ELSE row[x].archived
  <2>1. \A x \in Docs : row[x] \in Row
    BY <1>1 DEF TypeOK
  <2> QED
    BY <1>3, <2>1 DEF Row
<1>5. \A x \in Docs : x \in Bulk(c) <=>
        Present(row, x) /\ row[x].published /\ row[x].collection = c
  BY DEF Bulk
<1>6. RowsCoherent'
  <2>1. \A x \in Docs : row[x].parent \in Docs \cup {NoDoc}
    BY <1>1 DEF TypeOK, Row
  <2>2. \A x \in Docs : ~row[x].exists => x \notin Bulk(c)
    BY <1>5 DEF Present
  <2>3. \A x \in Docs : row[x].exists \/ row'[x] = Absent
    BY <1>1, <1>3, <2>2 DEF RowsCoherent
  <2> QED
    BY <1>1, <1>4, <1>5, <2>1, <2>3, ParametersAssumption DEF RowsCoherent
<1>7. Acyclic'
  BY <1>1, <1>4, ParentsKept
<1>8. TreesFollowRows'
  <2>1. \A k \in Collections : \A e \in structure[k] : e[1] \in Docs
    BY <1>1 DEF TypeOK
  <2> QED
    BY <1>1, <1>2, <1>4, <2>1 DEF TreesFollowRows
<1>9. NodesFit'
  <2> SUFFICES ASSUME NEW k \in Collections, NEW x \in Nodes(structure[k]) PROVE Fits(k, x)'
    BY <1>2 DEF NodesFit
  <2>1. /\ x \in Docs /\ row[x].published /\ row[x].collection = k
        /\ row[x].parent = NoDoc \/ row[x].parent \in Nodes(structure[k])
    BY <1>1, ShownRow
  <2>2. Fits(k, x)
    BY <1>1 DEF NodesFit
  <2>3. row[x].parent # NoDoc => row[x].parent \in Docs /\ row[row[x].parent].collection = k
    BY <1>1, <2>1, ShownRow
  <2>4. CASE k # c
    <3>1. /\ coll'[k] = coll[k] /\ x \notin Bulk(c)
          /\ row[x].parent # NoDoc => row[x].parent \notin Bulk(c)
      BY <1>1, <1>2, <1>5, <2>1, <2>3, <2>4 DEF TypeOK
    <3>2. /\ row'[x].archived = row[x].archived
          /\ row[x].parent # NoDoc => row'[row[x].parent].archived = row[row[x].parent].archived
      BY <1>4, <2>1, <2>3, <3>1
    <3>3. /\ Present(row, x)' <=> Present(row, x)
          /\ ArchivedAlong(x)' <=> ArchivedAlong(x)
          /\ row'[x].deleted = row[x].deleted
      BY <1>4, <2>1, <3>2 DEF Present, ArchivedAlong
    <3> QED
      BY <2>2, <3>1, <3>2, <3>3 DEF Fits, Active, Present
  <2>5. CASE k = c
    <3>1. coll'[c] = "active"
      BY <1>1, <1>2 DEF TypeOK
    <3>2. Present(row, x) /\ row[x].archived \in {"no", "byCollection"} /\ x \in Bulk(c)
      BY <1>2, <1>5, <2>1, <2>2, <2>5 DEF Fits, ArchivedAlong
    <3>3. Active(row, x)'
      BY <1>4, <2>1, <3>2 DEF Present, Active
    <3> QED
      BY <2>5, <3>1, <3>3 DEF Fits
  <2> QED
    BY <2>4, <2>5
<1>10. AllShown'
  BY <1>1, <1>2, <1>4 DEF AllShown, Present
<1>11. NoOrphans'
  <2> SUFFICES ASSUME NEW x \in Docs, Present(row, x)', row'[x].published, row'[x].parent # NoDoc,
                      row'[row'[x].parent].deleted, row'[row'[x].parent].published,
                      row'[row'[x].parent].archived = "no"
               PROVE  coll'[row'[x].collection] = "deleted"
    BY DEF NoOrphans
  <2> DEFINE p == row[x].parent
  <2>1. p \in Docs /\ row'[x].parent = p
    BY <1>1, <1>4 DEF TypeOK, Row
  <2>2. row[p].deleted /\ p \notin Bulk(c)
    BY <1>4, <1>5, <2>1 DEF Present
  <2>3. row[p].published /\ row[p].archived = "no"
    BY <1>4, <2>1, <2>2
  <2>4. Present(row, x) /\ row[x].published /\ row'[x].collection = row[x].collection
    BY <1>4 DEF Present
  <2>5. coll[row[x].collection] = "deleted"
    BY <1>1, <2>1, <2>2, <2>3, <2>4 DEF NoOrphans
  <2> QED
    BY <1>1, <1>2, <2>4, <2>5 DEF TypeOK
<1> QED
  BY <1>6, <1>7, <1>8, <1>9, <1>10, <1>11 DEF TreeInv

LEMMA DeleteCollectionKeeps ==
    ASSUME TreeInv, NEW c \in Collections, DeleteCollection(Snapshot, c),
           TypeOK', ChildSharesCollection'
    PROVE  TreeInv'
<1>1. /\ TypeOK /\ RowsCoherent /\ Acyclic /\ TreesFollowRows /\ NodesFit /\ AllShown
      /\ NoOrphans /\ ChildSharesCollection
  BY DEF TreeInv
<1>2. /\ coll[c] # "deleted" /\ coll' = [coll EXCEPT ![c] = "deleted"]
      /\ structure' = structure
  BY Seen DEF DeleteCollection
<1>3. \A x \in Docs : row'[x] = IF x \in Bulk(c) /\ row[x].archived = "no"
                               THEN [row[x] EXCEPT !.deleted = TRUE] ELSE row[x]
  BY DEF DeleteCollection
<1>4. \A x \in Docs :
        /\ row'[x].exists = row[x].exists /\ row'[x].collection = row[x].collection
        /\ row'[x].parent = row[x].parent /\ row'[x].published = row[x].published
        /\ row'[x].archived = row[x].archived
        /\ row'[x].deleted <=> row[x].deleted \/ (x \in Bulk(c) /\ row[x].archived = "no")
  <2>1. \A x \in Docs : row[x] \in Row
    BY <1>1 DEF TypeOK
  <2> QED
    BY <1>3, <2>1 DEF Row
<1>5. \A x \in Docs : x \in Bulk(c) <=>
        Present(row, x) /\ row[x].published /\ row[x].collection = c
  BY DEF Bulk
<1>6. RowsCoherent'
  <2>1. \A x \in Docs : row[x].parent \in Docs \cup {NoDoc}
    BY <1>1 DEF TypeOK, Row
  <2>2. \A x \in Docs : ~row[x].exists => x \notin Bulk(c)
    BY <1>5 DEF Present
  <2>3. \A x \in Docs : row[x].exists \/ row'[x] = Absent
    BY <1>1, <1>3, <2>2 DEF RowsCoherent
  <2> QED
    BY <1>1, <1>4, <2>1, <2>3, ParametersAssumption DEF RowsCoherent
<1>7. Acyclic'
  BY <1>1, <1>4, ParentsKept
<1>8. TreesFollowRows'
  <2>1. \A k \in Collections : \A e \in structure[k] : e[1] \in Docs
    BY <1>1 DEF TypeOK
  <2> QED
    BY <1>1, <1>2, <1>4, <2>1 DEF TreesFollowRows
<1>9. NodesFit'
  <2> SUFFICES ASSUME NEW k \in Collections, NEW x \in Nodes(structure[k]) PROVE Fits(k, x)'
    BY <1>2 DEF NodesFit
  <2>1. /\ x \in Docs /\ row[x].published /\ row[x].collection = k
        /\ row[x].parent = NoDoc \/ row[x].parent \in Nodes(structure[k])
    BY <1>1, ShownRow
  <2>2. Fits(k, x)
    BY <1>1 DEF NodesFit
  <2>3. row[x].parent # NoDoc => row[x].parent \in Docs
    BY <1>1, <2>1, ShownRow
  <2>4. ArchivedAlong(x)' <=> ArchivedAlong(x)
    BY <1>4, <2>1, <2>3 DEF ArchivedAlong
  <2>5. CASE k # c
    <3>1. coll'[k] = coll[k] /\ x \notin Bulk(c)
      BY <1>1, <1>2, <1>5, <2>1, <2>5 DEF TypeOK
    <3>2. row'[x] = row[x]
      BY <1>3, <2>1, <3>1
    <3> QED
      BY <2>2, <2>4, <3>1, <3>2 DEF Fits, Active, Present
  <2>6. CASE k = c
    <3>1. coll'[c] = "deleted" /\ coll[c] \in {"active", "archived"}
      BY <1>1, <1>2 DEF TypeOK
    <3>2. Present(row, x) /\ (row[x].archived = "no" \/ ArchivedAlong(x)) /\ x \in Bulk(c)
      BY <1>5, <2>1, <2>2, <2>6, <3>1 DEF Fits, Active
    <3>3. CASE row[x].archived = "no"
      BY <1>4, <2>1, <2>6, <3>1, <3>2, <3>3 DEF Fits
    <3>4. CASE ArchivedAlong(x)
      <4>1. row'[x] = row[x]
        BY <1>3, <2>1, <3>4 DEF ArchivedAlong
      <4> QED
        BY <2>4, <2>6, <3>1, <3>2, <3>4, <4>1 DEF Fits, Present
    <3> QED
      BY <3>2, <3>3, <3>4
  <2> QED
    BY <2>5, <2>6
<1>10. AllShown'
  BY <1>1, <1>2, <1>4 DEF AllShown, Present
<1>11. NoOrphans'
  <2> SUFFICES ASSUME NEW x \in Docs, Present(row, x)', row'[x].published, row'[x].parent # NoDoc,
                      row'[row'[x].parent].deleted, row'[row'[x].parent].published,
                      row'[row'[x].parent].archived = "no"
               PROVE  coll'[row'[x].collection] = "deleted"
    BY DEF NoOrphans
  <2> DEFINE p == row[x].parent
  <2>1. p \in Docs /\ row'[x].parent = p
    BY <1>1, <1>4 DEF TypeOK, Row
  <2>2. row[p].published /\ row[p].archived = "no"
    BY <1>4, <2>1
  <2>3. Present(row, x) /\ row[x].published /\ row'[x].collection = row[x].collection
    BY <1>4 DEF Present
  <2>4. CASE row[p].deleted
    <3>1. coll[row[x].collection] = "deleted"
      BY <1>1, <2>1, <2>2, <2>3, <2>4 DEF NoOrphans
    <3> QED
      BY <1>1, <1>2, <2>3, <3>1 DEF TypeOK
  <2>5. CASE p \in Bulk(c)
    <3>1. Present(row, p) /\ row[p].collection = c /\ p # NoDoc
      BY <1>5, <2>1, <2>5, ParametersAssumption
    <3>2. row[x].collection = c
      BY <1>1, <2>3, <3>1 DEF ChildSharesCollection
    <3> QED
      BY <1>1, <1>2, <2>3, <3>2 DEF TypeOK
  <2> QED
    BY <1>4, <2>1, <2>4, <2>5
<1> QED
  BY <1>6, <1>7, <1>8, <1>9, <1>10, <1>11 DEF TreeInv

LEMMA DetachDraftsKeeps ==
    ASSUME TreeInv, NEW c \in Collections, DetachDrafts(c),
           TypeOK', ChildSharesCollection'
    PROVE  TreeInv'
<1> DEFINE drafts == {x \in Docs : row[x].exists /\ ~row[x].published /\ row[x].collection = c}
           kids == UNION {ChildDocuments(row, x) : x \in drafts}
           free == {x \in kids \ drafts : row[x].published}
<1>1. /\ TypeOK /\ RowsCoherent /\ Acyclic /\ TreesFollowRows /\ NodesFit /\ AllShown
      /\ NoOrphans
  BY DEF TreeInv
<1>2. coll' = coll /\ structure' = structure
  BY DEF DetachDrafts
<1>3. row' = [x \in Docs |->
          CASE x \in drafts -> [row[x] EXCEPT !.collection = NoCollection, !.parent = NoDoc]
            [] x \in kids \ drafts /\ row[x].published -> [row[x] EXCEPT !.parent = NoDoc]
            [] OTHER -> row[x]]
  BY DEF DetachDrafts
<1>4. \A x \in Docs : row[x] \in Row
  BY <1>1 DEF TypeOK
<1>5. ASSUME NEW x \in kids
      PROVE  \E d \in drafts : x \in Below(PresentEdges, d) \ {d}
  <2>1. PICK d \in drafts : x \in ChildDocuments(row, d)
    BY <1>5
  <2> QED
    BY <2>1, QueryChildren
<1>6. ASSUME NEW x \in free
      PROVE  x \in Docs /\ Present(row, x) /\ \A k \in Collections : x \notin Nodes(structure[k])
  <2>1. PICK d \in drafts : x \in Below(PresentEdges, d) \ {d}
    BY <1>5
  <2>2. x \in Docs /\ Present(row, x)
    BY <1>1, <2>1, FoundPresent
  <2>3. ASSUME NEW k \in Collections, x \in Nodes(structure[k]) PROVE FALSE
    BY <1>1, <2>1, <2>3, ShownInOneTree
  <2> QED
    BY <2>2, <2>3
<1>7. \A x \in Docs :
        /\ x \in drafts => row'[x] = [row[x] EXCEPT !.collection = NoCollection, !.parent = NoDoc]
        /\ x \in free => row'[x] = [row[x] EXCEPT !.parent = NoDoc]
        /\ x \notin drafts \cup free => row'[x] = row[x]
  BY <1>3
<1>8. \A x \in drafts : x \in Docs /\ row[x].exists /\ ~row[x].published
  OBVIOUS
<1>9. free \cap drafts = {} /\ \A x \in free : row[x].published
  OBVIOUS
<1> HIDE DEF free, drafts, kids
<1>10. \A x \in Docs :
         /\ row'[x].exists = row[x].exists /\ row'[x].published = row[x].published
         /\ row'[x].deleted = row[x].deleted /\ row'[x].archived = row[x].archived
         /\ row'[x].parent = IF x \in drafts \cup free THEN NoDoc ELSE row[x].parent
         /\ row'[x].collection = IF x \in drafts THEN NoCollection ELSE row[x].collection
  <2> SUFFICES ASSUME NEW x \in Docs
               PROVE  /\ row'[x].exists = row[x].exists /\ row'[x].published = row[x].published
                      /\ row'[x].deleted = row[x].deleted /\ row'[x].archived = row[x].archived
                      /\ row'[x].parent = IF x \in drafts \cup free THEN NoDoc ELSE row[x].parent
                      /\ row'[x].collection = IF x \in drafts THEN NoCollection
                                              ELSE row[x].collection
    OBVIOUS
  <2>0. row[x] \in Row
    BY <1>4
  <2>1. CASE x \in drafts
    <3>1. row'[x] = [row[x] EXCEPT !.collection = NoCollection, !.parent = NoDoc]
      BY <1>7, <2>1
    <3> QED
      BY <2>0, <2>1, <3>1 DEF Row
  <2>2. CASE x \in free
    <3>1. row'[x] = [row[x] EXCEPT !.parent = NoDoc] /\ x \notin drafts
      BY <1>7, <1>9, <2>2
    <3> QED
      BY <2>0, <2>2, <3>1 DEF Row
  <2>3. CASE x \notin drafts \cup free
    <3>1. row'[x] = row[x]
      BY <1>7, <2>3
    <3> QED
      BY <2>3, <3>1
  <2> QED
    BY <2>1, <2>2, <2>3
<1>11. RowsCoherent'
  <2>1. \A x \in Docs : row[x].parent \in Docs \cup {NoDoc}
    BY <1>4 DEF Row
  <2>2. \A x \in Docs : row[x].exists \/ row'[x] = Absent
    BY <1>1, <1>6, <1>7, <1>8 DEF RowsCoherent, Present
  <2>3. \A x \in Docs : row'[x].parent # NoDoc => row'[row'[x].parent].exists
    BY <1>1, <1>10, <2>1, ParametersAssumption DEF RowsCoherent
  <2>4. \A x \in Docs : row'[x].published => row'[x].collection # NoCollection
    BY <1>1, <1>8, <1>10 DEF RowsCoherent
  <2>5. \A x \in Docs : row'[x].archived # "no" => row'[x].published
    BY <1>1, <1>10 DEF RowsCoherent
  <2> QED
    BY <1>10, <2>2, <2>3, <2>4, <2>5 DEF RowsCoherent
<1>12. Acyclic'
  <2>1. ParentEdges \in Edges /\ ParentEdges' \in Edges
    BY <1>1, EdgesTyped, TypeOK' DEF TypeOK, ParentEdges, Edges, Row
  <2>2. \A e \in ParentEdges : e \in ParentEdges' \/ <<e[1], NoDoc>> \in ParentEdges'
    <3> SUFFICES ASSUME NEW x \in Docs
                 PROVE  \/ <<x, row[x].parent>> \in ParentEdges'
                        \/ <<x, NoDoc>> \in ParentEdges'
      BY DEF ParentEdges
    <3> QED
      BY <1>10 DEF ParentEdges
  <2> QED
    BY <1>1, <2>1, <2>2, Detach DEF Acyclic
<1>13. TreesFollowRows' /\ NodesFit' /\ AllShown'
  <2>1. ASSUME NEW k \in Collections, NEW x \in Nodes(structure[k]) PROVE row'[x] = row[x]
    <3>1. x \in Docs /\ row[x].published
      BY <1>1, ShownRow
    <3> QED
      BY <1>6, <1>7, <1>8, <3>1
  <2>2. ASSUME NEW x \in Docs, ToShow(x)'
        PROVE  /\ row'[x] = row[x] /\ <<x, row[x].parent>> \in structure[row[x].collection]
               /\ row[x].collection \in Collections
    <3>1. Present(row, x) /\ row[x].published /\ row[x].archived # "byDocument"
      BY <1>10, <2>2 DEF ToShow, Present
    <3>2. row[x].collection \in Collections
      BY <1>1, <1>4, <3>1 DEF RowsCoherent, Row
    <3>3. <<x, row[x].parent>> \in structure[row[x].collection]
      BY <1>1, <3>1 DEF AllShown
    <3>4. x \in Nodes(structure[row[x].collection])
      BY <3>3 DEF Nodes
    <3> QED
      BY <2>1, <3>2, <3>3, <3>4
  <2>3. {} \in Edges
    BY DEF Edges
  <2>4. \A k \in Collections : \A e \in structure[k] :
           e[2] = NoDoc \/ e[2] \in Nodes(structure[k])
    BY <1>1 DEF TreesFollowRows
  <2>5. \A k \in Collections :
           structure'[k] = structure[k] \cup {e \in {} : row'[e[1]].collection = k}
    BY <1>2
  <2> QED
    BY <1>1, <1>2, <2>1, <2>2, <2>3, <2>4, <2>5, TreesKept
<1>14. NoOrphans'
  <2> SUFFICES ASSUME NEW x \in Docs, Present(row, x)', row'[x].published, row'[x].parent # NoDoc,
                      row'[row'[x].parent].deleted, row'[row'[x].parent].published,
                      row'[row'[x].parent].archived = "no"
               PROVE  coll'[row'[x].collection] = "deleted"
    BY DEF NoOrphans
  <2> DEFINE p == row[x].parent
  <2>1. p \in Docs /\ row'[x].parent = p /\ x \notin drafts
    BY <1>4, <1>10 DEF Row
  <2>2. row[p].published /\ row[p].archived = "no" /\ row[p].deleted
    BY <1>10, <2>1
  <2>3. Present(row, x) /\ row[x].published /\ row'[x].collection = row[x].collection
    BY <1>10, <2>1 DEF Present
  <2> QED
    BY <1>1, <1>2, <2>1, <2>2, <2>3, ParametersAssumption DEF NoOrphans
<1> QED
  BY <1>11, <1>12, <1>13, <1>14 DEF TreeInv

-----------------------------------------------------------------------------
(* Documents that leave their tree.                                         *)

\* A request that takes a document out of its tree, or that is about one that is in no tree,
\* and that touches rows at and below it only, so that they need not be shown any more, or
\* leaves them be.
LEMMA RemovalKeepsTrees ==
    ASSUME TypeOK, RowsCoherent, TreesFollowRows, NodesFit, AllShown, TypeOK', coll' = coll,
           NEW d \in Docs, NEW out \in BOOLEAN,
           out => row[d].collection \in Collections,
           structure' = IF out THEN [structure EXCEPT ![row[d].collection] =
                                       Without(structure[row[d].collection], d)]
                        ELSE structure,
           ~out => \A k \in Collections : d \notin Nodes(structure[k]),
           \A x \in Docs : x \notin Below(PresentEdges, d) => row'[x] = row[x],
           \A x \in Below(PresentEdges, d) : row'[x] = row[x] \/ ~ToShow(x)',
           out => \A x \in Below(structure[row[d].collection], d) : ~ToShow(x)'
    PROVE  TreesFollowRows' /\ NodesFit' /\ AllShown'
<1> DEFINE c == row[d].collection
<1>0. structure \in [Collections -> SUBSET (Docs \X (Docs \cup {NoDoc}))]
  BY DEF TypeOK
<1>1. ASSUME NEW k \in Collections
      PROVE  structure'[k] = IF out /\ k = c THEN Without(structure[c], d) ELSE structure[k]
  BY <1>0
<1>2. ASSUME NEW k \in Collections
      PROVE  /\ structure'[k] \subseteq structure[k]
             /\ \A e \in structure'[k] : e[2] = NoDoc \/ e[2] \in Nodes(structure'[k])
  <2>1. CASE out /\ k = c
    BY <1>1, <2>1, WithoutTree
  <2>2. CASE ~(out /\ k = c)
    BY <1>1, <2>2 DEF TreesFollowRows
  <2> QED
    BY <2>1, <2>2
<1>3. ASSUME NEW k \in Collections, NEW x \in Nodes(structure'[k]) PROVE row'[x] = row[x]
  <2>1. x \in Nodes(structure[k])
    BY <1>2 DEF Nodes
  <2>2. x \in Docs
    BY <2>1, ShownRow
  <2>3. ASSUME x \in Below(PresentEdges, d) PROVE FALSE
    <3>1. k = c /\ d \in Nodes(structure[k]) /\ x \in Below(structure[k], d)
      BY <2>1, <2>3, ShownInOneTree
    <3>2. out /\ structure'[c] = Without(structure[c], d) /\ c \in Collections
      BY <1>1, <3>1
    <3>3. x \notin Below(structure[c], d)
      BY <3>1, <3>2, WithoutTree
    <3> QED
      BY <3>1, <3>3
  <2> QED
    BY <2>2, <2>3
<1>4. ASSUME NEW x \in Docs, ToShow(x)'
      PROVE  /\ row'[x] = row[x] /\ <<x, row[x].parent>> \in structure'[row[x].collection]
             /\ row[x].collection \in Collections
  <2>1. row'[x] = row[x]
    BY <1>4
  <2>2. Present(row, x) /\ row[x].published /\ row[x].archived # "byDocument"
    BY <1>4, <2>1 DEF ToShow, Present
  <2>3. row[x].collection \in Collections
    BY <2>2 DEF RowsCoherent, TypeOK, Row
  <2> DEFINE e == <<x, row[x].parent>>
  <2>4. e \in structure[row[x].collection]
    BY <2>2 DEF AllShown
  <2>5. e[1] = x
    OBVIOUS
  <2> HIDE DEF e
  <2>6. CASE out /\ row[x].collection = c
    <3>1. x \notin Below(structure[c], d)
      BY <1>4, <2>6
    <3>2. e \in Without(structure[c], d)
      BY <2>4, <2>5, <2>6, <3>1 DEF Without
    <3> QED
      BY <1>1, <2>1, <2>3, <2>6, <3>2 DEF e
  <2>7. CASE ~(out /\ row[x].collection = c)
    BY <1>1, <2>1, <2>3, <2>4, <2>7 DEF e
  <2> QED
    BY <2>6, <2>7
<1> DEFINE left == [k \in Collections |-> IF out /\ k = c THEN Without(structure[c], d)
                                         ELSE structure[k]]
<1>5. {} \in Edges
  BY DEF Edges
<1>6. \A k \in Collections : structure'[k] = left[k]
  BY <1>1
<1> HIDE DEF c, left
<1>7. \A k \in Collections :
        /\ left[k] \subseteq structure[k]
        /\ \A e \in left[k] : e[2] = NoDoc \/ e[2] \in Nodes(left[k])
        /\ \A x \in Nodes(left[k]) : row'[x] = row[x]
        /\ structure'[k] = left[k] \cup {e \in {} : row'[e[1]].collection = k}
  <2> SUFFICES ASSUME NEW k \in Collections
               PROVE  /\ left[k] \subseteq structure[k]
                      /\ \A e \in left[k] : e[2] = NoDoc \/ e[2] \in Nodes(left[k])
                      /\ \A x \in Nodes(left[k]) : row'[x] = row[x]
                      /\ structure'[k] = left[k]
    OBVIOUS
  <2> QED
    BY <1>2, <1>3, <1>6
<1>8. \A x \in Docs : ToShow(x)' =>
         /\ row'[x] = row[x] /\ <<x, row[x].parent>> \in left[row[x].collection]
         /\ row[x].collection \in Collections
  BY <1>4, <1>6
<1> QED
  BY <1>5, <1>7, <1>8, TreesKept

LEMMA UnpublishKeeps ==
    ASSUME TreeInv, NEW d \in Docs, NEW detach \in BOOLEAN, Unpublish(Snapshot, d, detach),
           TypeOK', ChildSharesCollection'
    PROVE  TreeInv'
<1> DEFINE c == row[d].collection
           new == [row[d] EXCEPT !.published = FALSE,
                                 !.collection = IF detach THEN NoCollection ELSE c]
<1>1. /\ TypeOK /\ RowsCoherent /\ Acyclic /\ TreesFollowRows /\ NodesFit /\ AllShown
      /\ NoOrphans
  BY DEF TreeInv
<1>2. /\ Active(row, d) /\ Visible(Snapshot, d) /\ row[d].published /\ coll' = coll
      /\ Below(ActiveEdges, d) = {d} /\ row' = [row EXCEPT ![d] = Saved(row[d], row[d], new)]
      /\ structure' = IF coll[c] = "deleted" THEN structure
                      ELSE [structure EXCEPT ![c] = Without(structure[c], d)]
  BY Seen, ActiveQuery DEF Unpublish, CanUpdate
<1>3. c \in Collections /\ coll[c] # "deleted"
  BY <1>1, <1>2, Seen DEF Visible, TypeOK, Row
<1>4. row \in [Docs -> Row] /\ new \in Row
  <2>1. row \in [Docs -> Row] /\ row[d] \in Row
    BY <1>1 DEF TypeOK
  <2>2. (IF detach THEN NoCollection ELSE c) \in Collections \cup {NoCollection}
    BY <1>3
  <2> QED
    BY <2>1, <2>2 DEF Row
<1>5. row'[d] = new /\ \A x \in Docs \ {d} : row'[x] = row[x]
  <2>1. Saved(row[d], row[d], new) = new
    BY <1>4, SavedRow
  <2> QED
    BY <1>2, <1>4, <2>1
<1>6. /\ new.exists = row[d].exists /\ new.parent = row[d].parent /\ ~new.published
      /\ new.deleted = row[d].deleted /\ new.archived = row[d].archived
  BY <1>4 DEF Row
<1>7. structure' = [structure EXCEPT ![c] = Without(structure[c], d)]
  BY <1>2, <1>3
<1>8. Below(structure[c], d) = {d}
  <2>1. <<d, row[d].parent>> \in structure[c] /\ row[d].archived = "no"
    BY <1>1, <1>2 DEF AllShown, Active
  <2>2. d \in Nodes(structure[c])
    BY <2>1 DEF Nodes
  <2>3. structure[c] \in Edges /\ structure[c] \subseteq ParentEdges
    BY <1>1, <1>3, TreeEdges
  <2>4. ActiveEdges \in Edges
    BY <1>4, EdgesTyped
  <2>5. ASSUME NEW e \in structure[c], e[2] = d PROVE e[1] = d
    <3>1. e[1] \in Below(structure[c], d)
      BY <2>3, <2>5, BelowSelf, BelowClosed
    <3>2. e[1] \in Nodes(structure[c]) /\ row[e[1]].archived = "no"
      BY <1>1, <1>3, <2>1, <2>2, <3>1, UnarchivedBelow
    <3>3. Present(row, e[1])
      BY <1>1, <1>3, <3>2, PresentTree
    <3>4. e \in ActiveEdges
      BY <2>3, <3>2, <3>3 DEF ActiveEdges, Active
    <3>5. e[1] \in Below(ActiveEdges, d)
      BY <2>4, <2>5, <3>4, BelowSelf, BelowClosed
    <3> QED
      BY <1>2, <3>5
  <2>6. Below(structure[c], d) \subseteq {d}
    <3> DEFINE S == {d}
    <3>1. d \in S /\ \A e \in structure[c] : e[2] \in S => e[1] \in S
      BY <2>5
    <3> HIDE DEF S
    <3>2. Below(structure[c], d) \subseteq S
      BY <2>3, <3>1, BelowLeast
    <3> QED
      BY <3>2 DEF S
  <2> QED
    BY <2>6, BelowSelf
<1> HIDE DEF new
<1>9. RowsCoherent'
  <2>1. \A x \in Docs : row[x].parent \in Docs \cup {NoDoc}
    BY <1>4 DEF Row
  <2>2. row[d].exists /\ row[d].archived = "no"
    BY <1>2 DEF Active, Present
  <2>3. \A x \in Docs : row'[x].exists = row[x].exists /\ row'[x].parent = row[x].parent
    BY <1>5, <1>6
  <2>4. \A x \in Docs \ {d} : row[x].exists \/ row'[x] = Absent
    BY <1>1, <1>5 DEF RowsCoherent
  <2>5. \A x \in Docs : row'[x].parent # NoDoc => row'[row'[x].parent].exists
    BY <1>1, <2>1, <2>3, ParametersAssumption DEF RowsCoherent
  <2>6. \A x \in Docs : /\ row'[x].published => row'[x].collection # NoCollection
                        /\ row'[x].archived # "no" => row'[x].published
    BY <1>1, <1>5, <1>6, <2>2 DEF RowsCoherent
  <2> QED
    BY <2>2, <2>3, <2>4, <2>5, <2>6 DEF RowsCoherent
<1>10. Acyclic'
  <2>1. \A x \in Docs : row'[x].parent = row[x].parent
    BY <1>5, <1>6
  <2> QED
    BY <1>1, <2>1, ParentsKept
<1>11. TreesFollowRows' /\ NodesFit' /\ AllShown'
  <2>1. ~ToShow(d)'
    BY <1>5, <1>6 DEF ToShow
  <2>2. \A x \in Below(PresentEdges, d) : row'[x] = row[x] \/ ~ToShow(x)'
    BY <1>5, <2>1, BelowTyped
  <2>3. \A x \in Docs : x \notin Below(PresentEdges, d) => row'[x] = row[x]
    BY <1>5, BelowSelf
  <2> QED
    BY <1>1, <1>2, <1>3, <1>7, <1>8, <2>1, <2>2, <2>3, RemovalKeepsTrees
<1>12. NoOrphans'
  <2> SUFFICES ASSUME NEW x \in Docs, Present(row, x)', row'[x].published, row'[x].parent # NoDoc,
                      row'[row'[x].parent].deleted, row'[row'[x].parent].published,
                      row'[row'[x].parent].archived = "no"
               PROVE  coll'[row'[x].collection] = "deleted"
    BY DEF NoOrphans
  <2> DEFINE p == row'[x].parent
  <2>1. x # d /\ p # d
    BY <1>5, <1>6
  <2>2. row'[x] = row[x]
    BY <1>5, <2>1
  <2>3. p \in Docs
    BY <1>4, <2>2 DEF Row
  <2>4. row'[p] = row[p]
    BY <1>5, <2>1, <2>3
  <2> QED
    BY <1>1, <1>2, <2>2, <2>4 DEF NoOrphans, Present
<1> QED
  BY <1>9, <1>10, <1>11, <1>12 DEF TreeInv

LEMMA ArchiveKeeps ==
    ASSUME TreeInv, NEW d \in Docs, Archive(Snapshot, d), TypeOK', ChildSharesCollection'
    PROVE  TreeInv'
<1> DEFINE c == row[d].collection
           put == PublishedBelow(row, d) \cup {d}
<1>1. /\ TypeOK /\ RowsCoherent /\ Acyclic /\ TreesFollowRows /\ NodesFit /\ AllShown
      /\ NoOrphans
  BY DEF TreeInv
<1>2. /\ Active(row, d) /\ Visible(Snapshot, d) /\ row[d].published /\ coll' = coll
      /\ row' = [x \in Docs |-> IF x \in put THEN [row[x] EXCEPT !.archived = "byDocument"]
                                ELSE row[x]]
      /\ structure' = IF coll[c] = "deleted" THEN structure
                      ELSE [structure EXCEPT ![c] = Without(structure[c], d)]
  BY Seen DEF Archive, CanUpdate
<1>3. c \in Collections /\ coll[c] # "deleted"
  BY <1>1, <1>2, Seen DEF Visible, TypeOK, Row
<1>4. structure' = [structure EXCEPT ![c] = Without(structure[c], d)]
  BY <1>2, <1>3
<1>5. put = Below(PublishedEdges, d)
  BY QueryChildren, BelowSelf
<1>6. \A x \in put : x \in Docs /\ Present(row, x) /\ row[x].published
                     /\ x \in Below(PresentEdges, d)
  BY <1>1, <1>2, <1>5, FoundPresent, BelowSelf DEF Active
<1> HIDE DEF put
<1>7. \A x \in Docs :
        /\ row'[x].exists = row[x].exists /\ row'[x].collection = row[x].collection
        /\ row'[x].parent = row[x].parent /\ row'[x].published = row[x].published
        /\ row'[x].deleted = row[x].deleted
        /\ row'[x].archived = IF x \in put THEN "byDocument" ELSE row[x].archived
        /\ x \notin put => row'[x] = row[x]
  <2>1. \A x \in Docs : row[x] \in Row
    BY <1>1 DEF TypeOK
  <2> QED
    BY <1>2, <2>1 DEF Row
<1>8. RowsCoherent'
  <2>1. \A x \in Docs : row[x].parent \in Docs \cup {NoDoc}
    BY <1>1 DEF TypeOK, Row
  <2>2. \A x \in Docs : row[x].exists \/ row'[x] = Absent
    BY <1>1, <1>6, <1>7 DEF RowsCoherent, Present
  <2>3. \A x \in Docs : row'[x].parent # NoDoc => row'[row'[x].parent].exists
    BY <1>1, <1>7, <2>1, ParametersAssumption DEF RowsCoherent
  <2>4. \A x \in Docs : /\ row'[x].published => row'[x].collection # NoCollection
                        /\ row'[x].archived # "no" => row'[x].published
    BY <1>1, <1>6, <1>7 DEF RowsCoherent
  <2> QED
    BY <1>7, <2>2, <2>3, <2>4 DEF RowsCoherent
<1>9. Acyclic'
  BY <1>1, <1>7, ParentsKept
<1>10. TreesFollowRows' /\ NodesFit' /\ AllShown'
  <2>1. \A x \in put : ~ToShow(x)'
    BY <1>6, <1>7 DEF ToShow
  <2>2. \A x \in Below(PresentEdges, d) : row'[x] = row[x] \/ ~ToShow(x)'
    BY <1>7, <2>1, BelowTyped
  <2>3. \A x \in Docs : x \notin Below(PresentEdges, d) => row'[x] = row[x]
    BY <1>6, <1>7
  <2>4. Below(structure[c], d) \subseteq put
    BY <1>1, <1>3, <1>5, BranchIsBelow
  <2> QED
    BY <1>1, <1>2, <1>3, <1>4, <2>1, <2>2, <2>3, <2>4, RemovalKeepsTrees
<1>11. NoOrphans'
  <2> SUFFICES ASSUME NEW x \in Docs, Present(row, x)', row'[x].published, row'[x].parent # NoDoc,
                      row'[row'[x].parent].deleted, row'[row'[x].parent].published,
                      row'[row'[x].parent].archived = "no"
               PROVE  coll'[row'[x].collection] = "deleted"
    BY DEF NoOrphans
  <2> DEFINE p == row[x].parent
  <2>1. p \in Docs /\ row'[x].parent = p /\ p # NoDoc
    BY <1>1, <1>7 DEF TypeOK, Row
  <2>2. row[p].published /\ row[p].archived = "no" /\ row[p].deleted
    BY <1>7, <2>1
  <2>3. Present(row, x) /\ row[x].published /\ row'[x].collection = row[x].collection
    BY <1>7 DEF Present
  <2> QED
    BY <1>1, <1>2, <2>1, <2>2, <2>3 DEF NoOrphans
<1> QED
  BY <1>8, <1>9, <1>10, <1>11 DEF TreeInv

LEMMA DeleteKeeps ==
    ASSUME TreeInv, NEW d \in Docs, Delete(Snapshot, d), TypeOK', ChildSharesCollection'
    PROVE  TreeInv'
<1> DEFINE c == row[d].collection
           whole == c # NoCollection /\ (row[d].archived = "no" \/ coll[c] = "archived")
           gone == {d} \cup IF whole THEN {x \in ChildDocuments(row, d) : row[x].published} ELSE {}
<1>1. /\ TypeOK /\ RowsCoherent /\ Acyclic /\ TreesFollowRows /\ NodesFit /\ AllShown
      /\ NoOrphans
  BY DEF TreeInv
<1>2. /\ Present(row, d) /\ Visible(Snapshot, d) /\ coll' = coll
      /\ row[d].archived = "no" \/ row[d].published
      /\ row' = [x \in Docs |-> IF x \in gone THEN [row[x] EXCEPT !.deleted = TRUE] ELSE row[x]]
      /\ structure' = IF whole THEN [structure EXCEPT ![c] = Without(structure[c], d)]
                      ELSE structure
  BY Seen DEF Delete
<1>3. c \in Collections \cup {NoCollection} /\ (c = NoCollection \/ coll[c] # "deleted"
                                               \/ ~row[d].published)
  BY <1>1, <1>2, Seen DEF Visible, TypeOK, Row
<1>4. \A x \in gone : x \in Docs /\ Present(row, x) /\ x \in Below(PresentEdges, d)
  BY <1>1, <1>2, QueryChildren, FoundPresent, BelowSelf
<1>5. whole => \A x \in Below(PresentEdges, d) : x = d \/ ~row[x].published \/ x \in gone
  BY QueryChildren
<1>6. d \in gone /\ (~whole => gone = {d})
  OBVIOUS
<1> HIDE DEF gone
<1>7. \A x \in Docs :
        /\ row'[x].exists = row[x].exists /\ row'[x].collection = row[x].collection
        /\ row'[x].parent = row[x].parent /\ row'[x].published = row[x].published
        /\ row'[x].archived = row[x].archived
        /\ row'[x].deleted <=> row[x].deleted \/ x \in gone
        /\ x \notin gone => row'[x] = row[x]
  <2>1. \A x \in Docs : row[x] \in Row
    BY <1>1 DEF TypeOK
  <2> QED
    BY <1>2, <2>1 DEF Row
<1>8. RowsCoherent'
  <2>1. \A x \in Docs : row[x].parent \in Docs \cup {NoDoc}
    BY <1>1 DEF TypeOK, Row
  <2>2. \A x \in Docs : row[x].exists \/ row'[x] = Absent
    BY <1>1, <1>4, <1>7 DEF RowsCoherent, Present
  <2>3. \A x \in Docs : row'[x].parent # NoDoc => row'[row'[x].parent].exists
    BY <1>1, <1>7, <2>1, ParametersAssumption DEF RowsCoherent
  <2>4. \A x \in Docs : /\ row'[x].published => row'[x].collection # NoCollection
                        /\ row'[x].archived # "no" => row'[x].published
    BY <1>1, <1>7 DEF RowsCoherent
  <2> QED
    BY <1>7, <2>2, <2>3, <2>4 DEF RowsCoherent
<1>9. Acyclic'
  BY <1>1, <1>7, ParentsKept
<1>10. TreesFollowRows' /\ NodesFit' /\ AllShown'
  <2>1. \A x \in gone : ~ToShow(x)'
    BY <1>4, <1>7 DEF ToShow, Present
  <2>2. \A x \in Below(PresentEdges, d) : row'[x] = row[x] \/ ~ToShow(x)'
    BY <1>7, <2>1, BelowTyped
  <2>3. \A x \in Docs : x \notin Below(PresentEdges, d) => row'[x] = row[x]
    BY <1>4, <1>7
  <2>4. CASE whole
    <3>1. c \in Collections
      BY <1>3, <2>4
    <3>2. ASSUME NEW x \in Below(structure[c], d) PROVE ~ToShow(x)'
      <4>1. CASE x = d
        BY <1>6, <2>1, <4>1
      <4>2. CASE x # d /\ coll[c] # "deleted"
        <5>1. x \in Below(PublishedEdges, d)
          BY <1>1, <3>1, <4>2, BranchIsBelow
        <5>2. x \in Below(PresentEdges, d) /\ row[x].published
          BY <1>1, <4>2, <5>1, FoundPresent
        <5> QED
          BY <1>5, <2>1, <2>4, <4>2, <5>2
      <4>3. CASE x # d /\ coll[c] = "deleted"
        <5>1. d \in Nodes(structure[c])
          BY <1>1, <3>1, <4>3, BelowInTree
        <5>2. row[d].published
          BY <1>1, <3>1, <5>1, ShownRow
        <5> QED
          BY <1>3, <3>1, <4>3, <5>2, ParametersAssumption
      <4> QED
        BY <4>1, <4>2, <4>3
    <3>3. structure' = [structure EXCEPT ![c] = Without(structure[c], d)]
      BY <1>2, <2>4
    <3> HIDE DEF whole
    <3> QED
      BY <1>1, <1>2, <2>2, <2>3, <3>1, <3>2, <3>3, RemovalKeepsTrees
  <2>5. CASE ~whole
    <3>1. ASSUME NEW k \in Collections, d \in Nodes(structure[k]) PROVE FALSE
      <4>1. k = c /\ row[d].published
        BY <1>1, <3>1, ShownRow
      <4>2. c # NoCollection /\ row[d].archived # "no" /\ coll[c] = "active"
        BY <1>1, <1>3, <2>5, <4>1, ParametersAssumption DEF TypeOK
      <4>3. Fits(k, d)
        BY <1>1, <3>1 DEF NodesFit
      <4> QED
        BY <4>1, <4>2, <4>3 DEF Fits, Active
    <3>2. structure' = structure
      BY <1>2, <2>5
    <3> HIDE DEF whole
    <3> QED
      BY <1>1, <1>2, <2>2, <2>3, <3>1, <3>2, RemovalKeepsTrees
  <2> QED
    BY <2>4, <2>5
<1>11. NoOrphans'
  <2> SUFFICES ASSUME NEW x \in Docs, Present(row, x)', row'[x].published, row'[x].parent # NoDoc,
                      row'[row'[x].parent].deleted, row'[row'[x].parent].published,
                      row'[row'[x].parent].archived = "no"
               PROVE  coll'[row'[x].collection] = "deleted"
    BY DEF NoOrphans
  <2> DEFINE p == row[x].parent
  <2>1. p \in Docs /\ row'[x].parent = p /\ p # NoDoc
    BY <1>1, <1>7 DEF TypeOK, Row
  <2>2. row[p].published /\ row[p].archived = "no" /\ (row[p].deleted \/ p \in gone)
    BY <1>7, <2>1
  <2>3. /\ Present(row, x) /\ row[x].published /\ x \notin gone
        /\ row'[x].collection = row[x].collection
    BY <1>7 DEF Present
  <2>4. CASE row[p].deleted
    BY <1>1, <1>2, <2>1, <2>2, <2>3, <2>4 DEF NoOrphans
  <2>5. CASE p \in gone
    <3>1. whole
      BY <1>1, <1>6, <2>1, <2>2, <2>5 DEF RowsCoherent
    <3> DEFINE e == <<x, p>>
    <3>2. e \in PresentEdges /\ e[1] = x /\ e[2] = p
      BY <2>3 DEF PresentEdges, ParentEdges
    <3>3. PresentEdges \in Edges
      BY <1>1, EdgesTyped DEF TypeOK
    <3> HIDE DEF e
    <3>4. x \in Below(PresentEdges, d)
      BY <1>4, <2>5, <3>2, <3>3, BelowClosed
    <3> QED
      BY <1>5, <1>6, <2>3, <3>1, <3>4
  <2> QED
    BY <2>2, <2>4, <2>5
<1> QED
  BY <1>8, <1>9, <1>10, <1>11 DEF TreeInv

-----------------------------------------------------------------------------
(* Documents that get a place in a tree.                                    *)

\* A document's parent is not below it.
LEMMA ParentNotBelow ==
    ASSUME TypeOK, Acyclic, NEW d \in Docs
    PROVE  row[d].parent \notin Below(ParentEdges, d)
<1> SUFFICES ASSUME row[d].parent \in Below(ParentEdges, d) PROVE FALSE
  OBVIOUS
<1> DEFINE B == Below(ParentEdges, d)
           S == (Docs \cup {NoDoc}) \ B
<1>1. ParentEdges \in Edges
  BY EdgesTyped DEF TypeOK
<1>2. B \subseteq Docs /\ d \in B
  BY BelowTyped, BelowSelf
<1>3. \A e \in ParentEdges : e[1] \in Docs /\ e[2] = row[e[1]].parent
  BY DEF ParentEdges
<1>4. \A x \in B : x # d => \E e \in ParentEdges : e[1] = x /\ e[2] \in B
  BY <1>1, BelowStep
<1> HIDE DEF B
<1>5. NoDoc \in S
  BY <1>2, ParametersAssumption
<1>6. \A e \in ParentEdges : e[2] \in S => e[1] \in S
  <2> SUFFICES ASSUME NEW e \in ParentEdges, e[2] \in S, e[1] \in B PROVE FALSE
    BY <1>3
  <2>1. row[e[1]].parent \in B
    <3>1. CASE e[1] = d
      BY <3>1 DEF B
    <3>2. CASE e[1] # d
      BY <1>3, <1>4, <3>2
    <3> QED
      BY <3>1, <3>2
  <2> QED
    BY <1>3, <2>1
<1> HIDE DEF S
<1>7. Below(ParentEdges, NoDoc) \subseteq S
  BY <1>1, <1>5, <1>6, BelowLeast
<1> QED
  BY <1>2, <1>7 DEF S, Acyclic

\* A branch has all that is below its root, each under the root or under another one of it.
LEMMA BranchTree ==
    ASSUME row \in [Docs -> Row], NEW edges \in Edges, edges \subseteq ParentEdges, NEW d \in Docs
    PROVE  /\ Nodes(Branch(edges, d)) = Below(edges, d) \ {d}
           /\ \A e \in Branch(edges, d) :
                 /\ e[1] \in Below(edges, d) \ {d} /\ e[2] = row[e[1]].parent
                 /\ e[2] = d \/ e[2] \in Nodes(Branch(edges, d))
           /\ \A x \in Below(edges, d) \ {d} : <<x, row[x].parent>> \in Branch(edges, d)
<1> DEFINE B == Below(edges, d)
           T == Branch(edges, d)
<1>1. \A e \in edges : /\ e[1] \in Docs /\ e[2] = row[e[1]].parent
                       /\ e = <<e[1], row[e[1]].parent>>
  BY DEF ParentEdges
<1>2. \A x \in B : x # d => \E e \in edges : e[1] = x /\ e[2] \in B
  BY BelowStep
<1>3. \A e : e \in T <=> e \in edges /\ e[1] \in B \ {d}
  BY DEF Branch
<1> HIDE DEF B, T
<1>4. Nodes(T) = B \ {d}
  BY <1>2, <1>3 DEF Nodes
<1>5. \A e \in T : e[2] = row[e[1]].parent /\ e[2] \in B
  BY <1>1, <1>2, <1>3
<1>6. \A x \in B \ {d} : <<x, row[x].parent>> \in T
  BY <1>1, <1>2, <1>3
<1> QED
  BY <1>3, <1>4, <1>5, <1>6 DEF B, T

\* The node of a document that no query finds anything under.
LEMMA NoBranch ==
    ASSUME TypeOK, NEW d \in Docs, NEW all \in BOOLEAN,
           \A x \in Docs : Present(row, x) /\ row[x].published /\ (all \/ row[x].archived = "no")
                              => row[x].parent # d
    PROVE  NavigationNode(row, d, all) = {}
<1> DEFINE P(x) == /\ Present(row, x) /\ row[x].published
                   /\ all \/ row[x].archived = "no"
           edges == RowEdges(row, P)
<1>1. edges \subseteq ParentEdges /\ \A e \in edges : e[2] # d
  BY DEF RowEdges, ParentEdges
<1>2. NavigationNode(row, d, all) = {e \in edges : e[1] \in Below(edges, d) \ {d}}
  BY DEF NavigationNode
<1> HIDE DEF edges
<1>3. edges \in Edges
  BY <1>1, EdgesTyped DEF TypeOK, Edges
<1>4. Below(edges, d) = {d}
  BY <1>1, <1>3, BelowLeaf
<1> QED
  BY <1>2, <1>4

\* With what was archived, the node is the branch of the published documents.
LEMMA ArchivedNode ==
    ASSUME NEW d
    PROVE  NavigationNode(row, d, TRUE) = Branch(PublishedEdges, d)
<1> DEFINE Q(edges) == {e \in edges : e[1] \in Below(edges, d) \ {d}}
<1>1. NavigationNode(row, d, TRUE) =
        Q(RowEdges(row, LAMBDA x : /\ Present(row, x) /\ row[x].published
                                   /\ TRUE \/ row[x].archived = "no"))
  BY DEF NavigationNode
<1>2. RowEdges(row, LAMBDA x : /\ Present(row, x) /\ row[x].published
                               /\ TRUE \/ row[x].archived = "no") = PublishedEdges
  BY DEF RowEdges, PublishedEdges, PresentEdges, ParentEdges
<1>3. Branch(PublishedEdges, d) = Q(PublishedEdges)
  BY DEF Branch
<1> HIDE DEF Q
<1> QED
  BY <1>1, <1>2, <1>3

\* A document that others can be put under is in the tree of its collection.
LEMMA NestShown ==
    ASSUME TypeOK, AllShown, NEW p \in Docs, CanNest(Snapshot, p)
    PROVE  /\ Active(row, p) /\ row[p].published /\ row[p].collection \in Collections
           /\ coll[row[p].collection] # "deleted" /\ p \in Nodes(structure[row[p].collection])
<1>1. Active(row, p) /\ row[p].published /\ Visible(Snapshot, p)
  BY Seen DEF CanNest, CanUpdate
<1>2. row[p].collection \in Collections /\ coll[row[p].collection] # "deleted"
  BY <1>1, Seen DEF Visible, TypeOK, Row
<1>3. <<p, row[p].parent>> \in structure[row[p].collection]
  BY <1>1 DEF AllShown, Active
<1>4. p \in Nodes(structure[row[p].collection])
  <2> DEFINE e == <<p, row[p].parent>>
  <2>1. e \in structure[row[p].collection] /\ e[1] = p
    BY <1>3
  <2> HIDE DEF e
  <2> QED
    BY <2>1 DEF Nodes
<1> QED
  BY <1>1, <1>2, <1>4

\* A document that is in no tree may get a place in one.
LEMMA PlaceKeepsTrees ==
    ASSUME TypeOK, RowsCoherent, TreesFollowRows, NodesFit, AllShown, TypeOK', coll' = coll,
           NEW d \in Docs, NEW c \in Collections, NEW p \in Docs \cup {NoDoc},
           NEW placed \in BOOLEAN,
           structure' = IF placed THEN [structure EXCEPT ![c] = structure[c] \cup {<<d, p>>}]
                        ELSE structure,
           \A k \in Collections : d \notin Nodes(structure[k]),
           p = NoDoc \/ p \in Nodes(structure[c]), coll[c] # "deleted",
           \A x \in Docs \ {d} : row'[x] = row[x],
           row'[d].published = placed, row'[d].parent = p, row'[d].collection = c,
           Active(row, d)'
    PROVE  TreesFollowRows' /\ NodesFit' /\ AllShown'
<1> DEFINE added == IF placed THEN {<<d, p>>} ELSE {}
           left == [k \in Collections |-> structure[k]]
<1>0. structure \in [Collections -> SUBSET (Docs \X (Docs \cup {NoDoc}))]
  BY DEF TypeOK
<1>1. added \in Edges
  BY DEF Edges
<1>2. \A e \in added : e[1] = d /\ e[2] = p /\ placed
  OBVIOUS
<1>3. \A k \in Collections : left[k] = structure[k]
  OBVIOUS
<1>4. \A k \in Collections :
         structure'[k] = structure[k] \cup {e \in added : row'[e[1]].collection = k}
  BY <1>0
<1>5. placed => <<d, p>> \in added
  OBVIOUS
<1> HIDE DEF added, left
<1>6. \A k \in Collections :
         /\ left[k] \subseteq structure[k]
         /\ \A e \in left[k] : e[2] = NoDoc \/ e[2] \in Nodes(left[k])
         /\ \A x \in Nodes(left[k]) : row'[x] = row[x]
         /\ structure'[k] = left[k] \cup {e \in added : row'[e[1]].collection = k}
  <2> SUFFICES ASSUME NEW k \in Collections
               PROVE  /\ \A e \in structure[k] : e[2] = NoDoc \/ e[2] \in Nodes(structure[k])
                      /\ \A x \in Nodes(structure[k]) : row'[x] = row[x]
    BY <1>3, <1>4
  <2>1. ASSUME NEW x \in Nodes(structure[k]) PROVE row'[x] = row[x]
    <3>1. x \in Docs
      BY ShownRow
    <3> QED
      BY <3>1
  <2> QED
    BY <2>1 DEF TreesFollowRows
<1>7. \A e \in added :
        /\ row'[e[1]].published /\ row'[e[1]].parent = e[2]
        /\ e[2] = NoDoc \/ e[2] \in Nodes(structure'[row'[e[1]].collection])
        /\ \A k \in Collections : row'[e[1]].collection = k => Fits(k, e[1])'
  <2> SUFFICES ASSUME placed
               PROVE  (p = NoDoc \/ p \in Nodes(structure'[c])) /\ Fits(c, d)'
    BY <1>2
  <2>1. structure[c] \subseteq structure'[c]
    BY <1>4
  <2>2. p = NoDoc \/ p \in Nodes(structure'[c])
    BY <2>1 DEF Nodes
  <2>3. Fits(c, d)'
    BY DEF Fits, Active
  <2> QED
    BY <2>2, <2>3
<1>8. \A x \in Docs : ToShow(x)' =>
        \/ <<x, row'[x].parent>> \in structure'[row'[x].collection]
        \/ row'[x] = row[x] /\ <<x, row[x].parent>> \in left[row[x].collection]
           /\ row[x].collection \in Collections
  <2> SUFFICES ASSUME NEW x \in Docs, ToShow(x)'
               PROVE  \/ <<x, row'[x].parent>> \in structure'[row'[x].collection]
                      \/ row'[x] = row[x] /\ <<x, row[x].parent>> \in left[row[x].collection]
                         /\ row[x].collection \in Collections
    OBVIOUS
  <2>1. CASE x = d
    <3>1. placed
      BY <2>1 DEF ToShow
    <3> QED
      BY <1>4, <1>5, <2>1, <3>1
  <2>2. CASE x # d
    <3>1. row'[x] = row[x]
      BY <2>2
    <3>2. Present(row, x) /\ row[x].published /\ row[x].archived # "byDocument"
      BY <3>1 DEF ToShow, Present
    <3>3. row[x].collection \in Collections
      BY <3>2 DEF RowsCoherent, TypeOK, Row
    <3> QED
      BY <1>3, <3>1, <3>2, <3>3 DEF AllShown
  <2> QED
    BY <2>1, <2>2
<1> QED
  BY <1>1, <1>6, <1>7, <1>8, TreesKept

LEMMA CreateKeeps ==
    ASSUME TreeInv, NEW d \in Docs, NEW c \in Collections, NEW p \in Docs \cup {NoDoc},
           NEW publish \in BOOLEAN, Create(Snapshot, d, c, p, publish),
           TypeOK', ChildSharesCollection'
    PROVE  TreeInv'
<1> DEFINE new == [Absent EXCEPT !.exists = TRUE, !.collection = c,
                                 !.parent = p, !.published = publish]
<1>1. /\ TypeOK /\ RowsCoherent /\ Acyclic /\ TreesFollowRows /\ NodesFit /\ AllShown
      /\ NoOrphans
  BY DEF TreeInv
<1>2. /\ ~row[d].exists /\ coll' = coll /\ row' = [row EXCEPT ![d] = new]
      /\ IF p # NoDoc THEN CanNest(Snapshot, p) /\ c = row[p].collection
         ELSE coll[c] = "active"
      /\ structure' = IF publish /\ coll[c] # "deleted"
                      THEN [structure EXCEPT ![c] = With(structure[c], d, p, {})]
                      ELSE structure
  BY Seen DEF Create
<1>3. /\ new.exists /\ new.collection = c /\ new.parent = p /\ new.published = publish
      /\ ~new.deleted /\ new.archived = "no"
  BY DEF Absent
<1>4. p # NoDoc => Active(row, p) /\ row[p].published /\ p \in Nodes(structure[c])
  BY <1>1, <1>2, NestShown
<1>5. coll[c] # "deleted"
  BY <1>1, <1>2, NestShown
<1>6. p # d
  BY <1>2, <1>4, ParametersAssumption DEF Active, Present
<1>7. row'[d] = new /\ \A x \in Docs \ {d} : row'[x] = row[x]
  <2>1. row \in [Docs -> Row]
    BY <1>1 DEF TypeOK
  <2> HIDE DEF new
  <2> QED
    BY <1>2, <2>1
<1>8. row[d] = Absent /\ ~row[d].published /\ d # NoDoc
  <2>1. row[d] = Absent
    BY <1>1, <1>2 DEF RowsCoherent
  <2>2. ~Absent.published
    BY DEF Absent
  <2> QED
    BY <2>1, <2>2, ParametersAssumption
<1>9. \A x \in Docs : row[x].parent \in Docs \cup {NoDoc} /\ row[x].parent # d
  BY <1>1, <1>2, <1>8 DEF RowsCoherent, TypeOK, Row
<1>10. \A k \in Collections : d \notin Nodes(structure[k])
  BY <1>1, <1>8, ShownRow
<1> HIDE DEF new
<1>11. RowsCoherent'
  <2>1. \A x \in Docs : row'[x].parent # NoDoc => row'[row'[x].parent].exists
    <3>1. p # NoDoc => row'[p].exists
      BY <1>4, <1>6, <1>7 DEF Active, Present
    <3>2. \A x \in Docs \ {d} : row[x].parent # NoDoc => row'[row[x].parent].exists
      BY <1>1, <1>7, <1>9 DEF RowsCoherent
    <3> QED
      BY <1>3, <1>7, <3>1, <3>2
  <2>2. \A x \in Docs \ {d} : row'[x].exists \/ row'[x] = Absent
    BY <1>1, <1>7 DEF RowsCoherent
  <2>3. \A x \in Docs : /\ row'[x].published => row'[x].collection # NoCollection
                        /\ row'[x].archived # "no" => row'[x].published
    BY <1>1, <1>3, <1>7, ParametersAssumption DEF RowsCoherent
  <2> QED
    BY <1>3, <1>7, <2>1, <2>2, <2>3 DEF RowsCoherent
<1>12. Acyclic'
  <2>1. ParentEdges \in Edges /\ ParentEdges' \in Edges
    BY <1>1, EdgesTyped DEF TypeOK, ParentEdges, Edges, Row
  <2>2. \A e \in ParentEdges : e[2] # d
    BY <1>9 DEF ParentEdges
  <2>3. Below(ParentEdges, d) = {d}
    BY <2>1, <2>2, BelowLeaf
  <2>4. <<d, p>> \in ParentEdges'
    BY <1>3, <1>7 DEF ParentEdges
  <2>5. \A e \in ParentEdges : e[1] # d => e \in ParentEdges'
    BY <1>7 DEF ParentEdges
  <2>6. p = NoDoc \/ p \in Docs \ Below(ParentEdges, d)
    BY <1>6, <2>3
  <2> QED
    BY <1>1, <2>1, <2>4, <2>5, <2>6, Reparent DEF Acyclic
<1>13. TreesFollowRows' /\ NodesFit' /\ AllShown'
  <2>1. structure' = IF publish THEN [structure EXCEPT ![c] = structure[c] \cup {<<d, p>>}]
                     ELSE structure
    <3>1. With(structure[c], d, p, {}) = structure[c] \cup {<<d, p>>} \cup {}
      BY <1>4, <1>10, WithPlace
    <3> QED
      BY <1>2, <1>5, <3>1
  <2>2. p = NoDoc \/ p \in Nodes(structure[c])
    BY <1>4
  <2>3. Active(row, d)'
    BY <1>3, <1>7 DEF Active, Present
  <2>4. row'[d].published = publish /\ row'[d].parent = p /\ row'[d].collection = c
    BY <1>3, <1>7
  <2> QED
    BY <1>1, <1>2, <1>5, <1>7, <1>10, <2>1, <2>2, <2>3, <2>4, PlaceKeepsTrees
<1>14. NoOrphans'
  <2> SUFFICES ASSUME NEW x \in Docs, Present(row, x)', row'[x].published, row'[x].parent # NoDoc,
                      row'[row'[x].parent].deleted, row'[row'[x].parent].published,
                      row'[row'[x].parent].archived = "no"
               PROVE  coll'[row'[x].collection] = "deleted"
    BY DEF NoOrphans
  <2>1. x # d
    BY <1>3, <1>4, <1>6, <1>7 DEF Active, Present
  <2>2. row'[x] = row[x]
    BY <1>7, <2>1
  <2>3. row[x].parent \in Docs /\ row'[row[x].parent] = row[row[x].parent]
    BY <1>7, <1>9, <2>2
  <2> QED
    BY <1>1, <1>2, <2>2, <2>3 DEF NoOrphans, Present
<1> QED
  BY <1>11, <1>12, <1>13, <1>14 DEF TreeInv

LEMMA PublishKeeps ==
    ASSUME TreeInv, NEW d \in Docs, NEW other \in Collections, Publish(Snapshot, d, other),
           TypeOK', ChildSharesCollection'
    PROVE  TreeInv'
<1> DEFINE c == IF row[d].collection # NoCollection THEN row[d].collection ELSE other
           p == row[d].parent
<1>1. /\ TypeOK /\ RowsCoherent /\ Acyclic /\ TreesFollowRows /\ NodesFit /\ AllShown
      /\ NoOrphans
  BY DEF TreeInv
<1>2. /\ Active(row, d) /\ ~row[d].published /\ coll' = coll
      /\ row' = [row EXCEPT ![d].published = TRUE, ![d].collection = c]
      /\ IF p # NoDoc THEN CanNest(Snapshot, p) ELSE coll[c] = "active"
      /\ structure' = IF coll[c] = "deleted" THEN structure
                      ELSE [structure EXCEPT ![c] =
                              With(structure[c], d, p, NavigationNode(row, d, FALSE))]
  BY Seen DEF Publish, CanUpdate
<1>3. c \in Collections /\ p \in Docs \cup {NoDoc} /\ row[d] \in Row
  BY <1>1 DEF TypeOK, Row
<1>0. p # NoDoc => /\ Active(row, p) /\ row[p].published /\ coll[row[p].collection] # "deleted"
                   /\ p \in Nodes(structure[row[p].collection])
  BY <1>1, <1>2, <1>3, NestShown
<1> HIDE DEF c
<1>4. \A x \in Docs \ {d} : row'[x] = row[x]
  BY <1>1, <1>2 DEF TypeOK
<1>5. /\ row'[d].exists /\ row'[d].parent = p /\ row'[d].published /\ row'[d].collection = c
      /\ ~row'[d].deleted /\ row'[d].archived = "no"
  BY <1>1, <1>2, <1>3 DEF TypeOK, Row, Active, Present
<1>6. p # d
  BY <1>0, <1>2, <1>3, ParametersAssumption
<1>7. p # NoDoc => row[p].collection = c
  <2> SUFFICES ASSUME p # NoDoc PROVE row[p].collection = c
    OBVIOUS
  <2>1. p \in Docs /\ row'[p] = row[p] /\ Present(row, p)
    BY <1>0, <1>3, <1>4, <1>6 DEF Active
  <2>2. Present(row, p)' /\ Present(row, d)'
    BY <1>5, <2>1 DEF Present
  <2>3. row'[d].collection = row'[p].collection
    BY <1>5, <2>2 DEF ChildSharesCollection
  <2> QED
    BY <1>5, <2>1, <2>3
<1>8. coll[c] # "deleted" /\ (p = NoDoc \/ p \in Nodes(structure[c]))
  BY <1>0, <1>2, <1>7
<1>9. \A k \in Collections : d \notin Nodes(structure[k])
  BY <1>1, <1>2, ShownRow
<1>10. RowsCoherent'
  <2>1. \A x \in Docs : row[x].parent \in Docs \cup {NoDoc}
    BY <1>1 DEF TypeOK, Row
  <2>2. \A x \in Docs : row'[x].parent = row[x].parent /\ (row[x].exists => row'[x].exists)
    BY <1>4, <1>5
  <2>3. \A x \in Docs : row'[x].parent # NoDoc => row'[row'[x].parent].exists
    BY <1>1, <2>1, <2>2, ParametersAssumption DEF RowsCoherent
  <2>4. \A x \in Docs \ {d} : row'[x].exists \/ row'[x] = Absent
    BY <1>1, <1>4 DEF RowsCoherent
  <2>5. \A x \in Docs : /\ row'[x].published => row'[x].collection # NoCollection
                        /\ row'[x].archived # "no" => row'[x].published
    BY <1>1, <1>3, <1>4, <1>5, ParametersAssumption DEF RowsCoherent
  <2> QED
    BY <1>5, <2>3, <2>4, <2>5 DEF RowsCoherent
<1>11. Acyclic'
  <2>1. \A x \in Docs : row'[x].parent = row[x].parent
    BY <1>4, <1>5
  <2> QED
    BY <1>1, <2>1, ParentsKept
<1>12. TreesFollowRows' /\ NodesFit' /\ AllShown'
  <2>1. structure' = [structure EXCEPT ![c] = structure[c] \cup {<<d, p>>}]
    <3>1. ASSUME NEW x \in Docs, Present(row, x), row[x].published, row[x].archived = "no"
          PROVE  row[x].parent # d
      <4>1. <<x, row[x].parent>> \in structure[row[x].collection]
        BY <1>1, <3>1 DEF AllShown
      <4>2. row[x].collection \in Collections
        BY <1>1, <3>1 DEF RowsCoherent, TypeOK, Row
      <4>3. x \in Nodes(structure[row[x].collection])
        <5> DEFINE e == <<x, row[x].parent>>
        <5>1. e \in structure[row[x].collection] /\ e[1] = x
          BY <4>1
        <5> HIDE DEF e
        <5> QED
          BY <5>1 DEF Nodes
      <4>4. row[x].parent = NoDoc \/ row[x].parent \in Nodes(structure[row[x].collection])
        BY <1>1, <4>2, <4>3, ShownRow
      <4> QED
        BY <1>9, <4>2, <4>4, ParametersAssumption
    <3>2. NavigationNode(row, d, FALSE) = {}
      BY <1>1, <3>1, NoBranch
    <3>3. With(structure[c], d, p, {}) = structure[c] \cup {<<d, p>>} \cup {}
      BY <1>3, <1>8, <1>9, WithPlace
    <3> QED
      BY <1>2, <1>8, <3>2, <3>3
  <2>2. Active(row, d)'
    BY <1>5 DEF Active, Present
  <2>3. /\ structure' = IF TRUE THEN [structure EXCEPT ![c] = structure[c] \cup {<<d, p>>}]
                        ELSE structure
        /\ row'[d].published = TRUE /\ TRUE \in BOOLEAN
    BY <1>5, <2>1
  <2> HIDE DEF p
  <2> QED
    BY <1>1, <1>2, <1>3, <1>4, <1>5, <1>8, <1>9, <2>2, <2>3, PlaceKeepsTrees
<1>13. NoOrphans'
  <2> SUFFICES ASSUME NEW x \in Docs, Present(row, x)', row'[x].published, row'[x].parent # NoDoc,
                      row'[row'[x].parent].deleted, row'[row'[x].parent].published,
                      row'[row'[x].parent].archived = "no"
               PROVE  coll'[row'[x].collection] = "deleted"
    BY DEF NoOrphans
  <2>1. x # d
    BY <1>0, <1>3, <1>4, <1>5, <1>6 DEF Active, Present
  <2>2. row'[x] = row[x]
    BY <1>4, <2>1
  <2>3. row[x].parent \in Docs /\ row[x].parent # d
    BY <1>1, <1>5, <2>2 DEF TypeOK, Row
  <2>4. row'[row[x].parent] = row[row[x].parent]
    BY <1>4, <2>3
  <2> QED
    BY <1>1, <1>2, <2>2, <2>4 DEF NoOrphans, Present
<1> QED
  BY <1>10, <1>11, <1>12, <1>13 DEF TreeInv

\* A branch that is taken from its tree and put under another parent, in whichever
\* collection, keeps the trees and the rows together.
LEMMA MoveKeepsTrees ==
    ASSUME TypeOK, RowsCoherent, Acyclic, TreesFollowRows, NodesFit, AllShown,
           TypeOK', coll' = coll,
           NEW d \in Docs, NEW from \in Collections, NEW c \in Collections,
           NEW p \in Docs \cup {NoDoc},
           row[d].collection = from, row[d].published, Active(row, d), coll[from] # "deleted",
           coll[c] # "deleted",
           p = NoDoc \/ (p \in Nodes(structure[c]) /\ p \notin Below(ParentEdges, d)),
           row' \in [Docs -> Row], row'[d] = Moved(d, c, p),
           \A x \in Docs \ {d} : row'[x] =
              IF c # from /\ x \in ChildDocuments(row, d) /\ row[x].published
              THEN [row[x] EXCEPT !.collection = c] ELSE row[x],
           structure' = [TakenOut(d) EXCEPT ![c] = With(TakenOut(d)[c], d, p, MovedBranch(d))]
    PROVE  TreesFollowRows' /\ NodesFit' /\ AllShown'
<1> DEFINE tree == structure[from]
           branch == Branch(tree, d)
           added == {<<d, p>>} \cup branch
           left == [k \in Collections |-> IF k = from THEN Without(tree, d) ELSE structure[k]]
<1>0. /\ structure \in [Collections -> SUBSET (Docs \X (Docs \cup {NoDoc}))]
      /\ row \in [Docs -> Row] /\ from # NoCollection /\ d # NoDoc
  BY ParametersAssumption DEF TypeOK
<1>1. /\ tree \in Edges /\ tree \subseteq ParentEdges /\ tree \subseteq PublishedEdges
      /\ ParentEdges \in Edges /\ Below(tree, d) \subseteq Below(ParentEdges, d)
  <2>1. tree \in Edges /\ tree \subseteq ParentEdges /\ tree \subseteq PublishedEdges
    BY TreeEdges, PresentTree
  <2>2. ParentEdges \in Edges
    BY <1>0, EdgesTyped
  <2> QED
    BY <2>1, <2>2, BelowGrows
<1>2. d \in Nodes(tree) /\ row[d].archived = "no"
  <2> DEFINE e == <<d, row[d].parent>>
  <2>1. e \in tree /\ e[1] = d
    BY DEF AllShown, Active
  <2> HIDE DEF e
  <2> QED
    BY <2>1 DEF Nodes, Active
<1>3. ASSUME NEW x \in Below(tree, d)
      PROVE  /\ x \in Docs /\ x \in Nodes(tree) /\ Active(row, x) /\ row[x].published
             /\ row[x].collection = from
             /\ x # d => x \in ChildDocuments(row, d)
  <2>1. x \in Nodes(tree) /\ row[x].archived = "no"
    BY <1>2, UnarchivedBelow
  <2>0. x \in Nodes(structure[from])
    BY <2>1
  <2> HIDE DEF tree
  <2>2. x \in Docs /\ row[x].published /\ row[x].collection = from
    BY <2>0, ShownRow
  <2>3. Present(row, x)
    BY <2>0, PresentTree
  <2>4. x \in Below(PresentEdges, d)
    BY BranchIsBelow DEF tree
  <2> QED
    BY <2>1, <2>2, <2>3, <2>4, QueryChildren DEF Active
<1>4. /\ Nodes(branch) = Below(tree, d) \ {d}
      /\ \A e \in branch : /\ e[1] \in Below(tree, d) \ {d} /\ e[2] = row[e[1]].parent
                           /\ e[2] = d \/ e[2] \in Nodes(branch)
      /\ \A x \in Below(tree, d) \ {d} : <<x, row[x].parent>> \in branch
  BY <1>0, <1>1, BranchTree
<1>5. /\ Without(tree, d) \subseteq tree /\ Nodes(Without(tree, d)) = Nodes(tree) \ Below(tree, d)
      /\ \A e \in Without(tree, d) : e[2] = NoDoc \/ e[2] \in Nodes(Without(tree, d))
  BY WithoutTree
<1>6. MovedBranch(d) = branch /\ TakenOut(d) = [structure EXCEPT ![from] = Without(tree, d)]
  BY <1>0, <1>2 DEF MovedBranch, TakenOut
<1>7. /\ row'[d].published /\ row'[d].collection = c /\ row'[d].parent = p
      /\ row'[d].archived = "no" /\ row'[d].exists /\ ~row'[d].deleted
  <2>1. row[d] \in Row
    BY <1>0
  <2> QED
    BY <1>2, <2>1 DEF Moved, Row, Active, Present
<1>8. ASSUME NEW x \in Docs, x # d
      PROVE  /\ row'[x].exists = row[x].exists /\ row'[x].published = row[x].published
             /\ row'[x].parent = row[x].parent /\ row'[x].deleted = row[x].deleted
             /\ row'[x].archived = row[x].archived
             /\ x \notin ChildDocuments(row, d) => row'[x] = row[x]
             /\ x \in Below(tree, d) => row'[x].collection = c
  <2>1. row[x] \in Row
    BY <1>0
  <2>2. row'[x] = IF c # from /\ x \in ChildDocuments(row, d) /\ row[x].published
                  THEN [row[x] EXCEPT !.collection = c] ELSE row[x]
    BY <1>8
  <2>3. x \in Below(tree, d) =>
           x \in ChildDocuments(row, d) /\ row[x].published /\ row[x].collection = from
    BY <1>3, <1>8
  <2> QED
    BY <2>1, <2>2, <2>3 DEF Row
<1>9. ASSUME NEW k \in Collections, NEW x \in Nodes(structure[k]),
             x \in ChildDocuments(row, d) \cup {d}
      PROVE  k = from /\ x \in Below(tree, d)
  <2>1. x \in Below(PresentEdges, d)
    BY <1>9, QueryChildren, BelowSelf
  <2> QED
    BY <2>1, ShownInOneTree
<1> HIDE DEF branch, tree
<1>10. \A k \in Collections : left[k] = IF k = from THEN Without(tree, d) ELSE structure[k]
  OBVIOUS
<1>11. \A e \in added : e = <<d, p>> \/ e \in branch
  OBVIOUS
<1>12. <<d, p>> \in added /\ branch \subseteq added
  OBVIOUS
<1>13. added \in Edges
  <2>1. branch \subseteq tree
    BY DEF branch, Branch
  <2> QED
    BY <1>1, <2>1 DEF Edges
<1> HIDE DEF left, added
<1>14. d \notin Nodes(left[c]) /\ (p = NoDoc \/ p \in Nodes(left[c]))
  <2>1. CASE c = from
    BY <1>1, <1>5, <1>10, <2>1, BelowSelf DEF tree
  <2>2. CASE c # from
    <3>1. d \notin Nodes(structure[c])
      BY <2>2, ShownRow
    <3> QED
      BY <1>10, <2>2, <3>1
  <2> QED
    BY <2>1, <2>2
<1>15. \A k \in Collections :
          structure'[k] = IF k = c THEN left[c] \cup {<<d, p>>} \cup branch ELSE left[k]
  <2>1. TakenOut(d) \in [Collections -> SUBSET (Docs \X (Docs \cup {NoDoc}))]
        /\ \A k \in Collections : TakenOut(d)[k] = left[k]
    <3>1. Without(tree, d) \in SUBSET (Docs \X (Docs \cup {NoDoc}))
      BY <1>0, <1>5 DEF tree
    <3> QED
      BY <1>0, <1>6, <1>10, <3>1
  <2>2. With(left[c], d, p, branch) = left[c] \cup {<<d, p>>} \cup branch
    BY <1>14, WithPlace
  <2>3. structure' = [TakenOut(d) EXCEPT ![c] = With(left[c], d, p, branch)]
    BY <1>6, <2>1
  <2> QED
    BY <2>1, <2>2, <2>3
<1>16. ASSUME NEW e \in added
       PROVE  /\ row'[e[1]].published /\ row'[e[1]].parent = e[2] /\ row'[e[1]].collection = c
              /\ Active(row, e[1])' /\ (e[2] = NoDoc \/ e[2] \in Nodes(structure'[c]))
  <2>1. CASE e = <<d, p>>
    <3>1. e[1] = d /\ e[2] = p
      BY <2>1
    <3>2. p = NoDoc \/ p \in Nodes(structure'[c])
      <4>1. left[c] \subseteq structure'[c]
        BY <1>15
      <4> QED
        BY <1>14, <4>1 DEF Nodes
    <3> QED
      BY <1>7, <3>1, <3>2 DEF Active, Present
  <2>2. CASE e \in branch
    <3> DEFINE x == e[1]
    <3>1. x \in Below(tree, d) /\ x # d /\ e[2] = row[x].parent
          /\ (e[2] = d \/ e[2] \in Nodes(branch))
      BY <1>4, <2>2
    <3> HIDE DEF x
    <3>2. x \in Docs /\ Active(row, x) /\ row[x].published
      BY <1>3, <3>1 DEF tree
    <3>3. row'[x].published /\ row'[x].parent = e[2] /\ row'[x].collection = c
      BY <1>8, <3>1, <3>2
    <3>4. row'[x].exists /\ ~row'[x].deleted /\ row'[x].archived = "no"
      BY <1>8, <3>1, <3>2 DEF Active, Present
    <3>5. Nodes(branch) \subseteq Nodes(structure'[c]) /\ d \in Nodes(structure'[c])
      <4> DEFINE f == <<d, p>>
      <4>1. f[1] = d /\ f \in structure'[c] /\ branch \subseteq structure'[c]
        BY <1>15
      <4> HIDE DEF f
      <4> QED
        BY <4>1 DEF Nodes
    <3> QED
      BY <3>1, <3>3, <3>4, <3>5 DEF Active, Present, x
  <2> QED
    BY <1>11, <2>1, <2>2
<1>17. \A k \in Collections :
          /\ left[k] \subseteq structure[k]
          /\ \A e \in left[k] : e[2] = NoDoc \/ e[2] \in Nodes(left[k])
          /\ \A x \in Nodes(left[k]) : row'[x] = row[x]
          /\ structure'[k] = left[k] \cup {e \in added : row'[e[1]].collection = k}
  <2> SUFFICES ASSUME NEW k \in Collections
               PROVE  /\ left[k] \subseteq structure[k]
                      /\ \A e \in left[k] : e[2] = NoDoc \/ e[2] \in Nodes(left[k])
                      /\ \A x \in Nodes(left[k]) : row'[x] = row[x]
                      /\ structure'[k] = left[k] \cup {e \in added : row'[e[1]].collection = k}
    OBVIOUS
  <2>1. left[k] \subseteq structure[k]
    BY <1>5, <1>10 DEF tree
  <2>2. \A e \in left[k] : e[2] = NoDoc \/ e[2] \in Nodes(left[k])
    BY <1>5, <1>10 DEF TreesFollowRows
  <2>3. ASSUME NEW x \in Nodes(left[k]) PROVE row'[x] = row[x]
    <3>1. x \in Nodes(structure[k])
      BY <2>1 DEF Nodes
    <3>2. x \in Docs
      BY <3>1, ShownRow
    <3>3. ASSUME x \in ChildDocuments(row, d) \cup {d} PROVE FALSE
      <4>1. k = from /\ x \in Below(tree, d)
        BY <1>9, <3>1, <3>3 DEF tree
      <4> QED
        BY <1>5, <1>10, <4>1
    <3> QED
      BY <1>8, <3>2, <3>3
  <2>4. structure'[k] = left[k] \cup {e \in added : row'[e[1]].collection = k}
    <3>1. \A e \in added : row'[e[1]].collection = c
      BY <1>16
    <3>2. \A e : e \in added <=> e = <<d, p>> \/ e \in branch
      BY <1>11, <1>12
    <3> QED
      BY <1>15, <3>1, <3>2
  <2> QED
    BY <2>1, <2>2, <2>3, <2>4
<1>18. \A e \in added :
         /\ row'[e[1]].published /\ row'[e[1]].parent = e[2]
         /\ e[2] = NoDoc \/ e[2] \in Nodes(structure'[row'[e[1]].collection])
         /\ \A k \in Collections : row'[e[1]].collection = k => Fits(k, e[1])'
  <2>1. ASSUME NEW x, Active(row, x)' PROVE Fits(c, x)'
    BY <2>1 DEF Fits, Active
  <2> QED
    BY <1>16, <2>1
<1>19. \A x \in Docs : ToShow(x)' =>
         \/ <<x, row'[x].parent>> \in structure'[row'[x].collection]
         \/ row'[x] = row[x] /\ <<x, row[x].parent>> \in left[row[x].collection]
            /\ row[x].collection \in Collections
  <2> SUFFICES ASSUME NEW x \in Docs, ToShow(x)'
               PROVE  \/ <<x, row'[x].parent>> \in structure'[row'[x].collection]
                      \/ row'[x] = row[x] /\ <<x, row[x].parent>> \in left[row[x].collection]
                         /\ row[x].collection \in Collections
    OBVIOUS
  <2>1. CASE x = d
    BY <1>7, <1>15, <2>1
  <2>2. CASE x # d /\ x \in Below(tree, d)
    <3>1. row'[x].collection = c /\ row'[x].parent = row[x].parent
      BY <1>8, <2>2
    <3>2. <<x, row[x].parent>> \in branch
      BY <1>4, <2>2
    <3> QED
      BY <1>15, <3>1, <3>2
  <2>3. CASE x # d /\ x \notin Below(tree, d)
    <3>1. Present(row, x) /\ row[x].published /\ row[x].archived # "byDocument"
      BY <1>8, <2>3 DEF ToShow, Present
    <3>2. row[x].collection \in Collections
      BY <3>1 DEF RowsCoherent, TypeOK, Row
    <3> DEFINE e == <<x, row[x].parent>>
               k == row[x].collection
    <3>3. e \in structure[k] /\ e[1] = x
      BY <3>1 DEF AllShown
    <3>4. x \in Nodes(structure[k])
      <4> HIDE DEF e
      <4> QED
        BY <3>3 DEF Nodes
    <3>5. x \notin ChildDocuments(row, d)
      BY <1>9, <2>3, <3>2, <3>4 DEF tree
    <3>6. row'[x] = row[x]
      BY <1>8, <2>3, <3>5
    <3>7. e \in left[k]
      <4>1. k = from => e \in Without(tree, d)
        BY <2>3, <3>3 DEF Without, tree
      <4> HIDE DEF e
      <4> QED
        BY <1>10, <3>2, <3>3, <4>1
    <3> QED
      BY <3>2, <3>6, <3>7
  <2> QED
    BY <2>1, <2>2, <2>3
<1> QED
  BY <1>13, <1>17, <1>18, <1>19, TreesKept

LEMMA MoveKeeps ==
    ASSUME TreeInv, NEW d \in Docs, NEW c \in Collections, NEW p \in Docs \cup {NoDoc},
           Move(Snapshot, d, c, p), TypeOK', ChildSharesCollection'
    PROVE  TreeInv'
<1> DEFINE kids == ChildDocuments(row, d)
<1>1. /\ TypeOK /\ RowsCoherent /\ Acyclic /\ TreesFollowRows /\ NodesFit /\ AllShown
      /\ NoOrphans
  BY DEF TreeInv
<1>2. row \in [Docs -> Row] /\ d # NoDoc
  BY <1>1, ParametersAssumption DEF TypeOK
<1>3. /\ Active(row, d) /\ Visible(Snapshot, d)
      /\ IF p # NoDoc THEN CanNest(Snapshot, p) /\ c = row[p].collection
         ELSE coll[c] # "deleted"
      /\ p # row[d].parent => p \notin kids \cup {d}
  BY Seen DEF Move, CanUpdate
<1>4. p # NoDoc => Active(row, p) /\ row[p].published /\ p \in Nodes(structure[c])
  BY <1>1, <1>3, NestShown
<1>5. coll[c] # "deleted"
  BY <1>1, <1>3, NestShown
<1>6. /\ row' \in [Docs -> Row] /\ row'[d] = Moved(d, c, p)
      /\ \A x \in Docs \ {d} : row'[x] =
            IF c # row[d].collection /\ x \in kids /\ row[x].published
            THEN [row[x] EXCEPT !.collection = c] ELSE row[x]
      /\ structure' = IF row[d].published
                      THEN [TakenOut(d) EXCEPT ![c] =
                               With(TakenOut(d)[c], d, p, MovedBranch(d))]
                      ELSE structure
      /\ coll' = coll
  BY <1>2, MoveWrites
<1>7. \A x \in kids : /\ x \in Docs /\ x # d /\ Present(row, x) /\ x \in Below(PresentEdges, d)
                      /\ row[x].parent \in kids \cup {d}
  BY <1>1, FoundPresent, QueryChildren
<1>8. p \notin Below(ParentEdges, d)
  <2>1. CASE p = NoDoc
    BY <2>1, BelowTyped, ParametersAssumption
  <2>2. CASE p = row[d].parent
    BY <1>1, <2>2, ParentNotBelow
  <2>3. CASE p # NoDoc /\ p # row[d].parent
    <3>1. SUFFICES ASSUME p \in Below(ParentEdges, d) PROVE FALSE
      OBVIOUS
    <3>2. ParentEdges \in Edges /\ ParentEdges \subseteq ParentEdges
      BY <1>2, EdgesTyped
    <3>3. p \in Below(structure[c], d)
      BY <1>1, <1>4, <2>3, <3>1, <3>2, ShownBelow
    <3>4. p \in Below(PresentEdges, d)
      BY <1>1, <1>5, <3>3, BranchIsBelow
    <3> QED
      BY <1>3, <2>3, <3>4, QueryChildren
  <2> QED
    BY <2>1, <2>2, <2>3
<1>9. p # d
  BY <1>8, BelowSelf
<1>10. /\ row'[d].exists /\ row'[d].parent = p /\ row'[d].published = row[d].published
       /\ row'[d].collection = c /\ ~row'[d].deleted /\ row'[d].archived = "no"
  <2>1. row[d] \in Row
    BY <1>2
  <2> QED
    BY <1>3, <1>6, <2>1 DEF Moved, Row, Active, Present
<1> HIDE DEF kids
<1>11. ASSUME NEW x \in Docs, x # d
       PROVE  /\ row'[x].exists = row[x].exists /\ row'[x].published = row[x].published
              /\ row'[x].parent = row[x].parent /\ row'[x].deleted = row[x].deleted
              /\ row'[x].archived = row[x].archived
              /\ row'[x].collection \in {c, row[x].collection}
              /\ x \notin kids => row'[x] = row[x]
  <2>1. row[x] \in Row
    BY <1>2
  <2>2. row'[x] = IF c # row[d].collection /\ x \in kids /\ row[x].published
                  THEN [row[x] EXCEPT !.collection = c] ELSE row[x]
    BY <1>6, <1>11
  <2> QED
    BY <2>1, <2>2 DEF Row
<1>12. RowsCoherent'
  <2>1. \A x \in Docs : row[x].parent \in Docs \cup {NoDoc}
    BY <1>2 DEF Row
  <2>2. \A x \in Docs : row[x].exists => row'[x].exists
    BY <1>10, <1>11
  <2>3. p # NoDoc => row'[p].exists
    BY <1>4, <2>2 DEF Active, Present
  <2>4. \A x \in Docs : row'[x].parent # NoDoc => row'[row'[x].parent].exists
    BY <1>1, <1>10, <1>11, <2>1, <2>2, <2>3, ParametersAssumption DEF RowsCoherent
  <2>5. ASSUME NEW x \in Docs, ~row'[x].exists PROVE row'[x] = Absent
    <3>1. x # d /\ ~row[x].exists
      BY <1>10, <2>2, <2>5
    <3>2. x \notin kids /\ row[x] = Absent
      BY <1>1, <1>7, <3>1 DEF RowsCoherent, Present
    <3> QED
      BY <1>11, <3>1, <3>2
  <2>6. \A x \in Docs : /\ row'[x].published => row'[x].collection # NoCollection
                        /\ row'[x].archived # "no" => row'[x].published
    BY <1>1, <1>10, <1>11, ParametersAssumption DEF RowsCoherent
  <2> QED
    BY <2>4, <2>5, <2>6 DEF RowsCoherent
<1>13. Acyclic'
  <2>1. ParentEdges \in Edges /\ ParentEdges' \in Edges
    BY <1>2, <1>6, EdgesTyped DEF ParentEdges, Edges, Row
  <2>2. <<d, p>> \in ParentEdges'
    BY <1>10 DEF ParentEdges
  <2>3. \A e \in ParentEdges : e[1] # d => e \in ParentEdges'
    <3> SUFFICES ASSUME NEW x \in Docs, x # d PROVE <<x, row[x].parent>> \in ParentEdges'
      BY DEF ParentEdges
    <3>1. row'[x].parent = row[x].parent
      BY <1>11
    <3> QED
      BY <3>1 DEF ParentEdges
  <2> QED
    BY <1>1, <1>8, <2>1, <2>2, <2>3, Reparent DEF Acyclic
<1>14. TreesFollowRows' /\ NodesFit' /\ AllShown'
  <2>1. CASE row[d].published
    <3>1. PICK from \in Collections : from = row[d].collection /\ coll[from] # "deleted"
      BY <1>2, <1>3, <2>1, Seen DEF Visible, Row
    <3>2. p = NoDoc \/ (p \in Nodes(structure[c]) /\ p \notin Below(ParentEdges, d))
      BY <1>4, <1>8
    <3>3. structure' = [TakenOut(d) EXCEPT ![c] = With(TakenOut(d)[c], d, p, MovedBranch(d))]
      BY <1>6, <2>1
    <3> QED
      BY <1>1, <1>3, <1>5, <1>6, <2>1, <3>1, <3>2, <3>3, MoveKeepsTrees DEF kids
  <2>2. CASE ~row[d].published
    <3> DEFINE left == [k \in Collections |-> structure[k]]
               added == {}
    <3>1. structure' = structure
      BY <1>6, <2>2
    <3>2. ASSUME NEW k \in Collections, NEW x \in Nodes(structure[k])
          PROVE  row'[x] = row[x]
      <4>1. x \in Docs /\ row[x].published
        BY <1>1, ShownRow
      <4>2. x # d
        BY <2>2, <4>1
      <4>3. ASSUME x \in kids PROVE FALSE
        <5>1. x \in Below(PresentEdges, d)
          BY <1>7, <4>3
        <5>2. row[d].published
          BY <1>1, <5>1, ShownInOneTree
        <5> QED
          BY <2>2, <5>2
      <4> QED
        BY <1>11, <4>1, <4>2, <4>3
    <3>3. \A k \in Collections : left[k] = structure[k]
      OBVIOUS
    <3>4. added \in Edges /\ \A e \in added : FALSE
      BY DEF Edges
    <3> HIDE DEF left, added
    <3>5. \A k \in Collections :
            /\ left[k] \subseteq structure[k]
            /\ \A e \in left[k] : e[2] = NoDoc \/ e[2] \in Nodes(left[k])
            /\ \A x \in Nodes(left[k]) : row'[x] = row[x]
            /\ structure'[k] = left[k] \cup {e \in added : row'[e[1]].collection = k}
      <4> SUFFICES ASSUME NEW k \in Collections
                   PROVE  /\ \A e \in structure[k] : e[2] = NoDoc \/ e[2] \in Nodes(structure[k])
                          /\ \A x \in Nodes(structure[k]) : row'[x] = row[x]
        BY <3>1, <3>3, <3>4
      <4> QED
        BY <1>1, <3>2 DEF TreesFollowRows
    <3>6. \A x \in Docs : ToShow(x)' =>
            /\ row'[x] = row[x] /\ <<x, row[x].parent>> \in left[row[x].collection]
            /\ row[x].collection \in Collections
      <4> SUFFICES ASSUME NEW x \in Docs, ToShow(x)'
                   PROVE  /\ row'[x] = row[x]
                          /\ <<x, row[x].parent>> \in left[row[x].collection]
                          /\ row[x].collection \in Collections
        OBVIOUS
      <4>1. x # d
        BY <1>10, <2>2 DEF ToShow
      <4>2. Present(row, x) /\ row[x].published /\ row[x].archived # "byDocument"
        BY <1>11, <4>1 DEF ToShow, Present
      <4>3. row[x].collection \in Collections
        BY <1>1, <1>2, <4>2 DEF RowsCoherent, Row
      <4>4. <<x, row[x].parent>> \in structure[row[x].collection]
        BY <1>1, <4>2 DEF AllShown
      <4>5. x \in Nodes(structure[row[x].collection])
        <5> DEFINE e == <<x, row[x].parent>>
        <5>1. e \in structure[row[x].collection] /\ e[1] = x
          BY <4>4
        <5> HIDE DEF e
        <5> QED
          BY <5>1 DEF Nodes
      <4> QED
        BY <3>2, <3>3, <4>3, <4>4, <4>5
    <3> QED
      BY <1>1, <1>6, <3>4, <3>5, <3>6, TreesKept
  <2> QED
    BY <2>1, <2>2
<1>15. NoOrphans'
  <2> SUFFICES ASSUME NEW x \in Docs, Present(row, x)', row'[x].published, row'[x].parent # NoDoc,
                      row'[row'[x].parent].deleted, row'[row'[x].parent].published,
                      row'[row'[x].parent].archived = "no"
               PROVE  coll'[row'[x].collection] = "deleted"
    BY DEF NoOrphans
  <2>1. x # d
    BY <1>4, <1>9, <1>10, <1>11 DEF Active, Present
  <2> DEFINE q == row[x].parent
  <2>2. /\ Present(row, x) /\ row[x].published /\ row'[x].parent = q
        /\ q \in Docs
    BY <1>2, <1>11, <2>1 DEF Present, Row
  <2>3. q # d
    BY <1>10, <2>2
  <2>4. row[q].deleted /\ row[q].published /\ row[q].archived = "no"
    BY <1>11, <2>2, <2>3
  <2>5. x \notin kids
    BY <1>7, <2>3, <2>4 DEF Present
  <2>6. row'[x] = row[x]
    BY <1>11, <2>1, <2>5
  <2> QED
    BY <1>1, <1>6, <2>2, <2>4, <2>6 DEF NoOrphans
<1> QED
  BY <1>12, <1>13, <1>14, <1>15 DEF TreeInv

LEMMA RestoreKeeps ==
    ASSUME TreeInv, NEW d \in Docs, NEW c \in Collections, Restore(Snapshot, d, c),
           TypeOK', ChildSharesCollection'
    PROVE  TreeInv'
<1> DEFINE q == RestoredParent(d)
           kids == RestoredKids(d)
           from == row[d].collection
           branch == Branch(PublishedEdges, d)
           added == IF row[d].published THEN {<<d, q>>} \cup branch ELSE {}
           left == Left(d, c)
<1>1. /\ TypeOK /\ RowsCoherent /\ Acyclic /\ TreesFollowRows /\ NodesFit /\ AllShown
      /\ NoOrphans
  BY DEF TreeInv
<1>2. /\ row \in [Docs -> Row] /\ row[d] \in Row /\ d # NoDoc /\ q \in Docs \cup {NoDoc}
      /\ structure \in [Collections -> SUBSET (Docs \X (Docs \cup {NoDoc}))]
  BY <1>1, ParametersAssumption DEF TypeOK, RestoredParent, Row
<1>3. /\ row[d].exists /\ coll[c] = "active"
      /\ \/ row[d].deleted
         \/ /\ ~row[d].deleted /\ row[d].archived # "no" /\ row[d].published
            /\ coll[from] # "deleted"
  BY Seen DEF Restore, Visible
<1>4. /\ row' \in [Docs -> Row] /\ row'[d] = Restored(d, c)
      /\ \A x \in Docs \ {d} : row'[x] =
            IF x \in kids THEN [row[x] EXCEPT !.archived = "no", !.collection = c] ELSE row[x]
      /\ structure' = IF row[d].published
                      THEN [left EXCEPT ![c] = With(left[c], d, q, NavigationNode(row, d, TRUE))]
                      ELSE left
      /\ coll' = coll
  BY <1>2, RestoreWrites
<1>5. NavigationNode(row, d, TRUE) = branch
  BY ArchivedNode
<1>6. /\ row[d].archived # "no" => row[d].published /\ kids = Below(PublishedEdges, d) \ {d}
      /\ row[d].archived = "no" => row[d].deleted /\ kids = {}
  BY <1>1, <1>3, QueryChildren DEF RowsCoherent, RestoredKids
<1>7. ASSUME NEW x \in kids
      PROVE  /\ x \in Docs /\ x # d /\ Present(row, x) /\ row[x].published
             /\ x \in Below(PublishedEdges, d) /\ x \in Below(PresentEdges, d)
             /\ row[x].parent \in kids \cup {d}
  <2>1. x \in Below(PublishedEdges, d) \ {d} /\ kids = Below(PublishedEdges, d) \ {d}
    BY <1>6
  <2> HIDE DEF kids
  <2> QED
    BY <1>1, <2>1, FoundPresent
<1>8. q # NoDoc => /\ q = row[d].parent /\ q \in Docs /\ Active(row, q) /\ row[q].published
                   /\ q # d /\ q \notin kids
  <2> SUFFICES ASSUME q # NoDoc
               PROVE  /\ q = row[d].parent /\ q \in Docs /\ Active(row, q) /\ row[q].published
                      /\ q # d /\ q \notin kids
    OBVIOUS
  <2>1. q = row[d].parent /\ Active(row, q) /\ row[q].published
    BY DEF RestoredParent
  <2>2. q # d
    BY <1>3, <2>1 DEF Active, Present
  <2>3. q \notin Below(ParentEdges, d)
    BY <1>1, <2>1, ParentNotBelow
  <2>4. Below(PresentEdges, d) \subseteq Below(ParentEdges, d)
    BY <1>2, EdgesTyped, BelowGrows
  <2>5. q \notin kids
    BY <1>7, <2>3, <2>4
  <2> HIDE DEF q
  <2> QED
    BY <1>2, <2>1, <2>2, <2>5
<1>9. /\ row'[d].exists /\ row'[d].parent = q /\ row'[d].published = row[d].published
      /\ row'[d].collection = c /\ ~row'[d].deleted /\ row'[d].archived = "no"
  BY <1>2, <1>3, <1>4 DEF Restored, Row
<1> HIDE DEF q, kids, branch, left
<1>10. ASSUME NEW x \in Docs, x # d
       PROVE  /\ row'[x].exists = row[x].exists /\ row'[x].published = row[x].published
              /\ row'[x].parent = row[x].parent /\ row'[x].deleted = row[x].deleted
              /\ x \in kids => row'[x].archived = "no" /\ row'[x].collection = c
              /\ x \notin kids => row'[x] = row[x]
  <2>1. row[x] \in Row
    BY <1>2
  <2>2. row'[x] = IF x \in kids
                  THEN [row[x] EXCEPT !.archived = "no", !.collection = c] ELSE row[x]
    BY <1>4, <1>10
  <2> QED
    BY <2>1, <2>2 DEF Row
<1>11. RowsCoherent'
  <2>1. \A x \in Docs : row[x].parent \in Docs \cup {NoDoc}
    BY <1>2 DEF Row
  <2>2. \A x \in Docs : row[x].exists => row'[x].exists
    BY <1>9, <1>10
  <2>3. q # NoDoc => row'[q].exists
    BY <1>8, <2>2 DEF Active, Present
  <2>4. \A x \in Docs : row'[x].parent # NoDoc => row'[row'[x].parent].exists
    BY <1>1, <1>9, <1>10, <2>1, <2>2, <2>3, ParametersAssumption DEF RowsCoherent
  <2>5. ASSUME NEW x \in Docs, ~row'[x].exists PROVE row'[x] = Absent
    <3>1. x # d /\ ~row[x].exists
      BY <1>9, <2>2, <2>5
    <3>2. x \notin kids /\ row[x] = Absent
      BY <1>1, <1>7, <3>1 DEF RowsCoherent, Present
    <3> QED
      BY <1>10, <3>1, <3>2
  <2>6. ASSUME NEW x \in Docs
        PROVE  /\ row'[x].published => row'[x].collection # NoCollection
               /\ row'[x].archived # "no" => row'[x].published
    BY <1>1, <1>9, <1>10, ParametersAssumption DEF RowsCoherent
  <2> QED
    BY <2>4, <2>5, <2>6 DEF RowsCoherent
<1>12. Acyclic'
  <2>1. ParentEdges \in Edges /\ ParentEdges' \in Edges
    <3>1. \A x \in Docs : row'[x].parent \in Docs \cup {NoDoc}
      BY <1>4 DEF Row
    <3>2. ParentEdges' \in Edges
      BY <3>1 DEF ParentEdges, Edges
    <3> QED
      BY <1>2, <3>2, EdgesTyped
  <2>2. \A e \in ParentEdges : e \in ParentEdges' \/ <<e[1], NoDoc>> \in ParentEdges'
    <3> SUFFICES ASSUME NEW x \in Docs
                 PROVE  \/ <<x, row[x].parent>> \in ParentEdges'
                        \/ <<x, NoDoc>> \in ParentEdges'
      BY DEF ParentEdges
    <3>1. row'[x].parent = row[x].parent \/ row'[x].parent = NoDoc
      BY <1>8, <1>9, <1>10
    <3> QED
      BY <3>1 DEF ParentEdges
  <2> QED
    BY <1>1, <2>1, <2>2, Detach DEF Acyclic
<1>13. NoOrphans'
  <2> SUFFICES ASSUME NEW x \in Docs, Present(row, x)', row'[x].published, row'[x].parent # NoDoc,
                      row'[row'[x].parent].deleted, row'[row'[x].parent].published,
                      row'[row'[x].parent].archived = "no"
               PROVE  coll'[row'[x].collection] = "deleted"
    BY DEF NoOrphans
  <2>1. x # d
    BY <1>8, <1>9, <1>10 DEF Active, Present
  <2> DEFINE p == row[x].parent
  <2>2. Present(row, x) /\ row[x].published /\ row'[x].parent = p /\ p \in Docs
    BY <1>2, <1>10, <2>1 DEF Present, Row
  <2>3. p # d
    BY <1>9, <2>2
  <2>4. row[p].deleted
    BY <1>10, <2>2, <2>3
  <2>5. p \notin kids
    BY <1>7, <2>4 DEF Present
  <2>6. row'[p] = row[p]
    BY <1>10, <2>2, <2>3, <2>5
  <2>7. x \notin kids
    BY <1>7, <2>3, <2>5
  <2>8. row'[x] = row[x]
    BY <1>10, <2>1, <2>7
  <2>9. row[p].deleted /\ row[p].published /\ row[p].archived = "no"
    BY <2>2, <2>4, <2>6
  <2>10. p # NoDoc
    BY <2>2, ParametersAssumption
  <2>11. coll[row[x].collection] = "deleted"
    BY <1>1, <2>2, <2>9, <2>10 DEF NoOrphans
  <2> QED
    BY <1>4, <2>8, <2>11
<1>14. d \notin Nodes(structure[c])
  <2> SUFFICES ASSUME d \in Nodes(structure[c]) PROVE FALSE
    OBVIOUS
  <2>1. Fits(c, d)
    BY <1>1 DEF NodesFit
  <2> QED
    BY <1>3, <2>1 DEF Fits, Active, Present
<1>15. \A k \in Collections :
         left[k] = IF k = from /\ from # c THEN Without(structure[from], d) ELSE structure[k]
  BY <1>2, ParametersAssumption DEF left, Left
<1>16. left \in [Collections -> SUBSET (Docs \X (Docs \cup {NoDoc}))]
  <2>1. from \in Collections => Without(structure[from], d) \subseteq structure[from]
    BY <1>1, WithoutTree
  <2> QED
    BY <1>2, <2>1 DEF left, Left
<1>17. /\ branch \in Edges /\ PublishedEdges \in Edges
       /\ Nodes(branch) = Below(PublishedEdges, d) \ {d}
       /\ \A e \in branch : /\ e[1] \in Below(PublishedEdges, d) \ {d}
                            /\ e[2] = row[e[1]].parent
                            /\ e[2] = d \/ e[2] \in Nodes(branch)
       /\ \A x \in Below(PublishedEdges, d) \ {d} : <<x, row[x].parent>> \in branch
  <2>1. PublishedEdges \in Edges /\ PublishedEdges \subseteq ParentEdges
    BY <1>2, EdgesTyped
  <2>2. branch \subseteq PublishedEdges
    BY DEF branch, Branch
  <2> QED
    BY <1>2, <2>1, <2>2, BranchTree DEF branch, Edges
\* What is found below a deleted document is in a deleted collection, and nothing is, then.
<1>18. row[d].archived = "no" /\ row[d].published => branch = {}
  <2> SUFFICES ASSUME row[d].archived = "no", row[d].published,
                      NEW e \in PublishedEdges, e[2] = d
               PROVE  FALSE
    <3>1. (\A e \in PublishedEdges : e[2] # d) => Below(PublishedEdges, d) = {d}
      BY <1>17, BelowLeaf
    <3> QED
      BY <1>17, <3>1
  <2>1. PICK x \in Docs : e[1] = x /\ row[x].parent = d /\ Present(row, x) /\ row[x].published
    BY DEF PublishedEdges, PresentEdges, ParentEdges
  <2>2. x # d /\ x \notin kids
    BY <1>6, <2>1 DEF Present
  <2>3. row'[x] = row[x]
    BY <1>10, <2>2
  <2>4. Present(row, x)' /\ Present(row, d)' /\ row'[x].parent = d
    BY <1>9, <2>1, <2>3 DEF Present
  <2>5. row'[x].collection = row'[d].collection
    BY <1>2, <2>1, <2>3, <2>4 DEF ChildSharesCollection
  <2>6. coll[row[x].collection] = "deleted"
    BY <1>1, <1>2, <1>6, <2>1 DEF NoOrphans
  <2> QED
    BY <1>3, <1>9, <2>3, <2>5, <2>6
<1>19. row[d].published => \A x \in Nodes(branch) : x \in kids
  <2> SUFFICES ASSUME row[d].published, NEW x \in Nodes(branch) PROVE x \in kids
    OBVIOUS
  <2>1. CASE row[d].archived = "no"
    BY <1>18, <2>1 DEF Nodes
  <2>2. CASE row[d].archived # "no"
    BY <1>6, <1>17, <2>2
  <2> QED
    BY <2>1, <2>2
<1>20. row[d].published => q = NoDoc \/ q \in Nodes(structure[c])
  <2> SUFFICES ASSUME row[d].published, q # NoDoc PROVE q \in Nodes(structure[c])
    OBVIOUS
  <2>1. PICK y \in Docs : y = q
    BY <1>8
  <2>2. /\ row'[y] = row[y] /\ Active(row, y) /\ row[y].published
        /\ row'[d].parent = y /\ y # NoDoc
    BY <1>8, <1>9, <1>10, <2>1
  <2>3. Present(row, y)' /\ Present(row, d)'
    BY <1>9, <2>2 DEF Active, Present
  <2>4. row'[d].collection = row'[y].collection
    BY <1>9, <2>2, <2>3 DEF ChildSharesCollection
  <2>5. row[y].collection = c
    BY <1>9, <2>2, <2>4
  <2> DEFINE e == <<y, row[y].parent>>
  <2>6. e \in structure[c] /\ e[1] = y
    BY <1>1, <2>2, <2>5 DEF AllShown, Active
  <2> HIDE DEF e
  <2> QED
    BY <2>1, <2>6 DEF Nodes
<1>21. \A k \in Collections :
          structure'[k] = IF k = c /\ row[d].published THEN left[c] \cup {<<d, q>>} \cup branch
                          ELSE left[k]
  <2>1. CASE ~row[d].published
    BY <1>4, <2>1
  <2>2. CASE row[d].published
    <3>1. left[c] = structure[c]
      BY <1>15
    <3>2. With(left[c], d, q, branch) = left[c] \cup {<<d, q>>} \cup branch
      BY <1>14, <1>20, <2>2, <3>1, WithPlace
    <3>3. structure' = [left EXCEPT ![c] = With(left[c], d, q, branch)]
      BY <1>4, <1>5, <2>2
    <3> QED
      BY <1>16, <2>2, <3>2, <3>3
  <2> QED
    BY <2>1, <2>2
<1>22. \A e : e \in added <=> row[d].published /\ (e = <<d, q>> \/ e \in branch)
  OBVIOUS
<1>23. added \in Edges
  BY <1>2, <1>17 DEF Edges
<1> HIDE DEF added, from
<1>24. ASSUME NEW e \in added
       PROVE  /\ row'[e[1]].published /\ row'[e[1]].parent = e[2] /\ row'[e[1]].collection = c
              /\ Active(row, e[1])' /\ (e[2] = NoDoc \/ e[2] \in Nodes(structure'[c]))
  <2>0. row[d].published /\ left[c] = structure[c]
        /\ structure'[c] = left[c] \cup {<<d, q>>} \cup branch
    BY <1>15, <1>21, <1>22
  <2>1. CASE e = <<d, q>>
    <3>1. e[1] = d /\ e[2] = q
      BY <2>1
    <3>2. q = NoDoc \/ q \in Nodes(structure'[c])
      BY <1>20, <2>0 DEF Nodes
    <3> QED
      BY <1>9, <2>0, <3>1, <3>2 DEF Active, Present
  <2>2. CASE e \in branch
    <3> DEFINE x == e[1]
    <3>1. x \in Nodes(branch) /\ e[2] = row[x].parent /\ (e[2] = d \/ e[2] \in Nodes(branch))
      BY <1>17, <2>2
    <3> HIDE DEF x
    <3>2. x \in kids
      BY <1>19, <2>0, <3>1
    <3>3. x \in Docs /\ x # d /\ Present(row, x) /\ row[x].published
      BY <1>7, <3>2
    <3>4. /\ row'[x].published /\ row'[x].parent = e[2] /\ row'[x].collection = c
          /\ row'[x].exists /\ ~row'[x].deleted /\ row'[x].archived = "no"
      BY <1>10, <3>1, <3>2, <3>3 DEF Present
    <3>5. Nodes(branch) \subseteq Nodes(structure'[c]) /\ d \in Nodes(structure'[c])
      <4> DEFINE f == <<d, q>>
      <4>1. f[1] = d /\ f \in structure'[c] /\ branch \subseteq structure'[c]
        BY <2>0
      <4> HIDE DEF f
      <4> QED
        BY <4>1 DEF Nodes
    <3> QED
      BY <3>1, <3>4, <3>5 DEF Active, Present, x
  <2> QED
    BY <1>22, <2>1, <2>2
<1>25. ASSUME NEW k \in Collections
       PROVE  /\ left[k] \subseteq structure[k]
              /\ \A e \in left[k] : e[2] = NoDoc \/ e[2] \in Nodes(left[k])
              /\ d \notin Nodes(left[k]) /\ \A x \in Nodes(left[k]) : x \in Docs /\ x \notin kids
  <2> DEFINE out == k = from /\ from # c
  <2>1. CASE out
    <3>1. left[k] = Without(structure[k], d)
      BY <1>15, <2>1
    <3>2. /\ Without(structure[k], d) \subseteq structure[k]
          /\ Nodes(left[k]) = Nodes(structure[k]) \ Below(structure[k], d)
          /\ \A e \in left[k] : e[2] = NoDoc \/ e[2] \in Nodes(left[k])
      BY <1>1, <3>1, WithoutTree
    <3>3. ASSUME NEW x \in Nodes(left[k]) PROVE x \in Docs /\ x \notin kids
      <4>1. x \in Nodes(structure[k]) /\ x \notin Below(structure[k], d)
        BY <3>2
      <4>2. x \in Docs
        BY <1>1, <4>1, ShownRow
      <4>3. ASSUME x \in kids PROVE FALSE
        <5>1. x \in Below(PresentEdges, d)
          BY <1>7, <4>3
        <5> QED
          BY <1>1, <4>1, <5>1, ShownInOneTree
      <4> QED
        BY <4>2, <4>3
    <3> QED
      BY <3>1, <3>2, <3>3, BelowSelf
  <2>2. CASE ~out
    <3>1. left[k] = structure[k]
      BY <1>15, <2>2
    <3>2. d \notin Nodes(structure[k])
      <4> SUFFICES ASSUME d \in Nodes(structure[k]) PROVE FALSE
        OBVIOUS
      <4>1. k = from
        BY <1>1, ShownRow DEF from
      <4> QED
        BY <1>14, <2>2, <4>1
    <3>3. ASSUME NEW x \in Nodes(structure[k]) PROVE x \in Docs /\ x \notin kids
      <4>1. x \in Docs
        BY <1>1, ShownRow
      <4>2. ASSUME x \in kids PROVE FALSE
        <5>1. x \in Below(PresentEdges, d)
          BY <1>7, <4>2
        <5> QED
          BY <1>1, <3>2, <5>1, ShownInOneTree
      <4> QED
        BY <4>1, <4>2
    <3> QED
      BY <1>1, <3>1, <3>2, <3>3 DEF TreesFollowRows
  <2> QED
    BY <2>1, <2>2
<1>26. \A k \in Collections :
          /\ left[k] \subseteq structure[k]
          /\ \A e \in left[k] : e[2] = NoDoc \/ e[2] \in Nodes(left[k])
          /\ \A x \in Nodes(left[k]) : row'[x] = row[x]
          /\ structure'[k] = left[k] \cup {e \in added : row'[e[1]].collection = k}
  <2> SUFFICES ASSUME NEW k \in Collections
               PROVE  /\ \A x \in Nodes(left[k]) : row'[x] = row[x]
                      /\ structure'[k] = left[k] \cup {e \in added : row'[e[1]].collection = k}
    BY <1>25
  <2>1. ASSUME NEW x \in Nodes(left[k]) PROVE row'[x] = row[x]
    <3>1. x \in Docs /\ x # d /\ x \notin kids
      BY <1>25
    <3> QED
      BY <1>10, <3>1
  <2>2. \A e \in added : row'[e[1]].collection = c
    BY <1>24
  <2> QED
    BY <1>21, <1>22, <2>1, <2>2
<1>27. \A e \in added :
         /\ row'[e[1]].published /\ row'[e[1]].parent = e[2]
         /\ e[2] = NoDoc \/ e[2] \in Nodes(structure'[row'[e[1]].collection])
         /\ \A k \in Collections : row'[e[1]].collection = k => Fits(k, e[1])'
  <2>1. ASSUME NEW x, Active(row, x)' PROVE Fits(c, x)'
    BY <1>3, <1>4, <2>1 DEF Fits, Active
  <2> QED
    BY <1>24, <2>1
<1>28. ASSUME NEW x \in Docs, x # d, x \notin kids, ToShow(x), row[x].collection = from,
              from \in Collections, from # c
       PROVE  x \notin Below(structure[from], d)
  <2> SUFFICES ASSUME x \in Below(structure[from], d) PROVE FALSE
    OBVIOUS
  <2>1. x \in Nodes(structure[from]) /\ d \in Nodes(structure[from])
    BY <1>1, <1>28, BelowInTree
  <2>2. Fits(from, d) /\ Fits(from, x) /\ row[d].published
    BY <1>1, <1>28, <2>1, ShownRow DEF NodesFit
  <2>3. CASE coll[from] # "deleted"
    <3>1. x \in Below(PublishedEdges, d)
      BY <1>1, <1>28, <2>3, BranchIsBelow
    <3>2. row[d].archived = "no"
      BY <1>6, <1>28, <3>1
    <3>3. row[d].deleted /\ coll[from] \in {"active", "archived"}
      BY <1>1, <1>6, <1>28, <2>3, <3>2 DEF TypeOK
    <3> QED
      BY <2>2, <3>3 DEF Fits, Active, Present
  <2>4. CASE coll[from] = "deleted"
    <3>1. row[d].deleted
      BY <1>3, <2>4 DEF from
    <3>2. row[d].archived = "no"
      BY <2>2, <2>4, <3>1 DEF Fits, Present
    <3>3. row[x].archived = "no"
      BY <1>1, <1>28, <2>1, <3>2, UnarchivedBelow
    <3>4. row[x].deleted
      BY <2>2, <2>4, <3>3 DEF Fits, ArchivedAlong
    <3> QED
      BY <1>28, <3>4 DEF ToShow, Present
  <2> QED
    BY <2>3, <2>4
<1>29. \A x \in Docs : ToShow(x)' =>
         \/ <<x, row'[x].parent>> \in structure'[row'[x].collection]
         \/ row'[x] = row[x] /\ <<x, row[x].parent>> \in left[row[x].collection]
            /\ row[x].collection \in Collections
  <2> SUFFICES ASSUME NEW x \in Docs, ToShow(x)'
               PROVE  \/ <<x, row'[x].parent>> \in structure'[row'[x].collection]
                      \/ row'[x] = row[x] /\ <<x, row[x].parent>> \in left[row[x].collection]
                         /\ row[x].collection \in Collections
    OBVIOUS
  <2>1. CASE x = d
    <3>1. row[d].published
      BY <1>9, <2>1 DEF ToShow
    <3> QED
      BY <1>9, <1>21, <2>1, <3>1
  <2>2. CASE x \in kids
    <3>1. x # d /\ x \in Below(PublishedEdges, d)
      BY <1>7, <2>2
    <3>2. row'[x].collection = c /\ row'[x].parent = row[x].parent
      BY <1>10, <2>2, <3>1
    <3>3. <<x, row[x].parent>> \in branch
      BY <1>17, <3>1
    <3>4. row[d].published
      BY <1>6, <2>2
    <3> QED
      BY <1>21, <3>2, <3>3, <3>4
  <2>3. CASE x # d /\ x \notin kids
    <3>1. row'[x] = row[x]
      BY <1>10, <2>3
    <3>2. ToShow(x)
      BY <3>1 DEF ToShow, Present
    <3>3. row[x].collection \in Collections
      BY <1>1, <1>2, <3>2 DEF RowsCoherent, Row, ToShow
    <3> DEFINE e == <<x, row[x].parent>>
               k == row[x].collection
    <3>4. e \in structure[k] /\ e[1] = x
      BY <1>1, <3>2 DEF AllShown, ToShow
    <3>5. k = from /\ from # c => x \notin Below(structure[from], d)
      BY <1>28, <2>3, <3>2, <3>3
    <3> HIDE DEF e, k
    <3>6. k = from /\ from # c => e \in Without(structure[from], d)
      BY <3>4, <3>5 DEF Without
    <3>7. e \in left[k]
      BY <1>15, <3>3, <3>4, <3>6 DEF k
    <3> QED
      BY <3>1, <3>3, <3>7 DEF e, k
  <2> QED
    BY <2>1, <2>2, <2>3
<1>30. TreesFollowRows' /\ NodesFit' /\ AllShown'
  BY <1>1, <1>4, <1>23, <1>26, <1>27, <1>29, TreesKept
<1> QED
  BY <1>11, <1>12, <1>13, <1>30 DEF TreeInv

-----------------------------------------------------------------------------
(* The invariant, and what it says.                                         *)

\* What holds until a document is parted.
WholeInv == ~parted => TreeInv

\* No request takes away what the invariant says, unless it parts a document.
LEMMA TreeStep == TypeOK /\ WholeInv /\ [Next]_vars => WholeInv'
<1> SUFFICES ASSUME TypeOK, TreeInv, [Next]_vars, ~parted, ~parted' PROVE TreeInv'
  <2>1. TypeOK /\ [Next]_vars /\ ~parted' => ~parted
    BY DEF Next, Part, vars
  <2> QED
    BY <2>1 DEF WholeInv
<1>1. TypeOK'
  BY TypeStep
<1>2. CASE Next
  <2>1. Steps(Snapshot) /\ ChildSharesCollection'
    BY <1>2 DEF Next, Part
  <2>2. ASSUME NEW d \in Docs, NEW c \in Collections, NEW p \in Docs \cup {NoDoc},
               NEW publish \in BOOLEAN, Create(Snapshot, d, c, p, publish)
        PROVE  TreeInv'
    BY <1>1, <2>1, <2>2, CreateKeeps
  <2>3. ASSUME NEW d \in Docs, NEW c \in Collections, NEW p \in Docs \cup {NoDoc},
               Move(Snapshot, d, c, p)
        PROVE  TreeInv'
    BY <1>1, <2>1, <2>3, MoveKeeps
  <2>4. ASSUME NEW d \in Docs, NEW c \in Collections, Publish(Snapshot, d, c)
        PROVE  TreeInv'
    BY <1>1, <2>1, <2>4, PublishKeeps
  <2>5. ASSUME NEW d \in Docs, NEW c \in Collections, Restore(Snapshot, d, c)
        PROVE  TreeInv'
    BY <1>1, <2>1, <2>5, RestoreKeeps
  <2>6. ASSUME NEW d \in Docs, NEW detach \in BOOLEAN, Unpublish(Snapshot, d, detach)
        PROVE  TreeInv'
    BY <1>1, <2>1, <2>6, UnpublishKeeps
  <2>7. ASSUME NEW d \in Docs, Archive(Snapshot, d) PROVE TreeInv'
    BY <1>1, <2>1, <2>7, ArchiveKeeps
  <2>8. ASSUME NEW d \in Docs, Delete(Snapshot, d) PROVE TreeInv'
    BY <1>1, <2>1, <2>8, DeleteKeeps
  <2>9. ASSUME NEW c \in Collections, ArchiveCollection(Snapshot, c) PROVE TreeInv'
    BY <1>1, <2>1, <2>9, ArchiveCollectionKeeps
  <2>10. ASSUME NEW c \in Collections, RestoreCollection(Snapshot, c) PROVE TreeInv'
    BY <1>1, <2>1, <2>10, RestoreCollectionKeeps
  <2>11. ASSUME NEW c \in Collections, DeleteCollection(Snapshot, c) PROVE TreeInv'
    BY <1>1, <2>1, <2>11, DeleteCollectionKeeps
  <2>12. ASSUME NEW c \in Collections, DetachDrafts(c) PROVE TreeInv'
    BY <1>1, <2>1, <2>12, DetachDraftsKeeps
  <2> QED
    BY <2>1, <2>2, <2>3, <2>4, <2>5, <2>6, <2>7, <2>8, <2>9, <2>10, <2>11, <2>12 DEF Steps
<1>3. CASE UNCHANGED vars
  <2>1. row' = row /\ coll' = coll /\ structure' = structure
    BY <1>3 DEF vars
  <2>2. ParentEdges' = ParentEdges
    BY <2>1 DEF ParentEdges
  <2>3. RowsCoherent' /\ Acyclic' /\ NoOrphans' /\ ChildSharesCollection'
    BY <2>1, <2>2 DEF TreeInv, RowsCoherent, Acyclic, NoOrphans, ChildSharesCollection, Present
  <2>4. TreesFollowRows' /\ AllShown'
    BY <2>1 DEF TreeInv, TreesFollowRows, AllShown, Present
  <2>5. NodesFit'
    BY <2>1 DEF TreeInv, NodesFit, Fits, Active, Present, ArchivedAlong
  <2> QED
    BY <1>1, <2>3, <2>4, <2>5 DEF TreeInv
<1> QED
  BY <1>2, <1>3

\* The trees of all collections and the rows agree until a document is parted: the
\* inductive invariant that the four properties below follow from.
THEOREM TreesAgree == Spec => []WholeInv
<1>1. Init => WholeInv
  BY InitTrees DEF WholeInv
<1> QED
  BY <1>1, TreeStep, TypeCorrect, PTL DEF Spec

\* Until a document is parted, none is nested inside itself, over deleted parents included:
\* neither moves (documentMover's checks) nor drafts that are detached close a cycle.
THEOREM NoCycles == Spec => []AcyclicParents
<1>1. WholeInv => AcyclicParents
  <2>1. {<<y, row[y].parent>> : y \in Docs} = ParentEdges
    BY DEF ParentEdges
  <2> QED
    BY <2>1 DEF WholeInv, TreeInv, Acyclic, AcyclicParents
<1> QED
  BY <1>1, TreesAgree, PTL

\* Until a document is parted, none has two places, in the trees of archived and deleted
\* collections either: whatever writes an edge has taken out the one before.
THEOREM OnePlace == Spec => []ShownOnce
<1>1. WholeInv => ShownOnce
  <2> SUFFICES ASSUME TreeInv, NEW c1 \in Collections, NEW c2 \in Collections,
                      NEW e1 \in structure[c1], NEW e2 \in structure[c2], e1[1] = e2[1]
               PROVE  e1 = e2 /\ c1 = c2
    BY DEF WholeInv, ShownOnce
  <2>1. /\ row[e1[1]].collection = c1 /\ row[e1[1]].parent = e1[2]
        /\ row[e2[1]].collection = c2 /\ row[e2[1]].parent = e2[2]
    BY DEF TreeInv, TreesFollowRows
  <2>2. e1 = <<e1[1], e1[2]>> /\ e2 = <<e2[1], e2[2]>>
    BY DEF TreeInv, TypeOK
  <2> QED
    BY <2>1, <2>2
<1> QED
  BY <1>1, TreesAgree, PTL

\* Until a document is parted, an active collection's tree shows no draft, archived, deleted
\* or moved document.
THEOREM TreesAreCurrent == Spec => []ShownIsCurrent
<1>1. WholeInv => ShownIsCurrent
  <2> SUFFICES ASSUME TreeInv, NEW c \in Collections, coll[c] = "active", NEW e \in structure[c]
               PROVE  /\ Active(row, e[1]) /\ row[e[1]].published /\ row[e[1]].collection = c
                      /\ row[e[1]].parent = e[2]
    BY DEF WholeInv, ShownIsCurrent
  <2>1. e[1] \in Nodes(structure[c])
    BY DEF Nodes
  <2> QED
    BY <2>1 DEF TreeInv, TreesFollowRows, NodesFit, Fits
<1> QED
  BY <1>1, TreesAgree, PTL

\* Until a document is parted, every published document of an active collection can be found
\* in its tree, at its place.
THEOREM TreesAreComplete == Spec => []ActiveIsShown
<1>1. WholeInv => ActiveIsShown
  BY DEF WholeInv, TreeInv, AllShown, ActiveIsShown, Active
<1> QED
  BY <1>1, TreesAgree, PTL
=============================================================================
