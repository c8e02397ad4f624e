---------------------------- MODULE DocumentTree ----------------------------
(***************************************************************************)
(* Where a document is: what its own row says (collection, parent, draft,  *)
(* archived, deleted) and what the JSON tree on its collection's row says  *)
(* (documentStructure), as the API's documents.* and collections.* methods *)
(* change them (server/models/Document.ts and Collection.ts,               *)
(* server/commands/documentMover.ts and documentRestorer.ts).              *)
(*                                                                         *)
(* A request reads the document, its parent and the collections and        *)
(* authorizes its user by what it read, without a lock; then it locks the  *)
(* collection's row, reads the tree again and commits all it writes, in    *)
(* READ COMMITTED.  What follows the lock is one step here: `seen' is what *)
(* the request read before.  The user may write to every collection, and   *)
(* shares no document by itself.  The tree is the set of its edges: order  *)
(* among siblings is left out, and so are titles and permanent deletion.   *)
(***************************************************************************)
EXTENDS Integers, FiniteSets

CONSTANTS
    Docs, Collections,
    NoDoc,          \* no parent: the document is at the root of its collection
    NoCollection    \* a draft outside all collections

ASSUME ParametersAssumption ==
    NoDoc \notin Docs /\ NoCollection \notin Collections

VARIABLES
    row,        \* documents
    coll,       \* whether a collection is active, archived or (softly) deleted
    structure,  \* documentStructure: edges <<document, parent or NoDoc>> of each collection
    parted      \* history: whether some document and its parent were in two collections

vars == <<row, coll, structure, parted>>

\* archived: never, by a request for the document or one above it, or by the
\* collection with that very timestamp.
Row == [exists : BOOLEAN, collection : Collections \cup {NoCollection},
        parent : Docs \cup {NoDoc}, published : BOOLEAN, deleted : BOOLEAN,
        archived : {"no", "byDocument", "byCollection"}]

Absent == [exists |-> FALSE, collection |-> NoCollection, parent |-> NoDoc,
           published |-> FALSE, deleted |-> FALSE, archived |-> "no"]

----------------------------------------------------------------------------
(* Trees.                                                                   *)

\* S holds the children, along edges <<child, parent>>, of all that it holds.
ClosedDown(edges, S) == \A e \in edges : e[2] \in S => e[1] \in S

\* d and all that is below it: what every such set that holds d has in common.
Below(edges, d) ==
    {x \in Docs \cup {d} : \A S \in SUBSET (Docs \cup {d}) :
                              d \in S /\ ClosedDown(edges, S) => x \in S}

Nodes(edges) == {e[1] : e \in edges}

Present(r, x) == r[x].exists /\ ~r[x].deleted
Active(r, x) == Present(r, x) /\ r[x].archived = "no"

\* The parent edges of the rows that satisfy P, which a query follows downwards.
RowEdges(r, P(_)) == {<<x, r[x].parent>> : x \in {y \in Docs : P(y)}}

\* Mutant: only the children themselves.
ChildrenOnly(r, d) == {x \in Docs : Present(r, x) /\ r[x].parent = d}

\* findAllChildDocumentIds: drafts too, deleted documents not.
ChildDocuments(r, d) == Below(RowEdges(r, LAMBDA x : Present(r, x)), d) \ {d}

\* Document.findAll and Document.update have the default scope: published only.
PublishedBelow(r, d) ==
    Below(RowEdges(r, LAMBDA x : Present(r, x) /\ r[x].published), d) \ {d}

\* Mutant: archived documents are taken along.
ArchivedToo(r, d, includeArchived) ==
    LET edges == RowEdges(r, LAMBDA x : Present(r, x) /\ r[x].published)
    IN  {e \in edges : e[1] \in Below(edges, d) \ {d}}

\* toNavigationNode: the edges below d.
NavigationNode(r, d, includeArchived) ==
    LET edges == RowEdges(r, LAMBDA x : /\ Present(r, x) /\ r[x].published
                                        /\ includeArchived \/ r[x].archived = "no")
    IN  {e \in edges : e[1] \in Below(edges, d) \ {d}}

\* Mutant: what is below it stays.
WithoutOne(edges, d) == {e \in edges : e[1] # d}

\* removeDocumentInStructure, and the branch it takes out.
Without(edges, d) == {e \in edges : e[1] \notin Below(edges, d)}
Branch(edges, d) == {e \in edges : e[1] \in Below(edges, d) \ {d}}

\* Mutant: it is added without what is below it.
WithOne(edges, d, parent, branch) ==
    IF d \in Nodes(edges) \/ (parent # NoDoc /\ parent \notin Nodes(edges))
    THEN edges
    ELSE edges \cup {<<d, parent>>}

\* addDocumentToStructure: nothing happens if the document is there, nor if its
\* parent is not.
With(edges, d, parent, branch) ==
    IF d \in Nodes(edges) \/ (parent # NoDoc /\ parent \notin Nodes(edges))
    THEN edges
    ELSE edges \cup {<<d, parent>>} \cup branch

\* Sequelize saves the fields in which an instance differs from what was read.
Saved(now, was, new) ==
    [f \in DOMAIN now |-> IF new[f] = was[f] THEN now[f] ELSE new[f]]

----------------------------------------------------------------------------
(* What a request reads, and whether its user may go on.                    *)

Snapshot == [row |-> row, coll |-> coll]

Visible(seen, d) ==
    LET r == seen.row[d]
    IN  \/ r.collection # NoCollection /\ seen.coll[r.collection] # "deleted"
        \/ ~r.published

CanUpdate(seen, d) == Active(seen.row, d) /\ Visible(seen, d)

\* A parent that documents can be put under.
CanNest(seen, p) == CanUpdate(seen, p) /\ seen.row[p].published

----------------------------------------------------------------------------
(* Documents.                                                               *)

\* documents.create: a draft, published in the same transaction if asked.
Create(seen, d, c, p, publish) ==
    /\ ~row[d].exists
    /\ IF p # NoDoc THEN CanNest(seen, p) /\ c = seen.row[p].collection
       ELSE seen.coll[c] = "active"
    /\ row' = [row EXCEPT ![d] = [Absent EXCEPT !.exists = TRUE, !.collection = c,
                                                !.parent = p, !.published = publish]]
    /\ structure' = IF publish /\ coll[c] # "deleted"
                    THEN [structure EXCEPT ![c] = With(@, d, p, {})]
                    ELSE structure
    /\ UNCHANGED coll

\* documents.update with publish: the row is locked and read again.
Publish(seen, d, c) ==
    LET dest == IF row[d].collection # NoCollection THEN row[d].collection ELSE c
        wanted == IF seen.row[d].collection # NoCollection THEN seen.row[d].collection ELSE c
    IN  /\ CanUpdate(seen, d) /\ ~seen.row[d].published
        /\ IF seen.row[d].parent # NoDoc THEN CanNest(seen, seen.row[d].parent)
           ELSE seen.coll[wanted] = "active"
        /\ Present(row, d) /\ ~row[d].published
        /\ row' = [row EXCEPT ![d].published = TRUE, ![d].collection = dest]
        /\ structure' = IF coll[dest] = "deleted" THEN structure
                        ELSE [structure EXCEPT ![dest] =
                                 With(@, d, row[d].parent, NavigationNode(row, d, FALSE))]
        /\ UNCHANGED coll

\* documents.unpublish, which may detach the draft from its collection.
Unpublish(seen, d, detach) ==
    LET was == seen.row[d]
        c == was.collection
    IN  /\ CanUpdate(seen, d) /\ was.published
        /\ Below(RowEdges(row, LAMBDA y : Active(row, y)), d) = {d}
        /\ row' = [row EXCEPT ![d] = Saved(@, was,
                       [was EXCEPT !.published = FALSE,
                                   !.collection = IF detach THEN NoCollection ELSE @])]
        /\ structure' = IF coll[c] = "deleted" THEN structure
                        ELSE [structure EXCEPT ![c] = Without(@, d)]
        /\ UNCHANGED coll

\* documents.move: under p, in p's collection, or to the root of c.
Move(seen, d, c, p) ==
    LET was == seen.row[d]
        changed == c # was.collection
        kids == ChildDocuments(row, d)
        \* The tree of the current collection gives the branch, the rows if it has none.
        from == was.collection
        branch == IF from # NoCollection /\ d \in Nodes(structure[from])
                  THEN Branch(structure[from], d) ELSE NavigationNode(row, d, FALSE)
        removed == IF from = NoCollection THEN structure
                   ELSE [structure EXCEPT ![from] = Without(@, d)]
    IN  /\ CanUpdate(seen, d)
        /\ IF p # NoDoc THEN CanNest(seen, p) /\ c = seen.row[p].collection
           ELSE seen.coll[c] # "deleted"
        /\ changed => coll[c] # "deleted"
        /\ p # was.parent => p \notin kids \cup {d}
        /\ structure' = IF was.published
                        THEN [removed EXCEPT ![c] = With(@, d, p, branch)]
                        ELSE structure
        /\ row' = [x \in Docs |->
              CASE x = d -> Saved(row[d], was, [was EXCEPT !.collection = c, !.parent = p])
                [] changed /\ x \in kids /\ row[x].published ->
                      [row[x] EXCEPT !.collection = c]
                [] OTHER -> row[x]]
        /\ UNCHANGED coll

\* documents.archive, with the published documents below.
Archive(seen, d) ==
    LET was == seen.row[d]
        c == was.collection
    IN  /\ CanUpdate(seen, d) /\ was.published
        /\ row' = [x \in Docs |->
              IF x \in PublishedBelow(row, d) \cup {d}
              THEN [row[x] EXCEPT !.archived = "byDocument"] ELSE row[x]]
        /\ structure' = IF coll[c] = "deleted" THEN structure
                        ELSE [structure EXCEPT ![c] = Without(@, d)]
        /\ UNCHANGED coll

\* documents.delete: with the published documents below and out of the tree,
\* but an archived document of an active collection goes alone.
Delete(seen, d) ==
    LET was == seen.row[d]
        c == was.collection
        whole == /\ c # NoCollection
                 /\ was.archived = "no" \/ coll[c] = "archived"
        gone == {d} \cup IF whole THEN {x \in ChildDocuments(row, d) : row[x].published}
                         ELSE {}
    IN  /\ Present(seen.row, d) /\ Visible(seen, d)
        /\ was.archived = "no" \/ was.published
        /\ row' = [x \in Docs |-> IF x \in gone THEN [row[x] EXCEPT !.deleted = TRUE]
                                  ELSE row[x]]
        /\ structure' = IF whole THEN [structure EXCEPT ![c] = Without(@, d)]
                        ELSE structure
        /\ UNCHANGED coll

\* documents.restore of a deleted or an archived document, into c: out of the
\* tree it was in, at the root if its parent is not active any more, and, if it
\* was archived, with the published documents below.
Restore(seen, d, c) ==
    LET was == seen.row[d]
        from == was.collection
        parent == IF was.parent # NoDoc /\ Active(row, was.parent)
                     /\ row[was.parent].published
                  THEN was.parent ELSE NoDoc
        left == IF from \in {NoCollection, c} THEN structure
                ELSE [structure EXCEPT ![from] = Without(@, d)]
        new == [was EXCEPT !.parent = parent, !.deleted = FALSE,
                           !.archived = "no", !.collection = c]
        kids == IF was.archived # "no" THEN PublishedBelow(row, d) ELSE {}
    IN  /\ was.exists
        /\ \/ was.deleted /\ (from # NoCollection \/ ~was.published)
           \/ ~was.deleted /\ was.archived # "no" /\ was.published /\ Visible(seen, d)
        /\ coll[c] = "active"
        /\ structure' = IF was.published
                        THEN [left EXCEPT ![c] = With(@, d, parent, NavigationNode(row, d, TRUE))]
                        ELSE left
        /\ row' = [x \in Docs |->
              CASE x = d -> Saved(row[d], was, new)
                [] x \in kids -> [row[x] EXCEPT !.archived = "no", !.collection = c]
                [] OTHER -> row[x]]
        /\ UNCHANGED coll

----------------------------------------------------------------------------
(* Collections.                                                             *)

\* The documents that a bulk update of collection c reaches.
Bulk(c) == {x \in Docs : Present(row, x) /\ row[x].published /\ row[x].collection = c}

\* collections.archive: its documents get its timestamp, its tree stays.
ArchiveCollection(seen, c) ==
    /\ seen.coll[c] = "active"
    /\ coll' = [coll EXCEPT ![c] = IF @ = "deleted" THEN @ ELSE "archived"]
    /\ row' = [x \in Docs |-> IF x \in Bulk(c) /\ row[x].archived = "no"
                              THEN [row[x] EXCEPT !.archived = "byCollection"] ELSE row[x]]
    /\ UNCHANGED structure

\* collections.restore, of the documents with its timestamp.
RestoreCollection(seen, c) ==
    /\ seen.coll[c] = "archived"
    /\ coll' = [coll EXCEPT ![c] = IF @ = "deleted" THEN @ ELSE "active"]
    /\ row' = [x \in Docs |-> IF x \in Bulk(c) /\ row[x].archived = "byCollection"
                              THEN [row[x] EXCEPT !.archived = "no"] ELSE row[x]]
    /\ UNCHANGED structure

\* collections.delete: its documents go unless they are archived, its tree stays.
DeleteCollection(seen, c) ==
    /\ seen.coll[c] # "deleted"
    /\ Cardinality({x \in Collections : coll[x] # "deleted"}) > 1
    /\ coll' = [coll EXCEPT ![c] = "deleted"]
    /\ row' = [x \in Docs |-> IF x \in Bulk(c) /\ row[x].archived = "no"
                              THEN [row[x] EXCEPT !.deleted = TRUE] ELSE row[x]]
    /\ UNCHANGED structure

\* DetachDraftsFromCollectionTask, after a collection was archived or deleted:
\* its drafts are moved out of it, and what is below them to the root.
DetachDrafts(c) ==
    LET drafts == {x \in Docs : row[x].exists /\ ~row[x].published /\ row[x].collection = c}
        kids == UNION {ChildDocuments(row, x) : x \in drafts}
    IN  /\ coll[c] # "active" /\ drafts # {}
        /\ row' = [x \in Docs |->
              CASE x \in drafts -> [row[x] EXCEPT !.collection = NoCollection, !.parent = NoDoc]
                [] x \in kids \ drafts /\ row[x].published -> [row[x] EXCEPT !.parent = NoDoc]
                [] OTHER -> row[x]]
        /\ UNCHANGED <<coll, structure>>

----------------------------------------------------------------------------
\* Published documents in one collection, as a tree of any shape, which creating
\* them one after the other leads to.
Init ==
    /\ parted = FALSE
    /\ coll = [c \in Collections |-> "active"]
    /\ \E c \in Collections, there \in SUBSET Docs, parent \in [Docs -> Docs \cup {NoDoc}] :
         /\ \A x \in Docs : IF x \in there THEN parent[x] \in there \cup {NoDoc}
                            ELSE parent[x] = NoDoc
         /\ \A x \in there : x \in Below({<<y, parent[y]>> : y \in there}, NoDoc)
         /\ row = [x \in Docs |-> IF x \notin there THEN Absent ELSE
                      [Absent EXCEPT !.exists = TRUE, !.collection = c,
                                     !.parent = parent[x], !.published = TRUE]]
         /\ structure = [k \in Collections |->
                            IF k = c THEN {<<x, parent[x]>> : x \in there} ELSE {}]

\* A request, on what it has seen.
Steps(seen) ==
    \/ \E d \in Docs :
         \/ \E c \in Collections :
              \/ \E p \in Docs \cup {NoDoc} :
                   \/ \E publish \in BOOLEAN : Create(seen, d, c, p, publish)
                   \/ Move(seen, d, c, p)
              \/ Publish(seen, d, c) \/ Restore(seen, d, c)
         \/ \E detach \in BOOLEAN : Unpublish(seen, d, detach)
         \/ Archive(seen, d) \/ Delete(seen, d)
    \/ \E c \in Collections :
         \/ ArchiveCollection(seen, c) \/ RestoreCollection(seen, c)
         \/ DeleteCollection(seen, c) \/ DetachDrafts(c)

\* No published document is in another collection than its parent.
ChildSharesCollection ==
    \A x \in Docs : LET p == row[x].parent IN
        (/\ Present(row, x) /\ row[x].published
         /\ p # NoDoc /\ Present(row, p))
           => row[x].collection = row[p].collection

\* A draft that was detached and published elsewhere, a restoration into another
\* collection and a move around a draft may part a document from its parent.
Part == parted' = (parted \/ ~ChildSharesCollection')

\* One request after the other.
Next == Steps(Snapshot) /\ Part

Spec == Init /\ [][Next]_vars

----------------------------------------------------------------------------
TypeOK ==
    /\ row \in [Docs -> Row]
    /\ coll \in [Collections -> {"active", "archived", "deleted"}]
    /\ structure \in [Collections -> SUBSET (Docs \X (Docs \cup {NoDoc}))]
    /\ parted \in BOOLEAN

\* AcyclicParents, ShownOnce, ShownIsCurrent and ActiveIsShown hold as long as no published
\* document and its parent were in two collections (~parted).  The code does not prevent
\* that, and none of the four survives it.

\* While nothing is parted, no document is nested inside itself, not even through a
\* deleted one: the checks that a move makes against it follow present documents only.
AcyclicParents ==
    ~parted => \A x \in Docs : row[x].exists =>
        x \in Below({<<y, row[y].parent>> : y \in Docs}, NoDoc)

\* No chain of parents that are not deleted leads back to where it began: the
\* queries that walk down from a document, without looking back, end.
AcyclicPresent ==
    \A x \in Docs : Present(row, x) =>
        row[x].parent \notin Below(RowEdges(row, LAMBDA y : Present(row, y)), x)

\* While nothing is parted, no document has two places, in one tree or in two, those
\* of collections that were archived or deleted included.
ShownOnce ==
    ~parted => \A c1, c2 \in Collections : \A e1 \in structure[c1], e2 \in structure[c2] :
        e1[1] = e2[1] => e1 = e2 /\ c1 = c2

\* While nothing is parted, what an active collection's tree shows is what the rows
\* say: published and neither archived nor deleted, in this collection, under that parent.
ShownIsCurrent ==
    ~parted => \A c \in Collections : coll[c] = "active" =>
        \A e \in structure[c] :
            LET r == row[e[1]]
            IN  Active(row, e[1]) /\ r.published /\ r.collection = c /\ r.parent = e[2]

\* While nothing is parted, every published document of an active collection can be
\* found in its tree, at its place, after whatever was archived, deleted, moved and
\* restored around it.
ActiveIsShown ==
    ~parted => \A x \in Docs : LET c == row[x].collection IN
        (/\ Active(row, x) /\ row[x].published
         /\ c # NoCollection /\ coll[c] = "active")
           => <<x, row[x].parent>> \in structure[c]
=============================================================================
