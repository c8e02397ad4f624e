----------------------------- MODULE Memberships -----------------------------
(***************************************************************************)
(* Sharing a document with a user, and with it what is nested below it.    *)
(* A membership on a document (a root) is copied to the published          *)
(* documents below, each copy with the root as its source; publishing      *)
(* copies the rows of the parent, and after a move a processor, which may  *)
(* run much later, makes those of the moved documents anew                 *)
(* (server/models/UserMembership.ts, queues/processors/                    *)
(* DocumentMovedProcessor.ts, routes/api/documents/documents.ts).          *)
(*                                                                         *)
(* One user: no query touches the rows of two.  Levels of permission are   *)
(* left out, as a change of a root's level changes its copies in the same  *)
(* transaction.  A transaction is one step.                                *)
(***************************************************************************)
EXTENDS Integers, FiniteSets

CONSTANTS
    Docs,
    NoDoc,          \* no parent
    Grants,         \* ids for the roots that exist at one time
    MaxMoved,       \* bounds the moves that are not processed and the orphaned documents
    MaxCopies       \* bounds the equal rows that a document gets

ASSUME ParametersAssumption ==
    /\ NoDoc \notin Docs /\ NoDoc \notin Grants
    /\ MaxMoved \in Nat /\ MaxCopies \in Nat \ {0}

VARIABLES
    status,     \* of a document
    parent,     \* parentDocumentId
    root,       \* the document of a membership without sourceId, or NoDoc: none has this id
    copies,     \* the number of rows of a document with a root as their source
    moved,      \* documents with a documents.move event that is not processed yet
    cut,        \* history: documents whose memberships did not reach those below, see GrantsReach
    orphaned    \* history: documents taken out of their parent with the copies from there

vars == <<status, parent, root, copies, moved, cut, orphaned>>

----------------------------------------------------------------------------
\* What is below d through documents of among: the least set with their children in it.
BelowIn(among, d) ==
    {x \in among : \A S \in SUBSET among :
        (\A y \in among \ S : parent[y] \notin S \cup {d}) => x \in S}

WasPublished(x) == status[x] \in {"published", "archived"}

\* findAllChildDocumentIds, without a condition and with publishedAt.
Below(d) == BelowIn({x \in Docs : status[x] # "absent"}, d)
PublishedBelow(d) == BelowIn({x \in Docs : WasPublished(x)}, d)

\* d and the documents above it: the least set with their parents in it.
Path(d) ==
    {x \in Docs : \A S \in SUBSET (Docs \ {x}) :
        d \in S => \E y \in S : parent[y] \notin S \cup {NoDoc}}

RootsOf(d) == {g \in Grants : root[g] = d}
Free == {g \in Grants : root[g] = NoDoc}

\* The user's rows of d by root: its own count as one.
RowsOf(d, g) == copies[d][g] + (IF root[g] = d THEN 1 ELSE 0)
HasRow(d) == \E g \in Grants : RowsOf(d, g) > 0

NoRows == [g \in Grants |-> 0]

\* Mutant: only the parent's own memberships.
CopiedRoots(p) == [g \in Grants |-> IF root[g] = p THEN 1 ELSE 0]

\* UserMembership.copy, and findRootMembershipsForDocument: the roots of all
\* rows of the parent p.
Copied(p) == IF p = NoDoc THEN NoRows ELSE [g \in Grants |-> RowsOf(p, g)]

----------------------------------------------------------------------------
(* Documents.                                                               *)

\* documents.create, below a published document or at the root of a collection,
\* as a draft or published.
Create(d, p, publish) ==
    /\ status[d] = "absent"
    /\ p # NoDoc => status[p] = "published"
    /\ parent' = [parent EXCEPT ![d] = p]
    /\ status' = [status EXCEPT ![d] = IF publish THEN "published" ELSE "draft"]
    /\ copies' = IF publish THEN [copies EXCEPT ![d] = Copied(p)] ELSE copies
    /\ UNCHANGED <<root, moved, cut, orphaned>>

\* Publishing a draft adds to the rows which it has.
Publish(d) ==
    LET rows == [g \in Grants |-> copies[d][g] + Copied(parent[d])[g]]
    IN  /\ status[d] = "draft"
        /\ parent[d] # NoDoc => status[parent[d]] = "published"
        /\ \A g \in Grants : rows[g] <= MaxCopies
        /\ status' = [status EXCEPT ![d] = "published"]
        /\ copies' = [copies EXCEPT ![d] = rows]
        /\ UNCHANGED <<parent, root, moved, cut, orphaned>>

\* Archived documents may stay below, where no query for published ones finds them.
Unpublish(d) ==
    /\ status[d] = "published"
    /\ BelowIn({x \in Docs : status[x] \in {"draft", "published"}}, d) = {}
    /\ status' = [status EXCEPT ![d] = "draft"]
    /\ cut' = IF Below(d) = {} THEN cut ELSE cut \cup {d}
    /\ UNCHANGED <<parent, root, copies, moved, orphaned>>

\* documents.move: the event is inserted in its transaction, the rows stay.
Move(d, p) ==
    /\ status[d] \in {"draft", "published"}
    /\ p # d /\ (p # NoDoc => status[p] = "published" /\ p \notin Below(d))
    /\ parent' = [parent EXCEPT ![d] = p]
    /\ moved' = moved \cup {d} /\ Cardinality(moved') + Cardinality(orphaned) <= MaxMoved
    /\ UNCHANGED <<status, root, copies, cut, orphaned>>

\* documents.archive, with the published documents below.
Archive(d) ==
    /\ status[d] = "published"
    /\ status' = [x \in Docs |-> IF x \in PublishedBelow(d) \cup {d} THEN "archived"
                                 ELSE status[x]]
    /\ UNCHANGED <<parent, root, copies, moved, cut, orphaned>>

\* documents.restore, out of a parent that is not active; nothing is announced.
Restore(d) ==
    LET p == parent[d]
        stays == p = NoDoc \/ status[p] = "published"
    IN  /\ status[d] = "archived"
        /\ parent' = [parent EXCEPT ![d] = IF stays THEN p ELSE NoDoc]
        /\ status' = [x \in Docs |-> IF x \in PublishedBelow(d) \cup {d} THEN "published"
                                     ELSE status[x]]
        /\ orphaned' = IF stays THEN orphaned ELSE orphaned \cup {d}
        /\ Cardinality(moved) + Cardinality(orphaned') <= MaxMoved
        /\ UNCHANGED <<root, copies, moved, cut>>

----------------------------------------------------------------------------
(* Memberships.                                                             *)

\* documents.add_user without a row of the user: a root, and its copies.
Share(d, g) ==
    /\ status[d] # "absent" /\ ~HasRow(d)
    /\ g \in Free
    /\ root' = [root EXCEPT ![g] = d]
    /\ copies' = [x \in Docs |-> IF x \in PublishedBelow(d) THEN [copies[x] EXCEPT ![g] = 1]
                                 ELSE copies[x]]
    /\ UNCHANGED <<status, parent, moved, cut, orphaned>>

\* documents.add_user with a copy: the row becomes a root of its own, without
\* copies; those below keep their source.
Change(d, g, old) ==
    /\ g \in Free /\ copies[d][old] > 0
    /\ root' = [root EXCEPT ![g] = d]
    /\ copies' = [copies EXCEPT ![d][old] = @ - 1]
    /\ cut' = cut \cup {d}
    /\ UNCHANGED <<status, parent, moved, orphaned>>

\* documents.remove_user, which refuses a copy; those of the root go with it.
Unshare(d, g) ==
    /\ root[g] = d /\ status[d] # "absent"
    /\ root' = [root EXCEPT ![g] = NoDoc]
    /\ copies' = [x \in Docs |-> [copies[x] EXCEPT ![g] = 0]]
    /\ UNCHANGED <<status, parent, moved, cut, orphaned>>

\* Mutant: the copies of documents further down are left as they are.
ProcessShallow(d) ==
    /\ d \in moved /\ \A g \in Grants : Copied(parent[d])[g] <= MaxCopies
    /\ copies' = [copies EXCEPT ![d] = Copied(parent[d])]
    /\ moved' = moved \ {d}
    /\ cut' = cut \cup {x \in Below(d) \cup {d} : RootsOf(x) # {}}
    /\ orphaned' = orphaned \ (Below(d) \cup {d})
    /\ UNCHANGED <<status, parent, root>>

\* DocumentMovedProcessor: every copy in the moved subtree goes, those of roots in
\* it too, and the copies of the new parent's roots come.
Process(d) ==
    /\ d \in moved /\ \A g \in Grants : Copied(parent[d])[g] <= MaxCopies
    /\ copies' = [x \in Docs |->
          CASE x \in PublishedBelow(d) \cup {d} -> Copied(parent[d])
            [] x \in Below(d) \ PublishedBelow(d) -> NoRows
            [] OTHER -> copies[x]]
    /\ moved' = moved \ {d}
    /\ cut' = cut \cup {x \in Below(d) \cup {d} : RootsOf(x) # {}}
    /\ orphaned' = orphaned \ (Below(d) \cup {d})
    /\ UNCHANGED <<status, parent, root>>

----------------------------------------------------------------------------
Init ==
    /\ status = [d \in Docs |-> "absent"]
    /\ parent = [d \in Docs |-> NoDoc]
    /\ root = [g \in Grants |-> NoDoc]
    /\ copies = [d \in Docs |-> NoRows]
    /\ moved = {} /\ cut = {} /\ orphaned = {}

Next ==
    \E d \in Docs :
        \/ \E p \in Docs \cup {NoDoc} :
             \/ \E publish \in BOOLEAN : Create(d, p, publish)
             \/ Move(d, p)
        \/ Publish(d) \/ Unpublish(d) \/ Archive(d) \/ Restore(d) \/ Process(d)
        \/ \E g \in Grants :
             \/ Share(d, g) \/ Unshare(d, g)
             \/ \E old \in Grants : Change(d, g, old)

Spec == Init /\ [][Next]_vars

----------------------------------------------------------------------------
TypeOK ==
    /\ status \in [Docs -> {"absent", "draft", "published", "archived"}]
    /\ parent \in [Docs -> Docs \cup {NoDoc}] /\ root \in [Grants -> Docs \cup {NoDoc}]
    /\ copies \in [Docs -> [Grants -> Nat]]
    /\ moved \subseteq Docs /\ cut \subseteq Docs /\ orphaned \subseteq Docs

\* d has a copy of a membership that nobody has above it.
Stray(d) ==
    \E g \in Grants : copies[d][g] > 0 /\ root[g] \notin Path(d) \ {d}

\* A copy belongs to a membership on a document above it, except below a move that
\* is still to be processed, or below a document that was restored out of its parent and
\* not moved since: after documents and those around them were moved, shared, published
\* and restored in any order.
InheritedFromAbove ==
    \A d \in Docs : Stray(d) => Path(d) \cap (moved \cup orphaned) # {}

\* d, and what is above it up to r.
Between(d, r) == {x \in Path(d) : r \in Path(x)}

\* A document's membership has a row for every published document below it, unless on the
\* way down a move is not processed, a membership was changed by hand, a document with
\* a membership was moved or one with archived documents was unpublished.
GrantsReach ==
    \A d \in Docs, g \in Grants :
        WasPublished(d) /\ RowsOf(d, g) = 0 /\ root[g] \in Path(d)
            => Between(d, root[g]) \cap (moved \cup cut) # {}
=============================================================================
