------------------------ MODULE DocumentTreeOverlap ------------------------
(***************************************************************************)
(* DocumentTree with requests that overlap: one that has read and          *)
(* authorized may wait for the collection's lock, or not have asked for it *)
(* yet, while others commit; it then goes on with what it has read.        *)
(***************************************************************************)
EXTENDS DocumentTree

VARIABLE past       \* what some request has read: at most one snapshot

OverlapInit == Init /\ past = {}

\* A request's reads, before its lock.
Read == past = {} /\ past' = {Snapshot} /\ UNCHANGED vars

OverlapNext ==
    \/ Read
    \/ \E seen \in {Snapshot} \cup past :
          Steps(seen) /\ Part /\ UNCHANGED past

OverlapSpec == OverlapInit /\ [][OverlapNext]_<<vars, past>>
=============================================================================
