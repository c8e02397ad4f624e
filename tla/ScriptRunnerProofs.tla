-------------------------- MODULE ScriptRunnerProofs --------------------------
(* Proofs about ScriptRunner, for any set of IDs and any concurrency limit.   *)
EXTENDS ScriptRunner, FiniteSetTheorems, TLAPS

\* The parts of the inductive invariant besides the type invariant.
Parts == /\ UnrecordedIsFresh /\ TombstoneIsIdle /\ DownIsIdle /\ Supervised
         /\ NotYetStarted /\ StartedAtMostOnce /\ ReportedIsOver

\* The initial states satisfy the inductive invariant.
LEMMA InitInv == Init => IInv
<1> SUFFICES ASSUME Init PROVE IInv
  OBVIOUS
<1>1. TypeOK
  BY DEF Init, TypeOK, Phase, Result
<1>2. Parts
  BY DEF Init, Parts, UnrecordedIsFresh, TombstoneIsIdle, DownIsIdle, Supervised,
         NotYetStarted, StartedAtMostOnce, ReportedIsOver, Started
<1> QED
  BY <1>1, <1>2 DEF IInv, Parts

\* Every step of the registry, the driver, the daemon and the process keeps the
\* type invariant.
LEMMA TypeStep == TypeOK /\ [Next]_vars => TypeOK'
<1> SUFFICES ASSUME TypeOK, [Next]_vars PROVE TypeOK'
  OBVIOUS
<1> USE DEF TypeOK, Phase, Result, Started, process
<1>1. ASSUME NEW i \in Ids, Execute(i) PROVE TypeOK'
  BY <1>1 DEF Execute
<1>2. ASSUME NEW i \in Ids, AnswerCancelled(i) PROVE TypeOK'
  BY <1>2 DEF AnswerCancelled
<1>3. ASSUME NEW i \in Ids, RecordFails(i) PROVE TypeOK'
  BY <1>3 DEF RecordFails
<1>4. ASSUME NEW i \in Ids, Cancel(i) PROVE TypeOK'
  BY <1>4 DEF Cancel, Abort
<1>5. ASSUME NEW i \in Ids, CancelInactive(i) PROVE TypeOK'
  BY <1>5 DEF CancelInactive
<1>6. ASSUME NEW i \in Ids, Enter(i) PROVE TypeOK'
  BY <1>6 DEF Enter
<1>7. ASSUME NEW i \in Ids, EnterUnready(i) PROVE TypeOK'
  BY <1>7 DEF EnterUnready
<1>8. ASSUME NEW i \in Ids, DaemonCreates(i) PROVE TypeOK'
  BY <1>8 DEF DaemonCreates
<1>9. ASSUME NEW i \in Ids, Created(i) PROVE TypeOK'
  BY <1>9 DEF Created
<1>10. ASSUME NEW i \in Ids, CreateFails(i) PROVE TypeOK'
  BY <1>10 DEF CreateFails
<1>11. ASSUME NEW i \in Ids, DaemonStarts(i) PROVE TypeOK'
  BY <1>11 DEF DaemonStarts
<1>12. ASSUME NEW i \in Ids, ChildCloses(i) PROVE TypeOK'
  BY <1>12 DEF ChildCloses
<1>13. ASSUME NEW i \in Ids, TimeOut(i) PROVE TypeOK'
  BY <1>13 DEF TimeOut
<1>14. ASSUME NEW i \in Ids, Violate(i) PROVE TypeOK'
  BY <1>14 DEF Violate
<1>15. ASSUME NEW i \in Ids, Removed(i) PROVE TypeOK'
  BY <1>15 DEF Removed, AfterRemoval
<1>16. ASSUME NEW i \in Ids, RemovalFails(i) PROVE TypeOK'
  BY <1>16 DEF RemovalFails, AfterRemoval
<1>17. ASSUME NEW i \in Ids, Reject(i) PROVE TypeOK'
  BY <1>17 DEF Reject
<1>18. CASE Close
  BY <1>18 DEF Close, Abort, Active
<1>19. CASE Exit
  BY <1>19 DEF Exit
<1>20. CASE Restart
  BY <1>20 DEF Restart, AfterRemoval
<1>21. CASE UNCHANGED vars
  BY <1>21 DEF vars
<1> QED
  BY <1>1, <1>2, <1>3, <1>4, <1>5, <1>6, <1>7, <1>8, <1>9, <1>10, <1>11, <1>12, <1>13,
     <1>14, <1>15, <1>16, <1>17, <1>18, <1>19, <1>20, <1>21 DEF Next

\* Every step keeps the other parts: an ID is recorded before anything runs under
\* it, and a container is only ever started by the promise that created it.
LEMMA PartsStep == IInv /\ [Next]_vars => Parts'
<1> SUFFICES ASSUME IInv, [Next]_vars PROVE Parts'
  OBVIOUS
<1> USE DEF IInv, Parts, TypeOK, UnrecordedIsFresh, TombstoneIsIdle, DownIsIdle, Supervised,
           NotYetStarted, StartedAtMostOnce, ReportedIsOver, Phase, Started, process
<1>1. ASSUME NEW i \in Ids, Execute(i) PROVE Parts'
  BY <1>1 DEF Execute
<1>2. ASSUME NEW i \in Ids, AnswerCancelled(i) PROVE Parts'
  BY <1>2 DEF AnswerCancelled
<1>3. ASSUME NEW i \in Ids, RecordFails(i) PROVE Parts'
  BY <1>3 DEF RecordFails
<1>4. ASSUME NEW i \in Ids, Cancel(i) PROVE Parts'
  BY <1>4 DEF Cancel, Abort
<1>5. ASSUME NEW i \in Ids, CancelInactive(i) PROVE Parts'
  BY <1>5 DEF CancelInactive
<1>6. ASSUME NEW i \in Ids, Enter(i) PROVE Parts'
  BY <1>6 DEF Enter
<1>7. ASSUME NEW i \in Ids, EnterUnready(i) PROVE Parts'
  BY <1>7 DEF EnterUnready
<1>8. ASSUME NEW i \in Ids, DaemonCreates(i) PROVE Parts'
  BY <1>8 DEF DaemonCreates
<1>9. ASSUME NEW i \in Ids, Created(i) PROVE Parts'
  BY <1>9 DEF Created
<1>10. ASSUME NEW i \in Ids, CreateFails(i) PROVE Parts'
  BY <1>10 DEF CreateFails
<1>11. ASSUME NEW i \in Ids, DaemonStarts(i) PROVE Parts'
  BY <1>11 DEF DaemonStarts
<1>12. ASSUME NEW i \in Ids, ChildCloses(i) PROVE Parts'
  BY <1>12 DEF ChildCloses
<1>13. ASSUME NEW i \in Ids, TimeOut(i) PROVE Parts'
  BY <1>13 DEF TimeOut
<1>14. ASSUME NEW i \in Ids, Violate(i) PROVE Parts'
  BY <1>14 DEF Violate
<1>15. ASSUME NEW i \in Ids, Removed(i) PROVE Parts'
  BY <1>15 DEF Removed, AfterRemoval
<1>16. ASSUME NEW i \in Ids, RemovalFails(i) PROVE Parts'
  BY <1>16 DEF RemovalFails, AfterRemoval
<1>17. ASSUME NEW i \in Ids, Reject(i) PROVE Parts'
  BY <1>17 DEF Reject
<1>18. CASE Close
  BY <1>18 DEF Close, Abort, Active
<1>19. CASE Exit
  BY <1>19 DEF Exit
<1>20. CASE Restart
  BY <1>20 DEF Restart, AfterRemoval
<1>21. CASE UNCHANGED vars
  BY <1>21 DEF vars
<1> QED
  BY <1>1, <1>2, <1>3, <1>4, <1>5, <1>6, <1>7, <1>8, <1>9, <1>10, <1>11, <1>12, <1>13,
     <1>14, <1>15, <1>16, <1>17, <1>18, <1>19, <1>20, <1>21 DEF Next

\* Every step keeps the inductive invariant.
LEMMA InvStep == IInv /\ [Next]_vars => IInv'
  BY TypeStep, PartsStep DEF IInv, Parts

\* The inductive invariant holds in every state.
THEOREM Invariance == Spec => []IInv
  BY InitInv, InvStep, PTL DEF Spec

\* Type correctness.
THEOREM TypeCorrect == Spec => []TypeOK
  BY Invariance, PTL DEF IInv

\* A program is started at most once per execution ID (registry.ts:35): the file
\* outlives every crash, and the start is sent by the one promise it admitted.
THEOREM NeverReplayed == Spec => []StartedAtMostOnce
  BY Invariance, PTL DEF IInv

\* What was reported as over has been terminated, and stays so (registry.ts:96).
THEOREM StopIsTruthful == Spec => []ReportedIsTerminated
<1>1. IInv => ReportedIsTerminated
  BY DEF IInv, ReportedIsOver, ReportedIsTerminated
<1> QED
  BY <1>1, Invariance, PTL

\* An ID that was cancelled before its POST never starts (registry.ts:35).
THEOREM EarlyStopWins == Spec => []TombstoneBlocksStart
<1>1. IInv => TombstoneBlocksStart
  BY DEF IInv, TombstoneIsIdle, TombstoneBlocksStart
<1> QED
  BY <1>1, Invariance, PTL

\* A listening runner supervises every started container: prepare() has removed
\* those of its predecessor before the first request is accepted.
THEOREM NothingUnsupervised == Spec => []Supervised
  BY Invariance, PTL DEF IInv

-----------------------------------------------------------------------------
(* The first status wins.                                                    *)

\* The status is open while the program runs, and closed from the Stop on that finds the
\* driver's abort listener in place.
StatusOpen ==
    \A i \in Ids :
        /\ exec[i] \in {"entered", "attached"} => verdict[i] = "unset"
        /\ exec[i] = "attached" => i \notin aborted
        /\ exec[i] = "creating" /\ i \in aborted => verdict[i] # "unset"

LEMMA StatusStep == TypeOK /\ StatusOpen /\ [Next]_vars => StatusOpen'
<1> SUFFICES ASSUME TypeOK, StatusOpen, [Next]_vars PROVE StatusOpen'
  OBVIOUS
<1> USE DEF TypeOK, StatusOpen, Phase, Result, process
<1>1. ASSUME NEW i \in Ids, Execute(i) PROVE StatusOpen'
  BY <1>1 DEF Execute
<1>2. ASSUME NEW i \in Ids, AnswerCancelled(i) PROVE StatusOpen'
  BY <1>2 DEF AnswerCancelled
<1>3. ASSUME NEW i \in Ids, RecordFails(i) PROVE StatusOpen'
  BY <1>3 DEF RecordFails
<1>4. ASSUME NEW i \in Ids, Cancel(i) PROVE StatusOpen'
  BY <1>4 DEF Cancel, Abort
<1>5. ASSUME NEW i \in Ids, CancelInactive(i) PROVE StatusOpen'
  BY <1>5 DEF CancelInactive
<1>6. ASSUME NEW i \in Ids, Enter(i) PROVE StatusOpen'
  BY <1>6 DEF Enter
<1>7. ASSUME NEW i \in Ids, EnterUnready(i) PROVE StatusOpen'
  BY <1>7 DEF EnterUnready
<1>8. ASSUME NEW i \in Ids, DaemonCreates(i) PROVE StatusOpen'
  BY <1>8 DEF DaemonCreates
<1>9. ASSUME NEW i \in Ids, Created(i) PROVE StatusOpen'
  BY <1>9 DEF Created
<1>10. ASSUME NEW i \in Ids, CreateFails(i) PROVE StatusOpen'
  BY <1>10 DEF CreateFails
<1>11. ASSUME NEW i \in Ids, DaemonStarts(i) PROVE StatusOpen'
  BY <1>11 DEF DaemonStarts
<1>12. ASSUME NEW i \in Ids, ChildCloses(i) PROVE StatusOpen'
  BY <1>12 DEF ChildCloses
<1>13. ASSUME NEW i \in Ids, TimeOut(i) PROVE StatusOpen'
  BY <1>13 DEF TimeOut
<1>14. ASSUME NEW i \in Ids, Violate(i) PROVE StatusOpen'
  BY <1>14 DEF Violate
<1>15. ASSUME NEW i \in Ids, Removed(i) PROVE StatusOpen'
  BY <1>15 DEF Removed
<1>16. ASSUME NEW i \in Ids, RemovalFails(i) PROVE StatusOpen'
  BY <1>16 DEF RemovalFails
<1>17. ASSUME NEW i \in Ids, Reject(i) PROVE StatusOpen'
  BY <1>17 DEF Reject
<1>18. CASE Close
  BY <1>18 DEF Close, Abort, Active
<1>19. CASE Exit
  BY <1>19 DEF Exit
<1>20. CASE Restart
  BY <1>20 DEF Restart
<1>21. CASE UNCHANGED vars
  BY <1>21 DEF vars
<1> QED
  BY <1>1, <1>2, <1>3, <1>4, <1>5, <1>6, <1>7, <1>8, <1>9, <1>10, <1>11, <1>12, <1>13,
     <1>14, <1>15, <1>16, <1>17, <1>18, <1>19, <1>20, <1>21 DEF Next

\* What a step does to the status of an execution that goes on.
LEMMA StatusKept ==
    ASSUME IInv, StatusOpen, [Next]_vars
    PROVE  \A i \in Ids : exec[i] # "none" /\ exec'[i] # "none" =>
               /\ verdict[i] # "unset" => verdict'[i] = verdict[i]
               /\ i \in aborted => verdict'[i] \in {verdict[i], "cancelled"}
<1> DEFINE Keeps == \A i \in Ids : exec[i] # "none" /\ exec'[i] # "none" =>
                        /\ verdict[i] # "unset" => verdict'[i] = verdict[i]
                        /\ i \in aborted => verdict'[i] \in {verdict[i], "cancelled"}
<1> SUFFICES Keeps
  OBVIOUS
<1> USE DEF IInv, TypeOK, UnrecordedIsFresh, StatusOpen, Phase, Result, process
<1>1. ASSUME NEW i \in Ids, Execute(i) PROVE Keeps
  BY <1>1 DEF Execute
<1>2. ASSUME NEW i \in Ids, AnswerCancelled(i) PROVE Keeps
  BY <1>2 DEF AnswerCancelled
<1>3. ASSUME NEW i \in Ids, RecordFails(i) PROVE Keeps
  BY <1>3 DEF RecordFails
<1>4. ASSUME NEW i \in Ids, Cancel(i) PROVE Keeps
  BY <1>4 DEF Cancel, Abort
<1>5. ASSUME NEW i \in Ids, CancelInactive(i) PROVE Keeps
  BY <1>5 DEF CancelInactive
<1>6. ASSUME NEW i \in Ids, Enter(i) PROVE Keeps
  BY <1>6 DEF Enter
<1>7. ASSUME NEW i \in Ids, EnterUnready(i) PROVE Keeps
  BY <1>7 DEF EnterUnready
<1>8. ASSUME NEW i \in Ids, DaemonCreates(i) PROVE Keeps
  BY <1>8 DEF DaemonCreates
<1>9. ASSUME NEW i \in Ids, Created(i) PROVE Keeps
  BY <1>9 DEF Created
<1>10. ASSUME NEW i \in Ids, CreateFails(i) PROVE Keeps
  BY <1>10 DEF CreateFails
<1>11. ASSUME NEW i \in Ids, DaemonStarts(i) PROVE Keeps
  BY <1>11 DEF DaemonStarts
<1>12. ASSUME NEW i \in Ids, ChildCloses(i) PROVE Keeps
  BY <1>12 DEF ChildCloses
<1>13. ASSUME NEW i \in Ids, TimeOut(i) PROVE Keeps
  BY <1>13 DEF TimeOut
<1>14. ASSUME NEW i \in Ids, Violate(i) PROVE Keeps
  BY <1>14 DEF Violate
<1>15. ASSUME NEW i \in Ids, Removed(i) PROVE Keeps
  BY <1>15 DEF Removed
<1>16. ASSUME NEW i \in Ids, RemovalFails(i) PROVE Keeps
  BY <1>16 DEF RemovalFails
<1>17. ASSUME NEW i \in Ids, Reject(i) PROVE Keeps
  BY <1>17 DEF Reject
<1>18. CASE Close
  BY <1>18 DEF Close, Abort, Active
<1>19. CASE Exit
  BY <1>19 DEF Exit
<1>20. CASE Restart
  BY <1>20 DEF Restart
<1>21. CASE UNCHANGED vars
  BY <1>21 DEF vars
<1> QED
  BY <1>1, <1>2, <1>3, <1>4, <1>5, <1>6, <1>7, <1>8, <1>9, <1>10, <1>11, <1>12, <1>13,
     <1>14, <1>15, <1>16, <1>17, <1>18, <1>19, <1>20, <1>21 DEF Next

\* The first of a Stop, the time limit, a failure and the end of the program decides what
\* the caller of an execution is told (sandbox.ts:155), and a Stop leaves no room for others.
THEOREM StatusIsFirst == Spec => FirstStatusWins
<1> DEFINE Keeps == \A i \in Ids : exec[i] # "none" /\ exec'[i] # "none" =>
                        /\ verdict[i] # "unset" => verdict'[i] = verdict[i]
                        /\ i \in aborted => verdict'[i] \in {verdict[i], "cancelled"}
<1>1. Init => StatusOpen
  BY DEF Init, StatusOpen
<1>2. IInv /\ StatusOpen /\ [Next]_vars => Keeps
  BY StatusKept
<1>3. Spec => [](IInv /\ StatusOpen)
  BY <1>1, StatusStep, TypeCorrect, Invariance, PTL DEF Spec
<1> QED
  BY <1>2, <1>3, PTL DEF Spec, FirstStatusWins

-----------------------------------------------------------------------------
(* The concurrency limit.                                                  *)

\* A step that admits no new execution occupies no new place.
LEMMA OccupiedShrinks ==
  ASSUME IInv, [Next]_vars, \A i \in Ids : ~Execute(i)
  PROVE  Occupied' \subseteq Occupied
<1> USE DEF IInv, Occupied, TypeOK, Phase, Started, process
<1>1. ASSUME NEW i \in Ids, AnswerCancelled(i) PROVE Occupied' \subseteq Occupied
  BY <1>1 DEF AnswerCancelled
<1>2. ASSUME NEW i \in Ids, RecordFails(i) PROVE Occupied' \subseteq Occupied
  BY <1>2 DEF RecordFails
<1>3. ASSUME NEW i \in Ids, Cancel(i) PROVE Occupied' \subseteq Occupied
  BY <1>3 DEF Cancel, Abort
<1>4. ASSUME NEW i \in Ids, CancelInactive(i) PROVE Occupied' \subseteq Occupied
  BY <1>4 DEF CancelInactive
<1>5. ASSUME NEW i \in Ids, Enter(i) PROVE Occupied' \subseteq Occupied
  BY <1>5 DEF Enter
<1>6. ASSUME NEW i \in Ids, EnterUnready(i) PROVE Occupied' \subseteq Occupied
  BY <1>6 DEF EnterUnready
<1>7. ASSUME NEW i \in Ids, DaemonCreates(i) PROVE Occupied' \subseteq Occupied
  BY <1>7 DEF DaemonCreates
<1>8. ASSUME NEW i \in Ids, Created(i) PROVE Occupied' \subseteq Occupied
  BY <1>8 DEF Created
<1>9. ASSUME NEW i \in Ids, CreateFails(i) PROVE Occupied' \subseteq Occupied
  BY <1>9 DEF CreateFails
<1>10. ASSUME NEW i \in Ids, DaemonStarts(i) PROVE Occupied' \subseteq Occupied
  BY <1>10 DEF DaemonStarts
<1>11. ASSUME NEW i \in Ids, ChildCloses(i) PROVE Occupied' \subseteq Occupied
  BY <1>11 DEF ChildCloses
<1>12. ASSUME NEW i \in Ids, TimeOut(i) PROVE Occupied' \subseteq Occupied
  BY <1>12 DEF TimeOut
<1>13. ASSUME NEW i \in Ids, Violate(i) PROVE Occupied' \subseteq Occupied
  BY <1>13 DEF Violate
<1>14. ASSUME NEW i \in Ids, Removed(i) PROVE Occupied' \subseteq Occupied
  BY <1>14 DEF Removed, AfterRemoval
<1>15. ASSUME NEW i \in Ids, RemovalFails(i) PROVE Occupied' \subseteq Occupied
  BY <1>15 DEF RemovalFails, AfterRemoval
<1>16. ASSUME NEW i \in Ids, Reject(i) PROVE Occupied' \subseteq Occupied
  BY <1>16 DEF Reject
<1>17. ASSUME Close PROVE Occupied' \subseteq Occupied
  BY <1>17 DEF Close, Abort, Active
<1>18. ASSUME Exit PROVE Occupied' \subseteq Occupied
  BY <1>18 DEF Exit
<1>19. ASSUME Restart PROVE Occupied' \subseteq Occupied
  BY <1>19 DEF Restart, AfterRemoval
<1>20. ASSUME UNCHANGED vars PROVE Occupied' \subseteq Occupied
  BY <1>20 DEF vars
<1> QED
  BY <1>1, <1>2, <1>3, <1>4, <1>5, <1>6, <1>7, <1>8, <1>9, <1>10, <1>11, <1>12, <1>13,
     <1>14, <1>15, <1>16, <1>17, <1>18, <1>19, <1>20 DEF Next

\* Execute counts `active` before it adds to it; while the process is up every
\* started container is counted there.
LEMMA RoomStep ==
  ASSUME IInv, RoomForAll, [Next]_vars
  PROVE  RoomForAll'
<1>1. IsFiniteSet(Occupied) /\ Cardinality(Occupied) \in Nat
  BY IdsAssumption, FS_Subset, FS_CardinalityType DEF Occupied
<1>2. CASE \A i \in Ids : ~Execute(i)
  <2>1. Occupied' \subseteq Occupied
    BY <1>2, OccupiedShrinks
  <2>2. Cardinality(Occupied') <= Cardinality(Occupied) /\ Cardinality(Occupied') \in Nat
    BY <1>1, <2>1, FS_Subset, FS_CardinalityType
  <2> QED
    BY <1>1, <2>2, ConcurrencyAssumption DEF RoomForAll
<1>3. ASSUME NEW i \in Ids, Execute(i) PROVE RoomForAll'
  <2>1. Occupied = Active
    BY <1>3 DEF Execute, Occupied, Active, IInv, Supervised
  <2>2. Occupied' = Active \cup {i}
    BY <1>3, <2>1 DEF Execute, Occupied, Active, IInv, TypeOK, process
  <2>3. Cardinality(Active) < Concurrency
    BY <1>3 DEF Execute
  <2>4. Cardinality(Active \cup {i}) \in Cardinality(Active)..(Cardinality(Active) + 1)
    <3>1. IsFiniteSet(Active) /\ Cardinality(Active) \in Nat
      BY <1>1, <2>1
    <3>2. \/ Cardinality(Active \cup {i}) = Cardinality(Active)
          \/ Cardinality(Active \cup {i}) = Cardinality(Active) + 1
      BY <3>1, FS_AddElement
    <3> QED
      BY <3>1, <3>2
  <2> QED
    BY <1>1, <2>1, <2>2, <2>3, <2>4, ConcurrencyAssumption DEF RoomForAll
<1> QED
  BY <1>2, <1>3

\* The daemon never holds more started containers than the limit, although a
\* crash empties `active` while they live on (registry.ts:68, sandbox.ts:78).
THEOREM CapacityIsHeld == Spec => []CapacityHeld
<1>1. Init => RoomForAll
  <2> SUFFICES ASSUME Init PROVE RoomForAll
    OBVIOUS
  <2>1. Occupied = {}
    BY DEF Init, Occupied, Started
  <2> QED
    BY <2>1, FS_EmptySet, ConcurrencyAssumption DEF RoomForAll
<1>2. IInv /\ RoomForAll /\ [Next]_vars => RoomForAll'
  BY RoomStep
<1>3. RoomForAll => CapacityHeld
  <2> DEFINE S == {i \in Ids : box[i] \in Started}
  <2>1. IsFiniteSet(Occupied) /\ S \subseteq Occupied
    BY IdsAssumption, FS_Subset DEF Occupied
  <2>2. Cardinality(S) <= Cardinality(Occupied) /\ Cardinality(S) \in Nat
        /\ Cardinality(Occupied) \in Nat
    BY <2>1, FS_Subset, FS_CardinalityType
  <2> QED
    BY <2>2, ConcurrencyAssumption DEF RoomForAll, CapacityHeld
<1> QED
  BY <1>1, <1>2, <1>3, Invariance, PTL DEF Spec

-----------------------------------------------------------------------------
(* The refinement of ScriptExecution.                                      *)

\* The runner starts in the initial state of the abstract specification.
LEMMA RefineInit == Init => Abstract!Init
  BY DEF Init, Abstract!Init, Life

\* Each step is an Accept, a Settle or a stutter of the abstract specification.
LEMMA RefineStep == IInv /\ [Next]_vars => [Abstract!Next]_(Abstract!vars)
<1> SUFFICES ASSUME IInv, [Next]_vars PROVE [Abstract!Next]_(Abstract!vars)
  OBVIOUS
<1> USE DEF IInv, TypeOK, Started, process
<1> DEFINE Stutter == Life' = Life /\ reported' = reported
           Settles(S, A) == Abstract!Settle(S, A)
<1>1. ASSUME NEW i \in Ids, Execute(i) PROVE Abstract!Accept(i)
  BY <1>1 DEF Execute, Life, Abstract!Accept, UnrecordedIsFresh
<1>2. ASSUME NEW i \in Ids, AnswerCancelled(i) PROVE Settles({}, {i})
  BY <1>2 DEF AnswerCancelled, Life, Abstract!Settle, TombstoneIsIdle
<1>3. ASSUME NEW i \in Ids, RecordFails(i) PROVE Settles({i}, {})
  BY <1>3 DEF RecordFails, Life, Abstract!Settle, UnrecordedIsFresh
<1>4. ASSUME NEW i \in Ids, CancelInactive(i) PROVE Settles({i}, {i})
  BY <1>4 DEF CancelInactive, Life, Abstract!Settle, Supervised
<1>5. ASSUME NEW i \in Ids, Removed(i) PROVE Settles({i}, {i})
  BY <1>5 DEF Removed, AfterRemoval, Life, Abstract!Settle, UnrecordedIsFresh
<1>6. CASE Exit
  <2>1. Settles({i \in Ids : Life'[i] = "over"}, {})
    BY <1>6 DEF Exit, Life, Abstract!Settle
  <2> QED
    BY <2>1 DEF Abstract!Next
<1>7. CASE Restart
  <2>1. Settles({i \in Ids : Life'[i] = "over"}, {})
    BY <1>7 DEF Restart, AfterRemoval, Life, Abstract!Settle, DownIsIdle
  <2> QED
    BY <2>1 DEF Abstract!Next
<1>8. ASSUME NEW i \in Ids, Cancel(i) PROVE Stutter
  BY <1>8 DEF Cancel, Abort, Life
<1>9. ASSUME NEW i \in Ids, Enter(i) PROVE Stutter
  BY <1>9 DEF Enter, Life
<1>10. ASSUME NEW i \in Ids, EnterUnready(i) PROVE Stutter
  BY <1>10 DEF EnterUnready, Life
<1>11. ASSUME NEW i \in Ids, DaemonCreates(i) PROVE Stutter
  BY <1>11 DEF DaemonCreates, Life
<1>12. ASSUME NEW i \in Ids, Created(i) PROVE Stutter
  BY <1>12 DEF Created, Life
<1>13. ASSUME NEW i \in Ids, CreateFails(i) PROVE Stutter
  BY <1>13 DEF CreateFails, Life
<1>14. ASSUME NEW i \in Ids, DaemonStarts(i) PROVE Stutter
  BY <1>14 DEF DaemonStarts, Life
<1>15. ASSUME NEW i \in Ids, ChildCloses(i) PROVE Stutter
  BY <1>15 DEF ChildCloses, Life
<1>16. ASSUME NEW i \in Ids, TimeOut(i) PROVE Stutter
  BY <1>16 DEF TimeOut, Life
<1>17. ASSUME NEW i \in Ids, Violate(i) PROVE Stutter
  BY <1>17 DEF Violate, Life
<1>18. ASSUME NEW i \in Ids, RemovalFails(i) PROVE Stutter
  BY <1>18 DEF RemovalFails, AfterRemoval, Life
<1>19. ASSUME NEW i \in Ids, Reject(i) PROVE Stutter
  BY <1>19 DEF Reject, Life
<1>20. ASSUME Close PROVE Stutter
  BY <1>20 DEF Close, Abort, Active, Life
<1>21. ASSUME UNCHANGED vars PROVE Stutter
  BY <1>21 DEF vars, Life
<1>30. ASSUME NEW S \in SUBSET Ids, NEW A \in SUBSET Ids, Settles(S, A) PROVE Abstract!Next
  BY <1>30 DEF Abstract!Next
<1> HIDE DEF Settles
<1>31. ASSUME Stutter PROVE [Abstract!Next]_(Abstract!vars)
  BY <1>31 DEF Abstract!vars
<1> QED
  BY <1>1, <1>2, <1>3, <1>4, <1>5, <1>6, <1>7, <1>8, <1>9, <1>10, <1>11, <1>12, <1>13,
     <1>14, <1>15, <1>16, <1>17, <1>18, <1>19, <1>20, <1>21, <1>30, <1>31 DEF Next,
     Abstract!Next

\* The runner keeps its promise to the dispatcher: every behaviour of the registry,
\* the driver and the daemon is one that ScriptExecution allows.
THEOREM Refinement == Spec => ImplementsExecution
  BY RefineInit, RefineStep, Invariance, PTL DEF Spec, ImplementsExecution, Abstract!Spec
=============================================================================
