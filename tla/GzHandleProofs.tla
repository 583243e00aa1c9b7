-------------------------- MODULE GzHandleProofs --------------------------
(***************************************************************************)
(* Proofs about GzHandle, for any number of threads and of calls: the GIL  *)
(* and the mutex are never held apart in a way that blocks, what the       *)
(* handle takes for saved has been saved, and only an overtaken sync takes *)
(* the file back.                                                          *)
(***************************************************************************)
EXTENDS GzHandle, FiniteSetTheorems, TLAPS

-----------------------------------------------------------------------------
(* Where a thread can be in its call, and what it then holds.              *)

Saver == {"sync", "close", "drop"}

Along(c) ==
    \/ c.op = "write" /\ c.at \in {"lock", "locked"}
    \/ c.op = "extend" /\ c.at \in {"lock", "locked", "python", "relock", "relocked"}
    \/ c.op = "sync" /\ c.at \in {"lock", "locked", "saving", "written", "failed",
                                  "relock", "relocked"}
    \/ c.op \in {"close", "drop"} /\ c.at \in {"lock", "locked", "saving", "written", "failed"}

\* A thread waits for the mutex, and holds it, with the GIL in hand; the finalizer
\* never lets the GIL go.  The mutex is held at the two places after lock_file only.
Placed(t) ==
    /\ call[t] = NoCall \/ Along(call[t])
    /\ call[t].at \in {"lock", "locked", "relock", "relocked"} \/ call[t].op = "drop"
          => gil = t
    /\ call[t].at \in {"locked", "relocked"} <=> lock = t

Flags ==
    /\ dirty \in BOOLEAN /\ held \in BOOLEAN /\ alive \in BOOLEAN /\ tainted \in BOOLEAN

\* TypeOK without the flags and the bounds on the versions.
Types ==
    /\ gil \in Threads \cup {NoThread}
    /\ lock \in {NoThread, gil}
    /\ buf \in Nat /\ gz \in Nat
    /\ call \in [Threads -> [op : Op \cup {"none"},
                             at : {"out", "lock", "locked", "python", "relock", "relocked",
                                   "saving", "written", "failed"},
                             snap : Nat]]
    /\ calls \in 0..MaxCalls /\ acked \in Nat
    /\ closed \in {"no", "clean", "saved", "refused", "failed"}

\* Nothing that was written is newer than the buffer.
NotNewer == gz <= buf /\ acked <= buf /\ \A t \in Threads : call[t].snap <= buf

PlaceInv == Flags /\ Types /\ NotNewer /\ \A t \in Threads : Placed(t)

USE ThreadsAssumption, CallsAssumption

\* Nobody is in a call at the start.
LEMMA InitPlaced == Init => PlaceInv
<1> SUFFICES ASSUME Init PROVE PlaceInv
  OBVIOUS
<1>1. Types
  <2>1. call \in [Threads -> [op : Op \cup {"none"},
                             at : {"out", "lock", "locked", "python", "relock", "relocked",
                                   "saving", "written", "failed"},
                             snap : Nat]]
    BY DEF Init, NoCall
  <2>2. closed \in {"no", "clean", "saved", "refused", "failed"}
    BY DEF Init
  <2>3. /\ gil \in Threads \cup {NoThread} /\ lock \in {NoThread, gil}
        /\ buf \in Nat /\ gz \in Nat /\ acked \in Nat /\ calls \in 0..MaxCalls
    BY DEF Init
  <2> QED
    BY <2>1, <2>2, <2>3 DEF Types
<1>2. NotNewer
  BY DEF Init, NotNewer, NoCall
<1>3. \A t \in Threads : Placed(t)
  BY DEF Init, Placed, NoCall, Along
<1>4. Flags
  BY DEF Init, Flags
<1> QED
  BY <1>1, <1>2, <1>3, <1>4 DEF PlaceInv

\* A step leaves the flags flags.
LEMMA StepFlags ==
  ASSUME Flags, NEW t \in Threads, Step(t)
  PROVE  Flags'
<1>1. CASE LockFile(t)
  BY <1>1, Zenon DEF LockFile, Flags
<1>2. CASE WriteHdu(t)
  BY <1>2, Zenon DEF WriteHdu, Mutate, Flags
<1>3. CASE ExtendHeader(t)
  BY <1>3, Zenon DEF ExtendHeader, Mutate, Flags
<1>4. CASE Resume(t)
  BY <1>4, Zenon DEF Resume, Flags
<1>5. CASE ExtendData(t)
  BY <1>5, Zenon DEF ExtendData, Mutate, Flags
<1>6. CASE ExtendReject(t)
  BY <1>6, Zenon DEF ExtendReject, Flags
<1>7. CASE SyncCopy(t)
  BY <1>7, Zenon DEF SyncCopy, Flags
<1>8. CASE CloseTake(t)
  BY <1>8, Zenon DEF CloseTake, Flags
<1>9. CASE DropTake(t)
  BY <1>9, Zenon DEF DropTake, Flags
<1>10. CASE WriteBack(t)
  BY <1>10, Zenon DEF WriteBack, Flags
<1>11. CASE FailWriteBack(t)
  BY <1>11, Zenon DEF FailWriteBack, Flags
<1>12. CASE Written(t)
  BY <1>12, Zenon DEF Written, Flags
<1>13. CASE SyncFailed(t)
  BY <1>13, Zenon DEF SyncFailed, Flags
<1>14. CASE SyncRedirty(t)
  BY <1>14, Zenon DEF SyncRedirty, Flags
<1>15. CASE CloseFailed(t)
  BY <1>15, Zenon DEF CloseFailed, Flags
<1> QED
  BY <1>1, <1>2, <1>3, <1>4, <1>5, <1>6, <1>7, <1>8,
     <1>9, <1>10, <1>11, <1>12, <1>13, <1>14, <1>15 DEF Step

\* Every step of a thread keeps the positions: it moves itself along its call, takes
\* the mutex only when it is free and gives it back before the GIL goes.
LEMMA StepPlaced ==
  ASSUME PlaceInv, NEW t \in Threads, Step(t)
  PROVE  PlaceInv'
<1> SUFFICES Types' /\ NotNewer' /\ \A u \in Threads : Placed(u)'
  BY StepFlags DEF PlaceInv
<1> USE DEF PlaceInv, Types, NotNewer, Placed, Along, NoCall, Op, Goto, Return, At
<1>1. CASE LockFile(t)
  BY <1>1 DEF LockFile
<1>2. CASE WriteHdu(t)
  <2>1. Types'
    <3>1. CASE held
      BY <1>2, <3>1 DEF WriteHdu, Mutate
    <3>2. CASE ~(held)
      BY <1>2, <3>2 DEF WriteHdu, Mutate
    <3> QED
      BY <3>1, <3>2
  <2>2. NotNewer'
    BY <1>2 DEF WriteHdu, Mutate
  <2>3. ASSUME NEW u \in Threads PROVE Placed(u)'
    <3>1. CASE u = t
      BY <1>2, <3>1 DEF WriteHdu, Mutate
    <3>2. CASE u # t
      BY <1>2, <3>2 DEF WriteHdu, Mutate
    <3> QED
      BY <3>1, <3>2
  <2> QED
    BY <2>1, <2>2, <2>3
<1>3. CASE ExtendHeader(t)
  <2>1. Types'
    <3>1. CASE held
      BY <1>3, <3>1 DEF ExtendHeader, Mutate
    <3>2. CASE ~(held)
      BY <1>3, <3>2 DEF ExtendHeader, Mutate
    <3> QED
      BY <3>1, <3>2
  <2>2. NotNewer'
    BY <1>3 DEF ExtendHeader, Mutate
  <2>3. ASSUME NEW u \in Threads PROVE Placed(u)'
    <3>1. CASE u = t
      BY <1>3, <3>1 DEF ExtendHeader, Mutate
    <3>2. CASE u # t
      BY <1>3, <3>2 DEF ExtendHeader, Mutate
    <3> QED
      BY <3>1, <3>2
  <2> QED
    BY <2>1, <2>2, <2>3
<1>4. CASE Resume(t)
  BY <1>4 DEF Resume
<1>5. CASE ExtendData(t)
  <2>1. Types'
    <3>1. CASE held
      BY <1>5, <3>1 DEF ExtendData, Mutate
    <3>2. CASE ~(held)
      BY <1>5, <3>2 DEF ExtendData, Mutate
    <3> QED
      BY <3>1, <3>2
  <2>2. NotNewer'
    BY <1>5 DEF ExtendData, Mutate
  <2>3. ASSUME NEW u \in Threads PROVE Placed(u)'
    <3>1. CASE u = t
      BY <1>5, <3>1 DEF ExtendData, Mutate
    <3>2. CASE u # t
      BY <1>5, <3>2 DEF ExtendData, Mutate
    <3> QED
      BY <3>1, <3>2
  <2> QED
    BY <2>1, <2>2, <2>3
<1>6. CASE ExtendReject(t)
  BY <1>6 DEF ExtendReject
<1>7. CASE SyncCopy(t)
  <2>1. Types'
    <3>1. CASE held /\ dirty
      BY <1>7, <3>1 DEF SyncCopy, Detach
    <3>2. CASE ~(held /\ dirty)
      BY <1>7, <3>2 DEF SyncCopy, Detach
    <3> QED
      BY <3>1, <3>2
  <2>2. NotNewer'
    BY <1>7 DEF SyncCopy, Detach
  <2>3. ASSUME NEW u \in Threads PROVE Placed(u)'
    <3>1. CASE u = t
      BY <1>7, <3>1 DEF SyncCopy, Detach
    <3>2. CASE u # t
      BY <1>7, <3>2 DEF SyncCopy, Detach
    <3> QED
      BY <3>1, <3>2
  <2> QED
    BY <2>1, <2>2, <2>3
<1>8. CASE CloseTake(t)
  <2>1. Types'
    <3>1. CASE held /\ dirty /\ ~tainted
      BY <1>8, <3>1 DEF CloseTake, Detach, Unsaved
    <3>2. CASE ~(held /\ dirty /\ ~tainted)
      BY <1>8, <3>2 DEF CloseTake, Detach, Unsaved
    <3> QED
      BY <3>1, <3>2
  <2>2. NotNewer'
    BY <1>8 DEF CloseTake, Detach, Unsaved
  <2>3. ASSUME NEW u \in Threads PROVE Placed(u)'
    <3>1. CASE u = t
      BY <1>8, <3>1 DEF CloseTake, Detach, Unsaved
    <3>2. CASE u # t
      BY <1>8, <3>2 DEF CloseTake, Detach, Unsaved
    <3> QED
      BY <3>1, <3>2
  <2> QED
    BY <2>1, <2>2, <2>3
<1>9. CASE DropTake(t)
  <2>1. Types'
    <3>1. CASE held /\ dirty /\ ~tainted
      BY <1>9, <3>1 DEF DropTake, Unsaved
    <3>2. CASE ~(held /\ dirty /\ ~tainted)
      BY <1>9, <3>2 DEF DropTake, Unsaved
    <3> QED
      BY <3>1, <3>2
  <2>2. NotNewer'
    BY <1>9 DEF DropTake, Unsaved
  <2>3. ASSUME NEW u \in Threads PROVE Placed(u)'
    <3>1. CASE u = t
      BY <1>9, <3>1 DEF DropTake, Unsaved
    <3>2. CASE u # t
      BY <1>9, <3>2 DEF DropTake, Unsaved
    <3> QED
      BY <3>1, <3>2
  <2> QED
    BY <2>1, <2>2, <2>3
<1>10. CASE WriteBack(t)
  BY <1>10 DEF WriteBack
<1>11. CASE FailWriteBack(t)
  BY <1>11 DEF FailWriteBack
<1>12. CASE Written(t)
  BY <1>12 DEF Written, Reattached
<1>13. CASE SyncFailed(t)
  BY <1>13 DEF SyncFailed
<1>14. CASE SyncRedirty(t)
  BY <1>14 DEF SyncRedirty
<1>15. CASE CloseFailed(t)
  BY <1>15 DEF CloseFailed, Reattached
<1> QED
  BY <1>1, <1>2, <1>3, <1>4, <1>5, <1>6, <1>7, <1>8,
     <1>9, <1>10, <1>11, <1>12, <1>13, <1>14, <1>15 DEF Step

\* A call that is let in starts at its lock with the GIL, which was free.
LEMMA EnterPlaced ==
  ASSUME PlaceInv, NEW t \in Threads, NEW op \in Op, Enter(t, op)
  PROVE  PlaceInv'
<1>1. Flags'
  BY Zenon DEF PlaceInv, Flags, Enter
<1>2. Types'
  BY DEF PlaceInv, Types, Enter, Op
<1>3. NotNewer'
  BY DEF PlaceInv, Types, NotNewer, Enter
<1>4. ASSUME NEW u \in Threads PROVE Placed(u)'
  BY DEF PlaceInv, Types, Placed, Along, NoCall, Op, Enter
<1> QED
  BY <1>1, <1>2, <1>3, <1>4 DEF PlaceInv

\* The places of the threads do not depend on anything outside the model's variables.
LEMMA StutterPlaced == PlaceInv /\ UNCHANGED vars => PlaceInv'
BY DEF PlaceInv, Flags, Types, NotNewer, Placed, Along, vars

\* The positions of the threads are an invariant of the handle.
THEOREM Positions == Spec => []PlaceInv
<1>1. Init => PlaceInv
  BY InitPlaced
<1>2. PlaceInv /\ [Next]_vars => PlaceInv'
  BY StepPlaced, EnterPlaced, StutterPlaced DEF Next
<1> QED
  BY <1>1, <1>2, PTL DEF Spec

-----------------------------------------------------------------------------
(* The bound on the versions: a write changes the buffer once and an extend *)
(* twice, so what is still to come fits in what the calls made so far allow.*)

Owing == {t \in Threads : call[t].op \in {"write", "extend"}}

\* The extend that has not written its header holds the GIL: there is at most one.
HeaderOwed == \E t \in Threads : call[t].op = "extend" /\ call[t].at \in {"lock", "locked"}

Budget ==
    /\ IsFiniteSet(Owing)
    /\ buf + Cardinality(Owing) + (IF HeaderOwed THEN 1 ELSE 0) <= 2 * calls

\* No call has been made in the beginning.
LEMMA InitBudget == Init => Budget
<1> SUFFICES ASSUME Init PROVE Budget
  OBVIOUS
<1>1. Owing = {} /\ ~HeaderOwed
  BY DEF Init, NoCall, Owing, HeaderOwed
<1> QED
  BY <1>1, FS_EmptySet DEF Init, Budget

\* A call pays for what it may write.
LEMMA EnterBudget ==
  ASSUME PlaceInv, Budget, NEW t \in Threads, NEW op \in Op, Enter(t, op)
  PROVE  Budget'
<1>1. /\ Cardinality(Owing) \in Nat
      /\ buf' = buf /\ buf \in Nat /\ calls' = calls + 1 /\ calls \in Nat
  BY FS_CardinalityType DEF Budget, Enter, PlaceInv, Types
<1>2. ~HeaderOwed /\ t \notin Owing
  BY DEF PlaceInv, Placed, HeaderOwed, Owing, Enter, NoCall
<1>3. CASE op \in {"write", "extend"}
  <2>1. Owing' = Owing \cup {t}
    BY <1>3 DEF Owing, Enter, PlaceInv, Types
  <2>2. IsFiniteSet(Owing') /\ Cardinality(Owing') = Cardinality(Owing) + 1
    BY <2>1, <1>2, FS_AddElement DEF Budget
  <2> QED
    BY <2>2, <1>1, <1>2 DEF Budget
<1>4. CASE op \notin {"write", "extend"}
  <2>1. Owing' = Owing /\ ~HeaderOwed'
    BY <1>4, <1>2 DEF Owing, HeaderOwed, Enter, PlaceInv, Types
  <2> QED
    BY <2>1, <1>1, <1>2 DEF Budget
<1> QED
  BY <1>3, <1>4

\* A step that leaves the buffer and the writers as they are.
LEMMA SameBudget ==
  ASSUME Budget, PlaceInv, buf' = buf, calls' = calls, Owing' = Owing,
         HeaderOwed' => HeaderOwed
  PROVE  Budget'
<1>1. Cardinality(Owing) \in Nat /\ buf \in Nat /\ calls \in Nat
  BY FS_CardinalityType DEF Budget, PlaceInv, Types
<1> QED
  BY <1>1 DEF Budget

\* A writer that returns has changed the buffer at most once more.
LEMMA PaidBudget ==
  ASSUME Budget, PlaceInv, NEW t \in Owing, Owing' = Owing \ {t},
         buf' \in {buf, buf + 1}, calls' = calls, HeaderOwed' => HeaderOwed
  PROVE  Budget'
<1>1. Cardinality(Owing) \in Nat /\ buf \in Nat /\ calls \in Nat
  BY FS_CardinalityType DEF Budget, PlaceInv, Types
<1>2. IsFiniteSet(Owing') /\ Cardinality(Owing') = Cardinality(Owing) - 1
  BY FS_RemoveElement DEF Budget
<1> QED
  BY <1>1, <1>2 DEF Budget

\* Every step uses up one call, or moves one call on.
LEMMA StepBudget ==
  ASSUME PlaceInv, Budget, NEW t \in Threads, Step(t)
  PROVE  Budget'
<1> USE DEF Owing, HeaderOwed, PlaceInv, Types, Placed, NoCall, Goto, Return, At
<1>1. CASE WriteHdu(t)
  <2>1. t \in Owing /\ Owing' = Owing \ {t} /\ (HeaderOwed' => HeaderOwed)
    BY <1>1 DEF WriteHdu
  <2> QED
    BY <1>1, <2>1, PaidBudget DEF WriteHdu, Mutate
<1>2. CASE ExtendHeader(t) /\ held
  <2>1. Owing' = Owing
    BY <1>2 DEF ExtendHeader
  <2>2. HeaderOwed
    BY <1>2 DEF ExtendHeader
  <2>3. ~HeaderOwed'
    BY <1>2 DEF ExtendHeader
  <2>4. buf' = buf + 1 /\ calls' = calls /\ buf \in Nat /\ calls \in Nat
    BY <1>2 DEF ExtendHeader, Mutate
  <2>5. IsFiniteSet(Owing) /\ Cardinality(Owing) \in Nat
    BY FS_CardinalityType DEF Budget
  <2> HIDE DEF Owing, HeaderOwed
  <2> QED
    BY <2>1, <2>2, <2>3, <2>4, <2>5 DEF Budget
<1>3. CASE ExtendHeader(t) /\ ~held
  <2>1. t \in Owing /\ Owing' = Owing \ {t} /\ (HeaderOwed' => HeaderOwed)
    BY <1>3 DEF ExtendHeader
  <2> QED
    BY <1>3, <2>1, PaidBudget DEF ExtendHeader
<1>4. CASE ExtendData(t)
  <2>1. t \in Owing /\ Owing' = Owing \ {t} /\ (HeaderOwed' => HeaderOwed)
    BY <1>4 DEF ExtendData
  <2> QED
    BY <1>4, <2>1, PaidBudget DEF ExtendData, Mutate
<1>5. CASE ExtendReject(t)
  <2>1. t \in Owing /\ Owing' = Owing \ {t} /\ (HeaderOwed' => HeaderOwed)
    BY <1>5 DEF ExtendReject
  <2> QED
    BY <1>5, <2>1, PaidBudget DEF ExtendReject
<1>6. CASE LockFile(t) \/ Resume(t)
  <2>1. Owing' = Owing /\ (HeaderOwed' => HeaderOwed)
    BY <1>6 DEF LockFile, Resume
  <2> QED
    BY <1>6, <2>1, SameBudget DEF LockFile, Resume
<1>7. CASE SyncCopy(t) \/ CloseTake(t) \/ DropTake(t)
  <2>1. Owing' = Owing /\ (HeaderOwed' => HeaderOwed)
    BY <1>7 DEF SyncCopy, CloseTake, DropTake, Detach
  <2> QED
    BY <1>7, <2>1, SameBudget DEF SyncCopy, CloseTake, DropTake
<1>8. CASE WriteBack(t) \/ FailWriteBack(t) \/ Written(t)
  <2>1. call[t].op \in Saver
    BY <1>8 DEF WriteBack, FailWriteBack, Written, Along, Saver
  <2>2. Owing' = Owing /\ (HeaderOwed' => HeaderOwed)
    BY <1>8, <2>1 DEF WriteBack, FailWriteBack, Written, Saver
  <2> QED
    BY <1>8, <2>2, SameBudget DEF WriteBack, FailWriteBack, Written
<1>9. CASE SyncFailed(t) \/ SyncRedirty(t) \/ CloseFailed(t)
  <2>1. Owing' = Owing /\ (HeaderOwed' => HeaderOwed)
    BY <1>9 DEF SyncFailed, SyncRedirty, CloseFailed
  <2> QED
    BY <1>9, <2>1, SameBudget DEF SyncFailed, SyncRedirty, CloseFailed
<1> QED
  BY <1>1, <1>2, <1>3, <1>4, <1>5, <1>6, <1>7, <1>8, <1>9 DEF Step

-----------------------------------------------------------------------------
(* What is on disk.                                                        *)

\* PyO3's exclusive borrow keeps close and the finalizer apart from sync and from one
\* another; syncs may overlap.
Exclusive ==
    \A t, u \in Threads : call[t].op \in {"close", "drop"} /\ call[u].op \in Saver => t = u

HistoryInv ==
    /\ best \in Nat /\ settled \in Nat
    /\ settled <= gz /\ gz <= best /\ best <= buf

\* The copies on their way: none is older than what the file held before the first of
\* them, and one that was not overtaken is not older than the file or any other copy.
FlightInv ==
    /\ overtaken \subseteq {t \in Saving : call[t].op = "sync"}
    /\ \A t \in Saving :
         /\ settled <= call[t].snap
         /\ t \notin overtaken =>
              gz <= call[t].snap /\ \A u \in Saving : call[u].snap <= call[t].snap

FileInv == Exclusive /\ HistoryInv /\ FlightInv

\* What a step of a thread can do to the buffer, the file and the copies.
Digest(t) ==
    /\ \A u \in Threads \ {t} : call'[u] = call[u]
    /\ call'[t].op \in {call[t].op, "none"}
    /\ buf' \in {buf, buf + 1}
    /\ \/ gz' = gz
       \/ call[t].at = "saving" /\ gz' = call[t].snap
    /\ call[t].at = "saving" => call'[t].at # "saving" /\ buf' = buf
    /\ call'[t].at = "saving" =>
         /\ call[t].at # "saving" /\ call[t].op \in Saver /\ call'[t].op = call[t].op
         /\ call'[t].snap = buf /\ buf' = buf /\ gz' = gz

\* Every step of a thread is of that kind.
LEMMA StepDigest ==
  ASSUME PlaceInv, NEW t \in Threads, Step(t)
  PROVE  Digest(t)
<1> USE DEF Digest, PlaceInv, Types, NoCall, Goto, Return, At, Saver
<1>1. CASE LockFile(t)
  BY <1>1 DEF LockFile
<1>2. CASE WriteHdu(t)
  BY <1>2 DEF WriteHdu, Mutate
<1>3. CASE ExtendHeader(t)
  BY <1>3 DEF ExtendHeader, Mutate
<1>4. CASE Resume(t)
  BY <1>4 DEF Resume
<1>5. CASE ExtendData(t)
  BY <1>5 DEF ExtendData, Mutate
<1>6. CASE ExtendReject(t)
  BY <1>6 DEF ExtendReject
<1>7. CASE SyncCopy(t)
  BY <1>7 DEF SyncCopy, Detach
<1>8. CASE CloseTake(t)
  BY <1>8 DEF CloseTake, Detach
<1>9. CASE DropTake(t)
  BY <1>9 DEF DropTake
<1>10. CASE WriteBack(t)
  BY <1>10 DEF WriteBack
<1>11. CASE FailWriteBack(t)
  BY <1>11 DEF FailWriteBack
<1>12. CASE Written(t)
  BY <1>12 DEF Written
<1>13. CASE SyncFailed(t)
  BY <1>13 DEF SyncFailed
<1>14. CASE SyncRedirty(t)
  BY <1>14 DEF SyncRedirty
<1>15. CASE CloseFailed(t)
  BY <1>15 DEF CloseFailed
<1> QED
  BY <1>1, <1>2, <1>3, <1>4, <1>5, <1>6, <1>7, <1>8,
     <1>9, <1>10, <1>11, <1>12, <1>13, <1>14, <1>15 DEF Step

\* Nothing has been saved yet.
LEMMA InitFile == Init => FileInv
BY DEF Init, FileInv, Exclusive, HistoryInv, FlightInv, Saving, NoCall, Saver

\* A call that begins is let in only next to calls it may share the object with.
LEMMA EnterFile ==
  ASSUME PlaceInv, FileInv, NEW t \in Threads, NEW op \in Op, Enter(t, op), Remember
  PROVE  FileInv'
<1>1. Saving' = Saving /\ \A u \in Saving : call'[u] = call[u]
  BY DEF Saving, Enter, NoCall, PlaceInv, Types
<1>2. gz' = gz /\ buf' = buf
  BY DEF Enter
<1>3. Exclusive'
  BY DEF FileInv, Exclusive, Enter, Admits, SyncRuns, CloseRuns, Saver, Op, PlaceInv, Types
<1>4. overtaken' = overtaken
  BY <1>1 DEF Remember, FileInv, FlightInv
<1>5. HistoryInv'
  BY <1>2 DEF Remember, FileInv, HistoryInv, PlaceInv, Types
<1>6. Saving # {} => settled' = settled
  BY <1>1 DEF Remember
<1>7. FlightInv'
  BY <1>1, <1>2, <1>4, <1>6 DEF FileInv, FlightInv
<1> QED
  BY <1>3, <1>5, <1>7 DEF FileInv

\* A step keeps the order of the copies and of the file.
LEMMA StepFile ==
  ASSUME PlaceInv, FileInv, NEW t \in Threads, Step(t), Remember
  PROVE  FileInv'
<1>0. Digest(t)
  BY StepDigest
<1> DEFINE joins == call'[t].at = "saving"
<1>1. Exclusive'
  BY <1>0 DEF FileInv, Exclusive, Digest, Saver
<1>2. \A u \in Saving \ {t} : call'[u] = call[u] /\ u \in Saving'
  BY <1>0 DEF Digest, Saving
<1>3. Saving' = IF joins THEN Saving \cup {t} ELSE Saving \ {t}
  BY <1>0 DEF Digest, Saving
<1>4. gz \in Nat /\ buf \in Nat /\ gz <= buf /\ buf <= buf'
      /\ \A u \in Threads : call[u].snap \in Nat /\ call[u].snap <= buf
  BY <1>0 DEF Digest, PlaceInv, Types, NotNewer
<1>5. settled <= gz' /\ gz' <= buf /\ gz' \in Nat
  BY <1>0, <1>4 DEF Digest, FileInv, HistoryInv, FlightInv, Saving
<1>6. HistoryInv'
  <2>1. buf' \in Nat /\ best \in Nat /\ settled \in Nat /\ best <= buf
    BY <1>0, <1>4 DEF Digest, FileInv, HistoryInv
  <2>2. best' \in {best, gz'} /\ best' >= gz'
    BY <1>5, <2>1 DEF Remember
  <2>3. settled' \in {settled, gz'}
    BY DEF Remember
  <2> QED
    BY <1>4, <1>5, <2>1, <2>2, <2>3 DEF HistoryInv
<1>7. CASE joins
  <2>1. t \notin Saving /\ call'[t].snap = buf /\ gz' = gz /\ Saving' = Saving \cup {t}
        /\ call[t].op \in Saver /\ call'[t].op = call[t].op
    BY <1>0, <1>3, <1>7 DEF Digest, Saving
  <2>2. overtaken' = Saving /\ settled' = settled
    BY <2>1 DEF Remember
  <2>3. \A u \in Saving : call[u].op = "sync"
    <3>1. \A u \in Saving : call[u].op \in Saver /\ u \in Threads
      BY DEF Saving, PlaceInv, Placed, Along, NoCall, Saver
    <3> QED
      BY <2>1, <3>1 DEF FileInv, Exclusive, Saver
  <2>4. overtaken' \subseteq {u \in Saving' : call'[u].op = "sync"}
    BY <1>2, <2>1, <2>2, <2>3
  <2>5. ASSUME NEW u \in Saving'
        PROVE  /\ settled' <= call'[u].snap
               /\ u \notin overtaken' =>
                    gz' <= call'[u].snap /\ \A v \in Saving' : call'[v].snap <= call'[u].snap
    <3>1. CASE u = t
      <4>1. \A v \in Saving' : call'[v].snap <= buf
        BY <1>2, <1>4, <2>1 DEF Saving
      <4> QED
        <5>1. settled \in Nat /\ settled <= buf /\ gz' <= buf
          BY <1>4, <1>5 DEF FileInv, HistoryInv
        <5> QED
          BY <2>1, <2>2, <3>1, <4>1, <5>1
    <3>2. CASE u # t
      BY <1>2, <2>1, <2>2, <3>2 DEF FileInv, FlightInv
    <3> QED
      BY <3>1, <3>2
  <2> QED
    BY <1>1, <1>6, <2>4, <2>5 DEF FileInv, FlightInv
<1>8. CASE ~joins
  <2>1. Saving' = Saving \ {t}
    BY <1>3, <1>8
  <2>2. overtaken' = overtaken \cap Saving' /\ (Saving' # {} => settled' = settled)
    BY <2>1 DEF Remember
  <2>3. overtaken' \subseteq {u \in Saving' : call'[u].op = "sync"}
    BY <1>2, <2>1, <2>2 DEF FileInv, FlightInv
  <2>4. ASSUME NEW u \in Saving'
        PROVE  /\ settled' <= call'[u].snap
               /\ u \notin overtaken' =>
                    gz' <= call'[u].snap /\ \A v \in Saving' : call'[v].snap <= call'[u].snap
    <3>1. u \in Saving /\ call'[u] = call[u] /\ settled' = settled
      BY <1>2, <2>1, <2>2
    <3>2. u \notin overtaken' => gz' <= call[u].snap
      <4> SUFFICES ASSUME u \notin overtaken PROVE gz' <= call[u].snap
        BY <2>2
      <4>1. CASE gz' = gz
        BY <3>1, <4>1 DEF FileInv, FlightInv
      <4>2. CASE gz' # gz
        <5>1. t \in Saving /\ gz' = call[t].snap
          BY <1>0, <4>2 DEF Digest, Saving
        <5> QED
          BY <3>1, <5>1 DEF FileInv, FlightInv
      <4> QED
        BY <4>1, <4>2
    <3>3. u \notin overtaken' => \A v \in Saving' : call'[v].snap <= call[u].snap
      BY <1>2, <2>1, <2>2, <3>1 DEF FileInv, FlightInv
    <3> QED
      BY <3>1, <3>2, <3>3 DEF FileInv, FlightInv
  <2> QED
    BY <1>1, <1>6, <2>3, <2>4 DEF FileInv, FlightInv
<1> QED
  BY <1>7, <1>8

\* The order of the copies and of the file is an invariant, however syncs overlap.
LEMMA HistoryHolds == Spec => []FileInv
<1>1. PlaceInv /\ FileInv /\ [Next]_vars => FileInv'
  <2>1. ASSUME FileInv, UNCHANGED vars PROVE FileInv'
    BY <2>1 DEF vars, FileInv, Exclusive, HistoryInv, FlightInv, Saving
  <2> QED
    BY <2>1, EnterFile, StepFile DEF Next
<1> QED
  BY InitFile, <1>1, Positions, PTL DEF Spec

\* The type invariant, with its bound on how often the buffer can have changed, and
\* the mutex never held by a thread without the GIL: a thread that waits for the
\* mutex with the GIL in hand waits for nobody who needs the GIL.
THEOREM TypeCorrect == Spec => []TypeOK
<1>1. Init => Budget
  BY InitBudget
<1>2. PlaceInv /\ Budget /\ [Next]_vars => Budget'
  <2>1. ASSUME PlaceInv, Budget, UNCHANGED vars PROVE Budget'
    BY <2>1 DEF Budget, Owing, HeaderOwed, vars
  <2> QED
    BY <2>1, StepBudget, EnterBudget DEF Next
<1>3. PlaceInv /\ Budget /\ FileInv => TypeOK
  <2> SUFFICES ASSUME PlaceInv, Budget, FileInv PROVE TypeOK
    OBVIOUS
  <2>1. Cardinality(Owing) \in Nat /\ buf \in Nat /\ calls \in 0..MaxCalls
    BY FS_CardinalityType DEF Budget, PlaceInv, Types
  <2>2. buf <= 2 * MaxCalls
    BY <2>1 DEF Budget
  <2>3. buf \in Version /\ gz \in Version /\ acked \in Version
        /\ \A t \in Threads : call[t].snap \in Version
    BY <2>1, <2>2 DEF PlaceInv, Types, NotNewer, Version
  <2>4. call \in [Threads -> [op : Op \cup {"none"},
                             at : {"out", "lock", "locked", "python", "relock", "relocked",
                                   "saving", "written", "failed"},
                             snap : Version]]
    BY <2>3 DEF PlaceInv, Types
  <2>5. best \in Version /\ settled \in Version /\ overtaken \subseteq Saving
    BY <2>1, <2>2 DEF FileInv, HistoryInv, FlightInv, PlaceInv, Types, Version
  <2> QED
    BY <2>3, <2>4, <2>5 DEF PlaceInv, Types, Flags, TypeOK
<1> QED
  BY <1>1, <1>2, <1>3, Positions, HistoryHolds, PTL DEF Spec

-----------------------------------------------------------------------------
(* What the handle takes for saved.                                        *)

\* The sync that cleaned the buffer is still at work on it: its copy is the buffer,
\* and it has yet to rename it or to mark the buffer dirty again.
Cares(t) ==
    /\ call[t].op = "sync" /\ call[t].snap = buf
    /\ call[t].at \in {"saving", "failed", "relock", "relocked"}

\* A clean buffer has been in the file, or is cared for.
CleanInv == held /\ ~dirty => best = buf \/ \E t \in Threads : Cares(t)

\* A sync that has its copy finds the handle open when it is done.
SyncInv ==
    \A t \in Threads :
        call[t].op = "sync" /\ call[t].at \notin {"lock", "locked"} => held

\* A close that has the buffer has its last content.
TakeInv ==
    \A t \in Threads :
        call[t].op \in {"close", "drop"} /\ call[t].at \notin {"lock", "locked"} =>
            /\ ~held /\ closed = "no" /\ call[t].snap = buf
            /\ call[t].at = "written" => gz = buf

DoneInv == (closed # "no" => ~held) /\ CloseSaves

SaveInv == CleanInv /\ SyncInv /\ TakeInv /\ DoneInv

\* A handle that was just opened has nothing to save.
LEMMA InitSave == Init => SaveInv
BY DEF Init, SaveInv, CleanInv, SyncInv, TakeInv, DoneInv, CloseSaves, NoCall

\* A call that begins has saved nothing yet.
LEMMA EnterSave ==
  ASSUME PlaceInv, FileInv, SaveInv, NEW t \in Threads, NEW op \in Op, Enter(t, op), Remember
  PROVE  SaveInv'
<1>1. UNCHANGED <<gz, buf, held, dirty, closed>> /\ best' = best
  BY DEF Enter, Remember, FileInv, HistoryInv, PlaceInv, Types
<1>2. \A u \in Threads \ {t} : call'[u] = call[u]
  BY DEF Enter, PlaceInv, Types
<1>3. call[t] = NoCall /\ call'[t].at = "lock"
  BY DEF Enter, PlaceInv, Types
<1>4. \A u \in Threads : Cares(u) => Cares(u)'
  BY <1>1, <1>2, <1>3 DEF Cares, NoCall
<1> QED
  BY <1>1, <1>2, <1>3, <1>4 DEF SaveInv, CleanInv, SyncInv, TakeInv, DoneInv, CloseSaves

\* The writers: a change of the buffer makes it dirty, and finds it held.
LEMMA WritesSave ==
  ASSUME PlaceInv, FileInv, SaveInv, NEW t \in Threads, Remember,
         \/ WriteHdu(t) \/ ExtendHeader(t) \/ Resume(t) \/ ExtendData(t) \/ ExtendReject(t)
  PROVE  SaveInv'
<1>1. /\ gz' = gz /\ closed' = closed /\ held' = held
      /\ \/ buf' = buf /\ dirty' = dirty
         \/ held /\ buf' = buf + 1 /\ dirty'
  BY DEF WriteHdu, ExtendHeader, Resume, ExtendData, ExtendReject, Mutate
<1>2. best' = best
  BY <1>1 DEF Remember, FileInv, HistoryInv, PlaceInv, Types
<1>3. \A u \in Threads \ {t} : call'[u] = call[u]
  BY DEF WriteHdu, ExtendHeader, Resume, ExtendData, ExtendReject, Goto, Return, PlaceInv, Types
<1>4. call[t].op \in {"write", "extend"} /\ call'[t].op \in {"write", "extend", "none"}
  BY DEF WriteHdu, ExtendHeader, Resume, ExtendData, ExtendReject, At, Goto, Return, NoCall,
         PlaceInv, Types
<1>5. CleanInv'
  BY <1>1, <1>2, <1>3, <1>4 DEF SaveInv, CleanInv, Cares
<1>6. SyncInv' /\ TakeInv'
  BY <1>1, <1>3, <1>4 DEF SaveInv, SyncInv, TakeInv
<1>7. DoneInv'
  BY <1>1, <1>2 DEF SaveInv, DoneInv, CloseSaves
<1> QED
  BY <1>5, <1>6, <1>7 DEF SaveInv

\* lock_file, and the failed sync on its way to the lock.
LEMMA LocksSave ==
  ASSUME PlaceInv, FileInv, SaveInv, NEW t \in Threads, Remember, LockFile(t) \/ SyncFailed(t)
  PROVE  SaveInv'
<1>1. UNCHANGED <<gz, closed, held, buf, dirty>>
  BY DEF LockFile, SyncFailed
<1>2. best' = best
  BY <1>1 DEF Remember, FileInv, HistoryInv, PlaceInv, Types
<1>3. \A u \in Threads \ {t} : call'[u] = call[u]
  BY DEF LockFile, SyncFailed, Goto, PlaceInv, Types
<1>4. /\ call'[t].snap = call[t].snap /\ call'[t].op = call[t].op
      /\ \/ call[t].at = "lock" /\ call'[t].at = "locked"
         \/ call[t].at = "relock" /\ call'[t].at = "relocked"
         \/ call[t].at = "failed" /\ call'[t].at = "relock"
  BY DEF LockFile, SyncFailed, At, Goto, PlaceInv, Types
<1>5. CleanInv'
  BY <1>1, <1>2, <1>3, <1>4 DEF SaveInv, CleanInv, Cares
<1>6. SyncInv' /\ TakeInv'
  BY <1>1, <1>3, <1>4 DEF SaveInv, SyncInv, TakeInv
<1>7. DoneInv'
  BY <1>1, <1>2 DEF SaveInv, DoneInv, CloseSaves
<1> QED
  BY <1>5, <1>6, <1>7 DEF SaveInv

\* A sync takes its copy: from now on it cares for the buffer it has marked clean.
LEMMA SyncCopySave ==
  ASSUME PlaceInv, FileInv, SaveInv, NEW t \in Threads, Remember, SyncCopy(t)
  PROVE  SaveInv'
<1>1. UNCHANGED <<gz, closed, held, buf>> /\ At(t, "sync", "locked")
  BY DEF SyncCopy
<1>2. best' = best
  BY <1>1 DEF Remember, FileInv, HistoryInv, PlaceInv, Types
<1>3. \A u \in Threads \ {t} : call'[u] = call[u]
  BY DEF SyncCopy, Detach, Return, PlaceInv, Types
<1>4. \/ /\ held /\ call'[t].op = "sync" /\ call'[t].at = "saving" /\ call'[t].snap = buf
      \/ ~(held /\ dirty) /\ dirty' = dirty /\ call'[t].op = "none"
  BY <1>1 DEF SyncCopy, At, Detach, Return, NoCall, PlaceInv, Types
<1>5. CleanInv'
  BY <1>1, <1>2, <1>3, <1>4 DEF SaveInv, CleanInv, Cares, At
<1>6. SyncInv' /\ TakeInv'
  BY <1>1, <1>3, <1>4 DEF SaveInv, SyncInv, TakeInv, At
<1>7. DoneInv'
  BY <1>1, <1>2 DEF SaveInv, DoneInv, CloseSaves
<1> QED
  BY <1>5, <1>6, <1>7 DEF SaveInv

\* A close or a finalizer takes the buffer: no sync is running, so that a clean buffer
\* has been in the file.
LEMMA TakeSave ==
  ASSUME PlaceInv, FileInv, SaveInv, NEW t \in Threads, Remember, CloseTake(t) \/ DropTake(t)
  PROVE  SaveInv'
<1>1. /\ UNCHANGED <<gz, buf, dirty>> /\ held' = FALSE
      /\ call[t].op \in {"close", "drop"} /\ call[t].at = "locked"
  BY DEF CloseTake, DropTake, At
<1>2. best' = best
  BY <1>1 DEF Remember, FileInv, HistoryInv, PlaceInv, Types
<1>3. \A u \in Threads \ {t} : call'[u] = call[u] /\ call[u].op \notin Saver
  BY <1>1 DEF CloseTake, DropTake, Detach, Return, PlaceInv, Types, FileInv, Exclusive
<1>4. \/ /\ held /\ closed' = closed /\ call'[t].op = call[t].op
         /\ call'[t].at = "saving" /\ call'[t].snap = buf
      \/ call'[t].op = "none" /\ closed' = Unsaved
  <2>1. CASE CloseTake(t)
    BY <2>1 DEF CloseTake, At, Detach, Return, NoCall, PlaceInv, Types
  <2>2. CASE DropTake(t)
    BY <2>2 DEF DropTake, At, Return, NoCall, PlaceInv, Types
  <2> QED
    BY <2>1, <2>2
<1>5. CleanInv'
  BY <1>1 DEF CleanInv
<1>6. SyncInv' /\ TakeInv'
  BY <1>1, <1>3, <1>4 DEF SaveInv, SyncInv, TakeInv, DoneInv, Saver
<1>7. held /\ ~dirty => best = buf
  BY <1>1, <1>3 DEF SaveInv, CleanInv, Cares, Saver
<1>8. DoneInv'
  <2>1. CASE held /\ closed' = closed
    BY <1>1, <2>1 DEF SaveInv, DoneInv, CloseSaves
  <2>2. CASE closed' = Unsaved
    BY <1>1, <1>2, <1>7, <2>2 DEF SaveInv, DoneInv, CloseSaves, Unsaved
  <2> QED
    BY <1>4, <2>1, <2>2
<1> QED
  BY <1>5, <1>6, <1>8 DEF SaveInv

\* The rename: what was cared for is in the file.
LEMMA BackSave ==
  ASSUME PlaceInv, FileInv, SaveInv, NEW t \in Threads, Remember, WriteBack(t)
  PROVE  SaveInv'
<1>1. /\ UNCHANGED <<buf, dirty, held, closed>> /\ gz' = call[t].snap
      /\ call[t].at = "saving"
  BY DEF WriteBack
<1>2. /\ \A u \in Threads \ {t} : call'[u] = call[u]
      /\ call'[t].op = call[t].op /\ call'[t].snap = call[t].snap /\ call'[t].at = "written"
  BY DEF WriteBack, Goto, PlaceInv, Types
<1>3. gz' \in Nat /\ best \in Nat /\ buf \in Nat /\ best <= buf /\ gz' <= buf
  BY <1>1 DEF PlaceInv, Types, NotNewer, FileInv, HistoryInv
<1>4. (best = buf => best' = buf) /\ (gz' = buf => best' = buf)
  BY <1>3 DEF Remember
<1>5. CleanInv'
  <2> SUFFICES ASSUME held, ~dirty PROVE best' = buf \/ \E u \in Threads : Cares(u)'
    BY <1>1 DEF CleanInv
  <2>1. CASE best = buf
    BY <1>4, <2>1
  <2>2. CASE Cares(t)
    BY <1>1, <1>4, <2>2 DEF Cares
  <2>3. ASSUME NEW u \in Threads \ {t}, Cares(u) PROVE Cares(u)'
    BY <1>1, <1>2, <2>3 DEF Cares
  <2> QED
    BY <2>1, <2>2, <2>3 DEF SaveInv, CleanInv
<1>6. call[t].op \in Saver
  BY <1>1 DEF PlaceInv, Placed, Along, NoCall, Saver
<1>7. closed = "no"
  BY <1>1, <1>6 DEF SaveInv, SyncInv, TakeInv, DoneInv, Saver
<1>8. SyncInv'
  BY <1>1, <1>2 DEF SaveInv, SyncInv
<1>9. TakeInv'
  <2> SUFFICES ASSUME NEW u \in Threads, call'[u].op \in {"close", "drop"},
                      call'[u].at \notin {"lock", "locked"}
               PROVE  /\ ~held /\ closed = "no" /\ call'[u].snap = buf
                      /\ call'[u].at = "written" => gz' = buf
    BY <1>1 DEF TakeInv
  <2>1. u = t
    BY <1>2, <1>6 DEF FileInv, Exclusive
  <2> QED
    BY <1>1, <1>2, <2>1 DEF SaveInv, TakeInv
<1>10. DoneInv'
  BY <1>1, <1>7 DEF DoneInv, CloseSaves
<1> QED
  BY <1>5, <1>8, <1>9, <1>10 DEF SaveInv

\* The ways on from there.
LEMMA EndsSave ==
  ASSUME PlaceInv, FileInv, SaveInv, NEW t \in Threads, Remember,
         \/ FailWriteBack(t) \/ Written(t) \/ SyncRedirty(t) \/ CloseFailed(t)
  PROVE  SaveInv'
<1>1. UNCHANGED <<gz, buf, held>> /\ \A u \in Threads \ {t} : call'[u] = call[u]
  BY DEF FailWriteBack, Written, SyncRedirty, CloseFailed, Goto, Return, PlaceInv, Types
<1>2. best' = best
  BY <1>1 DEF Remember, FileInv, HistoryInv, PlaceInv, Types
<1>3. call[t].op \in Saver
  BY DEF FailWriteBack, Written, SyncRedirty, CloseFailed, At, PlaceInv, Placed, Along, NoCall,
         Saver
<1>4. CASE FailWriteBack(t)
  <2>1. /\ UNCHANGED <<dirty, closed>> /\ call[t].at = "saving" /\ call'[t].at = "failed"
        /\ call'[t].op = call[t].op /\ call'[t].snap = call[t].snap
    BY <1>4 DEF FailWriteBack, Goto, PlaceInv, Types
  <2>2. \A u \in Threads : Cares(u) => Cares(u)'
    BY <1>1, <2>1 DEF Cares
  <2> QED
    BY <1>1, <1>2, <2>1, <2>2 DEF SaveInv, CleanInv, SyncInv, TakeInv, DoneInv, CloseSaves
<1>5. CASE Written(t)
  <2>1. /\ dirty' = dirty /\ call[t].at = "written" /\ call'[t].op = "none"
        /\ closed' = IF call[t].op = "sync" THEN closed ELSE "saved"
    BY <1>5 DEF Written, Return, NoCall, PlaceInv, Types
  <2>2. \A u \in Threads : Cares(u) => Cares(u)'
    BY <1>1, <2>1 DEF Cares
  <2>3. DoneInv'
    BY <1>1, <1>2, <1>3, <2>1 DEF SaveInv, TakeInv, DoneInv, CloseSaves, Saver
  <2>4. CleanInv' /\ SyncInv'
    BY <1>1, <1>2, <2>1, <2>2 DEF SaveInv, CleanInv, SyncInv
  <2>5. TakeInv'
    BY <1>1, <1>3, <2>1 DEF SaveInv, TakeInv, FileInv, Exclusive, Saver
  <2> QED
    BY <2>3, <2>4, <2>5 DEF SaveInv
<1>6. CASE SyncRedirty(t)
  <2>1. call[t].op = "sync" /\ call[t].at = "relocked" /\ call'[t].op = "none"
        /\ closed' = closed /\ (held => dirty')
    BY <1>6 DEF SyncRedirty, At, Return, NoCall, PlaceInv, Types
  <2> QED
    BY <1>1, <1>2, <2>1 DEF SaveInv, CleanInv, SyncInv, TakeInv, DoneInv, CloseSaves
<1>7. CASE CloseFailed(t)
  <2>1. /\ dirty' = dirty /\ call[t].op \in {"close", "drop"} /\ call[t].at = "failed"
        /\ call'[t].op = "none" /\ closed' = "failed"
    BY <1>7 DEF CloseFailed, Return, NoCall, PlaceInv, Types
  <2>2. ~held
    BY <2>1 DEF SaveInv, TakeInv
  <2>3. TakeInv'
    BY <1>1, <1>3, <2>1 DEF SaveInv, TakeInv, FileInv, Exclusive, Saver
  <2> QED
    BY <1>1, <2>1, <2>2, <2>3 DEF SaveInv, CleanInv, SyncInv, DoneInv, CloseSaves
<1> QED
  BY <1>4, <1>5, <1>6, <1>7

\* What the running saves know of the buffer and the file is an invariant.
LEMMA Saves == Spec => []SaveInv
<1>1. PlaceInv /\ FileInv /\ SaveInv /\ [Next]_vars => SaveInv'
  <2>1. ASSUME SaveInv, UNCHANGED vars PROVE SaveInv'
    BY <2>1 DEF vars, SaveInv, CleanInv, Cares, SyncInv, TakeInv, DoneInv, CloseSaves
  <2>2. ASSUME PlaceInv, FileInv, SaveInv, NEW t \in Threads, Step(t), Remember PROVE SaveInv'
    BY <2>2, WritesSave, LocksSave, SyncCopySave, TakeSave, BackSave, EndsSave DEF Step
  <2> QED
    BY <2>1, <2>2, EnterSave DEF Next
<1> QED
  BY InitSave, <1>1, Positions, HistoryHolds, PTL DEF Spec

\* A clean buffer has been in the .gz file once nothing is on its way: no write that
\* lands during a sync, no failed sync and no overlap of syncs leaves a change that
\* the next save would skip.  For any number of threads that write, extend, sync and
\* close.
THEOREM CleanIsSaved == Spec => []CleanMeansSaved
<1>1. SaveInv => CleanMeansSaved
  BY DEF SaveInv, CleanInv, Cares, CleanMeansSaved, SavesRunning
<1> QED
  BY <1>1, Saves, PTL

\* A close or a finalizer that wrote left the last content in the file, and one that
\* found a clean buffer found a content that had been saved.
THEOREM ClosedIsSaved == Spec => []CloseSaves
<1>1. SaveInv => CloseSaves
  BY DEF SaveInv, DoneInv
<1> QED
  BY <1>1, Saves, PTL

\* For any number of threads and any overlap of their calls: the .gz file goes back
\* only when a sync renames a copy that another sync has overtaken, never once a close
\* has the buffer, and never behind what it held when last no save was on its way.
THEOREM FileOnlyAdvances == Spec => NeverOlder
<1>1. ASSUME PlaceInv, FileInv, SaveInv, NEW t \in Threads, Step(t) PROVE Forth
  <2>1. CASE gz' = gz
    BY <2>1, <1>1 DEF Forth, PlaceInv, Types, FileInv, HistoryInv
  <2>2. CASE gz' # gz
    <3>1. t \in Saving /\ gz' = call[t].snap /\ call[t].at = "saving"
      BY <1>1, <2>2, StepDigest DEF Digest, Saving
    <3>2. gz' >= settled /\ (gz' < gz => t \in overtaken)
      BY <1>1, <3>1 DEF FileInv, HistoryInv, FlightInv, PlaceInv, Types
    <3>3. t \in overtaken => call[t].op = "sync" /\ held
      BY <1>1, <3>1 DEF FileInv, FlightInv, SaveInv, SyncInv
    <3> QED
      BY <3>1, <3>2, <3>3 DEF Forth, At
  <2> QED
    BY <2>1, <2>2
<1>2. ASSUME PlaceInv, FileInv, NEW t \in Threads, NEW op \in Op, Enter(t, op) PROVE Forth
  BY <1>2 DEF Forth, Enter, PlaceInv, Types, FileInv, HistoryInv
<1>3. PlaceInv /\ FileInv /\ SaveInv /\ [Next]_vars => [Forth]_vars
  BY <1>1, <1>2 DEF Next
<1> QED
  BY <1>3, Saves, HistoryHolds, Positions, PTL DEF Spec, NeverOlder
=============================================================================
