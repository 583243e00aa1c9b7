----------------------------- MODULE GzHandle -----------------------------
(***************************************************************************)
(* One FITS object on a .gz path opened r+ or w+ (src/fits.rs): the file   *)
(* lives in a memory buffer, and sync, close and the finalizer compress it *)
(* back.  Python threads share the object.  A thread runs only while it    *)
(* holds the GIL; it waits for the file mutex with the GIL in hand; it     *)
(* lets the GIL go where it runs Python code (numpy.ma.isMaskedArray and   *)
(* filled in the middle of extend) and while it compresses.                *)
(***************************************************************************)
EXTENDS Integers, FiniteSets

CONSTANTS
    Threads,    \* the Python threads that share the object
    Syncers,    \* those of them that call sync
    NoThread,   \* not a thread
    MaxCalls    \* bound on the calls that are made

ASSUME ThreadsAssumption == Syncers \subseteq Threads /\ NoThread \notin Threads
ASSUME CallsAssumption == MaxCalls \in Nat

VARIABLES
    gil,        \* the thread that holds the GIL
    lock,       \* the thread that holds the file mutex
    buf,        \* MemStore: how often its bytes were changed
    dirty,      \* MemStore.dirty
    held,       \* the Storage has not been taken out of the handle
    alive,      \* the FITS object has not been garbage-collected
    tainted,    \* the TaintFlag
    gz,         \* which of these contents the .gz path holds
    call,       \* the call each thread is in, where, and its copy of the buffer
    calls,      \* calls made so far
    acked,      \* history: the newest version a sync or close reported as written
    closed,     \* history: what the close or the finalizer came to
    best,       \* history: the newest content the .gz path ever held
    settled,    \* history: what it held when last no copy was on its way to it
    overtaken   \* history: the threads whose copy is on its way, and is older than
                \* one that another thread has taken since

vars == <<gil, lock, buf, dirty, held, alive, tainted, gz, call, calls, acked, closed,
          best, settled, overtaken>>

-----------------------------------------------------------------------------

NoCall == [op |-> "none", at |-> "out", snap |-> 0]

At(t, op, at) == call[t].op = op /\ call[t].at = at
Goto(t, at) == call' = [call EXCEPT ![t].at = at]

\* PyO3 borrows: sync takes &self, close takes &mut self.
SyncRuns(t) == \E u \in Threads \ {t} : call[u].op = "sync"
CloseRuns(t) == \E u \in Threads \ {t} : call[u].op \in {"close", "drop"}

\* The call returns to Python.
Return(t) == gil' = NoThread /\ call' = [call EXCEPT ![t] = NoCall]

\* Mutant: close asks for a shared borrow.
AdmitsSharedClose(t, op) ==
    CASE op \in {"write", "extend"} -> ~tainted
      [] op = "sync" -> alive /\ t \in Syncers /\ ~CloseRuns(t) /\ ~tainted
      [] op = "close" -> alive /\ ~CloseRuns(t)
      [] op = "drop" -> alive /\ ~CloseRuns(t) /\ ~SyncRuns(t)

\* What lets the call past its first checks; otherwise it raises and nothing
\* changes.  The finalizer runs when no call can hold the object any more.
Admits(t, op) ==
    CASE op \in {"write", "extend"} -> ~tainted
      [] op = "sync" -> alive /\ t \in Syncers /\ ~CloseRuns(t) /\ ~tainted
      [] op = "close" -> alive /\ ~CloseRuns(t) /\ ~SyncRuns(t)
      [] op = "drop" -> alive /\ ~CloseRuns(t) /\ ~SyncRuns(t)

Enter(t, op) ==
    /\ gil = NoThread /\ call[t] = NoCall /\ calls < MaxCalls
    /\ Admits(t, op)
    /\ gil' = t /\ calls' = calls + 1 /\ alive' = (alive /\ op # "drop")
    /\ call' = [call EXCEPT ![t] = [op |-> op, at |-> "lock", snap |-> 0]]
    /\ UNCHANGED <<lock, buf, dirty, held, tainted, gz, acked, closed>>

\* lock_file: the GIL is not released while waiting.
LockFile(t) ==
    /\ gil = t /\ lock = NoThread
    /\ call[t].at \in {"lock", "relock"}
    /\ lock' = t
    /\ Goto(t, IF call[t].at = "lock" THEN "locked" ELSE "relocked")
    /\ UNCHANGED <<gil, buf, dirty, held, alive, tainted, gz, calls, acked, closed>>

\* Any write through Storage.
Mutate == buf' = buf + 1 /\ dirty' = TRUE

\* An HDU write whose Python part is over when it takes the lock.
WriteHdu(t) ==
    /\ lock = t /\ At(t, "write", "locked")
    /\ IF held THEN Mutate ELSE UNCHANGED <<buf, dirty>>
    /\ lock' = NoThread /\ Return(t)
    /\ UNCHANGED <<held, alive, tainted, gz, calls, acked, closed>>

\* ImageHDU.extend up to the new header; then numpy runs.
ExtendHeader(t) ==
    /\ lock = t /\ At(t, "extend", "locked")
    /\ lock' = NoThread
    /\ IF held
       THEN Mutate /\ gil' = NoThread /\ Goto(t, "python")
       ELSE UNCHANGED <<buf, dirty>> /\ Return(t)
    /\ UNCHANGED <<held, alive, tainted, gz, calls, acked, closed>>

Resume(t) ==
    /\ gil = NoThread /\ At(t, "extend", "python")
    /\ gil' = t /\ Goto(t, "relock")
    /\ UNCHANGED <<lock, buf, dirty, held, alive, tainted, gz, calls, acked, closed>>

\* The pixels; a file closed in the meantime is an error, and taints.
ExtendData(t) ==
    /\ lock = t /\ At(t, "extend", "relocked")
    /\ IF held
       THEN Mutate /\ UNCHANGED tainted
       ELSE tainted' = TRUE /\ UNCHANGED <<buf, dirty>>
    /\ lock' = NoThread /\ Return(t)
    /\ UNCHANGED <<held, alive, gz, calls, acked, closed>>

\* The array is refused after the header was written.
ExtendReject(t) ==
    /\ gil = t /\ At(t, "extend", "relock")
    /\ tainted' = TRUE
    /\ Return(t)
    /\ UNCHANGED <<lock, buf, dirty, held, alive, gz, calls, acked, closed>>

-----------------------------------------------------------------------------
(* sync, close and Drop.                                                   *)

\* The buffer is copied and the GIL released for the compression.
Detach(t) ==
    /\ lock' = NoThread /\ gil' = NoThread
    /\ call' = [call EXCEPT ![t].at = "saving", ![t].snap = buf]

\* sync: copy the dirty buffer and clear the flag.
SyncCopy(t) ==
    /\ lock = t /\ At(t, "sync", "locked")
    /\ IF held /\ dirty
       THEN Detach(t) /\ dirty' = FALSE
       ELSE lock' = NoThread /\ Return(t) /\ UNCHANGED dirty
    /\ UNCHANGED <<buf, held, alive, tainted, gz, calls, acked, closed>>

\* What close comes to when there is nothing to write, or a tainted buffer.
Unsaved == IF ~held THEN closed ELSE IF dirty THEN "refused" ELSE "clean"

\* Mutant: the mutex is kept while the GIL is released.
CloseTakeLocked(t) ==
    /\ lock = t /\ At(t, "close", "locked")
    /\ held' = FALSE
    /\ IF held /\ dirty /\ ~tainted
       THEN /\ lock' = t /\ gil' = NoThread
            /\ call' = [call EXCEPT ![t].at = "saving", ![t].snap = buf]
            /\ UNCHANGED closed
       ELSE lock' = NoThread /\ Return(t) /\ closed' = Unsaved
    /\ UNCHANGED <<buf, dirty, alive, tainted, gz, calls, acked>>

\* Mutant: the buffer is copied and stays in the handle.
CloseCopies(t) ==
    /\ lock = t /\ At(t, "close", "locked")
    /\ IF held /\ dirty /\ ~tainted
       THEN Detach(t) /\ UNCHANGED closed
       ELSE lock' = NoThread /\ Return(t) /\ closed' = Unsaved
    /\ UNCHANGED <<buf, dirty, held, alive, tainted, gz, calls, acked>>

\* close: the storage is taken out, whatever becomes of it.
CloseTake(t) ==
    /\ lock = t /\ At(t, "close", "locked")
    /\ held' = FALSE
    /\ IF held /\ dirty /\ ~tainted
       THEN Detach(t) /\ UNCHANGED closed
       ELSE lock' = NoThread /\ Return(t) /\ closed' = Unsaved
    /\ UNCHANGED <<buf, dirty, alive, tainted, gz, calls, acked>>

\* Drop: as close, with the GIL kept and every error swallowed.
DropTake(t) ==
    /\ lock = t /\ At(t, "drop", "locked")
    /\ held' = FALSE /\ lock' = NoThread
    /\ IF held /\ dirty /\ ~tainted
       THEN /\ call' = [call EXCEPT ![t].at = "saving", ![t].snap = buf]
            /\ UNCHANGED <<gil, closed>>
       ELSE Return(t) /\ closed' = Unsaved
    /\ UNCHANGED <<buf, dirty, alive, tainted, gz, calls, acked>>

\* gzip_write_back: a temporary file, renamed over the target when complete.
WriteBack(t) ==
    /\ call[t].at = "saving"
    /\ gz' = call[t].snap
    /\ Goto(t, "written")
    /\ UNCHANGED <<gil, lock, buf, dirty, held, alive, tainted, calls, acked, closed>>

\* Anything before the rename fails: the target is as it was.
FailWriteBack(t) ==
    /\ call[t].at = "saving"
    /\ Goto(t, "failed")
    /\ UNCHANGED <<gil, lock, buf, dirty, held, alive, tainted, gz, calls, acked, closed>>

Reattached(t) == gil = t \/ (gil = NoThread /\ call[t].op # "drop")

\* The write-back reported success: the GIL is taken again and the call returns.
Written(t) ==
    /\ call[t].at = "written" /\ Reattached(t)
    /\ acked' = IF call[t].snap > acked THEN call[t].snap ELSE acked
    /\ closed' = IF call[t].op = "sync" THEN closed ELSE "saved"
    /\ Return(t)
    /\ UNCHANGED <<lock, buf, dirty, held, alive, tainted, gz, calls>>

\* A failed sync takes the lock once more.
SyncFailed(t) ==
    /\ At(t, "sync", "failed") /\ gil = NoThread
    /\ gil' = t /\ Goto(t, "relock")
    /\ UNCHANGED <<lock, buf, dirty, held, alive, tainted, gz, calls, acked, closed>>

\* Mutant: the flag stays cleared.
SyncForgets(t) ==
    /\ lock = t /\ At(t, "sync", "relocked")
    /\ lock' = NoThread /\ Return(t)
    /\ UNCHANGED <<buf, dirty, held, alive, tainted, gz, calls, acked, closed>>

\* The mutation is still pending.
SyncRedirty(t) ==
    /\ lock = t /\ At(t, "sync", "relocked")
    /\ dirty' = (held \/ dirty)
    /\ lock' = NoThread /\ Return(t)
    /\ UNCHANGED <<buf, held, alive, tainted, gz, calls, acked, closed>>

CloseFailed(t) ==
    /\ call[t].op \in {"close", "drop"} /\ call[t].at = "failed" /\ Reattached(t)
    /\ closed' = "failed"
    /\ Return(t)
    /\ UNCHANGED <<lock, buf, dirty, held, alive, tainted, gz, calls, acked>>

-----------------------------------------------------------------------------

Init ==
    /\ gil = NoThread /\ lock = NoThread
    /\ buf = 0 /\ dirty = FALSE /\ held = TRUE /\ alive = TRUE /\ tainted = FALSE
    /\ gz = 0
    /\ call = [t \in Threads |-> NoCall] /\ calls = 0
    /\ acked = 0 /\ closed = "no"
    /\ best = 0 /\ settled = 0 /\ overtaken = {}

Step(t) ==
    \/ LockFile(t) \/ WriteHdu(t)
    \/ ExtendHeader(t) \/ Resume(t) \/ ExtendData(t) \/ ExtendReject(t)
    \/ SyncCopy(t) \/ CloseTake(t) \/ DropTake(t)
    \/ WriteBack(t) \/ FailWriteBack(t) \/ Written(t)
    \/ SyncFailed(t) \/ SyncRedirty(t) \/ CloseFailed(t)

Op == {"write", "extend", "sync", "close", "drop"}

\* The threads that have copied the buffer and not yet renamed.
Saving == {t \in Threads : call[t].at = "saving"}

\* The history of the copies and of the file.
Remember ==
    /\ best' = IF gz' > best THEN gz' ELSE best
    /\ settled' = IF Saving' = {} THEN gz' ELSE settled
    /\ overtaken' = IF Saving' \subseteq Saving THEN overtaken \cap Saving' ELSE Saving

Next == (\E t \in Threads : Step(t) \/ \E op \in Op : Enter(t, op)) /\ Remember

\* A thread that is in a call goes on with it when it can: the scheduler runs it and
\* the interpreter hands the GIL on.  No thread has to make a call.
Spec == Init /\ [][Next]_vars /\ \A t \in Threads : WF_vars(Step(t) /\ Remember)

-----------------------------------------------------------------------------
(* Properties.                                                             *)

\* An extend changes the buffer twice.
Version == 0..(2 * MaxCalls)

TypeOK ==
    /\ gil \in Threads \cup {NoThread}
    /\ lock \in {NoThread, gil}    \* nobody keeps the mutex without the GIL
    /\ buf \in Version /\ gz \in Version
    /\ dirty \in BOOLEAN /\ held \in BOOLEAN /\ alive \in BOOLEAN /\ tainted \in BOOLEAN
    /\ call \in [Threads -> [op : Op \cup {"none"},
                             at : {"out", "lock", "locked", "python", "relock", "relocked",
                                   "saving", "written", "failed"},
                             snap : Version]]
    /\ calls \in 0..MaxCalls /\ acked \in Version
    /\ closed \in {"no", "clean", "saved", "refused", "failed"}
    /\ best \in Version /\ settled \in Version /\ overtaken \subseteq Saving

SavesRunning == \E t \in Threads : call[t].op \in {"sync", "close", "drop"}

\* With nothing on its way to disk, a clean buffer has been in the .gz file: no write
\* that lands during a sync, no failed sync and no overlap of syncs leaves a change
\* that the next sync or close would take for saved and that never was.
CleanMeansSaved == held /\ ~dirty /\ ~SavesRunning => best = buf

\* The step does not take the .gz file back, unless it renames the copy of a sync
\* that another one has overtaken; nor behind what the file held before their overlap.
Forth ==
    /\ gz' >= settled
    /\ gz' < gz => held /\ \E t \in overtaken : At(t, "sync", "saving")

\* The .gz file goes back to an older content only when a sync renames its copy
\* after another sync took a newer one, which sync(&self) does not prevent.  Nothing
\* takes it back once a close has the buffer, and however many syncs overlap the file
\* does not fall behind what it held before the first of them.
NeverOlder == [][Forth]_vars

\* A close (or finalizer) that wrote has left the last content of the buffer in the
\* file, although other threads were writing until the buffer was taken away; one
\* that found nothing to write has found a content that had been saved.
CloseSaves ==
    /\ closed = "saved" => gz = buf
    /\ closed = "clean" => best = buf

\* Every call returns: nobody waits for the mutex with the GIL in hand while its
\* owner waits for the GIL.
CallsEnd == \A t \in Threads : call[t] # NoCall ~> call[t] = NoCall

-----------------------------------------------------------------------------
(* What the documentation says and the code does not do.                   *)

\* "sync recompresses the current in-memory buffer, writes it atomically to the .gz
\* path, and fsyncs it -- so the on-disk file is durable mid-session" (FITS.sync):
\* whatever other threads do, sync included.
SyncIsDurable == ~SavesRunning => gz >= acked
=============================================================================
