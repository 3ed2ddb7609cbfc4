--------------------------- MODULE SharedConnection ---------------------------
(***************************************************************************)
(* Database (db/database.py): the tasks of the event loop share one        *)
(* autocommit SQLite connection.  transaction() gives its body a private   *)
(* BEGIN IMMEDIATE .. COMMIT under an asyncio.Lock, a legacy execute() one *)
(* statement under the same lock.  aiosqlite runs the statements on a      *)
(* worker thread, in the order they were queued, whether or not the task   *)
(* that queued them still waits.                                           *)
(*                                                                         *)
(* Each task makes one call.  A task may be cancelled at any await.        *)
(***************************************************************************)
EXTENDS Integers, Sequences, FiniteSets

CONSTANTS
    Batches,         \* tasks that call transaction()
    Singles,         \* tasks that call execute(), then commit()
    BodySize,        \* statements in a transaction's body
    MaxCancels,      \* bound: cancellations
    MaxFaults,       \* bound: statements that raise
    RollbackFaults,  \* whether a ROLLBACK may be one of them
    NoTask           \* no task

ASSUME SharedConnectionAssumption ==
    /\ Batches \cap Singles = {}
    /\ BodySize \in Nat \ {0}
    /\ MaxCancels \in Nat
    /\ MaxFaults \in Nat
    /\ RollbackFaults \in BOOLEAN
    /\ NoTask \notin Batches \cup Singles

VARIABLES
    pc,       \* the await each task is suspended at
    sent,     \* statements of its body that are done
    fate,     \* how its call ends
    waitq,    \* _txn_lock: the tasks that wait, in order
    holder,   \* _txn_lock: the task that holds it
    waiters,  \* _write_waiters
    owner,    \* _txn_task
    jobs,     \* aiosqlite's queue
    reply,    \* the answer that waits for each task
    open,     \* in_transaction
    work,     \* statements done in the open transaction
    disk,     \* statements that are durable
    cancels,  \* cancellations so far
    faults    \* faults so far

task == <<pc, sent, fate>>
lock == <<waitq, holder, waiters>>
sqlite == <<open, work, disk>>
vars == <<task, lock, owner, jobs, reply, sqlite, cancels, faults>>

-----------------------------------------------------------------------------
Tasks == Batches \cup Singles

Size(t) == IF t \in Batches THEN BodySize ELSE 1
Stmts(t) == {t} \X (1..Size(t))

Stmt == Tasks \X (1..(BodySize + 1))

Commands == {"begin", "write", "commit", "rollback"}
Job == [cmd : Commands, task : Tasks, n : 1..(BodySize + 1), heard : BOOLEAN]

\* A "bled" COMMIT found no transaction active.
Replies == {"none", "ok", "error", "bled"}

Places == {"idle", "queued", "ready", "orphan", "begin", "abandon", "body", "write",
           "commit", "rollback", "shield", "legacy", "settle", "done"}

\* The task queues a statement and awaits its answer.
JobOf(t, cmd) == [cmd |-> cmd, task |-> t, n |-> sent[t] + 1, heard |-> TRUE]
Send(t, cmd) ==
    /\ jobs' = Append(jobs, JobOf(t, cmd))
    /\ reply' = [reply EXCEPT ![t] = "none"]

\* The task stops waiting for what it has queued, which runs all the same.
Unheard(t) == [i \in DOMAIN jobs |-> IF jobs[i].task = t
                                     THEN [jobs[i] EXCEPT !.heard = FALSE] ELSE jobs[i]]
Forsake(t) ==
    /\ jobs' = Unheard(t)
    /\ reply' = [reply EXCEPT ![t] = "none"]
Resend(t, cmd) ==
    /\ jobs' = Append(Unheard(t), JobOf(t, cmd))
    /\ reply' = [reply EXCEPT ![t] = "none"]

Goto(t, place) == pc' = [pc EXCEPT ![t] = place]
Ends(t, how) == fate' = [fate EXCEPT ![t] = IF @ = "cancelled" THEN @ ELSE how]

\* The queue without one that waits in it.
Without(q, t) ==
    LET i == CHOOSE i \in DOMAIN q : q[i] = t IN
    [j \in 1..(Len(q) - 1) |-> IF j < i THEN q[j] ELSE q[j + 1]]

\* The end of the slot: the lock is released with the call.
Leaves(t, how, place) ==
    /\ Goto(t, place)
    /\ Ends(t, how)
    /\ holder' = NoTask

-----------------------------------------------------------------------------
(* _serialized_slot: the FIFO lock, with a count of those who wait.        *)

Arrives(t) ==
    /\ pc[t] = "idle"
    /\ Goto(t, "queued")
    /\ waitq' = Append(waitq, t)
    /\ waiters' = waiters + 1
    /\ UNCHANGED <<sent, fate, holder, owner, jobs, reply, sqlite, cancels, faults>>

Acquires(t) ==
    /\ holder = NoTask
    /\ waitq # <<>>
    /\ t = Head(waitq)
    /\ waitq' = Tail(waitq)
    /\ holder' = t
    /\ waiters' = waiters - 1
    /\ Goto(t, "ready")
    /\ UNCHANGED <<sent, fate, owner, jobs, reply, sqlite, cancels, faults>>

-----------------------------------------------------------------------------
(* transaction().                                                          *)

\* The tripwire: the connection must not be in a transaction, ...
Begins(t) ==
    /\ t \in Batches
    /\ pc[t] = "ready"
    /\ ~open
    /\ Send(t, "begin")
    /\ Goto(t, "begin")
    /\ UNCHANGED <<sent, fate, lock, owner, sqlite, cancels, faults>>

\* ... and if it still is after 15 seconds, whoever left it so is rolled back, ...
TripwireExpires(t) ==
    /\ t \in Batches
    /\ pc[t] = "ready"
    /\ open
    /\ owner = NoTask
    /\ Send(t, "rollback")
    /\ Goto(t, "orphan")
    /\ UNCHANGED <<sent, fate, lock, owner, sqlite, cancels, faults>>

\* ... whatever comes of that.
OrphanAnswered(t) ==
    /\ pc[t] = "orphan"
    /\ reply[t] # "none"
    /\ Send(t, "begin")
    /\ Goto(t, "begin")
    /\ UNCHANGED <<sent, fate, lock, owner, sqlite, cancels, faults>>

BeginSucceeds(t) ==
    /\ pc[t] = "begin"
    /\ reply[t] = "ok"
    /\ owner' = t
    /\ Goto(t, "body")
    /\ UNCHANGED <<sent, fate, lock, jobs, reply, sqlite, cancels, faults>>

BeginFails(t) ==
    /\ pc[t] = "begin"
    /\ reply[t] = "error"
    /\ Send(t, "rollback")
    /\ Goto(t, "abandon")
    /\ Ends(t, "error")
    /\ UNCHANGED <<sent, lock, owner, sqlite, cancels, faults>>

Abandons(t) ==
    /\ pc[t] = "abandon"
    /\ reply[t] # "none"
    /\ Leaves(t, "error", "done")
    /\ UNCHANGED <<sent, waitq, waiters, owner, jobs, reply, sqlite, cancels, faults>>

BodyExecutes(t) ==
    /\ pc[t] = "body"
    /\ sent[t] < BodySize
    /\ Send(t, "write")
    /\ Goto(t, "write")
    /\ UNCHANGED <<sent, fate, lock, owner, sqlite, cancels, faults>>

StatementDone(t) ==
    /\ pc[t] = "write"
    /\ reply[t] = "ok"
    /\ sent' = [sent EXCEPT ![t] = @ + 1]
    /\ Goto(t, "body")
    /\ UNCHANGED <<fate, lock, owner, jobs, reply, sqlite, cancels, faults>>

BodyEnds(t) ==
    /\ pc[t] = "body"
    /\ sent[t] = BodySize
    /\ Send(t, "commit")
    /\ Goto(t, "commit")
    /\ UNCHANGED <<sent, fate, lock, owner, sqlite, cancels, faults>>

\* finally: ownership is cleared, and a transaction that is still open is rolled
\* back before the lock is released.
Finally(t, how) ==
    /\ owner' = NoTask
    /\ IF open
       THEN /\ Resend(t, "rollback")
            /\ Goto(t, "rollback")
            /\ Ends(t, how)
            /\ holder' = holder
       ELSE /\ Leaves(t, how, "done")
            /\ Forsake(t)

\* The body raises by itself, or because a statement of it did.
BodyRaises(t) ==
    /\ \/ pc[t] = "body"
       \/ pc[t] = "write" /\ reply[t] = "error"
    /\ Finally(t, "error")
    /\ UNCHANGED <<sent, waitq, waiters, sqlite, cancels, faults>>

\* "no transaction is active" is taken for success.
CommitAnswered(t) ==
    /\ pc[t] = "commit"
    /\ reply[t] # "none"
    /\ Finally(t, IF reply[t] \in {"ok", "bled"} THEN "ok" ELSE "error")
    /\ UNCHANGED <<sent, waitq, waiters, sqlite, cancels, faults>>

RollbackAnswered(t) ==
    /\ pc[t] \in {"rollback", "shield"}
    /\ reply[t] # "none"
    /\ Leaves(t, "error", "done")
    /\ UNCHANGED <<sent, waitq, waiters, owner, jobs, reply, sqlite, cancels, faults>>

-----------------------------------------------------------------------------
(* execute() outside a transaction, and the commit() that follows it.      *)

LegacyExecutes(t) ==
    /\ t \in Singles
    /\ pc[t] = "ready"
    /\ Send(t, "write")
    /\ Goto(t, "legacy")
    /\ UNCHANGED <<sent, fate, lock, owner, sqlite, cancels, faults>>

LegacyAnswered(t) ==
    /\ pc[t] = "legacy"
    /\ reply[t] # "none"
    /\ Leaves(t, reply[t], "settle")
    /\ UNCHANGED <<sent, waitq, waiters, owner, jobs, reply, sqlite, cancels, faults>>

\* Mutant: it commits whatever the connection is doing.
CommitSends_Commit(t) == <<[JobOf(t, "commit") EXCEPT !.heard = FALSE]>>

\* commit() and rollback() are deliberate no-ops: neither sends anything.
CommitSends(t) == <<>>

LegacyCommits(t) ==
    /\ pc[t] = "settle"
    /\ jobs' = jobs \o CommitSends(t)
    /\ Goto(t, "done")
    /\ UNCHANGED <<sent, fate, lock, owner, reply, sqlite, cancels, faults>>

-----------------------------------------------------------------------------
(* Cancellation.                                                           *)

Cancelled(t) ==
    /\ cancels < MaxCancels
    /\ cancels' = cancels + 1

\* Mutant: a waiter that was cancelled stays counted.
WaitersLeft_Leak == waiters

\* Mutant: both the exception and the finally take it back.
WaitersLeft_Twice == waiters - 2

\* The count of a waiter that never acquired the lock is taken back.
WaitersLeft == waiters - 1

CancelQueued(t) ==
    /\ Cancelled(t)
    /\ pc[t] = "queued"
    /\ waitq' = Without(waitq, t)
    /\ waiters' = WaitersLeft
    /\ Goto(t, "done")
    /\ Ends(t, "cancelled")
    /\ UNCHANGED <<sent, holder, owner, jobs, reply, sqlite, faults>>

\* Mutant: the lock is not given back.
CancelInSlot_KeepsLock(t) ==
    /\ Cancelled(t)
    /\ pc[t] \in {"orphan", "abandon", "shield", "legacy"} \/ (pc[t] = "ready" /\ t \in Batches /\ open)
    /\ Goto(t, "done")
    /\ Ends(t, "cancelled")
    /\ Forsake(t)
    /\ UNCHANGED <<sent, lock, owner, sqlite, faults>>

\* At the tripwire's sleep, at a legacy statement, and at a cleanup that was
\* already shielded once: the task leaves, and what it queued runs behind it.
CancelInSlot(t) ==
    /\ Cancelled(t)
    /\ \/ pc[t] \in {"orphan", "abandon", "shield", "legacy"}
       \/ pc[t] = "ready" /\ t \in Batches /\ open
    /\ Leaves(t, "cancelled", "done")
    /\ Forsake(t)
    /\ UNCHANGED <<sent, waitq, waiters, owner, sqlite, faults>>

\* A ROLLBACK is queued behind the BEGIN, which cannot be retracted.
CancelBegin(t) ==
    /\ Cancelled(t)
    /\ pc[t] = "begin"
    /\ Resend(t, "rollback")
    /\ Goto(t, "abandon")
    /\ Ends(t, "cancelled")
    /\ UNCHANGED <<sent, lock, owner, sqlite, faults>>

CancelBody(t) ==
    /\ Cancelled(t)
    /\ pc[t] \in {"body", "write", "commit"}
    /\ Finally(t, "cancelled")
    /\ UNCHANGED <<sent, waitq, waiters, sqlite, faults>>

\* The forced rollback is shielded from the first cancellation.
CancelRollback(t) ==
    /\ Cancelled(t)
    /\ pc[t] = "rollback"
    /\ Goto(t, "shield")
    /\ Ends(t, "cancelled")
    /\ UNCHANGED <<sent, lock, owner, jobs, reply, sqlite, faults>>

-----------------------------------------------------------------------------
(* The worker thread runs the job at the head of the queue.                *)

Runs(cmd) == jobs # <<>> /\ Head(jobs).cmd = cmd

Answers(how) ==
    LET j == Head(jobs) IN
    /\ jobs' = Tail(jobs)
    /\ reply' = IF j.heard THEN [reply EXCEPT ![j.task] = how] ELSE reply

RunsBegin ==
    /\ Runs("begin")
    /\ IF open THEN Answers("error") ELSE Answers("ok")
    /\ open' = TRUE
    /\ UNCHANGED <<task, lock, owner, work, disk, cancels, faults>>

RunsWrite ==
    LET stmt == <<Head(jobs).task, Head(jobs).n>> IN
    /\ Runs("write")
    /\ Answers("ok")
    /\ IF open THEN work' = work \cup {stmt} /\ disk' = disk
               ELSE work' = work /\ disk' = disk \cup {stmt}
    /\ UNCHANGED <<task, lock, owner, open, cancels, faults>>

RunsCommit ==
    /\ Runs("commit")
    /\ IF open THEN Answers("ok") ELSE Answers("bled")
    /\ disk' = disk \cup work
    /\ work' = {}
    /\ open' = FALSE
    /\ UNCHANGED <<task, lock, owner, cancels, faults>>

RunsRollback ==
    /\ Runs("rollback")
    /\ IF open THEN Answers("ok") ELSE Answers("error")
    /\ work' = {}
    /\ open' = FALSE
    /\ UNCHANGED <<task, lock, owner, disk, cancels, faults>>

\* The statement raises ("database is locked", a full disk) and changes nothing.
StatementRaises ==
    /\ faults < MaxFaults
    /\ faults' = faults + 1
    /\ jobs # <<>>
    /\ Head(jobs).cmd = "rollback" => RollbackFaults
    /\ Answers("error")
    /\ UNCHANGED <<task, lock, owner, sqlite, cancels>>

-----------------------------------------------------------------------------
Init ==
    /\ pc = [t \in Tasks |-> "idle"]
    /\ sent = [t \in Tasks |-> 0]
    /\ fate = [t \in Tasks |-> "ok"]
    /\ waitq = <<>>
    /\ holder = NoTask
    /\ waiters = 0
    /\ owner = NoTask
    /\ jobs = <<>>
    /\ reply = [t \in Tasks |-> "none"]
    /\ open = FALSE
    /\ work = {}
    /\ disk = {}
    /\ cancels = 0
    /\ faults = 0

\* What a task does when nobody cancels it.
TaskStep(t) ==
    \/ Acquires(t) \/ Begins(t) \/ TripwireExpires(t) \/ OrphanAnswered(t)
    \/ BeginSucceeds(t) \/ BeginFails(t) \/ Abandons(t)
    \/ BodyExecutes(t) \/ StatementDone(t) \/ BodyEnds(t) \/ BodyRaises(t)
    \/ CommitAnswered(t) \/ RollbackAnswered(t)
    \/ LegacyExecutes(t) \/ LegacyAnswered(t) \/ LegacyCommits(t)

CancelStep(t) ==
    CancelQueued(t) \/ CancelInSlot(t) \/ CancelBegin(t) \/ CancelBody(t) \/ CancelRollback(t)

WorkerStep == RunsBegin \/ RunsWrite \/ RunsCommit \/ RunsRollback \/ StatementRaises

\* Every call is over.
Idle ==
    /\ \A t \in Tasks : pc[t] = "done"
    /\ jobs = <<>>
    /\ UNCHANGED vars

Next ==
    \/ \E t \in Tasks : Arrives(t) \/ TaskStep(t) \/ CancelStep(t)
    \/ WorkerStep
    \/ Idle

Spec == Init /\ [][Next]_vars

\* The event loop resumes every task that has its answer or its turn, time passes,
\* and the worker thread works through its queue.
FairSpec == Spec /\ WF_vars(WorkerStep) /\ \A t \in Tasks : WF_vars(TaskStep(t))

-----------------------------------------------------------------------------
(* Properties.                                                             *)

\* The type invariant.
TypeOK ==
    /\ pc \in [Tasks -> Places]
    /\ sent \in [Tasks -> 0..BodySize]
    /\ fate \in [Tasks -> {"ok", "error", "cancelled"}]
    /\ waitq \in Seq(Tasks)
    /\ holder \in Tasks \cup {NoTask}
    /\ waiters \in Nat
    /\ owner \in Batches \cup {NoTask}
    /\ jobs \in Seq(Job)
    /\ reply \in [Tasks -> Replies]
    /\ open \in BOOLEAN
    /\ work \subseteq Stmt
    /\ disk \subseteq Stmt
    /\ cancels \in 0..MaxCancels
    /\ faults \in 0..MaxFaults

\* transaction() keeps the promise of AtomicStore to the tasks that use it,
\* whatever is cancelled, raises or is left open by others.
StoreTold == [t \in Batches |-> IF pc[t] = "done" THEN fate[t] ELSE "nothing"]
Store == INSTANCE AtomicStore
    WITH Calls <- Batches, Writes <- [t \in Batches |-> Stmts(t)],
         store <- {s \in disk : s[1] \in Batches}, told <- StoreTold
KeepsStorePromise == Store!Spec

\* "Acquire the shared connection fairly without leaking waiter state".
WaitersCounted == waiters = Cardinality({t \in Tasks : pc[t] = "queued"})

\* No writer is wedged: not behind a cancelled task, nor behind a transaction
\* nobody owns ("a 45-minute outage").
EveryCallReturns == \A t \in Tasks : (pc[t] = "queued") ~> (pc[t] = "done")

\* "Rolling back discards only work its owner already abandoned": no statement
\* that a task was told is done leaves the open transaction but for the disk.
RollbackSparesDone ==
    [][\A t \in Tasks :
          (pc[t] \in {"settle", "done"} /\ fate[t] = "ok")
              => work \cap Stmts(t) \subseteq work' \cup disk']_vars
=============================================================================
