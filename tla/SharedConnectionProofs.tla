------------------------ MODULE SharedConnectionProofs ------------------------
(***************************************************************************)
(* Proofs about SharedConnection: type correctness, the inductive          *)
(* invariant of the lock, the worker's queue and the open transaction, and *)
(* that transaction() implements AtomicStore.                              *)
(***************************************************************************)
EXTENDS SharedConnection, FiniteSetTheorems, TLAPS

-----------------------------------------------------------------------------
(* The inductive invariant.                                                *)

InSlot == {"ready", "orphan", "begin", "abandon", "body", "write", "commit",
           "rollback", "shield", "legacy"}

\* What the statement a task waits for was, by where it waits.
Awaited == [p \in {"orphan", "begin", "abandon", "write", "commit", "rollback",
                   "shield", "legacy"} |->
               CASE p = "begin" -> "begin"
                 [] p = "commit" -> "commit"
                 [] p \in {"write", "legacy"} -> "write"
                 [] OTHER -> "rollback"]

\* The lock is held by the one task inside its slot, owned by the one inside its
\* body, and waited for by those that are queued.
LockHolds ==
    /\ \A t \in Tasks : holder = t <=> pc[t] \in InSlot
    /\ \A t \in Tasks : owner = t <=> pc[t] \in {"body", "write", "commit"}
    /\ \A i \in DOMAIN waitq : pc[waitq[i]] = "queued"
    /\ \A i, j \in DOMAIN waitq : waitq[i] = waitq[j] => i = j
    /\ \A t \in Tasks : pc[t] = "queued" => \E i \in DOMAIN waitq : waitq[i] = t
    /\ waiters = Len(waitq)
    /\ \A t \in Batches : pc[t] \notin {"legacy", "settle"}
    /\ \A t \in Singles : pc[t] \in {"idle", "queued", "ready", "legacy", "settle", "done"}

\* A statement someone waits for is the last in the queue, and the one waited for.
HeardIsLast ==
    \A i \in DOMAIN jobs : jobs[i].heard =>
        /\ i = Len(jobs)
        /\ pc[jobs[i].task] \in DOMAIN Awaited
        /\ jobs[i].cmd = Awaited[pc[jobs[i].task]]
        /\ jobs[i].n = sent[jobs[i].task] + 1
        /\ reply[jobs[i].task] = "none"

\* A body's statement, and a COMMIT, are next to run, in the transaction they are
\* meant for; what a COMMIT would land is the whole body and nothing else.
NextOf(i) ==
    /\ jobs[i].cmd = "write" => jobs[i].n \in 1..Size(jobs[i].task)
    /\ jobs[i].cmd = "commit" => jobs[i].task \in Batches
    /\ jobs[i].cmd \in {"write", "commit"} /\ jobs[i].task \in Batches => i = 1 /\ open
    /\ jobs[i].cmd = "commit" =>
          /\ work = Stmts(jobs[i].task)
          /\ disk \cap Stmts(jobs[i].task) = {}
          /\ pc[jobs[i].task] = "commit" \/ fate[jobs[i].task] = "cancelled"

NextToRun == \A i \in DOMAIN jobs : NextOf(i)

ClosedIsEmpty == ~open => work = {}

\* A legacy task sends one statement, and is told of it.
Legacy == \A t \in Singles : sent[t] = 0 /\ reply[t] # "bled"

\* What each transaction() call has done, by where it is.
Untouched(b) ==
    /\ sent[b] = 0
    /\ (work \cup disk) \cap Stmts(b) = {}
    /\ \A i \in DOMAIN jobs : jobs[i].task = b => jobs[i].cmd \in {"begin", "rollback"}

Done(b, n) == {b} \X (1..n)

InBody(b) ==
    /\ fate[b] = "ok"
    /\ pc[b] = "body" => jobs = <<>> /\ open /\ work = Done(b, sent[b])
    /\ pc[b] = "write" =>
          /\ sent[b] < BodySize
          /\ open
          /\ reply[b] \in {"none", "ok", "error"}
          /\ Len(jobs) <= 1
          /\ reply[b] # "none" => jobs = <<>>
          /\ jobs # <<>> => jobs[1].heard /\ jobs[1].task = b
          /\ work = Done(b, IF reply[b] = "ok" THEN sent[b] + 1 ELSE sent[b])
    /\ pc[b] \in {"body", "write"} => disk \cap Stmts(b) = {}
    /\ pc[b] = "commit" =>
          /\ sent[b] = BodySize
          /\ Len(jobs) <= 1
          /\ reply[b] # "none" => jobs = <<>>
          /\ jobs # <<>> => jobs[1].heard /\ jobs[1].task = b
          /\ reply[b] \in {"none", "error"} =>
                open /\ work = Stmts(b) /\ disk \cap Stmts(b) = {}
          /\ reply[b] \in {"ok", "bled"} => ~open /\ Stmts(b) \subseteq disk

Over(b) ==
    /\ fate[b] = "ok" => pc[b] = "done" /\ Stmts(b) \subseteq disk
    /\ fate[b] = "error" => disk \cap Stmts(b) = {}
    /\ fate[b] = "cancelled" => disk \cap Stmts(b) = {} \/ Stmts(b) \subseteq disk

Progress(b) ==
    /\ pc[b] \in {"idle", "queued", "ready", "orphan"} => Untouched(b) /\ fate[b] = "ok"
    /\ pc[b] = "begin" =>
          /\ Untouched(b)
          /\ fate[b] = "ok"
          /\ reply[b] # "bled"
          /\ reply[b] = "ok" => open /\ work = {} /\ jobs = <<>>
    /\ pc[b] = "abandon" => Untouched(b) /\ fate[b] # "ok"
    /\ pc[b] \in {"body", "write", "commit"} => InBody(b)
    /\ pc[b] \in {"rollback", "shield", "done"} => Over(b)

IInv ==
    /\ TypeOK
    /\ LockHolds
    /\ HeardIsLast
    /\ NextToRun
    /\ ClosedIsEmpty
    /\ Legacy
    /\ \A b \in Batches : Progress(b)

-----------------------------------------------------------------------------
(* How a step of a task, and one of the worker, change the queue.          *)

USE SharedConnectionAssumption

\* A job a task queues is well formed.
LEMMA JobOfType ==
  ASSUME TypeOK, NEW t \in Tasks, NEW cmd \in Commands
  PROVE  JobOf(t, cmd) \in Job
<1>1. sent[t] + 1 \in 1..(BodySize + 1)
  BY DEF TypeOK
<1> QED
  BY <1>1 DEF JobOf, Job

\* Jobs nobody waits for stay in their places.
LEMMA UnheardType ==
  ASSUME TypeOK, NEW t \in Tasks
  PROVE  /\ Unheard(t) \in Seq(Job)
         /\ Len(Unheard(t)) = Len(jobs)
         /\ DOMAIN Unheard(t) = DOMAIN jobs
         /\ \A i \in DOMAIN jobs :
               /\ Unheard(t)[i].cmd = jobs[i].cmd
               /\ Unheard(t)[i].task = jobs[i].task
               /\ Unheard(t)[i].n = jobs[i].n
               /\ Unheard(t)[i].heard <=> jobs[i].heard /\ jobs[i].task # t
<1>1. jobs \in Seq(Job)
  BY DEF TypeOK
<1>2. ASSUME NEW j \in Job
      PROVE  /\ [j EXCEPT !.heard = FALSE] \in Job
             /\ [j EXCEPT !.heard = FALSE].cmd = j.cmd
             /\ [j EXCEPT !.heard = FALSE].task = j.task
             /\ [j EXCEPT !.heard = FALSE].n = j.n
             /\ [j EXCEPT !.heard = FALSE].heard = FALSE
  BY DEF Job
<1>3. Len(jobs) \in Nat /\ DOMAIN jobs = 1..Len(jobs)
  BY <1>1
<1>4. ASSUME NEW i \in DOMAIN jobs PROVE jobs[i] \in Job
  BY <1>1
<1>5. Unheard(t) \in [1..Len(jobs) -> Job]
  BY <1>2, <1>3, <1>4 DEF Unheard
<1>6. Unheard(t) \in Seq(Job) /\ Len(Unheard(t)) = Len(jobs)
  BY <1>3, <1>5
<1>7. \A i \in DOMAIN jobs : jobs[i].heard \in BOOLEAN
  BY <1>4 DEF Job
<1> QED
  BY <1>2, <1>3, <1>4, <1>5, <1>6, <1>7 DEF Unheard

\* What a task appends.
LEMMA AppendType ==
  ASSUME NEW q \in Seq(Job), NEW j \in Job
  PROVE  /\ Append(q, j) \in Seq(Job)
         /\ Len(Append(q, j)) = Len(q) + 1
         /\ DOMAIN Append(q, j) = DOMAIN q \cup {Len(q) + 1}
         /\ \A i \in DOMAIN q : Append(q, j)[i] = q[i]
         /\ Append(q, j)[Len(q) + 1] = j
  OBVIOUS

\* The queue when t has sent cmd, ...
LEMMA SendMoves ==
  ASSUME TypeOK, NEW t \in Tasks, NEW cmd \in Commands, Send(t, cmd)
  PROVE  /\ jobs' \in Seq(Job)
         /\ reply' \in [Tasks -> Replies]
         /\ Len(jobs') = Len(jobs) + 1
         /\ DOMAIN jobs' = DOMAIN jobs \cup {Len(jobs) + 1}
         /\ \A i \in DOMAIN jobs : jobs'[i] = jobs[i]
         /\ jobs'[Len(jobs) + 1] = JobOf(t, cmd)
         /\ reply'[t] = "none"
         /\ \A u \in Tasks \ {t} : reply'[u] = reply[u]
<1>1. jobs \in Seq(Job) /\ reply \in [Tasks -> Replies]
  BY DEF TypeOK
<1>2. JobOf(t, cmd) \in Job
  BY JobOfType
<1>3. "none" \in Replies
  BY DEF Replies
<1> QED
  BY <1>1, <1>2, <1>3, AppendType DEF Send

\* ... has stopped waiting, ...
LEMMA ForsakeMoves ==
  ASSUME TypeOK, NEW t \in Tasks, Forsake(t)
  PROVE  /\ jobs' \in Seq(Job)
         /\ reply' \in [Tasks -> Replies]
         /\ Len(jobs') = Len(jobs)
         /\ DOMAIN jobs' = DOMAIN jobs
         /\ \A i \in DOMAIN jobs :
               /\ jobs'[i].cmd = jobs[i].cmd
               /\ jobs'[i].task = jobs[i].task
               /\ jobs'[i].n = jobs[i].n
               /\ jobs'[i].heard <=> jobs[i].heard /\ jobs[i].task # t
         /\ reply'[t] = "none"
         /\ \A u \in Tasks \ {t} : reply'[u] = reply[u]
<1>1. reply \in [Tasks -> Replies] /\ "none" \in Replies
  BY DEF TypeOK, Replies
<1> QED
  BY <1>1, UnheardType DEF Forsake

\* ... or has sent cmd after it stopped waiting for what it sent before.
LEMMA ResendMoves ==
  ASSUME TypeOK, NEW t \in Tasks, NEW cmd \in Commands, Resend(t, cmd)
  PROVE  /\ jobs' \in Seq(Job)
         /\ reply' \in [Tasks -> Replies]
         /\ Len(jobs') = Len(jobs) + 1
         /\ DOMAIN jobs' = DOMAIN jobs \cup {Len(jobs) + 1}
         /\ \A i \in DOMAIN jobs :
               /\ jobs'[i].cmd = jobs[i].cmd
               /\ jobs'[i].task = jobs[i].task
               /\ jobs'[i].n = jobs[i].n
               /\ jobs'[i].heard <=> jobs[i].heard /\ jobs[i].task # t
         /\ jobs'[Len(jobs) + 1] = JobOf(t, cmd)
         /\ reply'[t] = "none"
         /\ \A u \in Tasks \ {t} : reply'[u] = reply[u]
<1>1. reply \in [Tasks -> Replies] /\ "none" \in Replies
  BY DEF TypeOK, Replies
<1>2. JobOf(t, cmd) \in Job
  BY JobOfType
<1> DEFINE q == Unheard(t)
<1>3. /\ q \in Seq(Job)
      /\ Len(q) = Len(jobs)
      /\ DOMAIN q = DOMAIN jobs
      /\ \A i \in DOMAIN jobs :
            /\ q[i].cmd = jobs[i].cmd
            /\ q[i].task = jobs[i].task
            /\ q[i].n = jobs[i].n
            /\ q[i].heard <=> jobs[i].heard /\ jobs[i].task # t
  BY UnheardType
<1>4. jobs' = Append(q, JobOf(t, cmd)) /\ reply' = [reply EXCEPT ![t] = "none"]
  BY DEF Resend
<1> HIDE DEF q
<1> QED
  BY <1>1, <1>2, <1>3, <1>4, AppendType

\* The worker takes the job at the head.
LEMMA AnswersMoves ==
  ASSUME TypeOK, jobs # <<>>, NEW how \in Replies, Answers(how)
  PROVE  /\ Len(jobs) >= 1
         /\ jobs[1] \in Job
         /\ jobs' \in Seq(Job)
         /\ reply' \in [Tasks -> Replies]
         /\ Len(jobs') = Len(jobs) - 1
         /\ \A i \in DOMAIN jobs' : i + 1 \in DOMAIN jobs /\ jobs'[i] = jobs[i + 1]
         /\ jobs[1].heard => reply'[jobs[1].task] = how
         /\ \A u \in Tasks : reply'[u] = reply[u] \/ (jobs[1].heard /\ jobs[1].task = u)
<1>1. jobs \in Seq(Job) /\ reply \in [Tasks -> Replies]
  BY DEF TypeOK
<1>2. /\ Len(jobs) >= 1
      /\ jobs[1] \in Job
      /\ Tail(jobs) \in Seq(Job)
      /\ Len(Tail(jobs)) = Len(jobs) - 1
      /\ \A i \in DOMAIN Tail(jobs) : i + 1 \in DOMAIN jobs /\ Tail(jobs)[i] = jobs[i + 1]
      /\ Head(jobs) = jobs[1]
  BY <1>1
<1>3. jobs[1].task \in Tasks
  BY <1>2 DEF Job
<1> QED
  BY <1>1, <1>2, <1>3 DEF Answers

\* The waiting line without one of its tasks.
LEMMA WithoutType ==
  ASSUME NEW q \in Seq(Tasks), NEW t \in Tasks, NEW i \in DOMAIN q, q[i] = t,
         \A j, k \in DOMAIN q : q[j] = q[k] => j = k
  PROVE  /\ Without(q, t) \in Seq(Tasks)
         /\ \A j \in DOMAIN Without(q, t) :
               \E k \in DOMAIN q : q[k] # t /\ Without(q, t)[j] = q[k]
         /\ \A j, k \in DOMAIN Without(q, t) :
               Without(q, t)[j] = Without(q, t)[k] => j = k
         /\ Len(Without(q, t)) = Len(q) - 1
         /\ \A k \in DOMAIN q :
               q[k] # t => \E j \in DOMAIN Without(q, t) : Without(q, t)[j] = q[k]
<1> DEFINE n == Len(q)
           at == CHOOSE l \in DOMAIN q : q[l] = t
<1>1. at \in DOMAIN q /\ q[at] = t
  OBVIOUS
<1>2. n \in Nat /\ DOMAIN q = 1..n /\ n - 1 \in Nat
  OBVIOUS
<1>3. Without(q, t) = [j \in 1..(n - 1) |-> IF j < at THEN q[j] ELSE q[j + 1]]
  BY DEF Without
<1> HIDE DEF at, n
<1>4. DOMAIN Without(q, t) = 1..(n - 1)
  BY <1>3
<1>5. \A j \in 1..(n - 1) : /\ (j < at => j \in DOMAIN q /\ j # at)
                             /\ (~(j < at) => j + 1 \in DOMAIN q /\ j + 1 # at)
  BY <1>1, <1>2
<1>6. \A j \in 1..(n - 1) : Without(q, t)[j] = IF j < at THEN q[j] ELSE q[j + 1]
  BY <1>3
<1>7. \A j \in 1..(n - 1) : Without(q, t)[j] \in Tasks
  BY <1>5, <1>6
<1>8. Without(q, t) \in [1..(n - 1) -> Tasks]
  BY <1>3, <1>6, <1>7
<1>9. Without(q, t) \in Seq(Tasks)
  BY <1>2, <1>8
<1>10. \A j \in DOMAIN Without(q, t) :
         \E k \in DOMAIN q : q[k] # t /\ Without(q, t)[j] = q[k]
  BY <1>1, <1>4, <1>5, <1>6
<1>11. ASSUME NEW j \in 1..(n - 1), NEW k \in 1..(n - 1),
              Without(q, t)[j] = Without(q, t)[k]
       PROVE  j = k
  <2> DEFINE m(l) == IF l < at THEN l ELSE l + 1
  <2>1. m(j) \in DOMAIN q /\ m(k) \in DOMAIN q
    BY <1>5
  <2>2. q[m(j)] = q[m(k)]
    BY <1>6, <1>11
  <2>3. m(j) = m(k)
    BY <2>1, <2>2
  <2>4. j \in Nat /\ k \in Nat /\ at \in Nat
    BY <1>1, <1>2
  <2> QED
    BY <2>3, <2>4
<1>12. ASSUME NEW k \in DOMAIN q, q[k] # t
       PROVE  \E j \in DOMAIN Without(q, t) : Without(q, t)[j] = q[k]
  <2>1. k \in 1..n /\ at \in 1..n /\ k # at
    BY <1>1, <1>2, <1>12
  <2>2. CASE k < at
    <3>1. k \in 1..(n - 1) /\ Without(q, t)[k] = q[k]
      BY <1>2, <1>6, <2>1, <2>2
    <3> QED
      BY <1>4, <3>1
  <2>3. CASE k > at
    <3>1. k - 1 \in 1..(n - 1) /\ ~(k - 1 < at) /\ (k - 1) + 1 = k
      BY <1>2, <2>1, <2>3
    <3>2. Without(q, t)[k - 1] = q[k]
      BY <1>6, <3>1
    <3> QED
      BY <1>4, <3>1, <3>2
  <2> QED
    BY <2>1, <2>2, <2>3
<1>13. Len(Without(q, t)) = n - 1
  BY <1>2, <1>3
<1> QED
  BY <1>4, <1>9, <1>10, <1>11, <1>12, <1>13 DEF n

-----------------------------------------------------------------------------
(* Types.                                                                  *)

\* Every step keeps the state well formed: one case per action.
LEMMA TypeStep ==
  ASSUME IInv, [Next]_vars
  PROVE  TypeOK'
<1> USE DEF Goto, Ends, Leaves, task, lock, sqlite
<1>0. TypeOK /\ LockHolds /\ Legacy /\ \A b \in Batches : Progress(b)
  BY DEF IInv
<1>1. {"begin", "write", "commit", "rollback"} \subseteq Commands
  BY DEF Commands
<1>2. {"idle", "queued", "ready", "orphan", "begin", "abandon", "body", "write",
       "commit", "rollback", "shield", "legacy", "settle", "done"} \subseteq Places
  BY DEF Places
<1>3. {"none", "ok", "error", "bled"} \subseteq Replies
  BY DEF Replies
<1>4. ASSUME NEW t \in Tasks, Arrives(t) PROVE TypeOK'
  BY <1>0, <1>2, <1>4 DEF TypeOK, Arrives
<1>5. ASSUME NEW t \in Tasks, Acquires(t) PROVE TypeOK'
  <2>1. waitq' \in Seq(Tasks)
    BY <1>0, <1>5 DEF TypeOK, Acquires
  <2>2. waiters' \in Nat
    BY <1>0, <1>5 DEF TypeOK, Acquires, LockHolds
  <2> QED
    BY <1>0, <1>2, <1>5, <2>1, <2>2 DEF TypeOK, Acquires
<1>6. ASSUME NEW t \in Tasks, Begins(t) PROVE TypeOK'
  <2>1. Send(t, "begin")
    BY <1>6 DEF Begins
  <2>2. jobs' \in Seq(Job) /\ reply' \in [Tasks -> Replies]
    BY <1>0, <1>1, <2>1, SendMoves
  <2> QED
    BY <1>0, <1>2, <1>6, <2>2 DEF TypeOK, Begins
<1>7. ASSUME NEW t \in Tasks, TripwireExpires(t) PROVE TypeOK'
  <2>1. Send(t, "rollback")
    BY <1>7 DEF TripwireExpires
  <2>2. jobs' \in Seq(Job) /\ reply' \in [Tasks -> Replies]
    BY <1>0, <1>1, <2>1, SendMoves
  <2> QED
    BY <1>0, <1>2, <1>7, <2>2 DEF TypeOK, TripwireExpires
<1>8. ASSUME NEW t \in Tasks, OrphanAnswered(t) PROVE TypeOK'
  <2>1. Send(t, "begin")
    BY <1>8 DEF OrphanAnswered
  <2>2. jobs' \in Seq(Job) /\ reply' \in [Tasks -> Replies]
    BY <1>0, <1>1, <2>1, SendMoves
  <2> QED
    BY <1>0, <1>2, <1>8, <2>2 DEF TypeOK, OrphanAnswered
<1>9. ASSUME NEW t \in Tasks, BeginFails(t) PROVE TypeOK'
  <2>1. Send(t, "rollback")
    BY <1>9 DEF BeginFails
  <2>2. jobs' \in Seq(Job) /\ reply' \in [Tasks -> Replies]
    BY <1>0, <1>1, <2>1, SendMoves
  <2> QED
    BY <1>0, <1>2, <1>9, <2>2 DEF TypeOK, BeginFails
<1>10. ASSUME NEW t \in Tasks, BodyExecutes(t) PROVE TypeOK'
  <2>1. Send(t, "write")
    BY <1>10 DEF BodyExecutes
  <2>2. jobs' \in Seq(Job) /\ reply' \in [Tasks -> Replies]
    BY <1>0, <1>1, <2>1, SendMoves
  <2> QED
    BY <1>0, <1>2, <1>10, <2>2 DEF TypeOK, BodyExecutes
<1>11. ASSUME NEW t \in Tasks, BodyEnds(t) PROVE TypeOK'
  <2>1. Send(t, "commit")
    BY <1>11 DEF BodyEnds
  <2>2. jobs' \in Seq(Job) /\ reply' \in [Tasks -> Replies]
    BY <1>0, <1>1, <2>1, SendMoves
  <2> QED
    BY <1>0, <1>2, <1>11, <2>2 DEF TypeOK, BodyEnds
<1>12. ASSUME NEW t \in Tasks, LegacyExecutes(t) PROVE TypeOK'
  <2>1. Send(t, "write")
    BY <1>12 DEF LegacyExecutes
  <2>2. jobs' \in Seq(Job) /\ reply' \in [Tasks -> Replies]
    BY <1>0, <1>1, <2>1, SendMoves
  <2> QED
    BY <1>0, <1>2, <1>12, <2>2 DEF TypeOK, LegacyExecutes
<1>13. ASSUME NEW t \in Tasks, BeginSucceeds(t) PROVE TypeOK'
  <2>1. t \in Batches
    BY <1>0, <1>13 DEF BeginSucceeds, LockHolds, Tasks
  <2> QED
    BY <1>0, <1>2, <1>13, <2>1 DEF TypeOK, BeginSucceeds
<1>14. ASSUME NEW t \in Tasks, Abandons(t) PROVE TypeOK'
  BY <1>0, <1>2, <1>14 DEF TypeOK, Abandons, Cancelled
<1>15. ASSUME NEW t \in Tasks, RollbackAnswered(t) PROVE TypeOK'
  BY <1>0, <1>2, <1>15 DEF TypeOK, RollbackAnswered, Cancelled
<1>16. ASSUME NEW t \in Tasks, CancelRollback(t) PROVE TypeOK'
  BY <1>0, <1>2, <1>16 DEF TypeOK, CancelRollback, Cancelled
<1>17. ASSUME NEW t \in Tasks, StatementDone(t) PROVE TypeOK'
  <2>1. t \in Batches
    BY <1>0, <1>17 DEF StatementDone, LockHolds, Tasks
  <2>2. sent[t] + 1 \in 0..BodySize
    BY <1>0, <1>17, <2>1 DEF StatementDone, Progress, InBody, TypeOK
  <2> QED
    BY <1>0, <1>2, <1>17, <2>2 DEF TypeOK, StatementDone
<1>18. ASSUME NEW t \in Tasks, LegacyAnswered(t) PROVE TypeOK'
  <2>1. reply[t] \in {"ok", "error"}
    BY <1>0, <1>18 DEF LegacyAnswered, LockHolds, Legacy, TypeOK, Replies, Tasks
  <2> QED
    BY <1>0, <1>2, <1>18, <2>1 DEF TypeOK, LegacyAnswered
<1>19. ASSUME NEW t \in Tasks, LegacyCommits(t) PROVE TypeOK'
  <2>1. jobs' = jobs
    BY <1>0, <1>19 DEF TypeOK, LegacyCommits, CommitSends
  <2> QED
    BY <1>0, <1>2, <1>19, <2>1 DEF TypeOK, LegacyCommits
<1>20. ASSUME NEW t \in Tasks, CancelQueued(t) PROVE TypeOK'
  <2>1. PICK i \in DOMAIN waitq : waitq[i] = t
    BY <1>0, <1>20 DEF CancelQueued, LockHolds
  <2>2. waitq \in Seq(Tasks) /\ \A j, k \in DOMAIN waitq : waitq[j] = waitq[k] => j = k
    BY <1>0 DEF TypeOK, LockHolds
  <2>3. waitq' \in Seq(Tasks)
    BY <1>20, <2>1, <2>2, WithoutType DEF CancelQueued
  <2>4. waiters' \in Nat
    BY <1>0, <1>20, <2>1, <2>2 DEF CancelQueued, WaitersLeft, LockHolds
  <2> QED
    BY <1>0, <1>2, <1>20, <2>3, <2>4 DEF TypeOK, CancelQueued, Cancelled
<1>21. ASSUME NEW t \in Tasks, NEW how \in {"ok", "error", "cancelled"}, Finally(t, how)
      PROVE  /\ pc' \in [Tasks -> Places]
             /\ fate' \in [Tasks -> {"ok", "error", "cancelled"}]
             /\ holder' \in Tasks \cup {NoTask}
             /\ owner' \in Batches \cup {NoTask}
             /\ jobs' \in Seq(Job)
             /\ reply' \in [Tasks -> Replies]
  <2>1. CASE open
    <3>1. Resend(t, "rollback")
      BY <1>21, <2>1 DEF Finally
    <3>2. jobs' \in Seq(Job) /\ reply' \in [Tasks -> Replies]
      BY <1>0, <1>1, <3>1, ResendMoves
    <3> QED
      BY <1>0, <1>2, <1>21, <2>1, <3>2 DEF Finally, TypeOK
  <2>2. CASE ~open
    <3>1. jobs' \in Seq(Job) /\ reply' \in [Tasks -> Replies]
      BY <1>0, <1>21, <2>2, ForsakeMoves DEF Finally
    <3> QED
      BY <1>0, <1>2, <1>21, <2>2, <3>1 DEF Finally, TypeOK
  <2> QED
    BY <2>1, <2>2
<1>22. ASSUME NEW t \in Tasks, BodyRaises(t) PROVE TypeOK'
  BY <1>0, <1>21, <1>22 DEF TypeOK, BodyRaises, Cancelled
<1>23. ASSUME NEW t \in Tasks, CommitAnswered(t) PROVE TypeOK'
  BY <1>0, <1>21, <1>23 DEF TypeOK, CommitAnswered, Cancelled
<1>24. ASSUME NEW t \in Tasks, CancelBody(t) PROVE TypeOK'
  BY <1>0, <1>21, <1>24 DEF TypeOK, CancelBody, Cancelled
<1>25. ASSUME NEW t \in Tasks, CancelInSlot(t) PROVE TypeOK'
  <2>1. jobs' \in Seq(Job) /\ reply' \in [Tasks -> Replies]
    BY <1>0, <1>25, ForsakeMoves DEF CancelInSlot
  <2>3. cancels' \in 0..MaxCancels
    BY <1>0, <1>25 DEF TypeOK, CancelInSlot, Cancelled
  <2>4. pc' \in [Tasks -> Places] /\ fate' \in [Tasks -> {"ok", "error", "cancelled"}]
    BY <1>0, <1>2, <1>25 DEF TypeOK, CancelInSlot
  <2> QED
    BY <1>0, <1>25, <2>1, <2>3, <2>4 DEF TypeOK, CancelInSlot
<1>26. ASSUME NEW t \in Tasks, CancelBegin(t) PROVE TypeOK'
  <2>1. Resend(t, "rollback")
    BY <1>26 DEF CancelBegin
  <2>2. jobs' \in Seq(Job) /\ reply' \in [Tasks -> Replies]
    BY <1>0, <1>1, <2>1, ResendMoves
  <2>3. cancels' \in 0..MaxCancels
    BY <1>0, <1>26 DEF TypeOK, CancelBegin, Cancelled
  <2>4. pc' \in [Tasks -> Places] /\ fate' \in [Tasks -> {"ok", "error", "cancelled"}]
    BY <1>0, <1>2, <1>26 DEF TypeOK, CancelBegin
  <2> QED
    BY <1>0, <1>26, <2>2, <2>3, <2>4 DEF TypeOK, CancelBegin
<1>27. CASE RunsBegin
  <2>1. jobs # <<>> /\ \E how \in Replies : Answers(how)
    BY <1>3, <1>27 DEF RunsBegin, Runs
  <2>2. jobs' \in Seq(Job) /\ reply' \in [Tasks -> Replies]
    BY <1>0, <2>1, AnswersMoves
  <2> QED
    BY <1>0, <1>27, <2>2 DEF TypeOK, RunsBegin
<1>28. CASE RunsCommit
  <2>1. jobs # <<>> /\ \E how \in Replies : Answers(how)
    BY <1>3, <1>28 DEF RunsCommit, Runs
  <2>2. jobs' \in Seq(Job) /\ reply' \in [Tasks -> Replies]
    BY <1>0, <2>1, AnswersMoves
  <2> QED
    BY <1>0, <1>28, <2>2 DEF TypeOK, RunsCommit
<1>29. CASE RunsRollback
  <2>1. jobs # <<>> /\ \E how \in Replies : Answers(how)
    BY <1>3, <1>29 DEF RunsRollback, Runs
  <2>2. jobs' \in Seq(Job) /\ reply' \in [Tasks -> Replies]
    BY <1>0, <2>1, AnswersMoves
  <2> QED
    BY <1>0, <1>29, <2>2 DEF TypeOK, RunsRollback
<1>30. CASE StatementRaises
  <2>1. jobs # <<>> /\ \E how \in Replies : Answers(how)
    BY <1>3, <1>30 DEF StatementRaises, Runs
  <2>2. jobs' \in Seq(Job) /\ reply' \in [Tasks -> Replies]
    BY <1>0, <2>1, AnswersMoves
  <2> QED
    BY <1>0, <1>30, <2>2 DEF TypeOK, StatementRaises
<1>31. CASE RunsWrite
  <2>1. jobs # <<>> /\ Answers("ok")
    BY <1>31 DEF RunsWrite, Runs
  <2>2. jobs' \in Seq(Job) /\ reply' \in [Tasks -> Replies] /\ jobs[1] \in Job
    BY <1>0, <1>3, <2>1, AnswersMoves
  <2>3. <<Head(jobs).task, Head(jobs).n>> \in Stmt
    BY <1>0, <2>1, <2>2 DEF TypeOK, Job, Stmt
  <2>4. work' \subseteq Stmt /\ disk' \subseteq Stmt
    BY <1>0, <1>31, <2>3 DEF TypeOK, RunsWrite
  <2> QED
    BY <1>0, <1>31, <2>2, <2>4 DEF TypeOK, RunsWrite
<1>32. CASE UNCHANGED vars \/ Idle
  BY <1>0, <1>32 DEF TypeOK, Idle, vars
<1> QED
  BY <1>4, <1>5, <1>6, <1>7, <1>8, <1>9, <1>10, <1>11, <1>12, <1>13, <1>14,
     <1>15, <1>16, <1>17, <1>18, <1>19, <1>20, <1>22, <1>23, <1>24, <1>25,
     <1>26, <1>27, <1>28, <1>29, <1>30, <1>31, <1>32
  DEF Next, TaskStep, CancelStep, WorkerStep
-----------------------------------------------------------------------------
(* What a step of a task does to the others.                               *)

\* What a step of t leaves alone: the connection, the other tasks, and, unless t is
\* in its slot, the worker's queue.
SameJob(i) ==
    /\ i \in DOMAIN jobs
    /\ jobs'[i].cmd = jobs[i].cmd
    /\ jobs'[i].task = jobs[i].task
    /\ jobs'[i].n = jobs[i].n

Moves(t) ==
    /\ open' = open /\ work' = work /\ disk' = disk
    /\ \A u \in Tasks \ {t} : /\ pc'[u] = pc[u] /\ fate'[u] = fate[u]
                              /\ sent'[u] = sent[u] /\ reply'[u] = reply[u]
    /\ pc[t] # "done"
    /\ fate[t] = "cancelled" => fate'[t] = "cancelled"
    /\ \/ jobs' = jobs /\ reply' = reply
       \/ /\ pc[t] \in InSlot
          /\ \A i \in DOMAIN jobs' : jobs'[i].task = t \/ SameJob(i)

\* The queue moves so when t sends, resends or stops waiting.
LEMMA QueueMoves ==
  ASSUME TypeOK, NEW t \in Tasks, NEW cmd \in Commands,
         Send(t, cmd) \/ Resend(t, cmd) \/ Forsake(t)
  PROVE  /\ \A u \in Tasks \ {t} : reply'[u] = reply[u]
         /\ \A i \in DOMAIN jobs' : jobs'[i].task = t \/ SameJob(i)
<1>1. JobOf(t, cmd).task = t
  BY DEF JobOf
<1>2. CASE Send(t, cmd)
  BY <1>1, <1>2, SendMoves DEF SameJob
<1>3. CASE Resend(t, cmd)
  BY <1>1, <1>3, ResendMoves DEF SameJob
<1>4. CASE Forsake(t)
  BY <1>4, ForsakeMoves DEF SameJob
<1> QED
  BY <1>2, <1>3, <1>4

\* Every step of a task is such a move: one case per action.
LEMMA TaskMoves ==
  ASSUME TypeOK, LockHolds, NEW t \in Tasks, Arrives(t) \/ TaskStep(t) \/ CancelStep(t)
  PROVE  Moves(t)
<1> USE DEF Goto, Ends, Leaves, task, lock, sqlite, InSlot
<1>1. {"begin", "write", "commit", "rollback"} \subseteq Commands
  BY DEF Commands
<1>2. ASSUME Arrives(t) PROVE Moves(t)
  BY <1>2 DEF TypeOK, Moves, Arrives, Cancelled
<1>3. ASSUME BeginSucceeds(t) PROVE Moves(t)
  BY <1>3 DEF TypeOK, Moves, BeginSucceeds, Cancelled
<1>4. ASSUME Abandons(t) PROVE Moves(t)
  BY <1>4 DEF TypeOK, Moves, Abandons, Cancelled
<1>5. ASSUME StatementDone(t) PROVE Moves(t)
  BY <1>5 DEF TypeOK, Moves, StatementDone, Cancelled
<1>6. ASSUME RollbackAnswered(t) PROVE Moves(t)
  BY <1>6 DEF TypeOK, Moves, RollbackAnswered, Cancelled
<1>7. ASSUME LegacyAnswered(t) PROVE Moves(t)
  BY <1>7 DEF TypeOK, Moves, LegacyAnswered, Cancelled
<1>8. ASSUME CancelQueued(t) PROVE Moves(t)
  BY <1>8 DEF TypeOK, Moves, CancelQueued, Cancelled
<1>9. ASSUME CancelRollback(t) PROVE Moves(t)
  BY <1>9 DEF TypeOK, Moves, CancelRollback, Cancelled
<1>10. ASSUME Acquires(t) PROVE Moves(t)
  <2>1. waitq \in Seq(Tasks) /\ waitq # <<>> /\ t = Head(waitq)
    BY <1>10 DEF TypeOK, Acquires
  <2>2. 1 \in DOMAIN waitq /\ waitq[1] = t
    BY <2>1
  <2>3. pc[t] = "queued"
    BY <2>2 DEF LockHolds
  <2> QED
    BY <1>10, <2>3 DEF TypeOK, Moves, Acquires
<1>11. ASSUME LegacyCommits(t) PROVE Moves(t)
  <2>1. jobs' = jobs
    BY <1>11 DEF TypeOK, LegacyCommits, CommitSends
  <2> QED
    BY <1>11, <2>1 DEF TypeOK, Moves, LegacyCommits
<1>12. ASSUME Begins(t) PROVE Moves(t)
  <2>1. Send(t, "begin")
    BY <1>12 DEF Begins
  <2>2. /\ \A u \in Tasks \ {t} : reply'[u] = reply[u]
        /\ \A i \in DOMAIN jobs' : jobs'[i].task = t \/ SameJob(i)
    BY <1>1, <2>1, QueueMoves
  <2> QED
    BY <1>12, <2>2 DEF TypeOK, Moves, Begins, Cancelled
<1>13. ASSUME TripwireExpires(t) PROVE Moves(t)
  <2>1. Send(t, "rollback")
    BY <1>13 DEF TripwireExpires
  <2>2. /\ \A u \in Tasks \ {t} : reply'[u] = reply[u]
        /\ \A i \in DOMAIN jobs' : jobs'[i].task = t \/ SameJob(i)
    BY <1>1, <2>1, QueueMoves
  <2> QED
    BY <1>13, <2>2 DEF TypeOK, Moves, TripwireExpires, Cancelled
<1>14. ASSUME OrphanAnswered(t) PROVE Moves(t)
  <2>1. Send(t, "begin")
    BY <1>14 DEF OrphanAnswered
  <2>2. /\ \A u \in Tasks \ {t} : reply'[u] = reply[u]
        /\ \A i \in DOMAIN jobs' : jobs'[i].task = t \/ SameJob(i)
    BY <1>1, <2>1, QueueMoves
  <2> QED
    BY <1>14, <2>2 DEF TypeOK, Moves, OrphanAnswered, Cancelled
<1>15. ASSUME BeginFails(t) PROVE Moves(t)
  <2>1. Send(t, "rollback")
    BY <1>15 DEF BeginFails
  <2>2. /\ \A u \in Tasks \ {t} : reply'[u] = reply[u]
        /\ \A i \in DOMAIN jobs' : jobs'[i].task = t \/ SameJob(i)
    BY <1>1, <2>1, QueueMoves
  <2> QED
    BY <1>15, <2>2 DEF TypeOK, Moves, BeginFails, Cancelled
<1>16. ASSUME BodyExecutes(t) PROVE Moves(t)
  <2>1. Send(t, "write")
    BY <1>16 DEF BodyExecutes
  <2>2. /\ \A u \in Tasks \ {t} : reply'[u] = reply[u]
        /\ \A i \in DOMAIN jobs' : jobs'[i].task = t \/ SameJob(i)
    BY <1>1, <2>1, QueueMoves
  <2> QED
    BY <1>16, <2>2 DEF TypeOK, Moves, BodyExecutes, Cancelled
<1>17. ASSUME BodyEnds(t) PROVE Moves(t)
  <2>1. Send(t, "commit")
    BY <1>17 DEF BodyEnds
  <2>2. /\ \A u \in Tasks \ {t} : reply'[u] = reply[u]
        /\ \A i \in DOMAIN jobs' : jobs'[i].task = t \/ SameJob(i)
    BY <1>1, <2>1, QueueMoves
  <2> QED
    BY <1>17, <2>2 DEF TypeOK, Moves, BodyEnds, Cancelled
<1>18. ASSUME LegacyExecutes(t) PROVE Moves(t)
  <2>1. Send(t, "write")
    BY <1>18 DEF LegacyExecutes
  <2>2. /\ \A u \in Tasks \ {t} : reply'[u] = reply[u]
        /\ \A i \in DOMAIN jobs' : jobs'[i].task = t \/ SameJob(i)
    BY <1>1, <2>1, QueueMoves
  <2> QED
    BY <1>18, <2>2 DEF TypeOK, Moves, LegacyExecutes, Cancelled
<1>19. ASSUME CancelBegin(t) PROVE Moves(t)
  <2>1. Resend(t, "rollback")
    BY <1>19 DEF CancelBegin
  <2>2. /\ \A u \in Tasks \ {t} : reply'[u] = reply[u]
        /\ \A i \in DOMAIN jobs' : jobs'[i].task = t \/ SameJob(i)
    BY <1>1, <2>1, QueueMoves
  <2> QED
    BY <1>19, <2>2 DEF TypeOK, Moves, CancelBegin, Cancelled
<1>20. ASSUME CancelInSlot(t) PROVE Moves(t)
  <2>1. Forsake(t)
    BY <1>20 DEF CancelInSlot
  <2>2. /\ \A u \in Tasks \ {t} : reply'[u] = reply[u]
        /\ \A i \in DOMAIN jobs' : jobs'[i].task = t \/ SameJob(i)
    BY <1>1, <2>1, QueueMoves
  <2> QED
    BY <1>20, <2>2 DEF TypeOK, Moves, CancelInSlot, Cancelled
<1>21. ASSUME NEW how, Finally(t, how)
      PROVE  /\ \A u \in Tasks \ {t} : reply'[u] = reply[u] /\ pc'[u] = pc[u] /\ fate'[u] = fate[u]
             /\ \A i \in DOMAIN jobs' : jobs'[i].task = t \/ SameJob(i)
             /\ fate[t] = "cancelled" => fate'[t] = "cancelled"
  <2>1. Resend(t, "rollback") \/ Forsake(t)
    BY <1>21 DEF Finally
  <2>2. /\ \A u \in Tasks \ {t} : reply'[u] = reply[u]
        /\ \A i \in DOMAIN jobs' : jobs'[i].task = t \/ SameJob(i)
    BY <1>1, <2>1, QueueMoves
  <2> QED
    BY <1>21, <2>2 DEF TypeOK, Finally
<1>22. ASSUME BodyRaises(t) PROVE Moves(t)
  <2>1. \E how : Finally(t, how)
    BY <1>22 DEF BodyRaises
  <2> QED
    BY <1>21, <1>22, <2>1 DEF TypeOK, Moves, BodyRaises, Cancelled
<1>23. ASSUME CommitAnswered(t) PROVE Moves(t)
  <2>1. \E how : Finally(t, how)
    BY <1>23 DEF CommitAnswered
  <2> QED
    BY <1>21, <1>23, <2>1 DEF TypeOK, Moves, CommitAnswered, Cancelled
<1>24. ASSUME CancelBody(t) PROVE Moves(t)
  <2>1. \E how : Finally(t, how)
    BY <1>24 DEF CancelBody
  <2> QED
    BY <1>21, <1>24, <2>1 DEF TypeOK, Moves, CancelBody, Cancelled
<1> QED
  BY <1>2, <1>3, <1>4, <1>5, <1>6, <1>7, <1>8, <1>9, <1>10, <1>11, <1>12,
     <1>13, <1>14, <1>15, <1>16, <1>17, <1>18, <1>19, <1>20, <1>22, <1>23,
     <1>24
  DEF TaskStep, CancelStep

\* What a task's call has done is not changed by the steps of the others.
LEMMA OthersKept ==
  ASSUME TypeOK, LockHolds, NEW t \in Tasks, Moves(t), NEW b \in Batches, b # t, Progress(b)
  PROVE  Progress(b)'
<1>1. /\ open' = open /\ work' = work /\ disk' = disk
      /\ pc'[b] = pc[b] /\ fate'[b] = fate[b] /\ sent'[b] = sent[b] /\ reply'[b] = reply[b]
  BY DEF Moves, Tasks
<1>2. CASE jobs' = jobs
  <2>1. Untouched(b)' <=> Untouched(b)
    BY <1>1, <1>2 DEF Untouched
  <2>2. InBody(b)' <=> InBody(b)
    BY <1>1, <1>2 DEF InBody
  <2>3. Over(b)' <=> Over(b)
    BY <1>1 DEF Over
  <2> QED
    BY <1>1, <1>2, <2>1, <2>2, <2>3 DEF Progress
<1>3. CASE /\ pc[t] \in InSlot
           /\ \A i \in DOMAIN jobs' : jobs'[i].task = t \/ SameJob(i)
  <2>1. pc[b] \notin InSlot
    BY <1>3 DEF LockHolds, Tasks
  <2>2. Untouched(b) => Untouched(b)'
    BY <1>1, <1>3 DEF Untouched, SameJob
  <2>3. Over(b)' <=> Over(b)
    BY <1>1 DEF Over
  <2> QED
    BY <1>1, <2>1, <2>2, <2>3 DEF Progress, InSlot
<1> QED
  BY <1>2, <1>3 DEF Moves

-----------------------------------------------------------------------------
(* The lock.                                                               *)

\* A step of a task that leaves the waiting line and the owner alone keeps the lock's
\* invariant when the lock follows it in and out of the slot.
LEMMA LockKept ==
  ASSUME TypeOK, LockHolds, NEW t \in Tasks,
         waitq' = waitq, waiters' = waiters, owner' = owner,
         \A u \in Tasks \ {t} : pc'[u] = pc[u],
         pc[t] \in InSlot,
         holder' = (IF pc'[t] \in InSlot THEN t ELSE NoTask),
         pc[t] \in {"body", "write", "commit"} <=> pc'[t] \in {"body", "write", "commit"},
         pc'[t] # "queued",
         t \in Batches => pc'[t] \notin {"legacy", "settle"},
         t \in Singles => pc'[t] \in {"legacy", "settle", "done"}
  PROVE  LockHolds'
<1>1. holder = t /\ t # NoTask /\ NoTask \notin Tasks
  BY DEF LockHolds, Tasks
<1>2. \A u \in Tasks : holder' = u <=> pc'[u] \in InSlot
  BY <1>1 DEF LockHolds
<1>3. \A u \in Tasks : owner' = u <=> pc'[u] \in {"body", "write", "commit"}
  BY DEF LockHolds
<1>4. pc[t] # "queued"
  BY DEF InSlot
<1>5. \A i \in DOMAIN waitq : waitq[i] \in Tasks
  BY DEF TypeOK
<1>6. /\ \A i \in DOMAIN waitq' : pc'[waitq'[i]] = "queued"
      /\ \A u \in Tasks : pc'[u] = "queued" => \E i \in DOMAIN waitq' : waitq'[i] = u
  BY <1>4, <1>5 DEF LockHolds
<1>7. /\ \A u \in Batches : pc'[u] \notin {"legacy", "settle"}
      /\ \A u \in Singles : pc'[u] \in {"idle", "queued", "ready", "legacy", "settle", "done"}
  BY DEF LockHolds, Tasks
<1> QED
  BY <1>2, <1>3, <1>6, <1>7 DEF LockHolds

\* Whoever takes or gives up the ownership of a body.
LEMMA OwnerKept ==
  ASSUME TypeOK, LockHolds, NEW t \in Batches,
         waitq' = waitq, waiters' = waiters,
         \A u \in Tasks \ {t} : pc'[u] = pc[u],
         pc[t] \in InSlot,
         holder' = (IF pc'[t] \in InSlot THEN t ELSE NoTask),
         owner' = (IF pc'[t] \in {"body", "write", "commit"} THEN t ELSE NoTask),
         pc'[t] \notin {"queued", "legacy", "settle"}
  PROVE  LockHolds'
<1>0. t \in Tasks /\ t \notin Singles
  BY DEF Tasks
<1>1. holder = t /\ t # NoTask /\ NoTask \notin Tasks
  BY <1>0 DEF LockHolds, Tasks
<1>2. \A u \in Tasks : holder' = u <=> pc'[u] \in InSlot
  BY <1>1 DEF LockHolds
<1>3. \A u \in Tasks : owner' = u <=> pc'[u] \in {"body", "write", "commit"}
  BY <1>1, <1>2 DEF LockHolds, InSlot
<1>4. pc[t] # "queued"
  BY DEF InSlot
<1>5. \A i \in DOMAIN waitq : waitq[i] \in Tasks
  BY DEF TypeOK
<1>6. /\ \A i \in DOMAIN waitq' : pc'[waitq'[i]] = "queued"
      /\ \A u \in Tasks : pc'[u] = "queued" => \E i \in DOMAIN waitq' : waitq'[i] = u
  BY <1>4, <1>5 DEF LockHolds
<1>7. /\ \A u \in Batches : pc'[u] \notin {"legacy", "settle"}
      /\ \A u \in Singles : pc'[u] \in {"idle", "queued", "ready", "legacy", "settle", "done"}
  BY <1>0 DEF LockHolds, Tasks
<1> QED
  BY <1>2, <1>3, <1>6, <1>7 DEF LockHolds

\* Every step of a task keeps it: one case per action.
LEMMA LockStep ==
  ASSUME TypeOK, LockHolds, NEW t \in Tasks, Arrives(t) \/ TaskStep(t) \/ CancelStep(t)
  PROVE  LockHolds'
<1> USE DEF Goto, Ends, Leaves, task, lock, sqlite
<1>0. pc \in [Tasks -> Places] /\ waitq \in Seq(Tasks)
  BY DEF TypeOK
<1>1. /\ t \in Batches => pc[t] \notin {"legacy", "settle"} /\ t \notin Singles
      /\ t \in Singles => pc[t] \in {"idle", "queued", "ready", "legacy", "settle", "done"}
      /\ t \in Batches \/ t \in Singles
      /\ pc[t] \in InSlot => holder = t
  BY DEF LockHolds, Tasks
<1>2. CASE Arrives(t)
  <2>1. /\ pc[t] = "idle" /\ pc' = [pc EXCEPT ![t] = "queued"]
        /\ waitq' = Append(waitq, t) /\ waiters' = waiters + 1
        /\ holder' = holder /\ owner' = owner
    BY <1>2 DEF Arrives
  <2>2. /\ waitq' \in Seq(Tasks)
        /\ Len(waitq') = Len(waitq) + 1
        /\ DOMAIN waitq' = DOMAIN waitq \cup {Len(waitq) + 1}
        /\ Len(waitq) + 1 \notin DOMAIN waitq
        /\ \A i \in DOMAIN waitq : waitq'[i] = waitq[i] /\ waitq[i] \in Tasks
        /\ waitq'[Len(waitq) + 1] = t
    BY <1>0, <2>1
  <2>3. \A i \in DOMAIN waitq : waitq[i] # t
    BY <2>1 DEF LockHolds
  <2>4. /\ \A i \in DOMAIN waitq' : pc'[waitq'[i]] = "queued"
        /\ \A i, j \in DOMAIN waitq' : waitq'[i] = waitq'[j] => i = j
        /\ waiters' = Len(waitq')
    BY <1>0, <2>1, <2>2, <2>3 DEF LockHolds
  <2>5. \A u \in Tasks : pc'[u] = "queued" => \E i \in DOMAIN waitq' : waitq'[i] = u
    BY <1>0, <2>1, <2>2 DEF LockHolds
  <2>6. /\ \A u \in Tasks : holder' = u <=> pc'[u] \in InSlot
        /\ \A u \in Tasks : owner' = u <=> pc'[u] \in {"body", "write", "commit"}
        /\ \A u \in Batches : pc'[u] \notin {"legacy", "settle"}
        /\ \A u \in Singles : pc'[u] \in {"idle", "queued", "ready", "legacy", "settle", "done"}
    BY <1>0, <2>1 DEF LockHolds, InSlot, Tasks
  <2> QED
    BY <2>4, <2>5, <2>6 DEF LockHolds
<1>3. CASE Acquires(t)
  <2>1. /\ holder = NoTask /\ waitq # <<>> /\ t = Head(waitq) /\ waitq' = Tail(waitq)
        /\ holder' = t /\ waiters' = waiters - 1 /\ owner' = owner
        /\ pc' = [pc EXCEPT ![t] = "ready"]
    BY <1>3 DEF Acquires
  <2>2. /\ 1 \in DOMAIN waitq /\ waitq[1] = t
        /\ waitq' \in Seq(Tasks)
        /\ Len(waitq') = Len(waitq) - 1
        /\ \A i \in DOMAIN waitq' : i + 1 \in DOMAIN waitq /\ waitq'[i] = waitq[i + 1] /\ i \in Nat /\ i > 0
        /\ \A i \in DOMAIN waitq : i # 1 => i - 1 \in DOMAIN waitq' /\ waitq'[i - 1] = waitq[i]
        /\ \A i \in DOMAIN waitq : waitq[i] \in Tasks
    BY <1>0, <2>1
  <2>3. pc[t] = "queued"
    BY <2>2 DEF LockHolds
  <2>4. \A i \in DOMAIN waitq' : waitq'[i] # t
    BY <2>2 DEF LockHolds
  <2>5. \A i \in DOMAIN waitq' : pc'[waitq'[i]] = "queued"
    BY <1>0, <2>1, <2>2, <2>4 DEF LockHolds
  <2>6. ASSUME NEW i \in DOMAIN waitq', NEW j \in DOMAIN waitq', waitq'[i] = waitq'[j] PROVE i = j
    <3>1. i + 1 = j + 1
      BY <2>2, <2>6 DEF LockHolds
    <3> QED
      BY <2>2, <3>1
  <2>7. ASSUME NEW u \in Tasks, pc'[u] = "queued" PROVE \E i \in DOMAIN waitq' : waitq'[i] = u
    <3>1. u # t /\ pc[u] = "queued"
      BY <1>0, <2>1, <2>7
    <3>2. PICK i \in DOMAIN waitq : waitq[i] = u
      BY <3>1 DEF LockHolds
    <3> QED
      BY <2>2, <3>1, <3>2
  <2>8. waiters' = Len(waitq')
    BY <2>1, <2>2 DEF LockHolds
  <2>9. /\ \A u \in Tasks : holder' = u <=> pc'[u] \in InSlot
        /\ \A u \in Tasks : owner' = u <=> pc'[u] \in {"body", "write", "commit"}
        /\ \A u \in Batches : pc'[u] \notin {"legacy", "settle"}
        /\ \A u \in Singles : pc'[u] \in {"idle", "queued", "ready", "legacy", "settle", "done"}
    BY <1>0, <2>1, <2>3 DEF LockHolds, InSlot, Tasks
  <2> QED
    BY <2>5, <2>6, <2>7, <2>8, <2>9 DEF LockHolds
<1>4. CASE CancelQueued(t)
  <2>1. /\ pc[t] = "queued" /\ pc' = [pc EXCEPT ![t] = "done"]
        /\ waitq' = Without(waitq, t) /\ waiters' = waiters - 1
        /\ holder' = holder /\ owner' = owner
    BY <1>4 DEF CancelQueued, WaitersLeft
  <2>2. PICK k \in DOMAIN waitq : waitq[k] = t
    BY <2>1 DEF LockHolds
  <2>3. \A i, j \in DOMAIN waitq : waitq[i] = waitq[j] => i = j
    BY DEF LockHolds
  <2>4. /\ waitq' \in Seq(Tasks)
        /\ Len(waitq') = Len(waitq) - 1
        /\ \A i \in DOMAIN waitq' : \E j \in DOMAIN waitq : waitq[j] # t /\ waitq'[i] = waitq[j]
        /\ \A i, j \in DOMAIN waitq' : waitq'[i] = waitq'[j] => i = j
        /\ \A i \in DOMAIN waitq : waitq[i] # t => \E j \in DOMAIN waitq' : waitq'[j] = waitq[i]
    BY <1>0, <2>1, <2>2, <2>3, WithoutType
  <2>5. \A i \in DOMAIN waitq : waitq[i] \in Tasks
    BY <1>0
  <2>6. \A i \in DOMAIN waitq' : pc'[waitq'[i]] = "queued"
    BY <1>0, <2>1, <2>4, <2>5 DEF LockHolds
  <2>7. \A u \in Tasks : pc'[u] = "queued" => \E i \in DOMAIN waitq' : waitq'[i] = u
    BY <1>0, <2>1, <2>4 DEF LockHolds
  <2>8. waiters' = Len(waitq')
    BY <2>1, <2>4 DEF LockHolds
  <2>9. /\ \A u \in Tasks : holder' = u <=> pc'[u] \in InSlot
        /\ \A u \in Tasks : owner' = u <=> pc'[u] \in {"body", "write", "commit"}
        /\ \A u \in Batches : pc'[u] \notin {"legacy", "settle"}
        /\ \A u \in Singles : pc'[u] \in {"idle", "queued", "ready", "legacy", "settle", "done"}
    BY <1>0, <2>1 DEF LockHolds, InSlot, Tasks
  <2> QED
    BY <2>4, <2>6, <2>7, <2>8, <2>9 DEF LockHolds
<1>5. CASE LegacyCommits(t)
  <2>1. /\ pc[t] = "settle" /\ pc' = [pc EXCEPT ![t] = "done"]
        /\ waitq' = waitq /\ waiters' = waiters /\ holder' = holder /\ owner' = owner
    BY <1>5 DEF LegacyCommits
  <2>2. \A i \in DOMAIN waitq : waitq[i] \in Tasks
    BY <1>0
  <2>3. /\ \A i \in DOMAIN waitq' : pc'[waitq'[i]] = "queued"
        /\ \A u \in Tasks : pc'[u] = "queued" => \E i \in DOMAIN waitq' : waitq'[i] = u
    BY <1>0, <2>1, <2>2 DEF LockHolds
  <2>4. /\ \A u \in Tasks : holder' = u <=> pc'[u] \in InSlot
        /\ \A u \in Tasks : owner' = u <=> pc'[u] \in {"body", "write", "commit"}
        /\ \A u \in Batches : pc'[u] \notin {"legacy", "settle"}
        /\ \A u \in Singles : pc'[u] \in {"idle", "queued", "ready", "legacy", "settle", "done"}
    BY <1>0, <2>1 DEF LockHolds, InSlot, Tasks
  <2> QED
    BY <2>1, <2>3, <2>4 DEF LockHolds
<1>6. CASE Begins(t)
  BY <1>0, <1>1, <1>6, LockKept DEF Begins, InSlot
<1>7. CASE TripwireExpires(t)
  BY <1>0, <1>1, <1>7, LockKept DEF TripwireExpires, InSlot
<1>8. CASE OrphanAnswered(t)
  BY <1>0, <1>1, <1>8, LockKept DEF OrphanAnswered, InSlot
<1>9. CASE BeginFails(t)
  BY <1>0, <1>1, <1>9, LockKept DEF BeginFails, InSlot
<1>10. CASE Abandons(t)
  BY <1>0, <1>1, <1>10, LockKept DEF Abandons, InSlot
<1>11. CASE BodyExecutes(t)
  BY <1>0, <1>1, <1>11, LockKept DEF BodyExecutes, InSlot
<1>12. CASE StatementDone(t)
  BY <1>0, <1>1, <1>12, LockKept DEF StatementDone, InSlot
<1>13. CASE BodyEnds(t)
  BY <1>0, <1>1, <1>13, LockKept DEF BodyEnds, InSlot
<1>14. CASE RollbackAnswered(t)
  BY <1>0, <1>1, <1>14, LockKept DEF RollbackAnswered, InSlot
<1>15. CASE LegacyExecutes(t)
  BY <1>0, <1>1, <1>15, LockKept DEF LegacyExecutes, InSlot
<1>16. CASE LegacyAnswered(t)
  BY <1>0, <1>1, <1>16, LockKept DEF LegacyAnswered, InSlot
<1>17. CASE CancelInSlot(t)
  BY <1>0, <1>1, <1>17, LockKept DEF CancelInSlot, InSlot
<1>18. CASE CancelBegin(t)
  BY <1>0, <1>1, <1>18, LockKept DEF CancelBegin, InSlot
<1>19. CASE CancelRollback(t)
  BY <1>0, <1>1, <1>19, LockKept DEF CancelRollback, InSlot
<1>20. CASE BeginSucceeds(t)
  BY <1>0, <1>1, <1>20, OwnerKept DEF BeginSucceeds, InSlot
<1>21. CASE BodyRaises(t)
  BY <1>0, <1>1, <1>21, OwnerKept DEF BodyRaises, Finally, InSlot
<1>22. CASE CommitAnswered(t)
  BY <1>0, <1>1, <1>22, OwnerKept DEF CommitAnswered, Finally, InSlot
<1>23. CASE CancelBody(t)
  BY <1>0, <1>1, <1>23, OwnerKept DEF CancelBody, Finally, InSlot
<1> QED
  BY <1>2, <1>3, <1>4, <1>5, <1>6, <1>7, <1>8, <1>9, <1>10, <1>11, <1>12,
     <1>13, <1>14, <1>15, <1>16, <1>17, <1>18, <1>19, <1>20, <1>21, <1>22,
     <1>23
  DEF TaskStep, CancelStep

-----------------------------------------------------------------------------
(* The worker's queue.                                                     *)

\* The jobs that are queued are well formed.
LEMMA JobsTyped ==
  ASSUME TypeOK
  PROVE  \A i \in DOMAIN jobs : /\ jobs[i] \in Job
                               /\ jobs[i].task \in Tasks
                               /\ jobs[i].cmd \in Commands
                               /\ jobs[i].heard \in BOOLEAN
<1>1. jobs \in Seq(Job)
  BY DEF TypeOK
<1>2. \A i \in DOMAIN jobs : jobs[i] \in Job
  BY <1>1
<1> QED
  BY <1>2 DEF Job

\* Whoever waits for a statement is in the slot, and so no other does.
LEMMA HeardByHolder ==
  ASSUME TypeOK, LockHolds, HeardIsLast, NEW t \in Tasks, pc[t] \in InSlot,
         NEW i \in DOMAIN jobs, jobs[i].heard
  PROVE  jobs[i].task = t /\ reply[t] = "none" /\ pc[t] \in DOMAIN Awaited
<1>1. jobs[i].task \in Tasks
  BY JobsTyped
<1>2. pc[jobs[i].task] \in DOMAIN Awaited /\ reply[jobs[i].task] = "none"
  BY DEF HeardIsLast
<1>3. pc[jobs[i].task] \in InSlot
  BY <1>2 DEF Awaited, InSlot
<1>4. jobs[i].task = t
  BY <1>1, <1>3 DEF LockHolds
<1> QED
  BY <1>2, <1>4

\* A task that has no answer to wait for sends a statement, and waits for it; ...
LEMMA HeardSend ==
  ASSUME TypeOK, LockHolds, HeardIsLast, NEW t \in Tasks, pc[t] \in InSlot,
         NEW cmd \in Commands, NEW place \in DOMAIN Awaited, Awaited[place] = cmd,
         Send(t, cmd), pc' = [pc EXCEPT ![t] = place], sent' = sent,
         pc[t] \notin DOMAIN Awaited \/ reply[t] # "none"
  PROVE  HeardIsLast'
<1>1. \A i \in DOMAIN jobs : ~jobs[i].heard
  BY HeardByHolder
<1>2. /\ Len(jobs') = Len(jobs) + 1
      /\ DOMAIN jobs' = DOMAIN jobs \cup {Len(jobs) + 1}
      /\ \A i \in DOMAIN jobs : jobs'[i] = jobs[i]
      /\ jobs'[Len(jobs) + 1] = JobOf(t, cmd)
      /\ reply'[t] = "none"
  BY SendMoves
<1>3. JobOf(t, cmd).task = t /\ JobOf(t, cmd).cmd = cmd /\ JobOf(t, cmd).n = sent[t] + 1
  BY DEF JobOf
<1>4. pc'[t] = place /\ sent'[t] = sent[t]
  BY DEF TypeOK
<1> QED
  BY <1>1, <1>2, <1>3, <1>4 DEF HeardIsLast

\* ... one that has stops waiting for it first; ...
LEMMA HeardResend ==
  ASSUME TypeOK, LockHolds, HeardIsLast, NEW t \in Tasks, pc[t] \in InSlot,
         NEW cmd \in Commands, NEW place \in DOMAIN Awaited, Awaited[place] = cmd,
         Resend(t, cmd), pc' = [pc EXCEPT ![t] = place], sent' = sent
  PROVE  HeardIsLast'
<1>1. /\ Len(jobs') = Len(jobs) + 1
      /\ DOMAIN jobs' = DOMAIN jobs \cup {Len(jobs) + 1}
      /\ \A i \in DOMAIN jobs : jobs'[i].heard <=> jobs[i].heard /\ jobs[i].task # t
      /\ jobs'[Len(jobs) + 1] = JobOf(t, cmd)
      /\ reply'[t] = "none"
  BY ResendMoves
<1>2. \A i \in DOMAIN jobs : ~jobs'[i].heard
  BY <1>1, HeardByHolder
<1>3. JobOf(t, cmd).task = t /\ JobOf(t, cmd).cmd = cmd /\ JobOf(t, cmd).n = sent[t] + 1
  BY DEF JobOf
<1>4. pc'[t] = place /\ sent'[t] = sent[t]
  BY DEF TypeOK
<1> QED
  BY <1>1, <1>2, <1>3, <1>4 DEF HeardIsLast

\* ... and one that leaves stops waiting.
LEMMA HeardForsake ==
  ASSUME TypeOK, LockHolds, HeardIsLast, NEW t \in Tasks, pc[t] \in InSlot, Forsake(t)
  PROVE  HeardIsLast'
<1>1. /\ DOMAIN jobs' = DOMAIN jobs
      /\ \A i \in DOMAIN jobs : jobs'[i].heard <=> jobs[i].heard /\ jobs[i].task # t
  BY ForsakeMoves
<1>2. \A i \in DOMAIN jobs : ~jobs'[i].heard
  BY <1>1, HeardByHolder
<1> QED
  BY <1>1, <1>2 DEF HeardIsLast

\* A task with its answer, or none to wait for, does something else.
LEMMA HeardQuiet ==
  ASSUME TypeOK, HeardIsLast, NEW t \in Tasks, jobs' = jobs, reply' = reply,
         pc[t] \notin DOMAIN Awaited \/ reply[t] # "none",
         \A u \in Tasks \ {t} : pc'[u] = pc[u] /\ sent'[u] = sent[u]
  PROVE  HeardIsLast'
<1>1. \A i \in DOMAIN jobs : jobs[i].task \in Tasks
  BY JobsTyped
<1>2. \A i \in DOMAIN jobs : jobs[i].heard => jobs[i].task # t
  BY DEF HeardIsLast
<1> QED
  BY <1>1, <1>2 DEF HeardIsLast

\* Every step of a task keeps what is waited for last in the queue.
LEMMA HeardStep ==
  ASSUME TypeOK, LockHolds, HeardIsLast, NEW t \in Tasks,
         Arrives(t) \/ TaskStep(t) \/ CancelStep(t)
  PROVE  HeardIsLast'
<1> USE DEF Goto, Ends, Leaves, task, lock, sqlite
<1>0. /\ pc \in [Tasks -> Places]
      /\ {"begin", "write", "commit", "rollback"} \subseteq Commands
  BY DEF TypeOK, Commands
<1>1. /\ {"orphan", "begin", "abandon", "write", "commit", "rollback", "shield", "legacy"} = DOMAIN Awaited
      /\ Awaited["orphan"] = "rollback" /\ Awaited["begin"] = "begin"
      /\ Awaited["abandon"] = "rollback" /\ Awaited["write"] = "write"
      /\ Awaited["commit"] = "commit" /\ Awaited["rollback"] = "rollback"
      /\ Awaited["shield"] = "rollback" /\ Awaited["legacy"] = "write"
  BY DEF Awaited
<1>2. CASE Arrives(t)
  BY <1>0, <1>1, <1>2, HeardQuiet DEF Arrives
<1>3. CASE BeginSucceeds(t)
  BY <1>0, <1>1, <1>3, HeardQuiet DEF BeginSucceeds
<1>4. CASE Abandons(t)
  BY <1>0, <1>1, <1>4, HeardQuiet DEF Abandons
<1>5. CASE StatementDone(t)
  BY <1>0, <1>1, <1>5, HeardQuiet DEF StatementDone
<1>6. CASE RollbackAnswered(t)
  BY <1>0, <1>1, <1>6, HeardQuiet DEF RollbackAnswered
<1>7. CASE LegacyAnswered(t)
  BY <1>0, <1>1, <1>7, HeardQuiet DEF LegacyAnswered
<1>8. CASE CancelQueued(t)
  BY <1>0, <1>1, <1>8, HeardQuiet DEF CancelQueued
<1>9. CASE Acquires(t)
  <2>1. waitq \in Seq(Tasks) /\ waitq # <<>> /\ t = Head(waitq)
    BY <1>9 DEF TypeOK, Acquires
  <2>2. 1 \in DOMAIN waitq /\ waitq[1] = t
    BY <2>1
  <2>3. pc[t] = "queued"
    BY <2>2 DEF LockHolds
  <2> QED
    BY <1>0, <1>1, <1>9, <2>3, HeardQuiet DEF Acquires
<1>10. CASE LegacyCommits(t)
  <2>1. jobs' = jobs
    BY <1>10 DEF TypeOK, LegacyCommits, CommitSends
  <2> QED
    BY <1>0, <1>1, <1>10, <2>1, HeardQuiet DEF LegacyCommits
<1>11. CASE CancelRollback(t)
  <2>1. /\ jobs' = jobs /\ reply' = reply /\ sent' = sent
        /\ pc[t] = "rollback" /\ pc'[t] = "shield" /\ \A u \in Tasks \ {t} : pc'[u] = pc[u]
    BY <1>0, <1>11 DEF CancelRollback
  <2>2. \A i \in DOMAIN jobs : jobs[i].task \in Tasks
    BY JobsTyped
  <2> QED
    BY <1>1, <2>1, <2>2 DEF HeardIsLast
<1>12. CASE Begins(t)
  <2>1. Send(t, "begin") /\ pc' = [pc EXCEPT ![t] = "begin"] /\ sent' = sent
    BY <1>12 DEF Begins
  <2>2. pc[t] \in InSlot /\ (pc[t] \notin DOMAIN Awaited \/ reply[t] # "none")
    BY <1>1, <1>12 DEF Begins, InSlot
  <2> QED
    BY <1>0, <1>1, <2>1, <2>2, HeardSend
<1>13. CASE TripwireExpires(t)
  <2>1. Send(t, "rollback") /\ pc' = [pc EXCEPT ![t] = "orphan"] /\ sent' = sent
    BY <1>13 DEF TripwireExpires
  <2>2. pc[t] \in InSlot /\ (pc[t] \notin DOMAIN Awaited \/ reply[t] # "none")
    BY <1>1, <1>13 DEF TripwireExpires, InSlot
  <2> QED
    BY <1>0, <1>1, <2>1, <2>2, HeardSend
<1>14. CASE OrphanAnswered(t)
  <2>1. Send(t, "begin") /\ pc' = [pc EXCEPT ![t] = "begin"] /\ sent' = sent
    BY <1>14 DEF OrphanAnswered
  <2>2. pc[t] \in InSlot /\ (pc[t] \notin DOMAIN Awaited \/ reply[t] # "none")
    BY <1>1, <1>14 DEF OrphanAnswered, InSlot
  <2> QED
    BY <1>0, <1>1, <2>1, <2>2, HeardSend
<1>15. CASE BeginFails(t)
  <2>1. Send(t, "rollback") /\ pc' = [pc EXCEPT ![t] = "abandon"] /\ sent' = sent
    BY <1>15 DEF BeginFails
  <2>2. pc[t] \in InSlot /\ (pc[t] \notin DOMAIN Awaited \/ reply[t] # "none")
    BY <1>1, <1>15 DEF BeginFails, InSlot
  <2> QED
    BY <1>0, <1>1, <2>1, <2>2, HeardSend
<1>16. CASE BodyExecutes(t)
  <2>1. Send(t, "write") /\ pc' = [pc EXCEPT ![t] = "write"] /\ sent' = sent
    BY <1>16 DEF BodyExecutes
  <2>2. pc[t] \in InSlot /\ (pc[t] \notin DOMAIN Awaited \/ reply[t] # "none")
    BY <1>1, <1>16 DEF BodyExecutes, InSlot
  <2> QED
    BY <1>0, <1>1, <2>1, <2>2, HeardSend
<1>17. CASE BodyEnds(t)
  <2>1. Send(t, "commit") /\ pc' = [pc EXCEPT ![t] = "commit"] /\ sent' = sent
    BY <1>17 DEF BodyEnds
  <2>2. pc[t] \in InSlot /\ (pc[t] \notin DOMAIN Awaited \/ reply[t] # "none")
    BY <1>1, <1>17 DEF BodyEnds, InSlot
  <2> QED
    BY <1>0, <1>1, <2>1, <2>2, HeardSend
<1>18. CASE LegacyExecutes(t)
  <2>1. Send(t, "write") /\ pc' = [pc EXCEPT ![t] = "legacy"] /\ sent' = sent
    BY <1>18 DEF LegacyExecutes
  <2>2. pc[t] \in InSlot /\ (pc[t] \notin DOMAIN Awaited \/ reply[t] # "none")
    BY <1>1, <1>18 DEF LegacyExecutes, InSlot
  <2> QED
    BY <1>0, <1>1, <2>1, <2>2, HeardSend
<1>19. CASE CancelBegin(t)
  <2>1. Resend(t, "rollback") /\ pc' = [pc EXCEPT ![t] = "abandon"] /\ sent' = sent
    BY <1>19 DEF CancelBegin
  <2>2. pc[t] \in InSlot
    BY <1>19 DEF CancelBegin, InSlot
  <2> QED
    BY <1>0, <1>1, <2>1, <2>2, HeardResend
<1>20. CASE CancelInSlot(t)
  <2>1. Forsake(t) /\ pc[t] \in InSlot
    BY <1>20 DEF CancelInSlot, InSlot
  <2> QED
    BY <2>1, HeardForsake
<1>21. ASSUME NEW how, Finally(t, how), pc[t] \in InSlot, sent' = sent PROVE HeardIsLast'
  <2>1. CASE open
    <3>1. Resend(t, "rollback") /\ pc' = [pc EXCEPT ![t] = "rollback"]
      BY <1>21, <2>1 DEF Finally
    <3> QED
      BY <1>0, <1>1, <1>21, <3>1, HeardResend
  <2>2. CASE ~open
    <3>1. Forsake(t)
      BY <1>21, <2>2 DEF Finally
    <3> QED
      BY <1>21, <3>1, HeardForsake
  <2> QED
    BY <2>1, <2>2
<1>22. CASE BodyRaises(t)
  BY <1>21, <1>22 DEF BodyRaises, InSlot
<1>23. CASE CommitAnswered(t)
  BY <1>21, <1>23 DEF CommitAnswered, InSlot
<1>24. CASE CancelBody(t)
  BY <1>21, <1>24 DEF CancelBody, InSlot
<1> QED
  BY <1>2, <1>3, <1>4, <1>5, <1>6, <1>7, <1>8, <1>9, <1>10, <1>11, <1>12,
     <1>13, <1>14, <1>15, <1>16, <1>17, <1>18, <1>19, <1>20, <1>22, <1>23,
     <1>24
  DEF TaskStep, CancelStep

\* What a task adds to the queue.
LEMMA QueueGrows ==
  ASSUME TypeOK, NEW t \in Tasks, NEW cmd \in Commands, Send(t, cmd) \/ Resend(t, cmd)
  PROVE  \A i \in DOMAIN jobs' :
            SameJob(i) \/ (/\ i = Len(jobs) + 1
                           /\ jobs'[i].task = t /\ jobs'[i].cmd = cmd /\ jobs'[i].n = sent[t] + 1)
<1>1. JobOf(t, cmd).task = t /\ JobOf(t, cmd).cmd = cmd /\ JobOf(t, cmd).n = sent[t] + 1
  BY DEF JobOf
<1>2. CASE Send(t, cmd)
  BY <1>1, <1>2, SendMoves DEF SameJob
<1>3. CASE Resend(t, cmd)
  BY <1>1, <1>3, ResendMoves DEF SameJob
<1> QED
  BY <1>2, <1>3

\* What is queued stays fit to run when a task moves, if a COMMIT it leaves behind was
\* left by a cancellation and whatever it adds is fit.
LEMMA NextKept ==
  ASSUME TypeOK, NextToRun, NEW t \in Tasks, Moves(t),
         pc[t] = "commit" => \/ jobs = <<>> \/ pc'[t] = "commit" \/ fate'[t] = "cancelled",
         \A i \in DOMAIN jobs' : SameJob(i) \/ NextOf(i)'
  PROVE  NextToRun'
<1> SUFFICES ASSUME NEW i \in DOMAIN jobs', SameJob(i) PROVE NextOf(i)'
  BY DEF NextToRun
<1>1. /\ i \in DOMAIN jobs
      /\ jobs'[i].cmd = jobs[i].cmd /\ jobs'[i].task = jobs[i].task /\ jobs'[i].n = jobs[i].n
      /\ NextOf(i)
  BY DEF SameJob, NextToRun
<1>2. jobs # <<>> /\ jobs[i].task \in Tasks
  BY <1>1, JobsTyped
<1>3. open' = open /\ work' = work /\ disk' = disk
  BY DEF Moves
<1>4. pc[jobs[i].task] = "commit" \/ fate[jobs[i].task] = "cancelled"
        => pc'[jobs[i].task] = "commit" \/ fate'[jobs[i].task] = "cancelled"
  BY <1>2 DEF Moves
<1> QED
  BY <1>1, <1>3, <1>4 DEF NextOf

\* Every step of a task leaves the queue fit to run.
LEMMA NextStep ==
  ASSUME IInv, NEW t \in Tasks, Arrives(t) \/ TaskStep(t) \/ CancelStep(t)
  PROVE  NextToRun'
<1> USE DEF Goto, Ends, Leaves, task, lock, sqlite
<1>0. /\ TypeOK /\ LockHolds /\ NextToRun /\ Moves(t)
      /\ {"begin", "write", "commit", "rollback"} \subseteq Commands
  BY TaskMoves DEF IInv, Commands
<1>1. /\ pc \in [Tasks -> Places] /\ fate \in [Tasks -> {"ok", "error", "cancelled"}]
      /\ open' = open /\ work' = work /\ disk' = disk
  BY <1>0 DEF TypeOK, Moves
<1>2. ASSUME jobs' = jobs PROVE \A i \in DOMAIN jobs' : SameJob(i)
  BY <1>2 DEF SameJob
<1>3. ASSUME NEW cmd \in {"begin", "rollback"}, Send(t, cmd) \/ Resend(t, cmd)
      PROVE  \A i \in DOMAIN jobs' : SameJob(i) \/ NextOf(i)'
  BY <1>0, <1>3, QueueGrows DEF NextOf
<1>4. ASSUME Forsake(t) PROVE \A i \in DOMAIN jobs' : SameJob(i)
  BY <1>0, <1>4, ForsakeMoves DEF SameJob
<1>5. CASE Arrives(t)
  BY <1>0, <1>2, <1>5, NextKept DEF Arrives
<1>6. CASE BeginSucceeds(t)
  BY <1>0, <1>2, <1>6, NextKept DEF BeginSucceeds
<1>7. CASE Abandons(t)
  BY <1>0, <1>2, <1>7, NextKept DEF Abandons
<1>8. CASE StatementDone(t)
  BY <1>0, <1>2, <1>8, NextKept DEF StatementDone
<1>9. CASE RollbackAnswered(t)
  BY <1>0, <1>2, <1>9, NextKept DEF RollbackAnswered
<1>10. CASE LegacyAnswered(t)
  BY <1>0, <1>2, <1>10, NextKept DEF LegacyAnswered
<1>11. CASE CancelQueued(t)
  BY <1>0, <1>2, <1>11, NextKept DEF CancelQueued
<1>12. CASE CancelRollback(t)
  BY <1>0, <1>2, <1>12, NextKept DEF CancelRollback
<1>13. CASE Acquires(t)
  <2>1. waitq \in Seq(Tasks) /\ waitq # <<>> /\ t = Head(waitq)
    BY <1>0, <1>13 DEF TypeOK, Acquires
  <2>2. 1 \in DOMAIN waitq /\ waitq[1] = t
    BY <2>1
  <2>3. pc[t] = "queued"
    BY <1>0, <2>2 DEF LockHolds
  <2> QED
    BY <1>0, <1>2, <1>13, <2>3, NextKept DEF Acquires
<1>14. CASE LegacyCommits(t)
  <2>1. jobs' = jobs /\ pc[t] = "settle"
    BY <1>0, <1>14 DEF TypeOK, LegacyCommits, CommitSends
  <2> QED
    BY <1>0, <1>2, <2>1, NextKept
<1>15. CASE Begins(t)
  <2>1. Send(t, "begin") /\ pc[t] # "commit"
    BY <1>15 DEF Begins
  <2> QED
    BY <1>0, <1>3, <2>1, NextKept
<1>16. CASE TripwireExpires(t)
  <2>1. Send(t, "rollback") /\ pc[t] # "commit"
    BY <1>16 DEF TripwireExpires
  <2> QED
    BY <1>0, <1>3, <2>1, NextKept
<1>17. CASE OrphanAnswered(t)
  <2>1. Send(t, "begin") /\ pc[t] # "commit"
    BY <1>17 DEF OrphanAnswered
  <2> QED
    BY <1>0, <1>3, <2>1, NextKept
<1>18. CASE BeginFails(t)
  <2>1. Send(t, "rollback") /\ pc[t] # "commit"
    BY <1>18 DEF BeginFails
  <2> QED
    BY <1>0, <1>3, <2>1, NextKept
<1>19. CASE CancelBegin(t)
  <2>1. Resend(t, "rollback") /\ pc[t] # "commit"
    BY <1>19 DEF CancelBegin
  <2> QED
    BY <1>0, <1>3, <2>1, NextKept
<1>20. CASE CancelInSlot(t)
  <2>1. Forsake(t) /\ pc[t] # "commit"
    BY <1>20 DEF CancelInSlot
  <2> QED
    BY <1>0, <1>4, <2>1, NextKept
<1>21. CASE BodyExecutes(t)
  <2>1. Send(t, "write") /\ pc[t] = "body" /\ sent[t] < BodySize
    BY <1>21 DEF BodyExecutes
  <2>2. t \in Batches /\ sent[t] \in 0..BodySize
    BY <1>0, <2>1 DEF LockHolds, Tasks, TypeOK
  <2>3. jobs = <<>> /\ open
    BY <2>1, <2>2 DEF IInv, Progress, InBody
  <2>4. Len(jobs) + 1 = 1 /\ sent[t] + 1 \in 1..Size(t)
    BY <2>1, <2>2, <2>3 DEF Size
  <2>5. \A i \in DOMAIN jobs' : SameJob(i) \/ NextOf(i)'
    BY <1>0, <1>1, <2>1, <2>3, <2>4, QueueGrows DEF NextOf
  <2> QED
    BY <1>0, <2>1, <2>5, NextKept
<1>22. CASE BodyEnds(t)
  <2>1. Send(t, "commit") /\ pc[t] = "body" /\ sent[t] = BodySize /\ pc'[t] = "commit"
    BY <1>1, <1>22 DEF BodyEnds
  <2>2. t \in Batches
    BY <1>0, <2>1 DEF LockHolds, Tasks
  <2>3. /\ jobs = <<>> /\ open
        /\ work = Stmts(t) /\ disk \cap Stmts(t) = {}
    BY <2>1, <2>2 DEF IInv, Progress, InBody, Done, Stmts, Size
  <2>4. Len(jobs) + 1 = 1
    BY <2>3
  <2>5. \A i \in DOMAIN jobs' : SameJob(i) \/ NextOf(i)'
    BY <1>0, <1>1, <2>1, <2>2, <2>3, <2>4, QueueGrows DEF NextOf
  <2> QED
    BY <1>0, <2>1, <2>5, NextKept
<1>23. CASE LegacyExecutes(t)
  <2>1. Send(t, "write") /\ pc[t] = "ready" /\ t \in Singles
    BY <1>23 DEF LegacyExecutes
  <2>2. t \notin Batches /\ sent[t] + 1 \in 1..Size(t)
    BY <2>1 DEF IInv, Legacy, Size
  <2>3. \A i \in DOMAIN jobs' : SameJob(i) \/ NextOf(i)'
    BY <1>0, <1>1, <2>1, <2>2, QueueGrows DEF NextOf
  <2> QED
    BY <1>0, <2>1, <2>3, NextKept
<1>24. ASSUME NEW how, Finally(t, how),
             pc[t] = "commit" => jobs = <<>> \/ fate'[t] = "cancelled"
      PROVE  NextToRun'
  <2>1. Resend(t, "rollback") \/ Forsake(t)
    BY <1>24 DEF Finally
  <2>2. \A i \in DOMAIN jobs' : SameJob(i) \/ NextOf(i)'
    BY <1>3, <1>4, <2>1
  <2> QED
    BY <1>0, <1>24, <2>2, NextKept
<1>25. CASE BodyRaises(t)
  <2>1. Finally(t, "error") /\ pc[t] # "commit"
    BY <1>25 DEF BodyRaises
  <2> QED
    BY <1>24, <2>1
<1>26. CASE CommitAnswered(t)
  <2>1. /\ pc[t] = "commit" /\ reply[t] # "none"
        /\ \E how : Finally(t, how)
    BY <1>26 DEF CommitAnswered
  <2>2. t \in Batches
    BY <1>0, <2>1 DEF LockHolds, Tasks
  <2>3. jobs = <<>>
    BY <2>1, <2>2 DEF IInv, Progress, InBody
  <2> QED
    BY <1>24, <2>1, <2>3
<1>27. CASE CancelBody(t)
  <2>1. Finally(t, "cancelled")
    BY <1>27 DEF CancelBody
  <2>2. fate'[t] = "cancelled"
    BY <1>1, <2>1 DEF Finally
  <2> QED
    BY <1>24, <2>1, <2>2
<1> QED
  BY <1>5, <1>6, <1>7, <1>8, <1>9, <1>10, <1>11, <1>12, <1>13, <1>14,
     <1>15, <1>16, <1>17, <1>18, <1>19, <1>20, <1>21, <1>22, <1>23, <1>25,
     <1>26, <1>27
  DEF TaskStep, CancelStep

-----------------------------------------------------------------------------
(* What a task's own steps make of its call.                               *)

\* A call that has written nothing still has not, when it sends a BEGIN or a ROLLBACK.
LEMMA UntouchedKept ==
  ASSUME TypeOK, NEW t \in Tasks, Moves(t), Untouched(t), sent' = sent,
         \/ jobs' = jobs \/ Forsake(t)
         \/ \E cmd \in {"begin", "rollback"} : Send(t, cmd) \/ Resend(t, cmd)
  PROVE  Untouched(t)'
<1>1. {"begin", "rollback"} \subseteq Commands
  BY DEF Commands
<1>2. ASSUME NEW i \in DOMAIN jobs', jobs'[i].task = t PROVE jobs'[i].cmd \in {"begin", "rollback"}
  <2>1. CASE jobs' = jobs
    BY <1>2, <2>1 DEF Untouched
  <2>2. CASE Forsake(t)
    BY <1>2, <2>2, ForsakeMoves DEF Untouched
  <2>3. CASE \E cmd \in {"begin", "rollback"} : Send(t, cmd) \/ Resend(t, cmd)
    BY <1>1, <1>2, <2>3, QueueGrows DEF Untouched, SameJob
  <2> QED
    BY <2>1, <2>2, <2>3
<1> QED
  BY <1>2 DEF Untouched, Moves

\* The end of a body: the durable statements are all of it if it succeeded, none if it
\* failed.
LEMMA FinallyOver ==
  ASSUME TypeOK, NEW t \in Batches, Moves(t), pc[t] \in {"body", "write", "commit"},
         NEW how \in {"ok", "error", "cancelled"}, Finally(t, how), fate[t] = "ok",
         how = "ok" => ~open /\ Stmts(t) \subseteq disk,
         how = "error" => disk \cap Stmts(t) = {},
         how = "cancelled" => disk \cap Stmts(t) = {} \/ Stmts(t) \subseteq disk
  PROVE  Progress(t)'
<1>0. t \in Tasks
  BY DEF Tasks
<1>1. disk' = disk /\ fate'[t] = how /\ pc'[t] = IF open THEN "rollback" ELSE "done"
  BY <1>0 DEF Moves, Finally, Leaves, Goto, Ends, TypeOK
<1>2. Over(t)'
  BY <1>1 DEF Over
<1> QED
  BY <1>1, <1>2 DEF Progress

\* Every step of a task keeps the account of its call: one case per action.
LEMMA OwnStep ==
  ASSUME IInv, NEW t \in Batches, Arrives(t) \/ TaskStep(t) \/ CancelStep(t)
  PROVE  Progress(t)'
<1> USE DEF Goto, Ends, Leaves, task, lock, sqlite
<1>0. /\ TypeOK /\ LockHolds /\ Moves(t) /\ Progress(t) /\ t \in Tasks
      /\ {"begin", "write", "commit", "rollback"} \subseteq Commands
  <2>1. t \in Tasks /\ TypeOK /\ LockHolds /\ Progress(t)
    BY DEF IInv, Tasks
  <2> QED
    BY <2>1, TaskMoves DEF Commands
<1>1. /\ pc \in [Tasks -> Places] /\ fate \in [Tasks -> {"ok", "error", "cancelled"}]
      /\ sent \in [Tasks -> 0..BodySize] /\ reply \in [Tasks -> Replies]
      /\ open' = open /\ work' = work /\ disk' = disk
      /\ pc[t] \notin {"legacy", "settle"} /\ t \notin Singles
  BY <1>0 DEF TypeOK, Moves, LockHolds
<1>2. ASSUME NEW cmd \in Commands, Send(t, cmd) PROVE reply'[t] = "none"
  BY <1>0, <1>2, SendMoves
<1>3. ASSUME Untouched(t)', pc'[t] = "done", fate'[t] # "ok" PROVE Progress(t)'
  BY <1>3 DEF Progress, Over, Untouched
<1>4. CASE Arrives(t)
  <2>1. Untouched(t)'
    BY <1>0, <1>4, UntouchedKept DEF Arrives, Progress
  <2> QED
    BY <1>0, <1>1, <1>4, <2>1 DEF Arrives, Progress
<1>5. CASE Acquires(t)
  <2>1. waitq \in Seq(Tasks) /\ waitq # <<>> /\ t = Head(waitq)
    BY <1>0, <1>5 DEF TypeOK, Acquires
  <2>2. 1 \in DOMAIN waitq /\ waitq[1] = t
    BY <2>1
  <2>3. pc[t] = "queued"
    BY <1>0, <2>2 DEF LockHolds
  <2>4. Untouched(t)'
    BY <1>0, <1>5, <2>3, UntouchedKept DEF Acquires, Progress
  <2> QED
    BY <1>0, <1>1, <1>5, <2>3, <2>4 DEF Acquires, Progress
<1>6. CASE Begins(t)
  <2>1. Send(t, "begin") /\ sent' = sent /\ fate' = fate
    BY <1>6 DEF Begins
  <2>2. Untouched(t)'
    BY <1>0, <1>6, <2>1, UntouchedKept DEF Begins, Progress
  <2>3. reply'[t] = "none"
    BY <1>0, <1>2, <2>1
  <2> QED
    BY <1>0, <1>1, <1>6, <2>1, <2>2, <2>3 DEF Begins, Progress
<1>7. CASE TripwireExpires(t)
  <2>1. Send(t, "rollback") /\ sent' = sent /\ fate' = fate
    BY <1>7 DEF TripwireExpires
  <2>2. Untouched(t)'
    BY <1>0, <1>7, <2>1, UntouchedKept DEF TripwireExpires, Progress
  <2>3. reply'[t] = "none"
    BY <1>0, <1>2, <2>1
  <2> QED
    BY <1>0, <1>1, <1>7, <2>1, <2>2, <2>3 DEF TripwireExpires, Progress
<1>8. CASE OrphanAnswered(t)
  <2>1. Send(t, "begin") /\ sent' = sent /\ fate' = fate
    BY <1>8 DEF OrphanAnswered
  <2>2. Untouched(t)'
    BY <1>0, <1>8, <2>1, UntouchedKept DEF OrphanAnswered, Progress
  <2>3. reply'[t] = "none"
    BY <1>0, <1>2, <2>1
  <2> QED
    BY <1>0, <1>1, <1>8, <2>1, <2>2, <2>3 DEF OrphanAnswered, Progress
<1>9. CASE BeginFails(t)
  <2>1. Send(t, "rollback") /\ sent' = sent /\ fate' = [fate EXCEPT ![t] = IF @ = "cancelled" THEN @ ELSE "error"]
    BY <1>9 DEF BeginFails
  <2>2. Untouched(t)'
    BY <1>0, <1>9, <2>1, UntouchedKept DEF BeginFails, Progress
  <2>3. reply'[t] = "none"
    BY <1>0, <1>2, <2>1
  <2> QED
    BY <1>0, <1>1, <1>9, <2>1, <2>2, <2>3 DEF BeginFails, Progress
<1>10. CASE BeginSucceeds(t)
  <2>1. /\ pc[t] = "begin" /\ reply[t] = "ok" /\ pc'[t] = "body"
        /\ jobs' = jobs /\ fate'[t] = fate[t] /\ sent'[t] = sent[t]
    BY <1>0, <1>1, <1>10 DEF BeginSucceeds
  <2>2. /\ Untouched(t) /\ fate[t] = "ok"
        /\ open /\ work = {} /\ jobs = <<>>
    BY <1>0, <2>1 DEF Progress
  <2>3. work = Done(t, sent[t]) /\ disk \cap Stmts(t) = {}
    BY <2>2 DEF Untouched, Done
  <2>4. InBody(t)'
    BY <1>1, <2>1, <2>2, <2>3 DEF InBody, Done
  <2> QED
    BY <2>1, <2>4 DEF Progress
<1>11. CASE Abandons(t)
  <2>1. Untouched(t)'
    BY <1>0, <1>11, UntouchedKept DEF Abandons, Progress
  <2>2. pc'[t] = "done" /\ fate'[t] # "ok"
    BY <1>0, <1>1, <1>11 DEF Abandons
  <2> QED
    BY <1>3, <2>1, <2>2
<1>12. CASE BodyExecutes(t)
  <2>1. /\ Send(t, "write") /\ pc[t] = "body" /\ pc'[t] = "write"
        /\ sent[t] < BodySize /\ fate'[t] = fate[t] /\ sent'[t] = sent[t]
    BY <1>0, <1>1, <1>12 DEF BodyExecutes
  <2>2. /\ fate[t] = "ok" /\ jobs = <<>> /\ open
        /\ work = Done(t, sent[t]) /\ disk \cap Stmts(t) = {}
    BY <1>0, <2>1 DEF Progress, InBody
  <2>3. /\ reply'[t] = "none" /\ jobs' = <<JobOf(t, "write")>>
        /\ JobOf(t, "write").heard /\ JobOf(t, "write").task = t
    BY <1>0, <1>2, <2>1, <2>2 DEF Send, JobOf
  <2>4. Len(jobs') = 1 /\ jobs'[1].heard /\ jobs'[1].task = t
    BY <2>3
  <2>5. InBody(t)'
    BY <1>1, <2>1, <2>2, <2>3, <2>4 DEF InBody, Done
  <2> QED
    BY <2>1, <2>5 DEF Progress
<1>13. CASE StatementDone(t)
  <2>1. /\ pc[t] = "write" /\ pc'[t] = "body" /\ reply[t] = "ok"
        /\ jobs' = jobs /\ fate'[t] = fate[t] /\ sent'[t] = sent[t] + 1
    BY <1>0, <1>1, <1>13 DEF StatementDone
  <2>2. /\ fate[t] = "ok" /\ jobs = <<>> /\ open
        /\ work = Done(t, sent[t] + 1) /\ disk \cap Stmts(t) = {}
    BY <1>0, <2>1 DEF Progress, InBody
  <2>3. InBody(t)'
    BY <1>1, <2>1, <2>2 DEF InBody, Done
  <2> QED
    BY <2>1, <2>3 DEF Progress
<1>14. CASE BodyEnds(t)
  <2>1. /\ Send(t, "commit") /\ pc[t] = "body" /\ pc'[t] = "commit"
        /\ sent[t] = BodySize /\ fate'[t] = fate[t] /\ sent'[t] = sent[t]
    BY <1>0, <1>1, <1>14 DEF BodyEnds
  <2>2. /\ fate[t] = "ok" /\ jobs = <<>> /\ open
        /\ work = Stmts(t) /\ disk \cap Stmts(t) = {}
    BY <1>0, <2>1 DEF Progress, InBody, Done, Stmts, Size
  <2>3. /\ reply'[t] = "none" /\ jobs' = <<JobOf(t, "commit")>>
        /\ JobOf(t, "commit").heard /\ JobOf(t, "commit").task = t
    BY <1>0, <1>2, <2>1, <2>2 DEF Send, JobOf
  <2>4. Len(jobs') = 1 /\ jobs'[1].heard /\ jobs'[1].task = t
    BY <2>3
  <2>5. InBody(t)'
    BY <1>1, <2>1, <2>2, <2>3, <2>4 DEF InBody
  <2> QED
    BY <2>1, <2>5 DEF Progress
<1>15. CASE BodyRaises(t)
  <2>1. Finally(t, "error") /\ pc[t] \in {"body", "write"}
    BY <1>15 DEF BodyRaises
  <2>2. fate[t] = "ok" /\ disk \cap Stmts(t) = {}
    BY <1>0, <2>1 DEF Progress, InBody
  <2> QED
    BY <1>0, <2>1, <2>2, FinallyOver
<1>16. CASE CommitAnswered(t)
  <2>1. pc[t] = "commit" /\ reply[t] # "none" /\ InBody(t)
    BY <1>0, <1>16 DEF CommitAnswered, Progress
  <2>2. CASE reply[t] \in {"ok", "bled"}
    <3>1. Finally(t, "ok")
      BY <1>16, <2>2 DEF CommitAnswered
    <3>2. fate[t] = "ok" /\ ~open /\ Stmts(t) \subseteq disk
      BY <2>1, <2>2 DEF InBody
    <3> QED
      BY <1>0, <2>1, <3>1, <3>2, FinallyOver
  <2>3. CASE reply[t] = "error"
    <3>1. Finally(t, "error")
      BY <1>16, <2>3 DEF CommitAnswered
    <3>2. fate[t] = "ok" /\ disk \cap Stmts(t) = {}
      BY <2>1, <2>3 DEF InBody
    <3> QED
      BY <1>0, <2>1, <3>1, <3>2, FinallyOver
  <2> QED
    BY <1>0, <1>1, <2>1, <2>2, <2>3 DEF Replies
<1>17. CASE CancelBody(t)
  <2>1. Finally(t, "cancelled") /\ pc[t] \in {"body", "write", "commit"} /\ InBody(t)
    BY <1>0, <1>17 DEF CancelBody, Progress
  <2>2. fate[t] = "ok" /\ (disk \cap Stmts(t) = {} \/ Stmts(t) \subseteq disk)
    BY <1>0, <1>1, <2>1 DEF InBody, Replies
  <2> QED
    BY <1>0, <2>1, <2>2, FinallyOver
<1>18. CASE RollbackAnswered(t)
  <2>1. pc[t] \in {"rollback", "shield"} /\ Over(t)
    BY <1>0, <1>18 DEF RollbackAnswered, Progress
  <2>2. pc'[t] = "done" /\ fate'[t] = fate[t]
    BY <1>0, <1>1, <1>18, <2>1 DEF RollbackAnswered, Over
  <2>3. Over(t)'
    BY <1>1, <2>1, <2>2 DEF Over
  <2> QED
    BY <2>2, <2>3 DEF Progress
<1>19. CASE LegacyExecutes(t)
  BY <1>1, <1>19 DEF LegacyExecutes
<1>20. CASE LegacyAnswered(t)
  BY <1>1, <1>20 DEF LegacyAnswered
<1>21. CASE LegacyCommits(t)
  BY <1>1, <1>21 DEF LegacyCommits
<1>22. CASE CancelQueued(t)
  <2>1. Untouched(t)'
    BY <1>0, <1>22, UntouchedKept DEF CancelQueued, Progress
  <2>2. pc'[t] = "done" /\ fate'[t] # "ok"
    BY <1>0, <1>1, <1>22 DEF CancelQueued
  <2> QED
    BY <1>3, <2>1, <2>2
<1>23. CASE CancelInSlot(t)
  <2>1. pc'[t] = "done" /\ fate'[t] = "cancelled" /\ Forsake(t) /\ sent' = sent
    BY <1>0, <1>1, <1>23 DEF CancelInSlot
  <2>2. CASE pc[t] \in {"ready", "orphan", "abandon"}
    <3>1. Untouched(t)'
      BY <1>0, <2>1, <2>2, UntouchedKept DEF Progress
    <3> QED
      BY <1>3, <2>1, <3>1
  <2>3. CASE pc[t] = "shield"
    <3>1. disk \cap Stmts(t) = {} \/ Stmts(t) \subseteq disk
      BY <1>0, <1>1, <2>3 DEF Progress, Over
    <3>2. Over(t)'
      BY <1>1, <2>1, <3>1 DEF Over
    <3> QED
      BY <2>1, <3>2 DEF Progress
  <2> QED
    BY <1>1, <1>23, <2>2, <2>3 DEF CancelInSlot
<1>24. CASE CancelBegin(t)
  <2>1. /\ Resend(t, "rollback") /\ sent' = sent /\ pc[t] = "begin"
        /\ pc'[t] = "abandon" /\ fate'[t] = "cancelled"
    BY <1>0, <1>1, <1>24 DEF CancelBegin
  <2>2. Untouched(t)'
    BY <1>0, <2>1, UntouchedKept DEF Progress
  <2> QED
    BY <2>1, <2>2 DEF Progress
<1>25. CASE CancelRollback(t)
  <2>1. pc[t] = "rollback" /\ Over(t)
    BY <1>0, <1>25 DEF CancelRollback, Progress
  <2>2. pc'[t] = "shield" /\ fate'[t] = "cancelled"
    BY <1>0, <1>1, <1>25 DEF CancelRollback
  <2>3. disk \cap Stmts(t) = {} \/ Stmts(t) \subseteq disk
    BY <1>0, <1>1, <2>1 DEF Over
  <2>4. Over(t)'
    BY <1>1, <2>2, <2>3 DEF Over
  <2> QED
    BY <2>2, <2>4 DEF Progress
<1> QED
  BY <1>4, <1>5, <1>6, <1>7, <1>8, <1>9, <1>10, <1>11, <1>12, <1>13, <1>14,
     <1>15, <1>16, <1>17, <1>18, <1>19, <1>20, <1>21, <1>22, <1>23, <1>24,
     <1>25
  DEF TaskStep, CancelStep

\* A legacy task's own step sends no statement but its own, and invents no answer.
LEMMA SingleStep ==
  ASSUME TypeOK, LockHolds, NEW t \in Singles, Arrives(t) \/ TaskStep(t) \/ CancelStep(t)
  PROVE  sent'[t] = sent[t] /\ (reply'[t] = reply[t] \/ reply'[t] = "none")
<1> USE DEF Goto, Ends, Leaves, task, lock, sqlite, Send, Forsake, Resend
<1>1. /\ t \in Tasks /\ t \notin Batches
      /\ pc[t] \in {"idle", "queued", "ready", "legacy", "settle", "done"}
      /\ reply \in [Tasks -> Replies]
  BY DEF LockHolds, Tasks, TypeOK
<1>2. CASE Arrives(t)
  BY <1>1, <1>2 DEF Arrives
<1>3. CASE Acquires(t)
  BY <1>1, <1>3 DEF Acquires
<1>4. CASE LegacyExecutes(t)
  BY <1>1, <1>4 DEF LegacyExecutes
<1>5. CASE LegacyAnswered(t)
  BY <1>1, <1>5 DEF LegacyAnswered
<1>6. CASE LegacyCommits(t)
  BY <1>1, <1>6 DEF LegacyCommits
<1>7. CASE CancelQueued(t)
  BY <1>1, <1>7 DEF CancelQueued
<1>8. CASE CancelInSlot(t)
  BY <1>1, <1>8 DEF CancelInSlot
<1>9. CASE \/ Begins(t) \/ TripwireExpires(t) \/ OrphanAnswered(t) \/ BeginSucceeds(t) \/ BeginFails(t)
           \/ Abandons(t) \/ BodyExecutes(t) \/ StatementDone(t) \/ BodyEnds(t) \/ BodyRaises(t)
           \/ CommitAnswered(t) \/ RollbackAnswered(t) \/ CancelBegin(t) \/ CancelBody(t) \/ CancelRollback(t)
  BY <1>1, <1>9 DEF Begins, TripwireExpires, OrphanAnswered, BeginSucceeds,
     BeginFails, Abandons, BodyExecutes, StatementDone, BodyEnds, BodyRaises,
     CommitAnswered, RollbackAnswered, CancelBegin, CancelBody, CancelRollback
<1> QED
  BY <1>2, <1>3, <1>4, <1>5, <1>6, <1>7, <1>8, <1>9 DEF TaskStep, CancelStep

-----------------------------------------------------------------------------
(* What a statement the worker runs makes of the calls.                    *)

\* The job at the head, its answer, and what it does to the connection.
Ran(how) ==
    /\ jobs # <<>>
    /\ Answers(how)
    /\ \/ /\ jobs[1].cmd = "begin" /\ how = (IF open THEN "error" ELSE "ok")
          /\ open' = TRUE /\ work' = work /\ disk' = disk
       \/ /\ jobs[1].cmd = "write" /\ how = "ok" /\ open' = open
          /\ IF open THEN work' = work \cup {<<jobs[1].task, jobs[1].n>>} /\ disk' = disk
                     ELSE work' = work /\ disk' = disk \cup {<<jobs[1].task, jobs[1].n>>}
       \/ /\ jobs[1].cmd = "commit" /\ how = (IF open THEN "ok" ELSE "bled")
          /\ open' = FALSE /\ work' = {} /\ disk' = disk \cup work
       \/ /\ jobs[1].cmd = "rollback" /\ how = (IF open THEN "ok" ELSE "error")
          /\ open' = FALSE /\ work' = {} /\ disk' = disk
       \/ /\ how = "error" /\ open' = open /\ work' = work /\ disk' = disk

\* Every step of the worker is one of these, and leaves the tasks where they are.
LEMMA WorkerRan ==
  ASSUME TypeOK, WorkerStep
  PROVE  /\ \E how \in {"ok", "error", "bled"} : Ran(how)
         /\ UNCHANGED <<pc, sent, fate, waitq, holder, waiters, owner>>
<1> USE DEF Runs, task, lock, sqlite
<1>1. jobs # <<>> => Head(jobs) = jobs[1]
  BY DEF TypeOK
<1>2. CASE RunsBegin
  BY <1>1, <1>2 DEF RunsBegin, Ran
<1>3. CASE RunsWrite
  BY <1>1, <1>3 DEF RunsWrite, Ran
<1>4. CASE RunsCommit
  BY <1>1, <1>4 DEF RunsCommit, Ran
<1>5. CASE RunsRollback
  BY <1>1, <1>5 DEF RunsRollback, Ran
<1>6. CASE StatementRaises
  BY <1>1, <1>6 DEF StatementRaises, Ran
<1> QED
  BY <1>2, <1>3, <1>4, <1>5, <1>6 DEF WorkerStep

\* The queue without its head is still in order.
LEMMA WorkerKeepsQueue ==
  ASSUME IInv, NEW how \in {"ok", "error", "bled"}, Ran(how),
         UNCHANGED <<pc, sent, fate, waitq, holder, waiters, owner>>
  PROVE  LockHolds' /\ HeardIsLast' /\ NextToRun' /\ ClosedIsEmpty' /\ Legacy'
<1>0. TypeOK /\ LockHolds /\ HeardIsLast /\ NextToRun /\ ClosedIsEmpty /\ Legacy
  BY DEF IInv
<1>1. /\ Len(jobs) >= 1 /\ 1 \in DOMAIN jobs
      /\ Len(jobs') = Len(jobs) - 1
      /\ \A i \in DOMAIN jobs' : /\ i \in Nat /\ i >= 1 /\ i <= Len(jobs')
                                 /\ i + 1 \in DOMAIN jobs /\ jobs'[i] = jobs[i + 1]
      /\ \A u \in Tasks : reply'[u] = reply[u] \/ (/\ jobs[1].heard /\ jobs[1].task = u
                                                   /\ reply'[u] = how)
  <2>1. how \in Replies /\ jobs # <<>> /\ Answers(how)
    BY DEF Ran, Replies
  <2>2. /\ Len(jobs) >= 1
        /\ jobs' \in Seq(Job)
        /\ Len(jobs') = Len(jobs) - 1
        /\ \A i \in DOMAIN jobs' : i + 1 \in DOMAIN jobs /\ jobs'[i] = jobs[i + 1]
        /\ jobs[1].heard => reply'[jobs[1].task] = how
        /\ \A u \in Tasks : reply'[u] = reply[u] \/ (jobs[1].heard /\ jobs[1].task = u)
    BY <1>0, <2>1, AnswersMoves
  <2>3. jobs \in Seq(Job)
    BY <1>0 DEF TypeOK
  <2> QED
    BY <2>2, <2>3
<1>2. LockHolds'
  BY <1>0 DEF LockHolds
<1>3. HeardIsLast'
  <2> SUFFICES ASSUME NEW i \in DOMAIN jobs', jobs'[i].heard
               PROVE  /\ i = Len(jobs')
                      /\ pc[jobs'[i].task] \in DOMAIN Awaited
                      /\ jobs'[i].cmd = Awaited[pc[jobs'[i].task]]
                      /\ jobs'[i].n = sent[jobs'[i].task] + 1
                      /\ reply'[jobs'[i].task] = "none"
    BY DEF HeardIsLast
  <2>1. /\ i + 1 \in DOMAIN jobs /\ jobs'[i] = jobs[i + 1] /\ i >= 1 /\ i \in Nat
        /\ jobs[i + 1].task \in Tasks
    BY <1>0, <1>1, JobsTyped
  <2>2. /\ i + 1 = Len(jobs)
        /\ pc[jobs'[i].task] \in DOMAIN Awaited
        /\ jobs'[i].cmd = Awaited[pc[jobs'[i].task]]
        /\ jobs'[i].n = sent[jobs'[i].task] + 1
        /\ reply[jobs'[i].task] = "none"
    BY <1>0, <2>1 DEF HeardIsLast
  <2>3. ~jobs[1].heard
    BY <1>0, <1>1, <2>1, <2>2 DEF HeardIsLast
  <2> QED
    BY <1>1, <2>1, <2>2, <2>3
<1>4. NextToRun'
  <2> SUFFICES ASSUME NEW i \in DOMAIN jobs' PROVE NextOf(i)'
    BY DEF NextToRun
  <2>1. /\ i + 1 \in DOMAIN jobs /\ jobs'[i] = jobs[i + 1] /\ i + 1 # 1
        /\ NextOf(i + 1)
    BY <1>0, <1>1 DEF NextToRun
  <2> QED
    BY <2>1 DEF NextOf
<1>5. ClosedIsEmpty'
  BY <1>0 DEF Ran, ClosedIsEmpty
<1>6. Legacy'
  <2> SUFFICES ASSUME NEW t \in Singles PROVE sent[t] = 0 /\ reply'[t] # "bled"
    BY DEF Legacy
  <2>1. how = "bled" => jobs[1].task \in Batches
    BY <1>0, <1>1 DEF Ran, NextToRun, NextOf
  <2>2. t \in Tasks /\ t \notin Batches
    BY DEF Tasks
  <2> QED
    BY <1>0, <1>1, <2>1, <2>2 DEF Legacy
<1> QED
  BY <1>2, <1>3, <1>4, <1>5, <1>6

\* The statements of a call reach the disk by its own COMMIT alone, and all at once; the
\* transaction, by its own writes alone.
LEMMA DiskMoves ==
  ASSUME IInv, NEW how \in {"ok", "error", "bled"}, Ran(how), NEW b \in Batches
  PROVE  /\ disk \subseteq disk'
         /\ ~(jobs[1].cmd = "commit" /\ jobs[1].task = b) => disk' \cap Stmts(b) = disk \cap Stmts(b)
         /\ jobs[1].cmd = "commit" /\ jobs[1].task = b => disk' = disk \/ Stmts(b) \subseteq disk'
         /\ ~(jobs[1].cmd \in {"write", "commit"} /\ jobs[1].task = b) =>
               (work' \cup disk') \cap Stmts(b) \subseteq (work \cup disk) \cap Stmts(b)
<1>0. TypeOK /\ NextToRun /\ 1 \in DOMAIN jobs
  BY DEF IInv, Ran, TypeOK
<1>1. NextOf(1)
  BY <1>0 DEF NextToRun
<1>2. ASSUME NEW c, c # b, NEW k PROVE <<c, k>> \notin Stmts(b)
  BY <1>2 DEF Stmts
<1>3. ASSUME NEW c, c # b PROVE Stmts(c) \cap Stmts(b) = {}
  BY <1>3 DEF Stmts
<1>4. CASE jobs[1].cmd = "write"
  <2>1. CASE jobs[1].task = b
    <3>1. open
      BY <1>1, <1>4, <2>1 DEF NextOf
    <3> QED
      BY <1>4, <2>1, <3>1 DEF Ran
  <2>2. CASE jobs[1].task # b
    <3> DEFINE s == <<jobs[1].task, jobs[1].n>>
    <3>1. s \notin Stmts(b)
      BY <1>2, <2>2
    <3>2. \/ work' = work \cup {s} /\ disk' = disk
          \/ work' = work /\ disk' = disk \cup {s}
          \/ work' = work /\ disk' = disk
      BY <1>4 DEF Ran
    <3> HIDE DEF s
    <3> QED
      BY <1>4, <3>1, <3>2
  <2> QED
    BY <2>1, <2>2
<1>5. CASE jobs[1].cmd = "commit"
  <2>1. work = Stmts(jobs[1].task)
    BY <1>1, <1>5 DEF NextOf
  <2>2. CASE jobs[1].task = b
    BY <1>5, <2>1, <2>2 DEF Ran
  <2>3. CASE jobs[1].task # b
    <3>1. work \cap Stmts(b) = {}
      BY <1>3, <2>1, <2>3
    <3> QED
      BY <1>5, <2>3, <3>1 DEF Ran
  <2> QED
    BY <2>2, <2>3
<1>6. CASE jobs[1].cmd \notin {"write", "commit"}
  BY <1>6 DEF Ran
<1> QED
  BY <1>4, <1>5, <1>6

\* A call's account is kept by whatever the worker runs: one case per place.
LEMMA WorkerKeepsProgress ==
  ASSUME IInv, NEW how \in {"ok", "error", "bled"}, Ran(how),
         UNCHANGED <<pc, sent, fate>>, NEW b \in Batches
  PROVE  Progress(b)'
<1>0. /\ TypeOK /\ HeardIsLast /\ NextToRun /\ ClosedIsEmpty /\ Progress(b)
      /\ b \in Tasks /\ jobs # <<>>
  BY DEF IInv, Ran, Tasks
<1>1. /\ 1 \in DOMAIN jobs /\ jobs \in Seq(Job)
      /\ how \in Replies /\ Answers(how)
      /\ Len(jobs') = Len(jobs) - 1
      /\ \A i \in DOMAIN jobs' : i + 1 \in DOMAIN jobs /\ jobs'[i] = jobs[i + 1]
      /\ jobs' \in Seq(Job)
      /\ jobs[1].heard /\ jobs[1].task = b => reply'[b] = how
      /\ reply'[b] = reply[b] \/ (jobs[1].heard /\ jobs[1].task = b)
  <2>1. how \in Replies /\ Answers(how)
    BY DEF Ran, Replies
  <2> QED
    BY <1>0, <2>1, AnswersMoves DEF TypeOK
<1>2. NextOf(1)
  BY <1>0, <1>1 DEF NextToRun
<1>3. ASSUME jobs[1].heard, jobs[1].task = b
      PROVE  /\ jobs[1].cmd = Awaited[pc[b]] /\ jobs[1].n = sent[b] + 1
             /\ reply[b] = "none" /\ reply'[b] = how /\ jobs' = <<>>
  <2>1. /\ Len(jobs) = 1
        /\ jobs[1].cmd = Awaited[pc[b]] /\ jobs[1].n = sent[b] + 1 /\ reply[b] = "none"
    BY <1>0, <1>1, <1>3 DEF HeardIsLast
  <2>2. jobs' = <<>>
    BY <1>1, <2>1
  <2> QED
    BY <1>1, <1>3, <2>1, <2>2
<1>4. ASSUME Untouched(b) PROVE Untouched(b)'
  <2>1. ~(jobs[1].cmd \in {"write", "commit"} /\ jobs[1].task = b)
    BY <1>1, <1>4 DEF Untouched
  <2>2. (work' \cup disk') \cap Stmts(b) = {}
    BY <1>4, <2>1, DiskMoves DEF Untouched
  <2> QED
    BY <1>1, <1>4, <2>2 DEF Untouched, Stmts, Size
<1>5. ASSUME Over(b), pc[b] # "commit" PROVE Over(b)'
  <2>1. jobs[1].cmd = "commit" /\ jobs[1].task = b => fate[b] = "cancelled"
    BY <1>2, <1>5 DEF NextOf
  <2> QED
    BY <1>5, <2>1, DiskMoves DEF Over, Stmts, Size
<1>6. CASE pc[b] \in {"idle", "queued", "ready", "orphan", "abandon"}
  BY <1>0, <1>4, <1>6 DEF Progress
<1>7. CASE pc[b] = "begin"
  <2>1. Untouched(b)' /\ fate[b] = "ok" /\ reply[b] # "bled" /\ reply[b] # "ok"
    BY <1>0, <1>4, <1>7 DEF Progress
  <2>2. CASE reply'[b] = reply[b]
    BY <1>7, <2>1, <2>2 DEF Progress
  <2>3. CASE jobs[1].heard /\ jobs[1].task = b
    <3>1. jobs[1].cmd = "begin" /\ reply'[b] = how /\ jobs' = <<>>
      BY <1>3, <1>7, <2>3 DEF Awaited
    <3>2. how # "bled" /\ (how = "ok" => ~open /\ open' /\ work' = work)
      BY <3>1 DEF Ran
    <3>3. how = "ok" => work' = {}
      BY <1>0, <3>2 DEF ClosedIsEmpty
    <3> QED
      BY <1>7, <2>1, <3>1, <3>2, <3>3 DEF Progress
  <2> QED
    BY <1>1, <2>2, <2>3
<1>8. CASE pc[b] = "body"
  BY <1>0, <1>8 DEF Progress, InBody
<1>9. CASE pc[b] = "write"
  <2>1. /\ fate[b] = "ok" /\ sent[b] < BodySize /\ open /\ disk \cap Stmts(b) = {}
        /\ jobs[1].heard /\ jobs[1].task = b
        /\ work = Done(b, IF reply[b] = "ok" THEN sent[b] + 1 ELSE sent[b])
    BY <1>0, <1>9 DEF Progress, InBody
  <2>2. /\ jobs[1].cmd = "write" /\ jobs[1].n = sent[b] + 1
        /\ reply[b] = "none" /\ reply'[b] = how /\ jobs' = <<>>
    BY <1>3, <1>9, <2>1 DEF Awaited
  <2>3. work = Done(b, sent[b]) /\ sent[b] \in Nat
    BY <1>0, <2>1, <2>2 DEF TypeOK
  <2>4. /\ open' /\ disk' = disk /\ how \in {"ok", "error"}
        /\ work' = IF how = "ok" THEN work \cup {<<b, sent[b] + 1>>} ELSE work
    BY <2>1, <2>2 DEF Ran
  <2>5. Done(b, sent[b]) \cup {<<b, sent[b] + 1>>} = Done(b, sent[b] + 1)
    <3>1. (1..sent[b]) \cup {sent[b] + 1} = 1..(sent[b] + 1)
      BY <2>3
    <3> QED
      BY <3>1 DEF Done
  <2>6. Len(jobs') <= 1
    BY <2>2
  <2>7. InBody(b)'
    BY <1>9, <2>1, <2>2, <2>3, <2>4, <2>5, <2>6 DEF InBody, Done, Stmts, Size
  <2> QED
    BY <1>9, <2>7 DEF Progress
<1>10. CASE pc[b] = "commit"
  <2>1. /\ fate[b] = "ok" /\ sent[b] = BodySize
        /\ jobs[1].heard /\ jobs[1].task = b
        /\ reply[b] = "none" => open /\ work = Stmts(b) /\ disk \cap Stmts(b) = {}
    BY <1>0, <1>10 DEF Progress, InBody
  <2>2. /\ jobs[1].cmd = "commit" /\ reply[b] = "none" /\ reply'[b] = how /\ jobs' = <<>>
    BY <1>3, <1>10, <2>1 DEF Awaited
  <2>3. \/ how = "ok" /\ ~open' /\ disk' = disk \cup work
        \/ how = "error" /\ open' = open /\ work' = work /\ disk' = disk
    BY <2>1, <2>2 DEF Ran
  <2>4. Len(jobs') <= 1
    BY <2>2
  <2>5. InBody(b)'
    BY <1>10, <2>1, <2>2, <2>3, <2>4 DEF InBody, Stmts, Size
  <2> QED
    BY <1>10, <2>5 DEF Progress
<1>11. CASE pc[b] \in {"rollback", "shield", "done"}
  BY <1>0, <1>5, <1>11 DEF Progress
<1>12. CASE pc[b] \in {"legacy", "settle"}
  BY <1>12 DEF Progress
<1>13. pc[b] \in Places
  BY <1>0 DEF TypeOK
<1> QED
  BY <1>6, <1>7, <1>8, <1>9, <1>10, <1>11, <1>12, <1>13 DEF Places

-----------------------------------------------------------------------------
(* The theorems.                                                           *)

\* What holds of every state: the lock, the worker's queue, the open transaction and the
\* account of every call.
THEOREM ConnectionInvariance == Spec => []IInv
<1>1. Init => IInv
  <2> SUFFICES ASSUME Init PROVE IInv
    OBVIOUS
  <2>1. TypeOK
    <3>1. 0 \in 0..BodySize /\ 0 \in 0..MaxCancels /\ 0 \in 0..MaxFaults
      OBVIOUS
    <3>2. waitq \in Seq(Tasks) /\ jobs \in Seq(Job)
      BY DEF Init
    <3> QED
      BY <3>1, <3>2 DEF Init, TypeOK, Places, Replies
  <2>2. LockHolds /\ HeardIsLast /\ NextToRun /\ ClosedIsEmpty /\ Legacy
    BY DEF Init, LockHolds, InSlot, HeardIsLast, NextToRun, ClosedIsEmpty, Legacy, Tasks
  <2>3. \A b \in Batches : Progress(b)
    BY DEF Init, Progress, Untouched, Tasks
  <2> QED
    BY <2>1, <2>2, <2>3 DEF IInv
<1>2. IInv /\ [Next]_vars => IInv'
  <2> SUFFICES ASSUME IInv, [Next]_vars PROVE IInv'
    OBVIOUS
  <2>0. TypeOK /\ LockHolds /\ HeardIsLast /\ \A b \in Batches : Progress(b)
    BY DEF IInv
  <2>1. TypeOK'
    BY TypeStep
  <2>2. ASSUME NEW t \in Tasks, Arrives(t) \/ TaskStep(t) \/ CancelStep(t) PROVE IInv'
    <3>1. LockHolds' /\ HeardIsLast' /\ NextToRun' /\ Moves(t)
      BY <2>0, <2>2, LockStep, HeardStep, NextStep, TaskMoves
    <3>2. ClosedIsEmpty'
      BY <3>1 DEF Moves, IInv, ClosedIsEmpty
    <3>3. Legacy'
      <4> SUFFICES ASSUME NEW s \in Singles PROVE sent'[s] = 0 /\ reply'[s] # "bled"
        BY DEF Legacy
      <4>1. s \in Tasks /\ s \notin Batches /\ sent[s] = 0 /\ reply[s] # "bled"
        BY DEF IInv, Legacy, Tasks
      <4>2. CASE s # t
        BY <3>1, <4>1, <4>2 DEF Moves
      <4>3. CASE s = t
        BY <2>0, <2>2, <4>1, <4>3, SingleStep
      <4> QED
        BY <4>2, <4>3
    <3>4. \A b \in Batches : Progress(b)'
      BY <2>0, <2>2, <3>1, OwnStep, OthersKept
    <3> QED
      BY <2>1, <3>1, <3>2, <3>3, <3>4 DEF IInv
  <2>3. CASE WorkerStep
    <3>1. PICK how \in {"ok", "error", "bled"} : Ran(how)
      BY <2>0, <2>3, WorkerRan
    <3>2. UNCHANGED <<pc, sent, fate, waitq, holder, waiters, owner>>
      BY <2>0, <2>3, WorkerRan
    <3>3. LockHolds' /\ HeardIsLast' /\ NextToRun' /\ ClosedIsEmpty' /\ Legacy'
      BY <3>1, <3>2, WorkerKeepsQueue
    <3>4. \A b \in Batches : Progress(b)'
      BY <3>1, <3>2, WorkerKeepsProgress
    <3> QED
      BY <2>1, <3>3, <3>4 DEF IInv
  <2>4. CASE Idle \/ UNCHANGED vars
    <3>1. UNCHANGED <<pc, sent, fate, waitq, holder, waiters, owner, jobs, reply, open, work, disk>>
      BY <2>4 DEF Idle, vars, task, lock, sqlite
    <3>2. LockHolds' /\ HeardIsLast'
      BY <2>0, <3>1 DEF LockHolds, HeardIsLast
    <3>3. NextToRun' /\ ClosedIsEmpty' /\ Legacy'
      BY <3>1 DEF IInv, NextToRun, NextOf, ClosedIsEmpty, Legacy
    <3>4. \A b \in Batches : Progress(b)'
      BY <2>0, <3>1 DEF Progress, Untouched, InBody, Over
    <3> QED
      BY <2>1, <3>2, <3>3, <3>4 DEF IInv
  <2> QED
    BY <2>2, <2>3, <2>4 DEF Next
<1> QED
  BY <1>1, <1>2, PTL DEF Spec

\* The tasks, the lock, the worker's queue and the connection stay well formed.
THEOREM ConnectionTypeCorrect == Spec => []TypeOK
<1>1. IInv => TypeOK
  BY DEF IInv
<1> QED
  BY <1>1, ConnectionInvariance, PTL

\* The waiter counter is the number of waiters, whoever is cancelled when.
THEOREM WaitersCountedHolds == Spec => []WaitersCounted
<1>1. IInv => WaitersCounted
  <2> SUFFICES ASSUME IInv PROVE WaitersCounted
    OBVIOUS
  <2> DEFINE Q == {t \in Tasks : pc[t] = "queued"}
             f == [i \in 1..Len(waitq) |-> waitq[i]]
  <2>1. TypeOK /\ LockHolds
    BY DEF IInv
  <2>2. waitq \in Seq(Tasks) /\ Len(waitq) \in Nat /\ DOMAIN waitq = 1..Len(waitq)
    BY <2>1 DEF TypeOK
  <2>3. \A i \in 1..Len(waitq) : waitq[i] \in Q
    BY <2>1, <2>2 DEF LockHolds
  <2>4. f \in Injection(1..Len(waitq), Q)
    BY <2>1, <2>2, <2>3 DEF LockHolds, Injection, IsInjective
  <2>5. f \in Surjection(1..Len(waitq), Q)
    BY <2>1, <2>2, <2>3 DEF LockHolds, Surjection
  <2>6. ExistsBijection(1..Len(waitq), Q)
    BY <2>4, <2>5 DEF ExistsBijection, Bijection
  <2>7. Cardinality(Q) = Len(waitq)
    BY <2>2, <2>6, FS_CountingElements
  <2> QED
    BY <2>1, <2>7 DEF WaitersCounted, LockHolds
<1> QED
  BY <1>1, ConnectionInvariance, PTL

-----------------------------------------------------------------------------
(* transaction() implements AtomicStore: the worker's COMMIT is where a    *)
(* call lands, the end of a call is where its caller is told.              *)

\* What a caller is told changes when its call is over, and never again.
LEMMA ToldByEnd ==
  ASSUME IInv, IInv', NEW t \in Tasks, Moves(t)
  PROVE  [Store!Next]_(Store!vars)
<1> DEFINE W == {s \in disk : s[1] \in Batches}
<1>1. disk' = disk /\ pc[t] # "done" /\ \A u \in Tasks \ {t} : pc'[u] = pc[u] /\ fate'[u] = fate[u]
  BY DEF Moves
<1>2. \A b \in Batches : b \in Tasks
  BY DEF Tasks
<1>3. \A b \in Batches : b # t => StoreTold'[b] = StoreTold[b]
  BY <1>1, <1>2 DEF StoreTold
<1>4. CASE t \in Batches /\ pc'[t] = "done"
  <2>1. StoreTold[t] = "nothing" /\ StoreTold'[t] = fate'[t]
    BY <1>1, <1>4 DEF StoreTold
  <2>2. StoreTold' = [StoreTold EXCEPT ![t] = fate'[t]]
    BY <1>3, <2>1 DEF StoreTold
  <2>3. Over(t)'
    BY <1>4 DEF IInv, Progress
  <2>4. Stmts(t) \subseteq disk => Stmts(t) \subseteq W
    BY <1>4 DEF Stmts
  <2>5. disk \cap Stmts(t) = {} => Stmts(t) \cap W = {}
    OBVIOUS
  <2>6. CASE fate'[t] = "ok"
    <3>1. Stmts(t) \subseteq W
      BY <1>1, <2>3, <2>4, <2>6 DEF Over, Stmts, Size
    <3>2. Store!Return(t)
      BY <1>1, <1>4, <2>1, <2>2, <2>6, <3>1 DEF Store!Return, Store!Landed
    <3> QED
      BY <1>4, <3>2 DEF Store!Next
  <2>7. CASE fate'[t] = "error"
    <3>1. Stmts(t) \cap W = {}
      BY <1>1, <2>3, <2>5, <2>7 DEF Over, Stmts, Size
    <3>2. Store!Raise(t)
      BY <1>1, <1>4, <2>1, <2>2, <2>7, <3>1 DEF Store!Raise
    <3> QED
      BY <1>4, <3>2 DEF Store!Next
  <2>8. CASE fate'[t] = "cancelled"
    <3>1. Store!Cancel(t)
      BY <1>1, <2>1, <2>2, <2>8 DEF Store!Cancel
    <3> QED
      BY <1>4, <3>1 DEF Store!Next
  <2>9. fate'[t] \in {"ok", "error", "cancelled"}
    BY DEF IInv, TypeOK
  <2> QED
    BY <2>6, <2>7, <2>8, <2>9
<1>5. CASE ~(t \in Batches /\ pc'[t] = "done")
  <2>1. \A b \in Batches : StoreTold'[b] = StoreTold[b]
    BY <1>1, <1>3, <1>5 DEF StoreTold
  <2>2. StoreTold' = StoreTold
    BY <2>1 DEF StoreTold
  <2> QED
    BY <1>1, <2>2 DEF Store!vars
<1> QED
  BY <1>4, <1>5

\* The worker's COMMIT lands one whole call; nothing else it runs lands any of one.
LEMMA LandsByCommit ==
  ASSUME IInv, NEW how \in {"ok", "error", "bled"}, Ran(how), UNCHANGED <<pc, sent, fate>>
  PROVE  [Store!Next]_(Store!vars)
<1> DEFINE W == {s \in disk : s[1] \in Batches}
<1>1. StoreTold' = StoreTold
  BY DEF StoreTold
<1>2. TypeOK /\ NextOf(1) /\ jobs[1].task \in Tasks
  <2>1. TypeOK /\ NextToRun /\ jobs # <<>>
    BY DEF IInv, Ran
  <2>2. 1 \in DOMAIN jobs
    BY <2>1 DEF TypeOK
  <2> QED
    BY <2>1, <2>2, JobsTyped DEF NextToRun
<1>3. CASE disk' = disk
  BY <1>1, <1>3 DEF Store!vars
<1>4. CASE jobs[1].cmd = "write" /\ disk' # disk
  <2>1. jobs[1].task \notin Batches /\ disk' = disk \cup {<<jobs[1].task, jobs[1].n>>}
    BY <1>2, <1>4 DEF Ran, NextOf
  <2>2. W' = W
    BY <2>1
  <2> QED
    BY <1>1, <2>2 DEF Store!vars
<1>5. CASE jobs[1].cmd = "commit" /\ disk' # disk
  <2>1. PICK c \in Batches : /\ disk' = disk \cup Stmts(c) /\ disk \cap Stmts(c) = {}
                             /\ pc[c] = "commit" \/ fate[c] = "cancelled"
    BY <1>2, <1>5 DEF Ran, NextOf
  <2>2. StoreTold[c] \in {"nothing", "cancelled"}
    BY <2>1 DEF StoreTold
  <2>3. W' = W \cup Stmts(c) /\ Stmts(c) \cap W = {}
    BY <2>1 DEF Stmts
  <2>4. Store!Land(c)
    BY <1>1, <2>1, <2>2, <2>3 DEF Store!Land
  <2> QED
    BY <2>4 DEF Store!Next
<1>6. CASE jobs[1].cmd \notin {"write", "commit"}
  BY <1>3, <1>6 DEF Ran
<1> QED
  BY <1>3, <1>4, <1>5, <1>6

\* Whatever is cancelled, raises or is left open: the writes of a transaction() land all
\* at once or never, have landed when it returned, and never land when it raised.
THEOREM KeepsStorePromiseHolds == Spec => KeepsStorePromise
<1>1. Init => Store!Init
  BY DEF Init, Store!Init, StoreTold, Tasks
<1>2. IInv /\ IInv' /\ [Next]_vars => [Store!Next]_(Store!vars)
  <2> SUFFICES ASSUME IInv, IInv', [Next]_vars PROVE [Store!Next]_(Store!vars)
    OBVIOUS
  <2>0. TypeOK /\ LockHolds
    BY DEF IInv
  <2>1. ASSUME NEW t \in Tasks, Arrives(t) \/ TaskStep(t) \/ CancelStep(t)
        PROVE  [Store!Next]_(Store!vars)
    BY <2>0, <2>1, TaskMoves, ToldByEnd
  <2>2. CASE WorkerStep
    BY <2>0, <2>2, WorkerRan, LandsByCommit
  <2>3. CASE Idle \/ UNCHANGED vars
    <3>1. UNCHANGED <<pc, fate, disk>>
      BY <2>3 DEF Idle, vars, task, sqlite
    <3> QED
      BY <3>1 DEF Store!vars, StoreTold
  <2> QED
    BY <2>1, <2>2, <2>3 DEF Next
<1> QED
  BY <1>1, <1>2, ConnectionInvariance, PTL DEF Spec, KeepsStorePromise, Store!Spec
=============================================================================
