---------------------------- MODULE RedemptionProofs ----------------------------
(***************************************************************************)
(* What the redemption guard promises, for any senders, conditions and     *)
(* number of transactions in flight.  The inductive invariant follows a    *)
(* transaction from its broadcast to its row: until the row is written its *)
(* sender is still watching it, and from then on the row guards it.        *)
(***************************************************************************)
EXTENDS Redemption, FiniteSetTheorems, TLAPS

\* What a sender holds while it is at work, and that "ok" was a payment.
InAttempt ==
    \A s \in Sender :
        /\ attempt[s].at # "idle" => attempt[s].cond \in Condition
        /\ attempt[s].at \in {"idle", "passed"} => attempt[s].receipt = "none"
        /\ attempt[s].receipt = "ok" => attempt[s].cond \in claimed

\* A transaction somebody waits for is the one it has sent, without a receipt.
Watching ==
    \A t \in mempool :
        t.watched => /\ attempt[t.by].at \in {"sent", "waiting"}
                     /\ attempt[t.by].cond = t.cond
                     /\ attempt[t.by].receipt = "none"

WatchedOnce ==
    \A t, u \in mempool : t.watched /\ u.watched /\ t.by = u.by => t = u

Alone ==
    \A t, u \in mempool :
        t.by = u.by /\ t.cond = u.cond /\ t.cond \notin untracked => t = u

\* A broadcast is guarded by its row, or its sender is about to write the row.
Guarded ==
    \A t \in mempool :
        \/ t.cond \in untracked
        \/ AlreadySubmitted(t.cond)
        \/ t.watched /\ attempt[t.by].at = "sent"

\* A sender past the guard, or with its receipt, has none in the mempool.
Clear ==
    \A s \in Sender, t \in mempool :
        /\ attempt[s].at = "passed" \/ attempt[s].receipt # "none"
        /\ t.by = s /\ t.cond = attempt[s].cond
        => t.cond \in untracked

RedeemInv ==
    /\ RedemptionTypeOK
    /\ ConfirmedMeansPaid
    /\ InAttempt
    /\ Watching
    /\ WatchedOnce
    /\ Alone
    /\ Guarded
    /\ Clear

LEMMA RedeemInitInv == RedemptionInit => RedeemInv
<1> SUFFICES ASSUME RedemptionInit
             PROVE  RedeemInv
  OBVIOUS
<1>1. gates \in BOOLEAN
  BY DEF RedemptionInit
<1>2. AtRest \in Attempts
  BY DEF AtRest, Attempts
<1>3. RedemptionTypeOK
  BY <1>1, <1>2 DEF RedemptionInit, RedemptionTypeOK, Statuses
<1>4. ConfirmedMeansPaid
  BY DEF RedemptionInit, ConfirmedMeansPaid
<1>5. InAttempt
  BY DEF RedemptionInit, InAttempt, AtRest
<1> QED BY <1>3, <1>4, <1>5
        DEF RedemptionInit, RedeemInv, Watching, WatchedOnce, Alone, Guarded, Clear

\* The fields of a transaction and of an attempt.
LEMMA Fields ==
    ASSUME RedemptionTypeOK
    PROVE  /\ \A t \in mempool : /\ t.cond \in Condition /\ t.by \in Sender
                                 /\ t.watched \in BOOLEAN /\ t.fresh \in BOOLEAN
                                 /\ t = [cond |-> t.cond, by |-> t.by,
                                         watched |-> t.watched, fresh |-> t.fresh]
           /\ \A s \in Sender : /\ attempt[s] \in Attempts
                                /\ attempt[s].at \in {"idle", "passed", "sent", "waiting"}
                                /\ attempt[s].cond \in Condition \cup {Unset}
                                /\ attempt[s].receipt \in {"none", "ok", "reverted"}
BY DEF RedemptionTypeOK, Transactions, Attempts

\* Reading the list of positions, turning the gates, and standing still.
LEMMA QuietInv ==
    ASSUME RedeemInv, UNCHANGED <<guard, claimed, mempool, attempt, untracked>>,
           ready' \in SUBSET Condition, gates' \in BOOLEAN
    PROVE  RedeemInv'
<1>1. /\ guard' = guard /\ claimed' = claimed /\ mempool' = mempool
      /\ attempt' = attempt /\ untracked' = untracked
  OBVIOUS
<1>2. RedemptionTypeOK'
  BY <1>1 DEF RedeemInv, RedemptionTypeOK
<1> QED BY <1>1, <1>2 DEF RedeemInv, ConfirmedMeansPaid, InAttempt, Watching,
           WatchedOnce, Alone, Guarded, AlreadySubmitted, Clear

LEMMA StartsInv ==
    ASSUME RedeemInv, NEW s \in Sender, RedeemStarts(s)
    PROVE  RedeemInv'
<1>1. PICK c \in IF s = Hourly THEN ready ELSE Asked :
        /\ ~AlreadySubmitted(c)
        /\ ready' = IF s = Hourly THEN ready \ {c} ELSE ready
        /\ attempt' = [attempt EXCEPT ![s] = [AtRest EXCEPT !.at = "passed", !.cond = c]]
  BY DEF RedeemStarts
<1>2. c \in Condition /\ attempt[s].at = "idle"
  BY RedemptionAssumption DEF RedeemInv, RedemptionTypeOK, RedeemStarts
<1>3. /\ guard' = guard /\ claimed' = claimed /\ mempool' = mempool
      /\ gates' = gates /\ untracked' = untracked
  BY DEF RedeemStarts
<1>4. /\ attempt'[s] = [at |-> "passed", cond |-> c, receipt |-> "none"]
      /\ \A r \in Sender \ {s} : attempt'[r] = attempt[r]
      /\ attempt' \in [Sender -> Attempts]
  BY <1>1, <1>2 DEF RedeemInv, RedemptionTypeOK, AtRest, Attempts
<1>5. RedemptionTypeOK'
  BY <1>1, <1>3, <1>4 DEF RedeemInv, RedemptionTypeOK
<1>6. InAttempt'
  BY <1>2, <1>3, <1>4 DEF RedeemInv, InAttempt
<1>7. Watching' /\ Guarded'
  BY <1>2, <1>3, <1>4, Fields DEF RedeemInv, Watching, Guarded, AlreadySubmitted
<1>8. Clear'
  <2>1. ASSUME NEW t \in mempool, t.by = s, t.cond = c
        PROVE  t.cond \in untracked
    BY <1>1, <1>2, <2>1 DEF RedeemInv, Guarded
  <2> QED BY <2>1, <1>3, <1>4, Fields DEF RedeemInv, Clear
<1> QED BY <1>3, <1>5, <1>6, <1>7, <1>8
        DEF RedeemInv, ConfirmedMeansPaid, WatchedOnce, Alone

\* A sender ends its attempt and writes the row: a status that guards nothing when
\* it has sent nothing, or a payment's.
LEMMA EndsInv ==
    ASSUME RedeemInv, NEW s \in Sender, NEW status \in {"open", "confirmed"},
           RedeemEnds(s, status), attempt[s].at # "idle",
           UNCHANGED <<claimed, mempool, ready, gates>>,
           \/ /\ status = "open" /\ Unguards(s, attempt[s].cond)
              /\ attempt[s].at = "passed" \/ attempt[s].receipt # "none"
           \/ /\ status = "confirmed" /\ UNCHANGED untracked
              /\ attempt[s].receipt = "ok"
    PROVE  RedeemInv'
<1> DEFINE c == attempt[s].cond
<1>1. /\ guard' = [guard EXCEPT ![c] = status]
      /\ attempt' = [attempt EXCEPT ![s] = AtRest]
      /\ claimed' = claimed /\ mempool' = mempool /\ ready' = ready /\ gates' = gates
  BY DEF RedeemEnds
<1>2. c \in Condition
  BY DEF RedeemInv, InAttempt
<1>3. /\ attempt'[s] = [at |-> "idle", cond |-> Unset, receipt |-> "none"]
      /\ \A r \in Sender \ {s} : attempt'[r] = attempt[r]
      /\ attempt' \in [Sender -> Attempts]
  BY <1>1 DEF RedeemInv, RedemptionTypeOK, AtRest, Attempts
<1>4. untracked \subseteq untracked' /\ untracked' \in SUBSET Condition
  BY <1>2 DEF Unguards, RedeemInv, RedemptionTypeOK
<1>5. RedemptionTypeOK'
  BY <1>1, <1>2, <1>3, <1>4 DEF RedeemInv, RedemptionTypeOK, Statuses
<1>6. ConfirmedMeansPaid'
  BY <1>1, <1>2 DEF RedeemInv, RedemptionTypeOK, ConfirmedMeansPaid, InAttempt
<1>7. InAttempt'
  BY <1>1, <1>3 DEF RedeemInv, InAttempt
<1>8. ASSUME NEW t \in mempool, t.by = s
      PROVE  ~t.watched
  BY <1>8 DEF RedeemInv, Watching, InAttempt
<1>9. Watching'
  BY <1>1, <1>3, <1>8, Fields DEF RedeemInv, Watching
<1>10. Guarded'
  <2>1. ASSUME NEW t \in mempool, t.cond = c, status = "open"
        PROVE  t.cond \in untracked'
    <3>1. CASE t.by = s
      BY <2>1, <3>1, <1>4 DEF RedeemInv, Clear
    <3>2. CASE t.by # s
      BY <2>1, <3>2 DEF Unguards
    <3> QED BY <3>1, <3>2
  <2>2. ASSUME NEW t \in mempool
        PROVE  \/ t.cond \in untracked'
               \/ AlreadySubmitted(t.cond)'
               \/ t.watched /\ attempt'[t.by].at = "sent"
    <3>1. t.cond \in Condition /\ t.by \in Sender
      BY Fields DEF RedeemInv
    <3>2. CASE t.cond = c /\ status = "open"
      BY <2>1, <3>2
    <3>3. CASE t.cond = c /\ status = "confirmed"
      BY <1>1, <3>1, <3>3 DEF AlreadySubmitted, RedeemInv, RedemptionTypeOK
    <3>4. CASE t.cond # c
      <4>1. guard'[t.cond] = guard[t.cond]
        BY <1>1, <3>1, <3>4 DEF RedeemInv, RedemptionTypeOK
      <4> QED BY <4>1, <3>1, <1>3, <1>4, <1>8 DEF RedeemInv, Guarded, AlreadySubmitted
    <3> QED BY <3>2, <3>3, <3>4
  <2> QED BY <2>2, <1>1 DEF Guarded
<1>11. Clear'
  BY <1>1, <1>3, <1>4, Fields DEF RedeemInv, Clear
<1>12. WatchedOnce' /\ Alone'
  BY <1>1, <1>4 DEF RedeemInv, WatchedOnce, Alone
<1> QED BY <1>5, <1>6, <1>7, <1>9, <1>10, <1>11, <1>12 DEF RedeemInv

LEMMA SendsInv ==
    ASSUME RedeemInv, NEW s \in Sender, RedeemSends(s)
    PROVE  RedeemInv'
<1> DEFINE c == attempt[s].cond
           tx == [cond |-> c, by |-> s, watched |-> TRUE, fresh |-> TRUE]
<1>1. /\ attempt[s].at = "passed"
      /\ mempool' = mempool \cup {tx}
      /\ attempt' = [attempt EXCEPT ![s].at = "sent"]
      /\ guard' = guard /\ claimed' = claimed /\ ready' = ready
      /\ gates' = gates /\ untracked' = untracked
  BY DEF RedeemSends
<1>2. c \in Condition /\ attempt[s].receipt = "none"
  BY <1>1 DEF RedeemInv, InAttempt
<1>3. /\ attempt'[s] = [at |-> "sent", cond |-> c, receipt |-> "none"]
      /\ \A r \in Sender \ {s} : attempt'[r] = attempt[r]
      /\ attempt' \in [Sender -> Attempts]
  BY <1>1, <1>2, Fields DEF RedeemInv, RedemptionTypeOK, Attempts
<1>4. tx \in Transactions /\ tx.cond = c /\ tx.by = s
  BY <1>2 DEF Transactions
<1>5. RedemptionTypeOK'
  BY <1>1, <1>3, <1>4 DEF RedeemInv, RedemptionTypeOK
<1>6. InAttempt'
  BY <1>1, <1>2, <1>3 DEF RedeemInv, InAttempt
<1>7. ASSUME NEW t \in mempool, t.by = s
      PROVE  ~t.watched /\ (t.cond = c => c \in untracked)
  BY <1>1, <1>7 DEF RedeemInv, Watching, Clear
<1>8. Watching'
  BY <1>1, <1>3, <1>4, <1>7, Fields DEF RedeemInv, Watching
<1>9. WatchedOnce'
  BY <1>1, <1>4, <1>7 DEF RedeemInv, WatchedOnce
<1>10. Alone'
  <2>1. ASSUME NEW t \in mempool, NEW u \in mempool, t.by = u.by, t.cond = u.cond,
               t.cond \notin untracked
        PROVE  t = u
    BY <2>1 DEF RedeemInv, Alone
  <2>2. ASSUME NEW t \in mempool, t.by = s, t.cond = c, t.cond \notin untracked
        PROVE  FALSE
    BY <2>2, <1>7
  <2>3. ASSUME NEW t \in mempool', NEW u \in mempool', t.by = u.by, t.cond = u.cond,
               t.cond \notin untracked
        PROVE  t = u
    <3>1. CASE t \in mempool /\ u \in mempool
      BY <2>1, <2>3, <3>1
    <3>2. CASE t = tx /\ u = tx
      BY <3>2
    <3>3. CASE t \in mempool /\ u = tx
      BY <2>2, <2>3, <3>3, <1>4
    <3>4. CASE t = tx /\ u \in mempool
      BY <2>2, <2>3, <3>4, <1>4
    <3> HIDE DEF tx
    <3> QED BY <3>1, <3>2, <3>3, <3>4, <1>1
  <2> QED BY <2>3, <1>1 DEF Alone
<1>11. Guarded'
  BY <1>1, <1>3, <1>4, <1>7, Fields DEF RedeemInv, Guarded, AlreadySubmitted
<1>12. Clear'
  BY <1>1, <1>3, <1>4, Fields DEF RedeemInv, Clear
<1> QED BY <1>1, <1>5, <1>6, <1>8, <1>9, <1>10, <1>11, <1>12
        DEF RedeemInv, ConfirmedMeansPaid

LEMMA RecordsInv ==
    ASSUME RedeemInv, NEW s \in Sender, RedeemRecords(s)
    PROVE  RedeemInv'
<1> DEFINE c == attempt[s].cond
<1>1. /\ attempt[s].at = "sent"
      /\ guard' = [guard EXCEPT ![c] = "submitted"]
      /\ attempt' = [attempt EXCEPT ![s].at = "waiting"]
      /\ claimed' = claimed /\ mempool' = mempool /\ ready' = ready
      /\ gates' = gates /\ untracked' = untracked
  BY DEF RedeemRecords
<1>2. c \in Condition
  BY <1>1 DEF RedeemInv, InAttempt
<1>3. /\ attempt'[s] = [at |-> "waiting", cond |-> c, receipt |-> attempt[s].receipt]
      /\ \A r \in Sender \ {s} : attempt'[r] = attempt[r]
      /\ attempt' \in [Sender -> Attempts]
  BY <1>1, <1>2, Fields DEF RedeemInv, RedemptionTypeOK, Attempts
<1>4. guard' \in [Condition -> Statuses] /\ guard'[c] = "submitted"
      /\ \A d \in Condition \ {c} : guard'[d] = guard[d]
  BY <1>1, <1>2 DEF RedeemInv, RedemptionTypeOK, Statuses
<1>5. RedemptionTypeOK'
  BY <1>1, <1>3, <1>4 DEF RedeemInv, RedemptionTypeOK
<1>6. ConfirmedMeansPaid'
  BY <1>1, <1>4 DEF RedeemInv, ConfirmedMeansPaid
<1>7. InAttempt'
  BY <1>1, <1>2, <1>3 DEF RedeemInv, InAttempt
<1>8. Watching'
  <2>1. ASSUME NEW t \in mempool, t.watched
        PROVE  /\ attempt'[t.by].at \in {"sent", "waiting"}
               /\ attempt'[t.by].cond = t.cond /\ attempt'[t.by].receipt = "none"
    <3>1. /\ attempt[t.by].at \in {"sent", "waiting"} /\ t.by \in Sender
          /\ attempt[t.by].cond = t.cond /\ attempt[t.by].receipt = "none"
      BY <2>1, Fields DEF RedeemInv, Watching
    <3>2. CASE t.by = s
      BY <3>1, <3>2, <1>3
    <3>3. CASE t.by # s
      BY <3>1, <3>3, <1>3
    <3> QED BY <3>2, <3>3
  <2> QED BY <2>1, <1>1 DEF Watching
<1>9. Guarded'
  <2>1. ASSUME NEW t \in mempool
        PROVE  \/ t.cond \in untracked'
               \/ AlreadySubmitted(t.cond)'
               \/ t.watched /\ attempt'[t.by].at = "sent"
    <3>1. t.cond \in Condition /\ t.by \in Sender
      BY Fields DEF RedeemInv
    <3>2. CASE t.cond = c
      BY <1>4, <3>2 DEF AlreadySubmitted
    <3>3. CASE t.cond # c
      <4>1. t.by = s => ~t.watched
        BY <3>3 DEF RedeemInv, Watching
      <4> QED BY <4>1, <3>1, <3>3, <1>1, <1>3, <1>4 DEF RedeemInv, Guarded, AlreadySubmitted
    <3> QED BY <3>2, <3>3
  <2> QED BY <2>1, <1>1 DEF Guarded
<1>10. Clear'
  <2>1. ASSUME NEW r \in Sender, NEW t \in mempool,
               attempt'[r].at = "passed" \/ attempt'[r].receipt # "none",
               t.by = r, t.cond = attempt'[r].cond
        PROVE  t.cond \in untracked
    <3>1. CASE r = s
      BY <2>1, <3>1, <1>3 DEF RedeemInv, Clear
    <3>2. CASE r # s
      <4>1. attempt'[r] = attempt[r]
        BY <3>2, <1>3
      <4> QED BY <4>1, <2>1 DEF RedeemInv, Clear
    <3> QED BY <3>1, <3>2
  <2> QED BY <2>1, <1>1 DEF Clear
<1> QED BY <1>1, <1>5, <1>6, <1>7, <1>8, <1>9, <1>10
        DEF RedeemInv, WatchedOnce, Alone

\* What is left in the mempool when a sender no longer watches.
LEMMA UnwatchedIs ==
    ASSUME RedemptionTypeOK, NEW s \in Sender, mempool' = Unwatched(s)
    PROVE  \A v \in mempool' : \E t \in mempool :
               /\ v \in Transactions /\ v.cond = t.cond /\ v.by = t.by
               /\ v.watched = (t.watched /\ t.by # s)
               /\ v = IF t.by = s THEN [t EXCEPT !.watched = FALSE] ELSE t
<1> TAKE v \in mempool'
<1>1. PICK t \in mempool : v = IF t.by = s THEN [t EXCEPT !.watched = FALSE] ELSE t
  BY DEF Unwatched
<1>2. t \in Transactions
  BY DEF RedemptionTypeOK
<1>3. CASE t.by = s
  <2>1. v = [cond |-> t.cond, by |-> t.by, watched |-> FALSE, fresh |-> t.fresh]
    BY <1>1, <1>2, <1>3 DEF Transactions
  <2> QED BY <2>1, <1>1, <1>2, <1>3 DEF Transactions
<1>4. CASE t.by # s
  <2>1. v = t
    BY <1>1, <1>4
  <2> QED BY <2>1, <1>1, <1>2, <1>4 DEF Transactions
<1> QED BY <1>3, <1>4

\* A sender gives up: after a broadcast, with its row or without.
LEMMA LetsGoInv ==
    ASSUME RedeemInv, NEW s \in Sender, attempt[s].at # "idle",
           attempt' = [attempt EXCEPT ![s] = AtRest],
           mempool' = Unwatched(s),
           UNCHANGED <<guard, claimed, ready, gates>>,
           untracked' = untracked \cup (IF attempt[s].at = "sent" THEN {attempt[s].cond} ELSE {})
    PROVE  RedeemInv'
<1>1. /\ guard' = guard /\ claimed' = claimed /\ ready' = ready /\ gates' = gates
      /\ untracked \subseteq untracked' /\ untracked' \in SUBSET Condition
      /\ attempt[s].at = "sent" => attempt[s].cond \in untracked'
  BY DEF RedeemInv, RedemptionTypeOK, InAttempt
<1>2. /\ attempt'[s] = [at |-> "idle", cond |-> Unset, receipt |-> "none"]
      /\ \A r \in Sender \ {s} : attempt'[r] = attempt[r]
      /\ attempt' \in [Sender -> Attempts]
  BY DEF RedeemInv, RedemptionTypeOK, AtRest, Attempts
<1>3. \A v \in mempool' : \E t \in mempool :
          /\ v \in Transactions /\ v.cond = t.cond /\ v.by = t.by
          /\ v.watched = (t.watched /\ t.by # s)
          /\ v = IF t.by = s THEN [t EXCEPT !.watched = FALSE] ELSE t
  BY UnwatchedIs DEF RedeemInv
<1>4. RedemptionTypeOK'
  <2>1. mempool' \in SUBSET Transactions
    BY <1>3
  <2> QED BY <1>1, <1>2, <2>1 DEF RedeemInv, RedemptionTypeOK
<1>5. InAttempt'
  BY <1>1, <1>2 DEF RedeemInv, InAttempt
<1>6. Watching'
  BY <1>2, <1>3, Fields DEF RedeemInv, Watching
<1>7. WatchedOnce'
  <2>1. ASSUME NEW v \in mempool', v.watched
        PROVE  v \in mempool
    <3>1. PICK t \in mempool :
            /\ v.watched = (t.watched /\ t.by # s)
            /\ v = IF t.by = s THEN [t EXCEPT !.watched = FALSE] ELSE t
      BY <1>3
    <3>2. t.by # s
      BY <2>1, <3>1
    <3> QED BY <3>1, <3>2
  <2> QED BY <2>1 DEF RedeemInv, WatchedOnce
<1>8. Alone'
  BY <1>1, <1>3 DEF RedeemInv, Alone
<1>9. Guarded'
  <2>1. ASSUME NEW v \in mempool'
        PROVE  \/ v.cond \in untracked'
               \/ AlreadySubmitted(v.cond)'
               \/ v.watched /\ attempt'[v.by].at = "sent"
    <3>1. PICK t \in mempool : /\ v.cond = t.cond /\ v.by = t.by
                              /\ v.watched = (t.watched /\ t.by # s)
      BY <1>3
    <3>2. t.by \in Sender
      BY Fields DEF RedeemInv
    <3>3. CASE t.cond \in untracked \/ AlreadySubmitted(t.cond)
      BY <3>1, <3>3, <1>1 DEF AlreadySubmitted
    <3>4. CASE t.watched /\ attempt[t.by].at = "sent" /\ t.by = s
      BY <3>1, <3>4, <1>1 DEF RedeemInv, Watching
    <3>5. CASE t.watched /\ attempt[t.by].at = "sent" /\ t.by # s
      BY <3>1, <3>2, <3>5, <1>2
    <3> QED BY <3>3, <3>4, <3>5 DEF RedeemInv, Guarded
  <2> QED BY <2>1 DEF Guarded
<1>10. Clear'
  BY <1>1, <1>2, <1>3, Fields DEF RedeemInv, Clear
<1> QED BY <1>1, <1>4, <1>5, <1>6, <1>7, <1>8, <1>9, <1>10
        DEF RedeemInv, ConfirmedMeansPaid

\* A transaction leaves the mempool; it may bring a receipt, and what was signed
\* with the same nonce may go stale.
LEMMA LeavesInv ==
    ASSUME RedeemInv, NEW tx \in mempool, NEW outcome \in {"none", "ok", "reverted"},
           \/ Receipt(tx, outcome)
           \/ outcome = "none" /\ UNCHANGED attempt,
           \/ mempool' = mempool \ {tx}
           \/ mempool' = {[u EXCEPT !.fresh = FALSE] : u \in mempool \ {tx}},
           \/ claimed' = claimed /\ outcome # "ok"
           \/ claimed' = claimed \cup {tx.cond},
           UNCHANGED <<guard, ready, gates, untracked>>
    PROVE  RedeemInv'
<1> DEFINE s == tx.by
<1>1. /\ guard' = guard /\ ready' = ready /\ gates' = gates /\ untracked' = untracked
      /\ s \in Sender /\ tx.cond \in Condition
      /\ claimed \subseteq claimed' /\ claimed' \in SUBSET Condition
      /\ outcome = "ok" => tx.cond \in claimed'
  BY Fields DEF RedeemInv, RedemptionTypeOK
\* Each that stays is one that was there, but for its freshness.
<1>2. \A v \in mempool' : \E t \in mempool \ {tx} :
          /\ v \in Transactions /\ v.cond = t.cond /\ v.by = t.by
          /\ v.watched = t.watched
          /\ v = t \/ v = [t EXCEPT !.fresh = FALSE]
  <2>1. CASE mempool' = mempool \ {tx}
    BY <2>1 DEF RedeemInv, RedemptionTypeOK
  <2>2. CASE mempool' = {[u EXCEPT !.fresh = FALSE] : u \in mempool \ {tx}}
    <3>1. ASSUME NEW t \in mempool \ {tx}
          PROVE  LET v == [t EXCEPT !.fresh = FALSE]
                 IN /\ v \in Transactions /\ v.cond = t.cond /\ v.by = t.by
                    /\ v.watched = t.watched
      <4>1. t \in Transactions
        BY DEF RedeemInv, RedemptionTypeOK
      <4> QED BY <4>1 DEF Transactions
    <3> QED BY <2>2, <3>1
  <2> QED BY <2>1, <2>2
<1>3. mempool' \in SUBSET Transactions
  BY <1>2
\* The sender that waits for it, and only that one, has its receipt.
<1>4. /\ attempt' \in [Sender -> Attempts]
      /\ \A r \in Sender : /\ attempt'[r].at = attempt[r].at
                           /\ attempt'[r].cond = attempt[r].cond
                           /\ \/ attempt'[r].receipt = attempt[r].receipt
                              \/ /\ r = s /\ tx.watched
                                 /\ attempt'[r].receipt = outcome
  <2>1. CASE tx.watched /\ Receipt(tx, outcome)
    <3>1. attempt' = [attempt EXCEPT ![s].receipt = outcome]
      BY <2>1 DEF Receipt
    <3>2. attempt'[s] = [at |-> attempt[s].at, cond |-> attempt[s].cond, receipt |-> outcome]
          /\ \A r \in Sender \ {s} : attempt'[r] = attempt[r]
      BY <3>1, <1>1, Fields DEF RedeemInv, RedemptionTypeOK, Attempts
    <3>3. attempt' \in [Sender -> Attempts]
      BY <3>1, <3>2, <1>1, Fields DEF RedeemInv, RedemptionTypeOK, Attempts
    <3> QED BY <2>1, <3>2, <3>3
  <2>2. CASE attempt' = attempt
    BY <2>2 DEF RedeemInv, RedemptionTypeOK
  <2> QED BY <2>1, <2>2 DEF Receipt
<1>5. RedemptionTypeOK'
  BY <1>1, <1>3, <1>4 DEF RedeemInv, RedemptionTypeOK
<1>6. tx.watched => /\ attempt[s].at \in {"sent", "waiting"} /\ attempt[s].cond = tx.cond
  BY DEF RedeemInv, Watching
<1>7. InAttempt'
  <2>1. ASSUME NEW r \in Sender
        PROVE  /\ attempt'[r].at # "idle" => attempt'[r].cond \in Condition
               /\ attempt'[r].at \in {"idle", "passed"} => attempt'[r].receipt = "none"
               /\ attempt'[r].receipt = "ok" => attempt'[r].cond \in claimed'
    <3>1. CASE attempt'[r].receipt = attempt[r].receipt
      BY <3>1, <1>1, <1>4 DEF RedeemInv, InAttempt
    <3>2. CASE r = s /\ tx.watched /\ attempt'[r].receipt = outcome
      BY <3>2, <1>1, <1>4, <1>6
    <3> QED BY <3>1, <3>2, <1>4
  <2> QED BY <2>1 DEF InAttempt
<1>8. Watching'
  <2>1. ASSUME NEW v \in mempool', v.watched
        PROVE  /\ attempt'[v.by].at \in {"sent", "waiting"}
               /\ attempt'[v.by].cond = v.cond /\ attempt'[v.by].receipt = "none"
    <3>1. PICK t \in mempool \ {tx} : v.cond = t.cond /\ v.by = t.by /\ v.watched = t.watched
      BY <1>2
    <3>2. t.watched /\ t.by \in Sender
      BY <2>1, <3>1, Fields DEF RedeemInv
    <3>3. ~(t.by = s /\ tx.watched)
      BY <3>1, <3>2 DEF RedeemInv, WatchedOnce
    <3> QED BY <3>1, <3>2, <3>3, <1>4 DEF RedeemInv, Watching
  <2> QED BY <2>1 DEF Watching
<1>9. WatchedOnce' /\ Alone'
  <2>1. ASSUME NEW v \in mempool', NEW w \in mempool', v.by = w.by,
               \/ v.watched /\ w.watched
               \/ v.cond = w.cond /\ v.cond \notin untracked
        PROVE  v = w
    <3>1. CASE mempool' = mempool \ {tx}
      BY <2>1, <3>1 DEF RedeemInv, WatchedOnce, Alone
    <3>2. CASE mempool' = {[u EXCEPT !.fresh = FALSE] : u \in mempool \ {tx}}
      <4>1. PICK t \in mempool \ {tx} : v = [t EXCEPT !.fresh = FALSE]
        BY <3>2
      <4>2. PICK u \in mempool \ {tx} : w = [u EXCEPT !.fresh = FALSE]
        BY <3>2
      <4>3. /\ v.cond = t.cond /\ v.by = t.by /\ v.watched = t.watched
            /\ w.cond = u.cond /\ w.by = u.by /\ w.watched = u.watched
        <5>1. t \in Transactions /\ u \in Transactions
          BY DEF RedeemInv, RedemptionTypeOK
        <5> QED BY <4>1, <4>2, <5>1 DEF Transactions
      <4>4. t = u
        <5>1. CASE v.watched /\ w.watched
          BY <2>1, <4>3, <5>1 DEF RedeemInv, WatchedOnce
        <5>2. CASE v.cond = w.cond /\ v.cond \notin untracked
          BY <2>1, <4>3, <5>2 DEF RedeemInv, Alone
        <5> QED BY <2>1, <5>1, <5>2
      <4> QED BY <4>1, <4>2, <4>4
    <3> QED BY <3>1, <3>2
  <2> QED BY <2>1, <1>1 DEF WatchedOnce, Alone
<1>10. Guarded'
  <2>1. ASSUME NEW v \in mempool'
        PROVE  \/ v.cond \in untracked'
               \/ AlreadySubmitted(v.cond)'
               \/ v.watched /\ attempt'[v.by].at = "sent"
    <3>1. PICK t \in mempool \ {tx} : v.cond = t.cond /\ v.by = t.by /\ v.watched = t.watched
      BY <1>2
    <3>2. t.by \in Sender
      BY Fields DEF RedeemInv
    <3> QED BY <3>1, <3>2, <1>1, <1>4 DEF RedeemInv, Guarded, AlreadySubmitted
  <2> QED BY <2>1 DEF Guarded
<1>11. Clear'
  <2>1. ASSUME NEW r \in Sender, NEW v \in mempool',
               attempt'[r].at = "passed" \/ attempt'[r].receipt # "none",
               v.by = r, v.cond = attempt'[r].cond
        PROVE  v.cond \in untracked
    <3>1. PICK t \in mempool \ {tx} : v.cond = t.cond /\ v.by = t.by
      BY <1>2
    <3>4. attempt'[r].at = attempt[r].at /\ attempt'[r].cond = attempt[r].cond
      BY <1>4
    <3>2. CASE attempt'[r].receipt = attempt[r].receipt
      <4>1. t \in mempool /\ t.by = r /\ t.cond = attempt[r].cond
            /\ (attempt[r].at = "passed" \/ attempt[r].receipt # "none")
        BY <2>1, <3>1, <3>2, <3>4
      <4> QED BY <4>1, <3>1 DEF RedeemInv, Clear
    <3>3. CASE r = s /\ tx.watched
      <4>1. t \in mempool /\ t # tx /\ t.by = tx.by /\ t.cond = tx.cond
        BY <2>1, <3>1, <3>3, <3>4, <1>6
      <4> QED BY <4>1, <3>1 DEF RedeemInv, Alone
    <3> QED BY <3>2, <3>3, <1>4
  <2> QED BY <2>1, <1>1 DEF Clear
<1> QED BY <1>1, <1>5, <1>7, <1>8, <1>9, <1>10, <1>11 DEF RedeemInv, ConfirmedMeansPaid

LEMMA RedeemStepInv == RedeemInv /\ [RedemptionNext]_redeemVars => RedeemInv'
<1> SUFFICES ASSUME RedeemInv, [RedemptionNext]_redeemVars
             PROVE  RedeemInv'
  OBVIOUS
<1>1. ASSUME NEW s \in Sender, RedeemStep(s)
      PROVE  RedeemInv'
  <2>1. CASE RedeemStarts(s)
    BY <2>1, StartsInv
  <2>2. CASE RedeemDeclines(s)
    BY <2>2, EndsInv DEF RedeemDeclines
  <2>3. CASE RedeemSends(s)
    BY <2>3, SendsInv
  <2>4. CASE RedeemRecords(s)
    BY <2>4, RecordsInv
  <2>5. CASE RedeemRaises(s)
    BY <2>5, LetsGoInv DEF RedeemRaises
  <2>6. CASE RedeemSettles(s)
    <3>1. CASE attempt[s].receipt = "ok"
      BY <2>6, <3>1, EndsInv DEF RedeemSettles, Outcome
    <3>2. CASE attempt[s].receipt # "ok"
      BY <2>6, <3>2, EndsInv DEF RedeemSettles, Outcome
    <3> QED BY <3>1, <3>2
  <2>7. CASE RedeemTimesOut(s)
    BY <2>7, LetsGoInv DEF RedeemTimesOut
  <2> QED BY <1>1, <2>1, <2>2, <2>3, <2>4, <2>5, <2>6, <2>7 DEF RedeemStep
<1>2. CASE RedeemLists
  <2>1. PICK late \in SUBSET claimed : ready' = (Condition \ claimed) \cup late
    BY <1>2 DEF RedeemLists
  <2>2. ready' \in SUBSET Condition /\ gates' \in BOOLEAN
    BY <1>2, <2>1 DEF RedeemLists, RedeemInv, RedemptionTypeOK
  <2> QED BY <1>2, <2>2, QuietInv DEF RedeemLists
<1>3. CASE RedeemSkips
  <2>1. ready' \in SUBSET Condition /\ gates' \in BOOLEAN
    BY <1>3 DEF RedeemSkips, RedeemInv, RedemptionTypeOK
  <2> QED BY <1>3, <2>1, QuietInv DEF RedeemSkips
<1>4. ASSUME NEW t \in mempool, TxExecutes(t)
      PROVE  RedeemInv'
  BY <1>4, LeavesInv DEF TxExecutes
<1>5. ASSUME NEW t \in mempool, TxReverts(t)
      PROVE  RedeemInv'
  BY <1>5, LeavesInv DEF TxReverts
<1>6. ASSUME NEW t \in mempool, TxDrops(t)
      PROVE  RedeemInv'
  BY <1>6, LeavesInv DEF TxDrops
<1>7. CASE GatesTurn
  <2>1. ready' \in SUBSET Condition /\ gates' \in BOOLEAN
    BY <1>7 DEF GatesTurn, RedeemInv, RedemptionTypeOK
  <2> QED BY <1>7, <2>1, QuietInv DEF GatesTurn
<1>8. CASE UNCHANGED redeemVars
  <2>1. ready' \in SUBSET Condition /\ gates' \in BOOLEAN
    BY <1>8 DEF redeemVars, RedeemInv, RedemptionTypeOK
  <2> QED BY <1>8, <2>1, QuietInv DEF redeemVars
<1>9. Hourly \in Sender
  BY RedemptionAssumption
<1> QED BY <1>1, <1>2, <1>3, <1>4, <1>5, <1>6, <1>7, <1>8, <1>9
        DEF RedemptionNext, HourlyStep

\* Two in the mempool of one sender and one condition are one.
LEMMA AloneMeansOnce ==
    ASSUME Alone
    PROVE  SentOnce
<1> SUFFICES ASSUME NEW c \in Condition \ untracked, NEW s \in Sender
             PROVE  Cardinality({t \in mempool : t.cond = c /\ t.by = s}) <= 1
  BY DEF SentOnce
<1> DEFINE S == {t \in mempool : t.cond = c /\ t.by = s}
<1>1. CASE S = {}
  BY <1>1, FS_EmptySet
<1>2. CASE S # {}
  <2>1. PICK t \in S : TRUE
    BY <1>2
  <2>2. S = {t}
    BY <2>1 DEF Alone
  <2>3. Cardinality({t}) = 1
    BY FS_Singleton
  <2> HIDE DEF S
  <2>4. Cardinality(S) = 1
    BY <2>2, <2>3
  <2>5. Cardinality(S) <= 1
    BY <2>4
  <2> QED BY <2>5 DEF S
<1> QED BY <1>1, <1>2

\* The table, the mempool and the attempts keep their types.
THEOREM RedemptionTyped == RedemptionSpec => []RedemptionTypeOK
<1>1. RedeemInv => RedemptionTypeOK
  BY DEF RedeemInv
<1> QED BY <1>1, RedeemInitInv, RedeemStepInv, PTL DEF RedemptionSpec

\* A row that says confirmed is of a condition that has paid (_mark_confirmed).
THEOREM ConfirmedIsPaid == RedemptionSpec => []ConfirmedMeansPaid
<1>1. RedeemInv => ConfirmedMeansPaid
  BY DEF RedeemInv
<1> QED BY <1>1, RedeemInitInv, RedeemStepInv, PTL DEF RedemptionSpec

\* No sender has two transactions of one condition in flight, but for those the
\* table does not show (_already_submitted and _record_attempt).
THEOREM IsSentOnce == RedemptionSpec => []SentOnce
<1>1. RedeemInv => SentOnce
  BY AloneMeansOnce DEF RedeemInv
<1> QED BY <1>1, RedeemInitInv, RedeemStepInv, PTL DEF RedemptionSpec
=============================================================================
