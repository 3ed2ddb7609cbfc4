-------------------------- MODULE LiveOrdersProofs --------------------------
(***************************************************************************)
(* Proofs about LiveOrders, for every set of orders and every bound.       *)
(***************************************************************************)
EXTENDS LiveOrders, TLAPS

USE LiveOrdersAssumption

-----------------------------------------------------------------------------
(* Type correctness.                                                       *)

\* An order that is not over has something left to match.
LEMMA Unmatched ==
  ASSUME NEW v \in VenueState, v.st = "open"
  PROVE  v.matched \in 0..(Size - 1)
  BY DEF VenueState

\* An order that is over keeps a record of what was matched.
LEMMA DeadType ==
  ASSUME NEW v \in VenueState, v.st = "open"
  PROVE  Dead(v) \in VenueState
  BY DEF VenueState, Dead

\* A booked fill is an execution of the order it was polled for.
LEMMA FillOfType ==
  ASSUME NEW res \in Result, NEW ord \in Tracked \cup {Untracked},
         NEW fill \in FillOf(res, ord)
  PROVE  fill \in Fill
<1>1. ord \in Tracked /\ res.size \in 1..Size
  BY DEF FillOf, Result
<1>2. fill = [market |-> ord.market, token |-> ord.token, size |-> res.size]
  BY DEF FillOf
<1> QED
  BY <1>1, <1>2 DEF Fill, Tracked

\* record_fill appends at most one fill of an order.
LEMMA RecordedType ==
  ASSUME TypeOK, NEW o \in Orders, NEW fill \in Fill
  PROVE  Recorded(o, fill) \in [Orders -> Seq(Fill)]
<1>1. <<fill>> \in Seq(Fill)
  OBVIOUS
<1> QED
  BY <1>1 DEF Recorded, TypeOK

\* What get_order_status answers is a result.
LEMMA StatusOfType ==
  ASSUME TypeOK, NEW o \in Orders
  PROVE  StatusOf(o) \in Result
<1>1. venue[o] \in VenueState
  BY DEF TypeOK
<1> QED
  BY <1>1 DEF StatusOf, NoResult, Result, VenueState

\* Closing orders on the CLOB keeps its records well formed.
LEMMA ClosedType ==
  ASSUME TypeOK, NEW os \in SUBSET Orders
  PROVE  Closed(os) \in [Orders -> VenueState]
<1>1. ASSUME NEW o \in Orders, venue[o].st = "open"
      PROVE  Dead(venue[o]) \in VenueState
  BY <1>1, DeadType DEF TypeOK
<1> QED
  BY <1>1 DEF TypeOK, Closed

\* The answer to a cancel is a call like any other.
LEMMA AnswerType ==
  ASSUME TypeOK, NEW c \in Callers, NEW os \in SUBSET Orders,
         NEW pc \in {"ack", "nak", "write"}, Answer(c, os, pc)
  PROVE  cxl' \in [Callers -> Call]
  BY DEF TypeOK, Answer, Call

\* A cancel call changes the CLOB's record and the caller's answer only.
LEMMA CancelSentType ==
  ASSUME TypeOK, NEW c \in Callers, NEW o \in Orders, CancelSent(c, o)
  PROVE  /\ venue' \in [Orders -> VenueState]
         /\ cxl' \in [Callers -> Call]
<1>1. {o} \in SUBSET Orders
  OBVIOUS
<1>2. venue' = venue \/ venue' = Closed({o})
  BY DEF CancelSent
<1>3. cxl' \in [Callers -> Call]
  BY <1>1, AnswerType DEF CancelSent
<1>4. venue' \in [Orders -> VenueState]
  BY <1>1, <1>2, ClosedType DEF TypeOK
<1> QED
  BY <1>3, <1>4

\* No call is a call.
LEMMA NoCallType == NoCall \in Call
  BY DEF NoCall, Call

\* Orders leave _live_pending one by one.
LEMMA DroppedType ==
  ASSUME TypeOK, NEW os
  PROVE  Dropped(os) \in [Orders -> Tracked \cup {Untracked}]
  BY DEF TypeOK, Dropped

\* An UPDATE leaves well-formed rows.
LEMMA MarkedType ==
  ASSUME TypeOK, NEW os, NEW st \in RowStatus
  PROVE  Marked(os, st) \in [Orders -> [Writers -> RowStatus]]
  BY DEF TypeOK, Marked

\* So does a statement that may raise.
LEMMA LandsType ==
  ASSUME TypeOK, NEW update \in [Orders -> [Writers -> RowStatus]], Lands(update)
  PROVE  rows' \in [Orders -> [Writers -> RowStatus]]
  BY DEF TypeOK, Lands

\* The monitor moves on with the same order in hand, or lets go of it.
LEMMA GotoType ==
  ASSUME TypeOK, NEW pc, Goto(pc),
         pc \in InHand \cup {"start", "adopt", "poll", "sweep", "wake"},
         pc \in InHand => mon.pc \in InHand
  PROVE  mon' \in MonState
  BY DEF TypeOK, Goto, MonState

\* The monitor starts with nothing in hand.
LEMMA MonStartType == MonStart \in MonState
  BY DEF MonStart, MonState, InHand, NoResult, Result, RowStatus

\* What the other tasks hold, field by field.
LEMMA ReaderType ==
  TypeOK => /\ mon.todo \in SUBSET Orders
            /\ mon.cur \in Orders \cup {NoOrder}
            /\ mon.pc \in InHand => mon.cur \in Orders
            /\ mon.ord \in Tracked \cup {Untracked}
            /\ mon.res \in Result
            /\ mon.upd \in [Orders -> RowStatus \ {"none"}]
            /\ cxl.gateway \in Call /\ cxl.exit \in Call
            /\ cxl.monitor \in Call /\ cxl.retire \in Call
            /\ retire.todo \in SUBSET Orders /\ retire.ids \in SUBSET Orders
  BY DEF TypeOK, MonState, Callers, RetireState

\* The initial state is well formed.
LEMMA TypeInit == Init => TypeOK
  BY DEF Init, TypeOK, VenueState, Tracked, Untracked, Writers, RowStatus, Fill,
         MonStart, MonState, InHand, NoResult, Result, Callers, NoCall, Call, RetireIdle, RetireState

\* Every step keeps the state well formed: one case per action.
LEMMA TypeStep == TypeOK /\ [Next]_vars => TypeOK'
<1> SUFFICES ASSUME TypeOK, [Next]_vars PROVE TypeOK'
  OBVIOUS
<1> USE ReaderType DEF TypeOK
<1>1. ASSUME NEW o \in Orders, VenueMatches(o) PROVE TypeOK'
  <2>1. venue[o] \in VenueState
    OBVIOUS
  <2>2. venue' \in [Orders -> VenueState]
    <3>1. venue[o].matched \in 0..(Size - 1)
      BY <1>1, <2>1, Unmatched DEF VenueMatches
    <3> DEFINE m == venue[o].matched + 1
    <3>2. [st |-> IF m = Size THEN "matched" ELSE "open", matched |-> m] \in VenueState
      BY <3>1 DEF VenueState
    <3> QED
      BY <1>1, <2>1, <3>2 DEF VenueMatches
  <2> QED
    BY <1>1, <2>1, <2>2 DEF VenueMatches
<1>2. ASSUME NEW o \in Orders, VenueCloses(o) PROVE TypeOK'
  <2>1. venue[o] \in VenueState
    OBVIOUS
  <2>2. venue' \in [Orders -> VenueState]
    BY <1>2, <2>1, DeadType DEF VenueCloses
  <2> QED
    BY <1>2, <2>1, <2>2 DEF VenueCloses
<1>3. ASSUME NEW o \in Orders, VenueForgets(o) PROVE TypeOK'
  BY <1>3 DEF VenueForgets
<1>4. ASSUME NEW o \in Orders, PlaceChecked(o) PROVE TypeOK'
  BY <1>4 DEF PlaceChecked
<1>5. ASSUME NEW o \in Orders, PlaceRefused(o) PROVE TypeOK'
  BY <1>5 DEF PlaceRefused
<1>6. ASSUME NEW o \in Orders, Submit(o) PROVE TypeOK'
  <2>1. [st |-> "open", matched |-> 0] \in VenueState
    BY DEF VenueState
  <2> QED
    BY <1>6, <2>1 DEF Submit
<1>7. ASSUME NEW o \in Orders, SubmitReturns(o) PROVE TypeOK'
  <2>1. pending' \in [Orders -> Tracked \cup {Untracked}]
    BY <1>7 DEF SubmitReturns, Own, Leg, Tracked
  <2> QED
    BY <1>7, <2>1 DEF SubmitReturns
<1>8. ASSUME NEW o \in Orders, SubmitTimesOut(o) PROVE TypeOK'
  BY <1>8 DEF SubmitTimesOut
<1>9. ASSUME NEW o \in Orders, MirrorOrder(o) PROVE TypeOK'
  <2>1. [rows EXCEPT ![o].gateway = "pending"] \in [Orders -> [Writers -> RowStatus]]
    BY DEF Writers, RowStatus
  <2>2. rows' \in [Orders -> [Writers -> RowStatus]]
    BY <1>9, <2>1, LandsType DEF MirrorOrder
  <2> QED
    BY <1>9, <2>1, <2>2 DEF MirrorOrder
<1>10. ASSUME NEW o \in Orders, GatewayCancels(o) PROVE TypeOK'
  <2>1. /\ venue' \in [Orders -> VenueState]
       /\ cxl' \in [Callers -> Call]
    BY <1>10, CancelSentType DEF GatewayCancels, Callers
  <2> QED
    BY <1>10, <2>1 DEF GatewayCancels
<1>11. ASSUME NEW o \in Orders, AdoptLooksUp(o) PROVE TypeOK'
  <2>1. mon' \in MonState
    BY <1>11 DEF AdoptLooksUp, MonState, InHand
  <2> QED
    BY <1>11, <2>1 DEF AdoptLooksUp
<1>12. ASSUME NEW o \in Orders, MonitorPolls(o) PROVE TypeOK'
  <2>1. mon' \in MonState
    BY <1>12, StatusOfType DEF MonitorPolls, MonState, InHand
  <2> QED
    BY <1>12, <2>1 DEF MonitorPolls
<1>13. ASSUME NEW o \in Orders, MonitorPollFails(o) PROVE TypeOK'
  <2>1. mon' \in MonState
    BY <1>13 DEF MonitorPollFails, MonState, InHand
  <2> QED
    BY <1>13, <2>1 DEF MonitorPollFails
<1>14. ASSUME NEW o \in Orders, SweepAsks(o) PROVE TypeOK'
  <2>1. StatusOf(o).st \in RowStatus \ {"none"}
    BY StatusOfType DEF Result, RowStatus
  <2>2. mon' \in MonState
    BY <1>14, <2>1 DEF SweepAsks, MonState, InHand
  <2> QED
    BY <1>14, <2>1, <2>2 DEF SweepAsks
<1>15. ASSUME NEW o \in Orders, SweepAskFails(o) PROVE TypeOK'
  <2>1. mon' \in MonState
    BY <1>15 DEF SweepAskFails, MonState, InHand
  <2> QED
    BY <1>15, <2>1 DEF SweepAskFails
<1>16. ASSUME NEW o \in Orders, RetireCancels(o) PROVE TypeOK'
  <2>1. /\ venue' \in [Orders -> VenueState]
       /\ cxl' \in [Callers -> Call]
    BY <1>16, CancelSentType DEF RetireCancels, Callers
  <2>2. retire' \in RetireState
    BY <1>16 DEF RetireCancels, RetireState
  <2> QED
    BY <1>16, <2>1, <2>2 DEF RetireCancels
<1>17. ASSUME NEW leg \in {"YES", "NO"}, ExitClearsToken(leg) PROVE TypeOK'
  <2> DEFINE os == {o \in Orders : Leg(o) = leg /\ venue[o].st = "open"}
  <2>1. venue' = Closed(os) /\ venue' \in [Orders -> VenueState]
    BY <1>17, ClosedType DEF ExitClearsToken
  <2>2. cxl' \in [Callers -> Call]
    <3>1. PICK pc \in {"ack", "nak"} : Answer("exit", os, pc)
      BY <1>17 DEF ExitClearsToken
    <3> QED
      BY <3>1, AnswerType DEF Callers
  <2> QED
    BY <1>17, <2>1, <2>2 DEF ExitClearsToken
<1>18. CASE GatewayCancelReturns
  <2>1. pending' \in [Orders -> Tracked \cup {Untracked}]
    BY <1>18, DroppedType DEF GatewayCancelReturns
  <2>2. cxl' \in [Callers -> Call]
    <3>1. cxl.gateway.orders \in SUBSET Orders
      BY DEF Call
    <3> QED
      BY <1>18, <3>1, NoCallType, AnswerType DEF GatewayCancelReturns, Callers
  <2> QED
    BY <1>18, <2>1, <2>2 DEF GatewayCancelReturns
<1>19. CASE GatewayMarksCancelled
  <2>1. rows' \in [Orders -> [Writers -> RowStatus]]
    BY <1>19 DEF GatewayMarksCancelled, Lands, Writers, RowStatus
  <2>2. cxl' \in [Callers -> Call]
    BY <1>19, NoCallType DEF GatewayMarksCancelled
  <2> QED
    BY <1>19, <2>1, <2>2 DEF GatewayMarksCancelled
<1>20. CASE ExitClearReturns
  <2>1. pending' \in [Orders -> Tracked \cup {Untracked}]
    BY <1>20, DroppedType DEF ExitClearReturns
  <2>2. cxl' \in [Callers -> Call]
    BY <1>20, NoCallType DEF ExitClearReturns
  <2> QED
    BY <1>20, <2>1, <2>2 DEF ExitClearReturns
<1>21. CASE MonitorReconciles
  <2>1. mon' \in MonState
    BY <1>21 DEF MonitorReconciles, MonState, InHand
  <2> QED
    BY <1>21, <2>1 DEF MonitorReconciles
<1>22. CASE MonitorSkipsReconcile
  <2>1. mon' \in MonState
    BY <1>22, GotoType DEF MonitorSkipsReconcile, InHand
  <2> QED
    BY <1>22, <2>1 DEF MonitorSkipsReconcile
<1>23. CASE Adopts
  <2>1. mon' \in MonState
    BY <1>23, GotoType DEF Adopts, InHand
  <2>2. pending' \in [Orders -> Tracked \cup {Untracked}]
    BY <1>23 DEF Adopts, Adopted, Tracked
  <2> QED
    BY <1>23, <2>1, <2>2 DEF Adopts
<1>24. CASE MonitorLists
  <2>1. mon' \in MonState
    BY <1>24 DEF MonitorLists, MonState, InHand
  <2> QED
    BY <1>24, <2>1 DEF MonitorLists
<1>25. CASE MonitorBooks
  <2>1. mon' \in MonState
    BY <1>25, GotoType DEF MonitorBooks, InHand
  <2>2. ASSUME NEW fill \in FillOf(mon.res, mon.ord)
        PROVE  Recorded(mon.cur, fill) \in [Orders -> Seq(Fill)]
    BY <1>25, <2>2, FillOfType, RecordedType DEF MonitorBooks, InHand
  <2>3. fills' \in [Orders -> Seq(Fill)]
    BY <1>25, <2>2 DEF MonitorBooks
  <2> QED
    BY <1>25, <2>1, <2>3 DEF MonitorBooks
<1>26. CASE MonitorMirrors
  <2>1. mon' \in MonState
    BY <1>26, GotoType DEF MonitorMirrors, InHand
  <2>2. Marked({mon.cur}, mon.res.st) \in [Orders -> [Writers -> RowStatus]]
    BY MarkedType DEF Result, RowStatus
  <2>3. [rows EXCEPT ![mon.cur].monitor = "filled"] \in [Orders -> [Writers -> RowStatus]]
    BY DEF Writers, RowStatus
  <2>4. rows' \in [Orders -> [Writers -> RowStatus]]
    BY <1>26, <2>2, <2>3, LandsType DEF MonitorMirrors
  <2> QED
    BY <1>26, <2>1, <2>4 DEF MonitorMirrors
<1>27. CASE MonitorDrops
  <2>1. mon' \in MonState
    BY <1>27, GotoType DEF MonitorDrops, InHand
  <2>2. pending' \in [Orders -> Tracked \cup {Untracked}]
    BY <1>27, DroppedType DEF MonitorDrops
  <2> QED
    BY <1>27, <2>1, <2>2 DEF MonitorDrops
<1>28. CASE MonitorKeeps
  <2>1. mon' \in MonState
    BY <1>28, GotoType DEF MonitorKeeps, InHand
  <2> QED
    BY <1>28, <2>1 DEF MonitorKeeps
<1>29. CASE MonitorReaps
  <2>1. mon' \in MonState
    BY <1>29, GotoType DEF MonitorReaps, InHand
  <2> QED
    BY <1>29, <2>1, CancelSentType DEF MonitorReaps, Callers, InHand
<1>30. CASE MonitorReapReturns
  <2>1. mon' \in MonState
    BY <1>30, GotoType DEF MonitorReapReturns, InHand
  <2>2. pending' \in [Orders -> Tracked \cup {Untracked}]
    BY <1>30, DroppedType DEF MonitorReapReturns
  <2>3. cxl' \in [Callers -> Call]
    BY <1>30, NoCallType DEF MonitorReapReturns
  <2> QED
    BY <1>30, <2>1, <2>2, <2>3 DEF MonitorReapReturns
<1>31. CASE MonitorExpires
  <2>1. mon' \in MonState
    BY <1>31, GotoType DEF MonitorExpires, InHand
  <2>2. rows' \in [Orders -> [Writers -> RowStatus]]
    BY <1>31, MarkedType, LandsType DEF MonitorExpires, RowStatus
  <2> QED
    BY <1>31, <2>1, <2>2 DEF MonitorExpires
<1>32. CASE SweepSelects
  <2>1. PICK os \in SUBSET OrphanRows : mon' = [MonStart EXCEPT !.pc = "sweep", !.todo = os]
    BY <1>32 DEF SweepSelects
  <2>2. mon' \in MonState
    BY <2>1, MonStartType DEF OrphanRows, MonState, InHand
  <2> QED
    BY <1>32, <2>2 DEF SweepSelects
<1>33. CASE SweepWrites
  <2>1. mon' \in MonState
    BY <1>33 DEF SweepWrites, MonState, InHand, RowStatus
  <2>2. rows' \in [Orders -> [Writers -> RowStatus]]
    <3> DEFINE new == [o \in Orders |-> [w \in Writers |->
                         IF mon.upd[o] \in Terminal /\ rows[o][w] # "none"
                         THEN mon.upd[o] ELSE rows[o][w]]]
    <3>1. new \in [Orders -> [Writers -> RowStatus]]
      BY DEF Terminal, RowStatus
    <3> QED
      BY <1>33, <3>1, LandsType DEF SweepWrites
  <2> QED
    BY <1>33, <2>1, <2>2 DEF SweepWrites
<1>34. CASE KillSwitch
  <2>1. retire' \in RetireState
    BY <1>34 DEF KillSwitch, RetireAll, RetireState
  <2> QED
    BY <1>34, <2>1 DEF KillSwitch
<1>35. CASE Shutdown
  <2>1. retire' \in RetireState
    BY <1>35 DEF Shutdown, RetireAll, RetireState
  <2> QED
    BY <1>35, <2>1, MonStartType, NoCallType DEF Shutdown, PlacementsLost
<1>36. CASE RetireReturns
  <2>1. retire' \in RetireState
    <3>1. \A r \in RetireState : [r EXCEPT !.pc = "next"] \in RetireState
      BY DEF RetireState
    <3>2. \A r \in RetireState, os \in SUBSET Orders :
             [r EXCEPT !.pc = "next", !.ids = @ \cup os] \in RetireState
      BY DEF RetireState
    <3>3. cxl.retire.orders \in SUBSET Orders
      BY DEF Call
    <3>4. CASE cxl.retire.pc = "ack"
      <4>1. retire' = [retire EXCEPT !.pc = "next", !.ids = @ \cup cxl.retire.orders]
        BY <1>36, <3>4 DEF RetireReturns
      <4>2. retire \in RetireState
        OBVIOUS
      <4> HIDE DEF TypeOK
      <4> QED
        BY <3>3, <4>1, <4>2 DEF RetireState
    <3>5. CASE cxl.retire.pc # "ack"
      BY <1>36, <3>1, <3>5 DEF RetireReturns
    <3> QED
      BY <3>4, <3>5
  <2>2. pending' \in [Orders -> Tracked \cup {Untracked}]
    BY <1>36, DroppedType DEF RetireReturns
  <2>3. cxl' \in [Callers -> Call]
    BY <1>36, NoCallType DEF RetireReturns
  <2> QED
    BY <1>36, <2>1, <2>2, <2>3 DEF RetireReturns
<1>37. CASE RetireWrites
  <2>1. retire' \in RetireState
    BY <1>37 DEF RetireWrites, RetireIdle, RetireState
  <2>2. rows' \in [Orders -> [Writers -> RowStatus]]
    BY <1>37, MarkedType, LandsType DEF RetireWrites, RowStatus
  <2> QED
    BY <1>37, <2>1, <2>2 DEF RetireWrites
<1>38. CASE Crash
  <2>1. retire' \in RetireState
    BY <1>38 DEF Crash, RetireIdle, RetireState
  <2> QED
    BY <1>38, <2>1, MonStartType, NoCallType DEF Crash, PlacementsLost
<1>39. CASE Restart
  BY <1>39 DEF Restart
<1>40. CASE UNCHANGED vars
  BY <1>40 DEF vars
<1> QED
  BY <1>1, <1>2, <1>3, <1>4, <1>5, <1>6, <1>7, <1>8, <1>9, <1>10, <1>11, <1>12, <1>13, <1>14, <1>15, <1>16, <1>17, <1>18, <1>19, <1>20, <1>21, <1>22, <1>23, <1>24, <1>25, <1>26, <1>27, <1>28, <1>29, <1>30, <1>31, <1>32, <1>33, <1>34, <1>35, <1>36, <1>37, <1>38, <1>39, <1>40
  DEF Next, VenueStep, PlaceStep, CancelStep, MonitorStep, ProcessStep

\* Every reachable state of the tasks, the map, the tables and the venue is well
\* formed.
THEOREM TypeCorrect == Spec => []TypeOK
<1>1. Init => TypeOK
  BY TypeInit
<1>2. TypeOK /\ [Next]_vars => TypeOK'
  BY TypeStep
<1> QED
  BY <1>1, <1>2, PTL DEF Spec

-----------------------------------------------------------------------------
(* The rows and the fills follow the venue: the inductive invariant.       *)
(*                                                                         *)
(* What a task learnt of an order stays true while the task is suspended,  *)
(* because an order that is over never changes again.  The invariant says  *)
(* what each task, between two of its steps, knows of its orders.          *)

Reached(o) == venue[o].st # "none"
Over(o) == venue[o].st \in {"matched", "dead"}

\* What a status claims of an order.
Claim(o, st) ==
    /\ st = "filled" => venue[o].st = "matched"
    /\ st = "cancelled" => Over(o)

\* An order anyone knows of has reached the book, and one still to be submitted
\* has not.
Known(o) ==
    \/ place[o] \in {"sent", "placed", "done"}
    \/ IsTracked(o)
    \/ \E w \in Writers : rows[o][w] # "none"
    \/ o \in mon.todo \cup {mon.cur}
    \/ o \in retire.todo

KnownReached ==
    \A o \in Orders : /\ Known(o) => Reached(o)
                      /\ place[o] \in {"new", "checked", "late"} => ~Reached(o)

\* A cancel that was acknowledged names orders that are over.
AckedOver ==
    /\ \A c \in Callers : cxl[c].pc \in {"ack", "write"} =>
           \A o \in cxl[c].orders : Over(o)
    /\ mon.pc = "reap" => cxl.monitor.orders = {mon.cur}
    /\ mon.pc = "expire" => Over(mon.cur)
    /\ \A o \in retire.ids : Over(o)

\* A status in hand is still what the venue would say.
AnswersHold ==
    /\ mon.pc \in {"polled", "mirror"} => Claim(mon.cur, mon.res.st)
    /\ \A o \in Orders : Claim(o, mon.upd[o])

RowsHold == \A o \in Orders, w \in Writers : Claim(o, rows[o][w])

FillsHold == \A o \in Orders : fills[o] # <<>> => venue[o].st = "matched"

\* Nothing of an order is left to book: it is booked, or it is placed and no poll
\* will reach it any more.
Loose(o) == fills[o] # <<>> \/ (~IsTracked(o) /\ place[o] = "done")

RowsBooked ==
    \A o \in Orders : /\ rows[o].monitor # "none" => fills[o] # <<>>
                      /\ rows[o].gateway # "none" => place[o] = "done"
                      /\ rows[o].gateway = "filled" => Loose(o)

\* What the orphan sweep has in hand.
BatchLoose ==
    \A o \in Orders : /\ mon.upd[o] # "pending" => mon.pc = "sweep" /\ Loose(o)
                      /\ mon.pc = "sweep" /\ o \in mon.todo => Loose(o)

ToAdopt(o) == \/ mon.pc \in {"adopt", "lookup"} /\ o \in mon.todo
              \/ mon.pc = "lookup" /\ o = mon.cur

\* What an adoption would put back in _live_pending has no filled row.
AdoptsUnmarked ==
    /\ mon.pc \in {"start", "wake"} => mon.todo = {}
    /\ \A o \in Orders :
          ToAdopt(o) => (rows[o].gateway = "filled" => fills[o] # <<>>)

\* What the poll is about to mark filled is booked.
PollBooked ==
    /\ mon.res.st = "filled" => mon.res.size > 0
    /\ mon.pc = "mirror" /\ mon.res.st = "filled" /\ mon.ord # Untracked
          => fills[mon.cur] # <<>>

MarksFollow == ~DbFaults => RowsBooked /\ BatchLoose /\ AdoptsUnmarked /\ PollBooked

IInv == /\ TypeOK /\ KnownReached /\ AckedOver /\ AnswersHold /\ RowsHold /\ FillsHold
        /\ MarksFollow

-----------------------------------------------------------------------------
(* What each variable is written by.                                       *)

ClosesVenue ==
    \/ \E o \in Orders : GatewayCancels(o) \/ RetireCancels(o)
    \/ \E leg \in {"YES", "NO"} : ExitClearsToken(leg)
    \/ MonitorReaps

\* The steps by which the CLOB's record of an order changes.
LEMMA VenueWrites ==
  [Next]_vars => \/ venue' = venue
                 \/ \E o \in Orders : VenueMatches(o) \/ VenueCloses(o) \/ Submit(o)
                 \/ ClosesVenue
<1> SUFFICES ASSUME [Next]_vars, venue' # venue
             PROVE  \/ \E o \in Orders : VenueMatches(o) \/ VenueCloses(o) \/ Submit(o)
                    \/ ClosesVenue
  OBVIOUS
<1>1. CASE VenueStep
  BY <1>1 DEF VenueStep, VenueForgets
<1>2. CASE PlaceStep
  BY <1>2 DEF PlaceStep, PlaceChecked, PlaceRefused, SubmitReturns, SubmitTimesOut,
              MirrorOrder
<1>3. CASE CancelStep
  BY <1>3 DEF CancelStep, ClosesVenue, GatewayCancelReturns, GatewayMarksCancelled,
              ExitClearReturns
<1>4. CASE MonitorStep
  BY <1>4 DEF MonitorStep, ClosesVenue, MonitorReconciles, MonitorSkipsReconcile,
              Adopts, MonitorLists, AdoptLooksUp, SweepAsks, SweepAskFails,
              MonitorPolls, MonitorPollFails, MonitorBooks, MonitorMirrors,
              MonitorDrops, MonitorKeeps, MonitorReapReturns, MonitorExpires,
              SweepSelects, SweepWrites
<1>5. CASE ProcessStep
  BY <1>5 DEF ProcessStep, ClosesVenue, KillSwitch, Shutdown, Crash, Restart,
              RetireReturns, RetireWrites
<1>6. CASE UNCHANGED vars
  BY <1>6 DEF vars
<1> QED
  BY <1>1, <1>2, <1>3, <1>4, <1>5, <1>6 DEF Next

\* The steps that write the trades table.
LEMMA RowsWrites ==
  [Next]_vars => \/ rows' = rows
                 \/ \E o \in Orders : MirrorOrder(o)
                 \/ GatewayMarksCancelled \/ MonitorMirrors \/ MonitorExpires
                 \/ SweepWrites \/ RetireWrites
<1> SUFFICES ASSUME [Next]_vars, rows' # rows
             PROVE  \/ \E o \in Orders : MirrorOrder(o)
                    \/ GatewayMarksCancelled \/ MonitorMirrors \/ MonitorExpires
                    \/ SweepWrites \/ RetireWrites
  OBVIOUS
<1>1. CASE VenueStep
  BY <1>1 DEF VenueStep, VenueMatches, VenueCloses, VenueForgets
<1>2. CASE PlaceStep
  BY <1>2 DEF PlaceStep, PlaceChecked, PlaceRefused, Submit, SubmitReturns,
              SubmitTimesOut
<1>3. CASE CancelStep
  BY <1>3 DEF CancelStep, GatewayCancels, GatewayCancelReturns, ExitClearsToken,
              ExitClearReturns
<1>4. CASE MonitorStep
  BY <1>4 DEF MonitorStep, MonitorReconciles, MonitorSkipsReconcile, Adopts,
              MonitorLists, AdoptLooksUp, SweepAsks, SweepAskFails, MonitorPolls,
              MonitorPollFails, MonitorBooks, MonitorDrops, MonitorKeeps,
              MonitorReaps, MonitorReapReturns, SweepSelects
<1>5. CASE ProcessStep
  BY <1>5 DEF ProcessStep, KillSwitch, Shutdown, Crash, Restart, RetireCancels,
              RetireReturns
<1>6. CASE UNCHANGED vars
  BY <1>6 DEF vars
<1> QED
  BY <1>1, <1>2, <1>3, <1>4, <1>5, <1>6 DEF Next

\* Only the monitor books fills.
LEMMA FillsWrites == [Next]_vars => fills' = fills \/ MonitorBooks
<1> SUFFICES ASSUME [Next]_vars, fills' # fills PROVE MonitorBooks
  OBVIOUS
<1>1. CASE VenueStep
  BY <1>1 DEF VenueStep, VenueMatches, VenueCloses, VenueForgets
<1>2. CASE PlaceStep
  BY <1>2 DEF PlaceStep, PlaceChecked, PlaceRefused, Submit, SubmitReturns,
              SubmitTimesOut, MirrorOrder
<1>3. CASE CancelStep
  BY <1>3 DEF CancelStep, GatewayCancels, GatewayCancelReturns, ExitClearsToken,
              ExitClearReturns, GatewayMarksCancelled
<1>4. CASE MonitorStep
  BY <1>4 DEF MonitorStep, MonitorReconciles, MonitorSkipsReconcile, Adopts,
              MonitorLists, AdoptLooksUp, SweepAsks, SweepAskFails, MonitorPolls,
              MonitorPollFails, MonitorMirrors, MonitorDrops, MonitorKeeps,
              MonitorReaps, MonitorReapReturns, MonitorExpires, SweepSelects,
              SweepWrites
<1>5. CASE ProcessStep
  BY <1>5 DEF ProcessStep, KillSwitch, Shutdown, Crash, Restart, RetireCancels,
              RetireReturns, RetireWrites
<1>6. CASE UNCHANGED vars
  BY <1>6 DEF vars
<1> QED
  BY <1>1, <1>2, <1>3, <1>4, <1>5, <1>6 DEF Next

-----------------------------------------------------------------------------
(* How the venue moves.                                                    *)

Moves(o) == /\ Over(o) => venue'[o] = venue[o]
            /\ Reached(o) => Reached(o)'
            /\ Reached(o)' => Reached(o) \/ Submit(o)

\* Closing orders leaves those that are over alone, and is final.
LEMMA ClosedMoves ==
  ASSUME TypeOK, NEW os, venue' = Closed(os)
  PROVE  /\ \A o \in Orders : Moves(o)
         /\ \A o \in os \cap Orders : Reached(o) => Over(o)'
<1>1. ASSUME NEW o \in Orders
      PROVE  Moves(o) /\ (o \in os /\ Reached(o) => Over(o)')
  <2>1. venue[o].st \in {"none", "open", "matched", "dead"}
    BY DEF TypeOK, VenueState
  <2>2. CASE o \in os /\ venue[o].st = "open"
    <3>1. venue'[o] = Dead(venue[o])
      BY <2>2 DEF Closed
    <3>2. venue'[o].st = "dead"
      BY <3>1 DEF Dead
    <3> QED
      BY <2>2, <3>2 DEF Moves, Over, Reached
  <2>3. CASE ~(o \in os /\ venue[o].st = "open")
    <3>1. venue'[o] = venue[o]
      BY <2>3 DEF Closed
    <3> QED
      BY <2>1, <2>3, <3>1 DEF Moves, Over, Reached
  <2> QED
    BY <2>2, <2>3
<1> QED
  BY <1>1

\* A cancel moves the venue only by closing its order, and is acknowledged only
\* when the order is over.
LEMMA CancelSentMoves ==
  ASSUME TypeOK, NEW c, NEW o \in Orders, CancelSent(c, o), Reached(o)
  PROVE  /\ venue' = venue \/ venue' = Closed({o})
         /\ \/ Answer(c, {o}, "nak")
            \/ Answer(c, {o}, "ack") /\ Over(o)'
  BY ClosedMoves DEF CancelSent

\* An order that is over stays over, and what was matched stays matched.
LEMMA VenueForward ==
  ASSUME TypeOK, KnownReached, [Next]_vars
  PROVE  \A o \in Orders : Moves(o)
<1>1. CASE venue' = venue
  BY <1>1 DEF Moves, Reached
<1>2. ASSUME NEW r \in Orders, VenueMatches(r) \/ VenueCloses(r), NEW o \in Orders
      PROVE  Moves(o)
  <2>1. venue[r].st = "open" /\ (o # r => venue'[o] = venue[o])
    BY <1>2 DEF VenueMatches, VenueCloses, TypeOK
  <2>2. venue'[r].st \in {"open", "matched", "dead"}
    BY <1>2 DEF VenueMatches, VenueCloses, Dead, TypeOK
  <2> QED
    BY <2>1, <2>2 DEF Moves, Over, Reached
<1>3. ASSUME NEW r \in Orders, Submit(r), NEW o \in Orders PROVE Moves(o)
  <2>1. ~Reached(r) /\ (o # r => venue'[o] = venue[o])
    BY <1>3 DEF Submit, TypeOK, KnownReached
  <2> QED
    BY <1>3, <2>1 DEF Moves, Over, Reached
<1>4. CASE ClosesVenue
  <2>1. venue' = venue \/ \E os : venue' = Closed(os)
    BY <1>4 DEF ClosesVenue, GatewayCancels, RetireCancels, ExitClearsToken,
                MonitorReaps, CancelSent
  <2> QED
    BY <1>1, <2>1, ClosedMoves
<1> QED
  BY <1>1, <1>2, <1>3, <1>4, VenueWrites

-----------------------------------------------------------------------------
(* Each conjunct of the invariant is kept.                                 *)

\* A fill is booked from a status that holds.
LEMMA FillsHoldStep ==
  ASSUME IInv, [Next]_vars
  PROVE  FillsHold'
<1> USE DEF IInv
<1>1. \A o \in Orders : Moves(o)
  BY VenueForward
<1>2. CASE fills' = fills
  BY <1>1, <1>2 DEF FillsHold, Moves, Over
<1>3. CASE MonitorBooks
  <2>1. venue' = venue /\ mon.cur \in Orders
    BY <1>3, ReaderType DEF MonitorBooks, InHand
  <2>2. CASE fills' = fills
    BY <1>2, <2>2
  <2>3. ASSUME NEW fill \in FillOf(mon.res, mon.ord), fills' = Recorded(mon.cur, fill)
        PROVE  FillsHold'
    <3>1. venue[mon.cur].st = "matched"
      BY <1>3, <2>3 DEF FillOf, MonitorBooks, AnswersHold, Claim
    <3>2. \A o \in Orders : fills'[o] = fills[o] \/ (o = mon.cur /\ fills'[o] = <<fill>>)
      BY <2>3 DEF Recorded, TypeOK
    <3> QED
      BY <2>1, <3>1, <3>2 DEF FillsHold
  <2> QED
    BY <1>3, <2>2, <2>3 DEF MonitorBooks
<1> QED
  BY <1>2, <1>3, FillsWrites

\* What a table write claims held when the task learnt it, and still does.
LEMMA LandsHold ==
  ASSUME NEW update, Lands(update), RowsHold, venue' = venue,
         \A o \in Orders, w \in Writers : Claim(o, update[o][w])
  PROVE  RowsHold'
  BY DEF Lands, RowsHold, Claim, Over

\* An UPDATE over orders that are over claims nothing too much.
LEMMA MarkedHold ==
  ASSUME RowsHold, NEW os, NEW st, \A o \in os \cap Orders : Claim(o, st)
  PROVE  \A o \in Orders, w \in Writers : Claim(o, Marked(os, st)[o][w])
  BY DEF RowsHold, Marked

\* No step writes a row the venue does not back.
LEMMA RowsHoldStep ==
  ASSUME IInv, [Next]_vars
  PROVE  RowsHold'
<1> USE DEF IInv
<1>1. CASE rows' = rows
  <2>1. \A o \in Orders : Moves(o)
    BY VenueForward
  <2> QED
    BY <1>1, <2>1 DEF RowsHold, Claim, Moves, Over
<1>2. ASSUME NEW r \in Orders, MirrorOrder(r) PROVE RowsHold'
  <2>1. \A o \in Orders, w \in Writers : Claim(o, [rows EXCEPT ![r].gateway = "pending"][o][w])
    BY DEF RowsHold, Claim, TypeOK
  <2> QED
    BY <1>2, <2>1, LandsHold DEF MirrorOrder
<1>3. CASE GatewayMarksCancelled
  <2>1. \A o \in cxl.gateway.orders \cap Orders : Claim(o, "cancelled")
    BY <1>3 DEF GatewayMarksCancelled, AckedOver, Callers, Claim
  <2> DEFINE new == [o \in Orders |-> [w \in Writers |->
                       IF o \in cxl.gateway.orders /\ rows[o][w] = "pending"
                       THEN "cancelled" ELSE rows[o][w]]]
  <2>2. \A o \in Orders, w \in Writers : Claim(o, new[o][w])
    BY <2>1 DEF RowsHold
  <2>3. Lands(new) /\ venue' = venue
    BY <1>3 DEF GatewayMarksCancelled
  <2> QED
    BY <2>2, <2>3, LandsHold
<1>4. CASE MonitorMirrors
  <2>1. venue' = venue /\ mon.cur \in Orders /\ Claim(mon.cur, mon.res.st)
    BY <1>4, ReaderType DEF MonitorMirrors, InHand, AnswersHold
  <2>2. \A o \in Orders, w \in Writers : Claim(o, Marked({mon.cur}, mon.res.st)[o][w])
    BY <2>1, MarkedHold
  <2>3. ASSUME mon.res.st = "filled"
        PROVE  \A o \in Orders, w \in Writers :
                  Claim(o, [rows EXCEPT ![mon.cur].monitor = "filled"][o][w])
    BY <2>1, <2>3 DEF RowsHold, Claim, TypeOK
  <2>4. CASE rows' = rows
    BY <1>1, <2>4
  <2>5. CASE /\ mon.res.st = "filled"
             /\ Lands([rows EXCEPT ![mon.cur].monitor = "filled"])
    BY <2>1, <2>3, <2>5, LandsHold
  <2>6. CASE Lands(Marked({mon.cur}, mon.res.st))
    BY <2>1, <2>2, <2>6, LandsHold
  <2> QED
    BY <1>4, <2>4, <2>5, <2>6 DEF MonitorMirrors
<1>5. CASE MonitorExpires
  <2>1. \A o \in {mon.cur} \cap Orders : Claim(o, "cancelled")
    BY <1>5 DEF MonitorExpires, AckedOver, Claim
  <2> QED
    BY <1>5, <2>1, MarkedHold, LandsHold DEF MonitorExpires
<1>6. CASE SweepWrites
  <2> DEFINE new == [o \in Orders |-> [w \in Writers |->
                       IF mon.upd[o] \in Terminal /\ rows[o][w] # "none"
                       THEN mon.upd[o] ELSE rows[o][w]]]
  <2>1. \A o \in Orders, w \in Writers : Claim(o, new[o][w])
    BY DEF RowsHold, AnswersHold
  <2>2. Lands(new) /\ venue' = venue
    BY <1>6 DEF SweepWrites
  <2> QED
    BY <2>1, <2>2, LandsHold
<1>7. CASE RetireWrites
  <2>1. \A o \in retire.ids \cap Orders : Claim(o, "cancelled")
    BY DEF AckedOver, Claim
  <2> QED
    BY <1>7, <2>1, MarkedHold, LandsHold DEF RetireWrites
<1> QED
  BY <1>1, <1>2, <1>3, <1>4, <1>5, <1>6, <1>7, RowsWrites

\* The steps that move the monitor's coroutine.
LEMMA MonWrites == [Next]_vars => mon' = mon \/ mon' = MonStart \/ MonitorStep
<1> SUFFICES ASSUME [Next]_vars, mon' # mon PROVE mon' = MonStart \/ MonitorStep
  OBVIOUS
<1>1. CASE VenueStep
  BY <1>1 DEF VenueStep, VenueMatches, VenueCloses, VenueForgets
<1>2. CASE PlaceStep
  BY <1>2 DEF PlaceStep, PlaceChecked, PlaceRefused, Submit, SubmitReturns,
              SubmitTimesOut, MirrorOrder
<1>3. CASE CancelStep
  BY <1>3 DEF CancelStep, GatewayCancels, GatewayCancelReturns, ExitClearsToken,
              ExitClearReturns, GatewayMarksCancelled
<1>4. CASE ProcessStep
  BY <1>4 DEF ProcessStep, KillSwitch, Shutdown, Crash, Restart, RetireCancels,
              RetireReturns, RetireWrites
<1>5. CASE UNCHANGED vars
  BY <1>5 DEF vars
<1> QED
  BY <1>1, <1>2, <1>3, <1>4, <1>5 DEF Next

\* The monitor does not change what it holds, or lets go of it.
LEMMA AnswersKept ==
  ASSUME IInv, \A o \in Orders : Moves(o), mon'.upd = mon.upd,
         mon'.pc \in {"polled", "mirror"} =>
            mon.pc \in {"polled", "mirror"} /\ mon'.cur = mon.cur /\ mon'.res = mon.res
  PROVE  AnswersHold'
<1>1. ASSUME NEW o \in Orders, NEW st, Claim(o, st)
      PROVE  /\ st = "filled" => venue'[o].st = "matched"
             /\ st = "cancelled" => Over(o)'
  BY <1>1 DEF Claim, Moves, Over
<1>2. \A o \in Orders : Claim(o, mon.upd[o])'
  BY <1>1 DEF IInv, AnswersHold, Claim
<1>3. mon'.pc \in {"polled", "mirror"} => Claim(mon.cur, mon.res.st)'
  <2>1. mon.pc \in {"polled", "mirror"} => mon.cur \in Orders /\ Claim(mon.cur, mon.res.st)
    BY ReaderType DEF IInv, AnswersHold, InHand
  <2> QED
    BY <1>1, <2>1 DEF Claim
<1> QED
  BY <1>2, <1>3 DEF AnswersHold

\* A status the monitor holds across an await stays true of the venue.
LEMMA AnswersHoldStep ==
  ASSUME IInv, [Next]_vars
  PROVE  AnswersHold'
<1> USE DEF IInv
<1>1. \A o \in Orders : Moves(o)
  BY VenueForward
<1>2. mon \in MonState
  BY DEF TypeOK
<1>3. CASE mon' = mon
  BY <1>1, <1>3, AnswersKept
<1>4. CASE mon' = MonStart
  BY <1>4 DEF MonStart, AnswersHold, Claim
<1>5. CASE MonitorReconciles \/ MonitorSkipsReconcile \/ Adopts \/ MonitorLists
  BY <1>1, <1>2, <1>5, AnswersKept DEF MonitorReconciles, MonitorSkipsReconcile, Adopts,
                                  MonitorLists, Goto, MonState
<1>6. ASSUME NEW r \in Orders, AdoptLooksUp(r) \/ MonitorPollFails(r) \/ SweepAskFails(r)
      PROVE  AnswersHold'
  BY <1>1, <1>2, <1>6, AnswersKept DEF AdoptLooksUp, MonitorPollFails, SweepAskFails, MonState
<1>7. CASE \/ MonitorBooks \/ MonitorMirrors \/ MonitorDrops \/ MonitorKeeps
           \/ MonitorReaps \/ MonitorReapReturns \/ MonitorExpires
  BY <1>1, <1>2, <1>7, AnswersKept DEF MonitorBooks, MonitorMirrors, MonitorDrops,
        MonitorKeeps, MonitorReaps, MonitorReapReturns, MonitorExpires, Goto, MonState
<1>8. ASSUME NEW r \in Orders, MonitorPolls(r) PROVE AnswersHold'
  <2>1. venue' = venue /\ mon'.cur = r /\ mon'.res = StatusOf(r) /\ mon'.upd = mon.upd
    BY <1>2, <1>8 DEF MonitorPolls, MonState
  <2>2. Claim(r, StatusOf(r).st)
    BY DEF Claim, Over, StatusOf, NoResult
  <2> QED
    BY <2>1, <2>2 DEF AnswersHold, Claim, Over
<1>9. CASE SweepSelects
  BY <1>9 DEF SweepSelects, MonStart, AnswersHold, Claim
<1>10. ASSUME NEW r \in Orders, SweepAsks(r) PROVE AnswersHold'
  <2>1. /\ venue' = venue /\ mon'.pc = "sweep"
        /\ \A o \in Orders : mon'.upd[o] = IF o = r THEN StatusOf(r).st ELSE mon.upd[o]
    BY <1>2, <1>10 DEF SweepAsks, MonState
  <2>2. Claim(r, StatusOf(r).st)
    BY DEF Claim, Over, StatusOf, NoResult
  <2> QED
    BY <2>1, <2>2 DEF AnswersHold, Claim, Over
<1>11. CASE SweepWrites
  BY <1>2, <1>11 DEF SweepWrites, AnswersHold, Claim, MonState
<1> QED
  BY <1>3, <1>4, <1>5, <1>6, <1>7, <1>8, <1>9, <1>10, <1>11, MonWrites DEF MonitorStep

\* A step that answers no cancel, and moves no order into a place that needs one.
LEMMA AckedKept ==
  ASSUME IInv, \A o \in Orders : Moves(o),
         \A c \in Callers : cxl'[c] = cxl[c] \/ cxl'[c] = NoCall,
         mon'.pc = "reap" => mon = mon' /\ cxl'.monitor = cxl.monitor,
         mon'.pc = "expire" => mon = mon',
         retire'.ids \subseteq retire.ids
  PROVE  AckedOver'
<1>1. \A o \in Orders : Over(o) => Over(o)'
  BY DEF Moves, Over
<1>2. \A c \in Callers : cxl[c].orders \subseteq Orders
  BY DEF IInv, TypeOK, Call
<1>3. mon.cur \in Orders \/ mon.pc # "expire"
  BY ReaderType DEF IInv, InHand
<1>4. retire.ids \subseteq Orders
  BY ReaderType DEF IInv
<1> QED
  BY <1>1, <1>2, <1>3, <1>4 DEF IInv, AckedOver, NoCall, Callers

\* A cancel of an order on the book.
LEMMA CancelSentAcked ==
  ASSUME IInv, NEW c \in Callers, NEW o \in Orders, Reached(o), CancelSent(c, o)
  PROVE  /\ \A k \in Callers : cxl'[k].pc \in {"ack", "write"} =>
               \A r \in cxl'[k].orders : Over(r)'
         /\ cxl'[c].orders = {o}
<1>1. \A r \in Orders : Over(r) => Over(r)'
  BY CancelSentMoves, ClosedMoves DEF IInv, Moves, Over
<1>2. \A k \in Callers : cxl[k].orders \subseteq Orders
  BY DEF IInv, TypeOK, Call
<1>3. CASE Answer(c, {o}, "nak")
  <2>1. \A k \in Callers : cxl'[k] = IF k = c THEN [pc |-> "nak", orders |-> {o}] ELSE cxl[k]
    BY <1>3 DEF Answer, IInv, TypeOK
  <2> QED
    BY <1>1, <1>2, <2>1 DEF IInv, AckedOver
<1>4. CASE Answer(c, {o}, "ack") /\ Over(o)'
  <2>1. \A k \in Callers : cxl'[k] = IF k = c THEN [pc |-> "ack", orders |-> {o}] ELSE cxl[k]
    BY <1>4 DEF Answer, IInv, TypeOK
  <2> QED
    BY <1>1, <1>2, <1>4, <2>1 DEF IInv, AckedOver
<1> QED
  BY <1>3, <1>4, CancelSentMoves DEF IInv

\* An acknowledged cancel stays final.
LEMMA AckedOverStep ==
  ASSUME IInv, [Next]_vars
  PROVE  AckedOver'
<1> USE DEF IInv
<1>1. \A o \in Orders : Moves(o)
  BY VenueForward
<1>2. mon \in MonState /\ cxl \in [Callers -> Call] /\ retire \in RetireState
  BY DEF TypeOK
<1>3. mon.pc = "expire" => mon.cur \in Orders
  BY <1>2 DEF MonState, InHand
<1>4. CASE VenueStep \/ PlaceStep \/ UNCHANGED vars
  <2>1. cxl' = cxl /\ mon' = mon /\ retire' = retire
    BY <1>4 DEF vars, VenueStep, VenueMatches, VenueCloses, VenueForgets, PlaceStep,
                PlaceChecked, PlaceRefused, Submit, SubmitReturns, SubmitTimesOut, MirrorOrder
  <2> QED
    BY <1>1, <2>1, AckedKept
<1>5. ASSUME NEW r \in Orders, GatewayCancels(r) PROVE AckedOver'
  <2>1. Reached(r) /\ CancelSent("gateway", r)
    BY <1>5 DEF GatewayCancels, KnownReached, Known
  <2>2. mon' = mon /\ retire' = retire /\ cxl'.monitor = cxl.monitor
    BY <1>2, <1>5 DEF GatewayCancels, CancelSent, Answer, Callers
  <2> QED
    BY <1>1, <1>3, <2>1, <2>2, CancelSentAcked, ReaderType
    DEF AckedOver, Callers, Moves, Over
<1>6. CASE GatewayCancelReturns
  <2>1. CASE cxl' = [cxl EXCEPT !.gateway = NoCall]
    BY <1>1, <1>2, <1>6, <2>1, AckedKept DEF GatewayCancelReturns, Callers
  <2>2. CASE cxl.gateway.pc = "ack" /\ Answer("gateway", cxl.gateway.orders, "write")
    <3>1. /\ cxl'.gateway.orders = cxl.gateway.orders
          /\ \A c \in Callers \ {"gateway"} : cxl'[c] = cxl[c]
      BY <1>2, <2>2 DEF Answer, Callers
    <3>2. venue' = venue /\ mon' = mon /\ retire' = retire
      BY <1>6 DEF GatewayCancelReturns
    <3> QED
      BY <2>2, <3>1, <3>2 DEF AckedOver, Over, Callers
  <2> QED
    BY <1>6, <2>1, <2>2 DEF GatewayCancelReturns
<1>7. CASE GatewayMarksCancelled \/ ExitClearReturns
  BY <1>1, <1>2, <1>7, AckedKept DEF GatewayMarksCancelled, ExitClearReturns, Callers
<1>8. ASSUME NEW leg \in {"YES", "NO"}, ExitClearsToken(leg) PROVE AckedOver'
  <2> DEFINE os == {o \in Orders : Leg(o) = leg /\ venue[o].st = "open"}
  <2>1. \A o \in os : Over(o)'
    BY <1>8, ClosedMoves DEF ExitClearsToken, Reached
  <2>2. /\ cxl'.exit.orders = os
        /\ \A c \in Callers \ {"exit"} : cxl'[c] = cxl[c]
        /\ mon' = mon /\ retire' = retire
    BY <1>2, <1>8 DEF ExitClearsToken, Answer, Callers
  <2>3. \A c \in Callers : cxl[c].orders \subseteq Orders
    BY <1>2 DEF Call
  <2> HIDE DEF os
  <2> QED
    BY <1>1, <1>3, <2>1, <2>2, <2>3, ReaderType DEF AckedOver, Callers, Moves, Over
<1>9. CASE MonitorReaps
  <2>1. mon.cur \in Orders /\ Reached(mon.cur) /\ CancelSent("monitor", mon.cur)
    BY <1>9, ReaderType DEF MonitorReaps, KnownReached, Known, InHand
  <2>2. mon'.pc = "reap" /\ mon'.cur = mon.cur /\ retire' = retire
    BY <1>2, <1>9 DEF MonitorReaps, Goto, MonState
  <2> QED
    BY <1>1, <2>1, <2>2, CancelSentAcked, ReaderType DEF AckedOver, Callers, Moves, Over
<1>10. CASE MonitorReapReturns
  <2>1. cxl.monitor.pc = "ack" => Over(mon.cur)
    BY <1>10 DEF MonitorReapReturns, AckedOver, Callers
  <2>2. /\ venue' = venue /\ retire' = retire /\ mon'.cur = mon.cur
        /\ mon'.pc # "reap" /\ (mon'.pc = "expire" => cxl.monitor.pc = "ack")
        /\ \A c \in Callers : cxl'[c] = cxl[c] \/ cxl'[c] = NoCall
    BY <1>2, <1>10 DEF MonitorReapReturns, Goto, MonState, Callers
  <2> QED
    BY <2>1, <2>2 DEF AckedOver, Over, NoCall
<1>11. CASE MonitorStep /\ ~MonitorReaps /\ ~MonitorReapReturns
  <2>1. cxl' = cxl /\ retire' = retire /\ mon'.pc \notin {"reap", "expire"}
    BY <1>2, <1>11 DEF MonitorStep, MonitorReconciles, MonitorSkipsReconcile, Adopts,
        MonitorLists, AdoptLooksUp, SweepAsks, SweepAskFails, MonitorPolls,
        MonitorPollFails, MonitorBooks, MonitorMirrors, MonitorDrops, MonitorKeeps,
        MonitorExpires, SweepSelects, SweepWrites, Goto, MonState, MonStart
  <2> QED
    BY <1>1, <2>1, AckedKept
<1>12. ASSUME NEW r \in Orders, RetireCancels(r) PROVE AckedOver'
  <2>1. Reached(r) /\ CancelSent("retire", r)
    BY <1>12 DEF RetireCancels, KnownReached, Known
  <2>2. mon' = mon /\ retire'.ids = retire.ids /\ cxl'.monitor = cxl.monitor
    BY <1>2, <1>12 DEF RetireCancels, CancelSent, Answer, Callers, RetireState
  <2> QED
    BY <1>1, <1>3, <2>1, <2>2, CancelSentAcked, ReaderType
    DEF AckedOver, Callers, Moves, Over
<1>13. CASE RetireReturns
  <2>1. cxl.retire.pc = "ack" => \A o \in cxl.retire.orders : Over(o)
    BY DEF AckedOver, Callers
  <2>2. \A o \in retire'.ids : o \in retire.ids \/ (cxl.retire.pc = "ack" /\ o \in cxl.retire.orders)
    BY <1>2, <1>13 DEF RetireReturns, RetireState
  <2>3. /\ venue' = venue /\ mon' = mon /\ cxl'.monitor = cxl.monitor
        /\ \A c \in Callers : cxl'[c] = cxl[c] \/ cxl'[c] = NoCall
    BY <1>2, <1>13 DEF RetireReturns, Callers
  <2> QED
    BY <2>1, <2>2, <2>3 DEF AckedOver, Over, NoCall
<1>14. CASE KillSwitch \/ Shutdown \/ Crash \/ Restart \/ RetireWrites
  <2>1. /\ (mon' = mon /\ cxl' = cxl) \/ mon' = MonStart
        /\ \A c \in Callers : cxl'[c] = cxl[c] \/ cxl'[c] = NoCall
        /\ retire'.ids \subseteq retire.ids
    BY <1>14 DEF KillSwitch, Shutdown, Crash, Restart, RetireWrites, RetireAll, RetireIdle
  <2> QED
    BY <1>1, <2>1, AckedKept DEF MonStart
<1> QED
  BY <1>4, <1>5, <1>6, <1>7, <1>8, <1>9, <1>10, <1>11, <1>12, <1>13, <1>14
  DEF Next, CancelStep, ProcessStep

\* A step that submits nothing, and by which nobody learns of an order that is not
\* on the book.
LEMMA KnownKept ==
  ASSUME IInv, \A o \in Orders : Moves(o), \A o \in Orders : ~Submit(o),
         \A o \in Orders : place'[o] = place[o] \/ place'[o] \notin {"new", "checked", "late"}
                            \/ place[o] \in {"new", "checked"},
         \A o \in Orders : Known(o)' => Known(o) \/ Reached(o)
  PROVE  KnownReached'
BY DEF IInv, KnownReached, Moves

\* A task knows only orders that reached the book.
LEMMA KnownReachedStep ==
  ASSUME IInv, [Next]_vars
  PROVE  KnownReached'
<1> USE DEF IInv
<1>1. \A o \in Orders : Moves(o)
  BY VenueForward
<1>2. mon \in MonState /\ retire \in RetireState
  BY DEF TypeOK
<1>3. \A o \in Orders : Known(o) => Reached(o)
  BY DEF KnownReached
<1>4. ASSUME NEW r \in Orders, Submit(r) PROVE KnownReached'
  <2>1. pending' = pending /\ rows' = rows /\ mon' = mon /\ retire' = retire
    BY <1>4 DEF Submit
  <2>2. ASSUME NEW o \in Orders
        PROVE  (Known(o)' => Reached(o)') /\ (place'[o] \in {"new", "checked", "late"} => ~Reached(o)')
    <3>1. CASE o = r
      <4>1. place'[o] \in {"sent", "lost"} /\ venue'[o].st = "open"
        BY <1>4, <3>1 DEF Submit, TypeOK
      <4> QED
        BY <4>1 DEF Reached
    <3>2. CASE o # r
      <4>1. place'[o] = place[o] /\ venue'[o] = venue[o]
        BY <1>4, <3>2 DEF Submit, TypeOK
      <4>2. Known(o)' => Known(o)
        BY <2>1, <4>1 DEF Known, IsTracked
      <4> QED
        BY <4>1, <4>2 DEF KnownReached, Reached
    <3> QED
      BY <3>1, <3>2
  <2> QED
    BY <2>2 DEF KnownReached
<1>5. CASE UNCHANGED <<place, pending, rows, mon, retire>>
  <2>1. ASSUME NEW r \in Orders PROVE ~Submit(r)
    BY <1>5 DEF Submit, TypeOK
  <2> QED
    BY <1>1, <1>5, <2>1, KnownKept DEF Known, IsTracked
<1> DEFINE Learnt(o) == \/ IsTracked(o)'
                        \/ o \in mon'.todo \cup {mon'.cur}
                        \/ o \in retire'.todo
                        \/ \E w \in Writers : rows'[o][w] # "none"
<1>6. ASSUME place' = place, \A o \in Orders : Learnt(o) => Known(o) \/ Reached(o)
      PROVE  KnownReached'
  <2>1. ASSUME NEW r \in Orders PROVE ~Submit(r)
    BY <1>6 DEF Submit, TypeOK
  <2>2. \A o \in Orders : Known(o)' => Known(o) \/ Reached(o)
    BY <1>6 DEF Known
  <2> QED
    BY <1>1, <1>6, <2>1, <2>2, KnownKept
<1>7. ASSUME NEW r \in Orders,
             \/ PlaceChecked(r) \/ PlaceRefused(r) \/ SubmitReturns(r)
             \/ SubmitTimesOut(r) \/ MirrorOrder(r)
      PROVE  KnownReached'
  <2>1. venue' = venue /\ mon' = mon /\ retire' = retire
    BY <1>7 DEF PlaceChecked, PlaceRefused, SubmitReturns, SubmitTimesOut, MirrorOrder
  <2>2. ASSUME NEW o \in Orders PROVE ~Submit(o)
    BY <2>1 DEF Submit, TypeOK, KnownReached, Reached
  <2>3. \A o \in Orders : place'[o] = place[o] \/ place'[o] \notin {"new", "checked", "late"}
                            \/ place[o] \in {"new", "checked"}
    BY <1>7 DEF PlaceChecked, PlaceRefused, SubmitReturns, SubmitTimesOut, MirrorOrder, TypeOK
  <2>4. \A o \in Orders : place'[o] \in {"sent", "placed", "done"} => Known(o)
    BY <1>7 DEF PlaceChecked, PlaceRefused, SubmitReturns, SubmitTimesOut, MirrorOrder,
                TypeOK, Known
  <2>5. \A o \in Orders : pending'[o] = pending[o] \/ Known(o)
    BY <1>7 DEF PlaceChecked, PlaceRefused, SubmitReturns, SubmitTimesOut, MirrorOrder,
                TypeOK, Known
  <2>6. \A o \in Orders : rows'[o] = rows[o] \/ Known(o)
    BY <1>7 DEF PlaceChecked, PlaceRefused, SubmitReturns, SubmitTimesOut, MirrorOrder,
                Lands, TypeOK, Known
  <2>7. \A o \in Orders : Known(o)' => Known(o)
    BY <2>1, <2>4, <2>5, <2>6 DEF Known, IsTracked
  <2> QED
    BY <1>1, <2>2, <2>3, <2>7, KnownKept
<1>8. ASSUME place' = place, mon' = mon, retire' = retire,
             \A o \in Orders : pending'[o] # Untracked => IsTracked(o),
             \A o \in Orders, w \in Writers : rows'[o][w] # "none" => rows[o][w] # "none"
      PROVE  KnownReached'
  BY <1>6, <1>8 DEF Known, IsTracked
<1>9. CASE CancelStep
  <2>1. place' = place /\ mon' = mon /\ retire' = retire
    BY <1>9 DEF CancelStep, GatewayCancels, GatewayCancelReturns, GatewayMarksCancelled,
                ExitClearsToken, ExitClearReturns
  <2>2. \A o \in Orders : pending'[o] # Untracked => IsTracked(o)
    BY <1>9 DEF CancelStep, GatewayCancels, GatewayCancelReturns, GatewayMarksCancelled,
                ExitClearsToken, ExitClearReturns, Dropped, IsTracked
  <2>3. \A o \in Orders, w \in Writers : rows'[o][w] # "none" => rows[o][w] # "none"
    BY <1>9 DEF CancelStep, GatewayCancels, GatewayCancelReturns, GatewayMarksCancelled,
                ExitClearsToken, ExitClearReturns, Lands
  <2> QED
    BY <1>8, <2>1, <2>2, <2>3
<1>10. CASE MonitorStep
  <2>1. place' = place /\ retire' = retire
    BY <1>10 DEF MonitorStep, MonitorReconciles, MonitorSkipsReconcile, Adopts,
        MonitorLists, AdoptLooksUp, SweepAsks, SweepAskFails, MonitorPolls,
        MonitorPollFails, MonitorBooks, MonitorMirrors, MonitorDrops, MonitorKeeps,
        MonitorReaps, MonitorReapReturns, MonitorExpires, SweepSelects, SweepWrites
  <2>2. \A o \in Orders : pending'[o] # Untracked => IsTracked(o) \/ o = mon.cur
    BY <1>10 DEF MonitorStep, MonitorReconciles, MonitorSkipsReconcile, Adopts,
        MonitorLists, AdoptLooksUp, SweepAsks, SweepAskFails, MonitorPolls,
        MonitorPollFails, MonitorBooks, MonitorMirrors, MonitorDrops, MonitorKeeps,
        MonitorReaps, MonitorReapReturns, MonitorExpires, SweepSelects, SweepWrites,
        Dropped, IsTracked, TypeOK
  <2>3. \A o \in Orders, w \in Writers : rows'[o][w] # "none" =>
           rows[o][w] # "none" \/ o = mon.cur
    <3>1. CASE MonitorMirrors
      BY <3>1 DEF MonitorMirrors, Lands, Marked, TypeOK
    <3>2. CASE MonitorExpires
      BY <3>2 DEF MonitorExpires, Lands, Marked
    <3>3. CASE SweepWrites
      BY <3>3 DEF SweepWrites, Lands
    <3>4. CASE rows' = rows
      BY <3>4
    <3> QED
      BY <1>10, <3>1, <3>2, <3>3, <3>4 DEF MonitorStep, MonitorReconciles,
        MonitorSkipsReconcile, Adopts, MonitorLists, AdoptLooksUp, SweepAsks,
        SweepAskFails, MonitorPolls, MonitorPollFails, MonitorBooks, MonitorDrops,
        MonitorKeeps, MonitorReaps, MonitorReapReturns, SweepSelects
  <2>4. \A o \in Orders : o \in mon'.todo \cup {mon'.cur} => Known(o) \/ Reached(o)
    <3>1. CASE MonitorReconciles
      <4>1. mon'.cur = mon.cur /\ \A o \in mon'.todo : Reached(o)
        BY <1>2, <3>1 DEF MonitorReconciles, MonState, Reached
      <4> QED
        BY <4>1 DEF Known
    <3>2. CASE MonitorLists
      <4>1. mon'.cur = NoOrder /\ \A o \in mon'.todo : IsTracked(o)
        BY <1>2, <3>2 DEF MonitorLists, MonState
      <4> QED
        BY <4>1 DEF Known
    <3>3. CASE SweepSelects
      <4>1. mon'.cur = NoOrder /\ mon'.todo \subseteq OrphanRows
        BY <3>3 DEF SweepSelects, MonStart
      <4> QED
        BY <4>1 DEF Known, OrphanRows
    <3> DEFINE Narrows == mon'.todo \subseteq mon.todo /\ mon'.cur \in mon.todo \cup {mon.cur}
    <3>4. CASE Narrows
      BY <3>4 DEF Known
    <3>5. ASSUME NEW r \in Orders,
                 \/ AdoptLooksUp(r) \/ SweepAsks(r) \/ SweepAskFails(r)
                 \/ MonitorPolls(r) \/ MonitorPollFails(r)
          PROVE  Narrows
      <4>1. r \in mon.todo
        BY <3>5 DEF AdoptLooksUp, SweepAsks, SweepAskFails, MonitorPolls, MonitorPollFails
      <4>2. CASE MonitorPolls(r)
        <5>1. mon'.todo = mon.todo \ {r} /\ mon'.cur = r
          BY <1>2, <4>2 DEF MonitorPolls, MonState
        <5> QED
          BY <4>1, <5>1
      <4>3. CASE SweepAsks(r)
        <5>1. mon'.todo = mon.todo \ {r} /\ mon'.cur = mon.cur
          BY <1>2, <4>3 DEF SweepAsks, MonState
        <5> QED
          BY <5>1
      <4>4. CASE AdoptLooksUp(r) \/ SweepAskFails(r) \/ MonitorPollFails(r)
        <5>1. mon'.todo = mon.todo \ {r} /\ mon'.cur \in {r, mon.cur}
          BY <1>2, <4>4 DEF AdoptLooksUp, SweepAskFails, MonitorPollFails, MonState
        <5> QED
          BY <4>1, <5>1
      <4> QED
        BY <3>5, <4>2, <4>3, <4>4
    <3>6. ASSUME NEW pc, Goto(pc) PROVE Narrows
      BY <1>2, <3>6 DEF Goto, MonState
    <3>7. CASE SweepWrites
      <4>1. mon'.todo = mon.todo /\ mon'.cur = mon.cur
        BY <1>2, <3>7 DEF SweepWrites, MonState
      <4> QED
        BY <3>4, <4>1
    <3> HIDE DEF Narrows
    <3>8. \/ MonitorReconciles \/ MonitorLists \/ SweepSelects \/ SweepWrites
          \/ \E r \in Orders : \/ AdoptLooksUp(r) \/ SweepAsks(r) \/ SweepAskFails(r)
                             \/ MonitorPolls(r) \/ MonitorPollFails(r)
          \/ \E pc \in {"adopt", "mirror", "drop", "poll", "reap", "expire"} : Goto(pc)
      BY <1>10 DEF MonitorStep, MonitorSkipsReconcile, Adopts, MonitorBooks, MonitorMirrors,
            MonitorDrops, MonitorKeeps, MonitorReaps, MonitorReapReturns, MonitorExpires
    <3> QED
      BY <3>1, <3>2, <3>3, <3>5, <3>6, <3>7, <3>4, <3>8
  <2> QED
    BY <1>6, <2>1, <2>2, <2>3, <2>4 DEF Known, IsTracked
<1>11. CASE ProcessStep
  <2>1. \A o \in Orders : /\ \/ place'[o] = place[o]
                             \/ place'[o] = "lost" /\ place[o] # "late"
                          /\ pending'[o] # Untracked => IsTracked(o)
    BY <1>11 DEF ProcessStep, KillSwitch, Shutdown, Crash, Restart, RetireCancels,
        RetireReturns, RetireWrites, PlacementsLost, Dropped, IsTracked
  <2>2. \A o \in Orders, w \in Writers : rows'[o][w] # "none" => rows[o][w] # "none"
    BY <1>11 DEF ProcessStep, KillSwitch, Shutdown, Crash, Restart, RetireCancels,
        RetireReturns, RetireWrites, Lands, Marked
  <2>3. mon' = mon \/ mon' = MonStart
    BY <1>11 DEF ProcessStep, KillSwitch, Shutdown, Crash, Restart, RetireCancels,
        RetireReturns, RetireWrites
  <2>4. \A o \in Orders : o \in retire'.todo => o \in retire.todo \/ IsTracked(o)
    <3>1. retire' = retire \/ retire' = RetireAll \/ retire' = RetireIdle
          \/ RetireReturns \/ \E r \in Orders : RetireCancels(r)
      BY <1>11 DEF ProcessStep, KillSwitch, Shutdown, Crash, Restart, RetireWrites
    <3>2. CASE RetireReturns \/ \E r \in Orders : RetireCancels(r)
      BY <1>2, <3>2 DEF RetireReturns, RetireCancels, RetireState
    <3> QED
      BY <3>1, <3>2 DEF RetireAll, RetireIdle
  <2>5. ASSUME NEW o \in Orders PROVE ~Submit(o)
    <3>1. Submit(o) => \/ place'[o] = "sent" /\ place[o] = "checked"
                       \/ place'[o] = "lost" /\ place[o] = "late"
      BY DEF Submit, TypeOK
    <3> QED
      BY <2>1, <3>1
  <2>6. ASSUME NEW o \in Orders, Known(o)' PROVE Known(o)
    <3>1. o \in mon'.todo \cup {mon'.cur} => o \in mon.todo \cup {mon.cur}
      BY <2>3 DEF MonStart
    <3> QED
      BY <2>1, <2>2, <2>4, <2>6, <3>1 DEF Known, IsTracked
  <2>7. \A o \in Orders : place'[o] = place[o] \/ place'[o] \notin {"new", "checked", "late"}
    BY <2>1
  <2> QED
    BY <1>1, <2>5, <2>6, <2>7, KnownKept
<1> QED
  BY <1>4, <1>5, <1>7, <1>9, <1>10, <1>11
  DEF Next, VenueStep, VenueMatches, VenueCloses, VenueForgets, PlaceStep, vars

-----------------------------------------------------------------------------
(* A row is marked filled after the booking.                               *)

\* A fill stays booked and a placement that is done stays done; what is tracked
\* was tracked, or is tracked by one of two steps.
LEMMA Progress ==
  ASSUME IInv, [Next]_vars, NEW o \in Orders
  PROVE  /\ fills[o] # <<>> => fills'[o] # <<>>
         /\ place[o] = "done" => place'[o] = "done"
         /\ IsTracked(o)' => \/ IsTracked(o)
                             \/ place[o] = "sent"
                             \/ mon.pc = "lookup" /\ o = mon.cur
<1> USE DEF IInv, TypeOK
<1>1. fills[o] # <<>> => fills'[o] # <<>>
  <2>1. CASE MonitorBooks
    <3>1. ASSUME NEW fill \in FillOf(mon.res, mon.ord), fills' = Recorded(mon.cur, fill)
          PROVE  fills[o] # <<>> => fills'[o] # <<>>
      BY <3>1 DEF Recorded
    <3> QED
      BY <2>1, <3>1 DEF MonitorBooks
  <2> QED
    BY <2>1, FillsWrites
<1>2. CASE VenueStep
  BY <1>1, <1>2 DEF VenueStep, VenueMatches, VenueCloses, VenueForgets, IsTracked
<1>3. CASE PlaceStep
  BY <1>1, <1>3 DEF PlaceStep, PlaceChecked, PlaceRefused, Submit, SubmitReturns,
                    SubmitTimesOut, MirrorOrder, IsTracked
<1>4. CASE CancelStep
  BY <1>1, <1>4 DEF CancelStep, GatewayCancels, GatewayCancelReturns, ExitClearsToken,
                    ExitClearReturns, GatewayMarksCancelled, Dropped, IsTracked
<1>5. CASE MonitorStep
  BY <1>1, <1>5 DEF MonitorStep, MonitorReconciles, MonitorSkipsReconcile, Adopts,
        MonitorLists, AdoptLooksUp, SweepAsks, SweepAskFails, MonitorPolls,
        MonitorPollFails, MonitorBooks, MonitorMirrors, MonitorDrops, MonitorKeeps,
        MonitorReaps, MonitorReapReturns, MonitorExpires, SweepSelects, SweepWrites,
        Dropped, IsTracked
<1>6. CASE ProcessStep
  BY <1>1, <1>6 DEF ProcessStep, KillSwitch, Shutdown, Crash, Restart, RetireCancels,
        RetireReturns, RetireWrites, PlacementsLost, Dropped, IsTracked
<1>7. CASE UNCHANGED vars
  BY <1>7 DEF vars, IsTracked
<1> QED
  BY <1>2, <1>3, <1>4, <1>5, <1>6, <1>7 DEF Next

\* No step but an adoption makes a loose order one to book.
LEMMA LooseKept ==
  ASSUME IInv, [Next]_vars, NEW o \in Orders, Loose(o),
         mon.pc = "lookup" => o # mon.cur
  PROVE  Loose(o)'
BY Progress DEF Loose

\* A row turns up by a mirror, by the gateway once it has placed the order and by
\* the monitor once it has polled it; it turns "filled" by the monitor's steps.
LEMMA RowsMarked ==
  ASSUME IInv, ~DbFaults, [Next]_vars, NEW o \in Orders
  PROVE  /\ rows'[o].monitor # "none" => fills[o] # <<>>
         /\ rows'[o].gateway # "none" => place'[o] = "done"
         /\ rows'[o].gateway = "filled" =>
               \/ rows[o].gateway = "filled"
               \/ Loose(o) /\ mon.pc \in {"mirror", "sweep"}
<1>1. RowsBooked /\ BatchLoose /\ PollBooked /\ rows \in [Orders -> [Writers -> RowStatus]]
  BY DEF IInv, TypeOK, MarksFollow
<1>2. place[o] = "done" => place'[o] = "done"
  BY Progress
<1>3. CASE rows' = rows
  BY <1>1, <1>2, <1>3 DEF RowsBooked
<1>4. ASSUME NEW r \in Orders, MirrorOrder(r)
      PROVE  /\ rows'[o].monitor = rows[o].monitor
             /\ rows'[o].gateway # rows[o].gateway =>
                   place'[o] = "done" /\ rows'[o].gateway = "pending"
  BY <1>1, <1>4 DEF MirrorOrder, Lands, Writers, IInv, TypeOK
<1>5. ASSUME NEW os, Lands(Marked(os, "cancelled"))
      PROVE  \A w \in Writers : \/ rows'[o][w] = rows[o][w]
                                \/ rows[o][w] # "none" /\ rows'[o][w] = "cancelled"
  BY <1>5 DEF Lands, Marked
<1>6. CASE GatewayMarksCancelled \/ MonitorExpires \/ RetireWrites
  <2>1. \A w \in Writers : \/ rows'[o][w] = rows[o][w]
                           \/ rows[o][w] # "none" /\ rows'[o][w] = "cancelled"
    <3>1. CASE GatewayMarksCancelled
      <4> DEFINE new == [r \in Orders |-> [w \in Writers |->
                           IF r \in cxl.gateway.orders /\ rows[r][w] = "pending"
                           THEN "cancelled" ELSE rows[r][w]]]
      <4>1. rows' = new \/ rows' = rows
        BY <3>1 DEF GatewayMarksCancelled, Lands
      <4> QED
        BY <4>1
    <3>2. CASE MonitorExpires
      BY <1>5, <3>2 DEF MonitorExpires
    <3>3. CASE RetireWrites
      BY <1>5, <3>3 DEF RetireWrites
    <3> QED
      BY <1>6, <3>1, <3>2, <3>3
  <2> QED
    BY <1>1, <1>2, <2>1 DEF RowsBooked, Writers
<1>7. CASE MonitorMirrors
  <2>1. mon.res.st = "filled" /\ mon.ord # Untracked => fills[mon.cur] # <<>>
    BY <1>1, <1>7 DEF MonitorMirrors, PollBooked
  <2>2. ASSUME mon.ord # Untracked, mon.res.st = "filled",
               Lands([rows EXCEPT ![mon.cur].monitor = "filled"])
        PROVE  \/ rows'[o] = rows[o]
               \/ o = mon.cur /\ rows'[o].gateway = rows[o].gateway
    BY <1>1, <2>2 DEF Lands, Writers
  <2>3. ASSUME mon.ord # Untracked, Lands(Marked({mon.cur}, mon.res.st)), NEW w \in Writers
        PROVE  \/ rows'[o][w] = rows[o][w]
               \/ o = mon.cur /\ rows[o][w] # "none" /\ rows'[o][w] = mon.res.st
    BY <1>1, <2>3 DEF Lands, Marked
  <2> QED
    BY <1>1, <1>2, <1>3, <1>7, <2>1, <2>2, <2>3 DEF RowsBooked, Loose, MonitorMirrors, Writers
<1>8. CASE SweepWrites
  <2>1. \A w \in Writers : \/ rows'[o][w] = rows[o][w]
                           \/ rows[o][w] # "none" /\ rows'[o][w] = mon.upd[o]
    <3> DEFINE new == [r \in Orders |-> [w \in Writers |->
                         IF mon.upd[r] \in Terminal /\ rows[r][w] # "none"
                         THEN mon.upd[r] ELSE rows[r][w]]]
    <3>1. rows' = new \/ rows' = rows
      BY <1>8 DEF SweepWrites, Lands
    <3> QED
      BY <3>1
  <2>2. mon.upd[o] = "filled" => Loose(o)
    BY <1>1 DEF BatchLoose
  <2> QED
    BY <1>1, <1>2, <1>8, <2>1, <2>2 DEF RowsBooked, SweepWrites, Writers
<1>9. ASSUME NEW r \in Orders, MirrorOrder(r)
      PROVE  /\ rows'[o].monitor # "none" => fills[o] # <<>>
             /\ rows'[o].gateway # "none" => place'[o] = "done"
             /\ rows'[o].gateway = "filled" => rows[o].gateway = "filled"
  BY <1>1, <1>2, <1>4, <1>9 DEF RowsBooked
<1> QED
  BY <1>3, <1>6, <1>7, <1>8, <1>9, RowsWrites

\* What turns up in the monitor's hands, and from where.
LEMMA MonTakes ==
  ASSUME IInv, ~DbFaults, [Next]_vars, NEW o \in Orders
  PROVE  /\ mon'.upd[o] # "pending" =>
               /\ mon'.pc = "sweep" /\ mon.pc = "sweep"
               /\ mon.upd[o] # "pending" \/ o \in mon.todo
         /\ mon'.pc = "sweep" /\ o \in mon'.todo =>
               (mon.pc = "sweep" /\ o \in mon.todo) \/ (mon.pc = "poll" /\ o \in OrphanRows)
         /\ ToAdopt(o)' => ToAdopt(o) \/ (mon.pc \in {"start", "wake"} /\ venue[o].st = "open")
         /\ mon'.pc \in {"start", "wake"} => mon'.todo = {}
<1>1. /\ mon \in MonState
      /\ mon.upd[o] # "pending" => mon.pc = "sweep"
      /\ mon.pc \in {"start", "wake"} => mon.todo = {}
  BY DEF IInv, TypeOK, MarksFollow, BatchLoose, AdoptsUnmarked
<1> USE DEF ToAdopt
<1>2. CASE mon' = mon
  BY <1>1, <1>2
<1>3. CASE mon' = MonStart
  BY <1>3 DEF MonStart
<1>4. CASE MonitorReconciles \/ MonitorSkipsReconcile \/ Adopts \/ MonitorLists
  <2>1. CASE MonitorReconciles
    BY <1>1, <2>1 DEF MonitorReconciles, MonState
  <2>2. CASE MonitorSkipsReconcile
    BY <1>1, <2>2 DEF MonitorSkipsReconcile, Goto, MonState
  <2>3. CASE Adopts
    BY <1>1, <2>3 DEF Adopts, Goto, MonState
  <2>4. CASE MonitorLists
    BY <1>1, <2>4 DEF MonitorLists, MonState
  <2> QED
    BY <1>4, <2>1, <2>2, <2>3, <2>4
<1>5. ASSUME NEW r \in Orders, \/ AdoptLooksUp(r) \/ MonitorPolls(r)
                               \/ MonitorPollFails(r) \/ SweepAskFails(r)
      PROVE  /\ mon'.upd = mon.upd /\ mon'.todo \subseteq mon.todo
             /\ \/ mon'.pc = mon.pc /\ mon.pc \in {"adopt", "poll", "sweep"}
                \/ mon.pc = "adopt" /\ mon'.pc = "lookup" /\ mon'.cur \in mon.todo
                \/ mon.pc = "poll" /\ mon'.pc = "polled"
  <2>1. CASE AdoptLooksUp(r)
    BY <1>1, <2>1 DEF AdoptLooksUp, MonState
  <2>2. CASE MonitorPolls(r)
    BY <1>1, <2>2 DEF MonitorPolls, MonState
  <2>3. CASE MonitorPollFails(r) \/ SweepAskFails(r)
    BY <1>1, <2>3 DEF MonitorPollFails, SweepAskFails, MonState
  <2> QED
    BY <1>5, <2>1, <2>2, <2>3
<1>6. CASE \/ MonitorBooks \/ MonitorMirrors \/ MonitorDrops \/ MonitorKeeps
           \/ MonitorReaps \/ MonitorReapReturns \/ MonitorExpires
  BY <1>1, <1>6 DEF MonitorBooks, MonitorMirrors, MonitorDrops, MonitorKeeps,
        MonitorReaps, MonitorReapReturns, MonitorExpires, Goto, MonState
<1>7. ASSUME NEW os \in SUBSET OrphanRows, mon.pc = "poll",
             mon' = [MonStart EXCEPT !.pc = "sweep", !.todo = os]
      PROVE  /\ mon'.pc = "sweep" /\ mon'.todo = os
             /\ mon'.upd[o] = "pending"
  BY <1>7 DEF MonStart
<1>8. ASSUME NEW r \in Orders, SweepAsks(r)
      PROVE  /\ mon.pc = "sweep" /\ mon'.pc = "sweep" /\ mon'.todo \subseteq mon.todo
             /\ mon'.upd[o] = mon.upd[o] \/ (o = r /\ o \in mon.todo)
  BY <1>1, <1>8 DEF SweepAsks, MonState
<1>9. CASE SweepWrites
  BY <1>1, <1>9 DEF SweepWrites, MonState
<1>10. SweepSelects => mon.pc = "poll" /\ \E os \in SUBSET OrphanRows :
                         mon' = [MonStart EXCEPT !.pc = "sweep", !.todo = os]
  BY DEF SweepSelects
<1> QED
  BY <1>1, <1>2, <1>3, <1>4, <1>5, <1>6, <1>7, <1>8, <1>9, <1>10, MonWrites
  DEF MonitorStep

\* A status the poll takes for a fill has a size, and the fill is booked before the
\* poll goes on to the rows.
LEMMA PollBookedStep ==
  ASSUME IInv, ~DbFaults, [Next]_vars
  PROVE  PollBooked'
<1>1. mon \in MonState /\ PollBooked
  BY DEF IInv, TypeOK, MarksFollow
<1>2. mon.pc = "mirror" => mon.cur \in Orders
  BY <1>1 DEF MonState, InHand
<1>3. ASSUME mon'.res = mon.res,
             mon'.pc = "mirror" => /\ mon.pc = "mirror" /\ mon'.cur = mon.cur
                                   /\ mon'.ord = mon.ord
      PROVE  PollBooked'
  BY <1>1, <1>2, <1>3, Progress DEF PollBooked
<1>4. CASE mon' = MonStart
  BY <1>4 DEF MonStart, NoResult, PollBooked
<1>5. CASE MonitorReconciles \/ MonitorSkipsReconcile \/ Adopts \/ MonitorLists
  BY <1>1, <1>3, <1>5 DEF MonitorReconciles, MonitorSkipsReconcile, Adopts, MonitorLists,
                    Goto, MonState
<1>6. ASSUME NEW r \in Orders, \/ AdoptLooksUp(r) \/ MonitorPollFails(r)
                               \/ SweepAskFails(r) \/ SweepAsks(r)
      PROVE  PollBooked'
  BY <1>1, <1>3, <1>6 DEF AdoptLooksUp, MonitorPollFails, SweepAskFails, SweepAsks, MonState
<1>7. CASE \/ MonitorMirrors \/ MonitorDrops \/ MonitorKeeps
           \/ MonitorReaps \/ MonitorReapReturns \/ MonitorExpires
  BY <1>1, <1>3, <1>7 DEF MonitorMirrors, MonitorDrops, MonitorKeeps,
        MonitorReaps, MonitorReapReturns, MonitorExpires, Goto, MonState
<1>8. ASSUME NEW r \in Orders, MonitorPolls(r) PROVE PollBooked'
  <2>1. mon'.pc = "polled" /\ mon'.res = StatusOf(r)
    BY <1>1, <1>8 DEF MonitorPolls, MonState
  <2>2. StatusOf(r).st = "filled" => StatusOf(r).size > 0
    BY DEF StatusOf, NoResult, IInv, TypeOK, VenueState
  <2> QED
    BY <2>1, <2>2 DEF PollBooked
<1>9. CASE MonitorBooks
  <2>1. mon'.res = mon.res /\ mon'.ord = mon.ord /\ mon'.cur = mon.cur /\ mon.cur \in Orders
    BY <1>1, <1>9 DEF MonitorBooks, Goto, MonState, InHand
  <2>2. ASSUME mon.res.st = "filled", mon.ord # Untracked
        PROVE  fills'[mon.cur] # <<>>
    <3>1. FillOf(mon.res, mon.ord) # {}
      BY <1>1, <2>2 DEF FillOf, PollBooked
    <3>2. PICK fill \in FillOf(mon.res, mon.ord) : fills' = Recorded(mon.cur, fill)
      BY <1>9, <3>1 DEF MonitorBooks
    <3> QED
      BY <2>1, <3>2 DEF Recorded, IInv, TypeOK
  <2> QED
    BY <1>1, <2>1, <2>2 DEF PollBooked
<1>10. CASE SweepSelects
  BY <1>10 DEF SweepSelects, MonStart, NoResult, PollBooked
<1>11. CASE SweepWrites
  BY <1>1, <1>3, <1>11 DEF SweepWrites, MonState
<1>12. CASE mon' = mon
  BY <1>3, <1>12
<1> QED
  BY <1>4, <1>5, <1>6, <1>7, <1>8, <1>9, <1>10, <1>11, <1>12, MonWrites DEF MonitorStep

\* Every step keeps the rows behind the fills.
LEMMA MarksFollowStep ==
  ASSUME IInv, [Next]_vars
  PROVE  MarksFollow'
<1> SUFFICES ASSUME ~DbFaults
             PROVE  RowsBooked' /\ BatchLoose' /\ AdoptsUnmarked' /\ PollBooked'
  BY DEF MarksFollow
<1>1. RowsBooked /\ BatchLoose /\ AdoptsUnmarked /\ RowsHold
  BY DEF IInv, MarksFollow
<1>2. RowsBooked'
  <2>1. ASSUME NEW o \in Orders, rows'[o].gateway = "filled" PROVE Loose(o)'
    <3>1. rows[o].gateway = "filled" \/ (Loose(o) /\ mon.pc \in {"mirror", "sweep"})
      BY <2>1, RowsMarked
    <3>2. Loose(o) /\ (mon.pc = "lookup" /\ o = mon.cur => fills[o] # <<>>)
      BY <1>1, <3>1 DEF RowsBooked, AdoptsUnmarked, ToAdopt
    <3> QED
      BY <3>2, Progress, LooseKept DEF Loose
  <2>2. ASSUME NEW o \in Orders
        PROVE  /\ rows'[o].monitor # "none" => fills'[o] # <<>>
               /\ rows'[o].gateway # "none" => place'[o] = "done"
    BY RowsMarked, Progress
  <2> QED
    BY <2>1, <2>2 DEF RowsBooked
<1>3. BatchLoose'
  <2>1. ASSUME NEW o \in OrphanRows PROVE Loose(o)
    BY <1>1, <2>1 DEF OrphanRows, RowsBooked, Loose, Writers
  <2>2. ASSUME NEW o \in Orders
        PROVE  /\ mon'.upd[o] # "pending" => mon'.pc = "sweep" /\ Loose(o)'
               /\ mon'.pc = "sweep" /\ o \in mon'.todo => Loose(o)'
    BY <1>1, <2>1, MonTakes, LooseKept DEF BatchLoose
  <2> QED
    BY <2>2 DEF BatchLoose
<1>4. AdoptsUnmarked'
  <2>1. ASSUME NEW o \in Orders, ToAdopt(o)', rows'[o].gateway = "filled"
        PROVE  fills'[o] # <<>>
    <3>1. ToAdopt(o) \/ (mon.pc \in {"start", "wake"} /\ venue[o].st = "open")
      BY <2>1, MonTakes
    <3>2. rows[o].gateway = "filled"
      BY <2>1, <3>1, RowsMarked DEF ToAdopt
    <3>3. venue[o].st # "open"
      BY <1>1, <3>2 DEF RowsHold, Claim, Writers
    <3>4. fills[o] # <<>>
      BY <1>1, <3>1, <3>2, <3>3 DEF AdoptsUnmarked
    <3> QED
      BY <3>4, Progress
  <2>2. ASSUME NEW o \in Orders PROVE mon'.pc \in {"start", "wake"} => mon'.todo = {}
    BY MonTakes
  <2>3. Orders = {} => (mon'.pc \in {"start", "wake"} => mon'.todo = {})
    BY TypeStep, ReaderType DEF IInv, TypeOK, MonState
  <2> QED
    BY <2>1, <2>2, <2>3 DEF AdoptsUnmarked
<1> QED
  BY <1>2, <1>3, <1>4, PollBookedStep

-----------------------------------------------------------------------------
(* The theorems.                                                           *)

\* The inductive invariant holds initially.
LEMMA IInvInit == Init => IInv
<1> SUFFICES ASSUME Init PROVE IInv
  OBVIOUS
<1>1. TypeOK
  BY TypeInit
<1>2. KnownReached
  BY DEF Init, KnownReached, Known, Reached, IsTracked, MonStart, RetireIdle
<1>3. AckedOver
  BY DEF Init, AckedOver, NoCall, MonStart, RetireIdle
<1>4. AnswersHold /\ RowsHold
  BY DEF Init, AnswersHold, RowsHold, Claim, MonStart
<1>5. FillsHold
  BY DEF Init, FillsHold
<1>6. MarksFollow
  BY DEF Init, MarksFollow, RowsBooked, BatchLoose, AdoptsUnmarked, ToAdopt, PollBooked,
         MonStart, NoResult, Writers
<1> QED
  BY <1>1, <1>2, <1>3, <1>4, <1>5, <1>6 DEF IInv

\* Every step preserves the inductive invariant.
LEMMA IInvStep == IInv /\ [Next]_vars => IInv'
  BY TypeStep, KnownReachedStep, AckedOverStep, AnswersHoldStep, RowsHoldStep,
     FillsHoldStep, MarksFollowStep DEF IInv

\* Between any two awaits of any tasks: what is tracked is on the book or was, a
\* cancel that was acknowledged is final, and statuses in hand, rows and fills
\* claim no more of an order than the venue does.
THEOREM Invariance == Spec => []IInv
<1>1. IInv /\ [Next]_vars => IInv'
  BY IInvStep
<1> QED
  BY IInvInit, <1>1, PTL DEF Spec

\* Whichever task cancelled, lost or adopted the order again, its rows say "filled"
\* ahead of its fill only when no poll is left to book it.
THEOREM BookedBeforeMarkedHolds == Spec => []BookedBeforeMarked
<1>1. IInv => BookedBeforeMarked
  BY DEF IInv, MarksFollow, RowsBooked, Loose, BookedBeforeMarked
<1> QED
  BY <1>1, Invariance, PTL

\* What the monitor books was matched, whichever task cancelled the order or lost
\* track of it meanwhile.
THEOREM BookedWithinMatchedHolds == Spec => []BookedWithinMatched
<1>1. ASSUME IInv PROVE BookedWithinMatched
  <2>1. ASSUME NEW o \in Orders, NEW i \in DOMAIN fills[o]
        PROVE  venue[o].st = "matched" /\ fills[o][i].size <= venue[o].matched
    <3>1. fills[o] \in Seq(Fill) /\ venue[o] \in VenueState
      BY <1>1 DEF IInv, TypeOK
    <3>2. fills[o][i] \in Fill /\ fills[o] # <<>>
      BY <3>1
    <3>3. venue[o].st = "matched"
      BY <1>1, <3>2 DEF IInv, FillsHold
    <3> QED
      BY <3>1, <3>2, <3>3 DEF Fill, VenueState
  <2> QED
    BY <2>1 DEF BookedWithinMatched
<1> QED
  BY <1>1, Invariance, PTL

\* No task writes a terminal status over an order that still rests.
THEOREM RowsNeverAheadHolds == Spec => []RowsNeverAhead
<1>1. IInv => RowsNeverAhead
  BY DEF IInv, RowsHold, Claim, Over, Terminal, RowsNeverAhead
<1> QED
  BY <1>1, Invariance, PTL

=============================================================================
