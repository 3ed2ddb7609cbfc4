------------------------------ MODULE QuotingProofs ------------------------------
(***************************************************************************)
(* Quotes are sound and do not pile up, for every capacity, any number of  *)
(* quotes and any number of lost answers, timeouts and restarts: the quote *)
(* that is formed (QuoteFormation), and the market maker's task with the   *)
(* orders it posts and cancels (MarketMaker).                              *)
(***************************************************************************)
EXTENDS QuoteFormation, MarketMaker, FiniteSetTheorems, TLAPS

-----------------------------------------------------------------------------
(* The quote that is formed.  Rounding is off by half a cent at most,      *)
(* either way of a tie; the rest is what each step of the formation leaves *)
(* of the prices.                                                          *)

\* A rounded number of cents is an integer, and off by half a cent at most.
LEMMA CentsClose ==
    ASSUME NEW t \in Int, NEW k \in Cents(t)
    PROVE  k \in Int /\ 10 * k <= t + 5 /\ 10 * k >= t - 5
BY DEF Cents, Rounded, Distance

LEMMA RoundedIsInt ==
    ASSUME NEW n \in Int, NEW d \in Nat \ {0}, NEW k \in Rounded(n, d)
    PROVE  k \in Int
BY DEF Rounded

\* ceil(100 / price) tokens at that price are worth the dollar.
LEMMA FewestIsEnough ==
    ASSUME NEW c \in 1 .. 99
    PROVE  FewestFor(c) \in Nat /\ FewestFor(c) * c >= 10000
<1> DEFINE m == 10000 + c - 1
<1>1. m \in Nat /\ c \in Nat \ {0} OBVIOUS
<1> HIDE DEF m
<1>2. m = c * (m \div c) + (m % c) /\ m % c \in 0 .. c - 1 /\ m \div c \in Int
  BY <1>1
<1>3. (m \div c) * c >= 10000 BY <1>1, <1>2 DEF m
<1>4. QED BY <1>1, <1>2, <1>3 DEF m, FewestFor

\* A leg that is worth the dollar at the cheaper price is worth it at a dearer one.
LEMMA DearerIsWorth ==
    ASSUME NEW n \in Nat, NEW c \in Nat, NEW d \in Nat, c <= d, n * c >= 10000
    PROVE  n * d >= 10000
<1>1. PICK e \in Nat : d = c + e
  <2>1. d - c \in Nat /\ d = c + (d - c) OBVIOUS
  <2>2. QED BY <2>1
<1>2. n * d = n * c + n * e BY <1>1
<1>3. n * e \in Nat /\ n * c \in Nat /\ n * d \in Nat OBVIOUS
<1>4. QED BY <1>2, <1>3

LEMMA SizeIsSound ==
    ASSUME NEW q \in [bid : Int, ask : Int], Acceptable(q), NEW held \in Int,
           SizeOf(q, held) > 0
    PROVE  LET size == SizeOf(q, held)
           IN  /\ size \in Nat
               /\ size * q.bid >= 10000
               /\ size * (100 - q.ask) >= 10000
               /\ Distance(held, 0) + size <= MaxHeld
<1> DEFINE size == SizeOf(q, held)
           room == MaxHeld - Distance(held, 0)
           wanted == Smaller(QuoteSize, room)
           cheaper == Smaller(q.bid, 100 - q.ask)
<1>1. q.bid \in 1 .. 98 /\ 100 - q.ask \in 1 .. 98
  BY DEF Acceptable
<1>2. cheaper \in 1 .. 99 /\ cheaper <= q.bid /\ cheaper <= 100 - q.ask
  BY <1>1 DEF Smaller
<1>3. room \in Int /\ wanted \in Int /\ wanted <= room /\ Distance(held, 0) \in Int
  BY FormationAssumption DEF Smaller, Distance
<1>4. FewestFor(cheaper) \in Nat /\ FewestFor(cheaper) * cheaper >= 10000
  BY <1>2, FewestIsEnough
<1>5. size = IF wanted < 100 THEN 0
             ELSE IF wanted * cheaper >= 10000 THEN wanted
             ELSE IF FewestFor(cheaper) > room THEN 0
             ELSE FewestFor(cheaper)
  BY DEF SizeOf
<1> HIDE DEF cheaper, wanted, room, size
<1>6. size > 0 BY DEF size
<1>7. size \in Nat /\ size * cheaper >= 10000 /\ size <= room
  <2>1. CASE wanted >= 100 /\ wanted * cheaper >= 10000
    BY <1>3, <1>5, <2>1
  <2>2. CASE wanted >= 100 /\ ~(wanted * cheaper >= 10000) /\ ~(FewestFor(cheaper) > room)
    BY <1>3, <1>4, <1>5, <2>2
  <2>3. QED BY <1>3, <1>5, <1>6, <2>1, <2>2
<1>8. size * q.bid >= 10000 BY <1>1, <1>2, <1>7, DearerIsWorth
<1>9. size * (100 - q.ask) >= 10000 BY <1>1, <1>2, <1>7, DearerIsWorth
<1>10. Distance(held, 0) + size <= MaxHeld BY <1>3, <1>7, FormationAssumption DEF room
<1>11. QED BY <1>7, <1>8, <1>9, <1>10 DEF size

\* Whatever was stepped and skewed, neither leg is left across the book.
LEMMA UncrossedIsPassive ==
    ASSUME NEW b \in [bid : Nat, ask : Nat], b.bid < b.ask,
           NEW q \in [bid : Int, ask : Int], NEW r \in Uncrossed(q, b)
    PROVE  r \in [bid : Int, ask : Int] /\ 10 * r.bid < b.ask /\ 10 * r.ask > b.bid
<1>1. PICK x \in (IF 10 * q.bid >= b.ask THEN Cents(b.ask - 10) ELSE {q.bid}),
           y \in (IF 10 * q.ask <= b.bid THEN Cents(b.bid + 10) ELSE {q.ask}) :
           r = [bid |-> x, ask |-> y]
  BY DEF Uncrossed
<1>2. x \in Int /\ 10 * x < b.ask
  <2>1. CASE 10 * q.bid >= b.ask
    <3>1. x \in Cents(b.ask - 10) BY <1>1, <2>1
    <3>2. x \in Int /\ 10 * x <= b.ask - 10 + 5 BY <3>1, CentsClose
    <3>3. QED BY <3>2
  <2>2. CASE ~(10 * q.bid >= b.ask) BY <1>1, <2>2
  <2>3. QED BY <2>1, <2>2
<1>3. y \in Int /\ 10 * y > b.bid
  <2>1. CASE 10 * q.ask <= b.bid
    <3>1. y \in Cents(b.bid + 10) BY <1>1, <2>1
    <3>2. y \in Int /\ 10 * y >= b.bid + 10 - 5 BY <3>1, CentsClose
    <3>3. QED BY <3>2
  <2>2. CASE ~(10 * q.ask <= b.bid) BY <1>1, <2>2
  <2>3. QED BY <2>1, <2>2
<1>4. QED BY <1>1, <1>2, <1>3

LEMMA SteppedTyped ==
    ASSUME NEW b \in [bid : Nat, ask : Nat], NEW q \in Stepped(b)
    PROVE  q \in [bid : Int, ask : Int]
<1>1. \A t \in Int : \A k \in Cents(t) : k \in Int BY CentsClose
<1>2. b.bid + 10 \in Int /\ b.ask - 10 \in Int /\ b.bid \in Int /\ b.ask \in Int OBVIOUS
<1>3. QED BY <1>1, <1>2 DEF Stepped

LEMMA SkewedTyped ==
    ASSUME NEW q \in [bid : Int, ask : Int], NEW held \in Int, NEW r \in Skewed(q, held)
    PROVE  r \in [bid : Int, ask : Int]
<1>1. PICK k \in Rounded(3 * held, MaxHeld) :
           r = [bid |-> Clamped(q.bid - k), ask |-> Clamped(q.ask - k)]
  BY DEF Skewed
<1>2. k \in Int BY RoundedIsInt, FormationAssumption
<1>3. QED BY <1>1, <1>2 DEF Clamped, Larger, Smaller

\* What form_coupled_quote answers is sound, of any book and any inventory.
LEMMA FormedIsSound ==
    ASSUME NEW b \in BestPrices, NEW held \in Int, NEW o \in Formed(b, held), o # NoOffer
    PROVE  /\ 10 * o.bid < b.ask /\ 10 * o.ask > b.bid
           /\ o.bid + (100 - o.ask) < 100
           /\ o.size * o.bid >= 10000 /\ o.size * (100 - o.ask) >= 10000
           /\ Distance(held, 0) + o.size <= MaxHeld
<1>1. b \in [bid : Nat, ask : Nat] /\ b.bid < b.ask BY FormationAssumption
<1>2. PICK q \in Prices(b, held) :
         /\ Acceptable(q) /\ SizeOf(q, held) > 0
         /\ o = [bid |-> q.bid, ask |-> q.ask, size |-> SizeOf(q, held)]
  BY DEF Formed
<1>3. PICK s \in Stepped(b) : \E w \in Skewed(s, held) : q \in Uncrossed(w, b)
  BY <1>2 DEF Prices
<1> PICK w \in Skewed(s, held) : q \in Uncrossed(w, b) BY <1>3
<1>4. w \in [bid : Int, ask : Int] BY <1>1, <1>3, SteppedTyped, SkewedTyped
<1>5. q \in [bid : Int, ask : Int] /\ 10 * q.bid < b.ask /\ 10 * q.ask > b.bid
  BY <1>1, <1>3, <1>4, UncrossedIsPassive
<1>6. q.bid + (100 - q.ask) < 100 BY <1>2, <1>5 DEF Acceptable
<1>7. /\ SizeOf(q, held) * q.bid >= 10000 /\ SizeOf(q, held) * (100 - q.ask) >= 10000
      /\ Distance(held, 0) + SizeOf(q, held) <= MaxHeld
  BY <1>2, <1>5, SizeIsSound
<1>8. QED BY <1>2, <1>5, <1>6, <1>7

FormationInv ==
    /\ bbo \in BestPrices /\ stock \in Held
    /\ offer = NoOffer \/ offer \in Formed(bbo, stock)

\* Of any book and any inventory, whatever the skew and the way ties are rounded, what is
\* quoted is a pair: two passive legs, within the dollar it pays, each of the venue's
\* minimum and within the capacity (QuotesAreSound; form_coupled_quote).
THEOREM QuotesAreCoupled == FormationSpec => []QuotesAreSound
<1>1. FormationInit => FormationInv BY DEF FormationInit, FormationInv
<1>2. FormationInv /\ [FormsQuote]_formationVars => FormationInv'
  BY DEF FormationInv, FormsQuote, formationVars
<1>3. FormationInv => QuotesAreSound
  BY FormedIsSound, FormationAssumption DEF FormationInv, QuotesAreSound
<1>4. QED BY <1>1, <1>2, <1>3, PTL DEF FormationSpec

-----------------------------------------------------------------------------
(* The task.  Orders of one pair at a time are in play, that is shown,     *)
(* being posted or being cancelled; a mishap leaves at most one order of a *)
(* side to rest out of play.  Under it are the types of the task's locals. *)

Where == {"asleep", "stale", "quotes", "replaces", "posts", "answer", "survivor", "fills"}

LocalsTyped ==
    /\ maker \in [at : Where, pair : Nat, todo : SUBSET Quote, live : SUBSET Quote,
                  left : SUBSET Quote, ended : SUBSET Quote]
    /\ maker.pair \in 0 .. posted

\* Which of the task's locals are in use where it is.
LocalsUsed ==
    /\ maker.at \in {"asleep", "quotes", "fills", "posts"} => maker.todo = {}
    /\ maker.at \notin {"posts", "answer"} => maker.live = {}
    /\ maker.at \notin {"asleep", "fills"} => active = 0
    /\ maker.at \in {"replaces", "posts", "answer"} => maker.pair # 0
    /\ maker.at = "answer" => \E side \in Sides : maker.todo = {<<side, maker.pair>>}
    /\ maker.live \subseteq Both(maker.pair)

\* The orders the maker accounts for: the quote it shows, what it is to cancel, what it
\* has posted and what it waits for.  They are of one pair.
InPlay == Prior \cup maker.todo \cup maker.live

OnePair == \A o, other \in InPlay : o[2] = other[2]

\* Of those, all but the one it waits for have reached the book.
Reached ==
    \A o \in InPlay :
        \/ leg[o].at \in {"resting", "filled", "cancelled"}
        \/ leg[o].at = "sent" /\ maker.at = "answer" /\ o \notin maker.live

\* A leg that is still to be posted has not been sent.
ToBeSent ==
    /\ \A o \in Quote : o[2] > posted => leg[o].at = "unsent"
    /\ \A o \in Both(maker.pair) :
         \/ maker.at = "replaces"
         \/ o[1] = "ask" /\ maker.at = "posts"
         \/ o[1] = "ask" /\ maker.at = "answer" /\ o \notin maker.todo
            /\ <<"bid", maker.pair>> \in maker.todo
         => leg[o].at = "unsent"

MakerShape == MakerTypeOK /\ LocalsTyped /\ LocalsUsed /\ OnePair /\ Reached /\ ToBeSent

LEMMA InQuote ==
    /\ \A o \in Quote : o = <<o[1], o[2]>> /\ o[1] \in Sides /\ o[2] \in 1 .. Pairs
    /\ \A side \in Sides, n \in 1 .. Pairs : <<side, n>> \in Quote
    /\ \A n : \A o \in Both(n) : o = <<o[1], n>> /\ o[1] \in Sides /\ o[2] = n
    /\ \A n : \A side \in Sides : <<side, n>> \in Both(n)
    /\ \A n \in 1 .. Pairs : Both(n) \subseteq Quote
BY DEF Quote, Both, Sides

LEMMA ShapeInit == MakerInit => MakerShape
BY MakerAssumption
DEF MakerInit, MakerShape, MakerTypeOK, LocalsTyped, LocalsUsed, OnePair, Reached, InPlay, Prior,
    ToBeSent, Both, Where, Asleep, Awake, Quote

LEMMA ShapeStale == ASSUME MakerShape, CancelsStale PROVE MakerShape' /\ InPlay' = InPlay
<1> USE DEF CancelsStale, books, Awake
<1>1. active \in 1 .. Pairs /\ Both(active) \subseteq Quote /\ maker.live = {} /\ maker.todo = {}
  BY MakerAssumption, InQuote DEF MakerShape, MakerTypeOK, LocalsUsed
<1>2. InPlay' = InPlay
  BY <1>1 DEF InPlay, Prior
<1>3. MakerTypeOK' BY DEF MakerShape, MakerTypeOK
<1>4. LocalsTyped' BY <1>1 DEF MakerShape, MakerTypeOK, LocalsTyped, Where
<1>5. LocalsUsed' BY <1>1 DEF MakerShape, LocalsUsed
<1>6. OnePair' BY <1>2 DEF MakerShape, OnePair
<1>7. Reached' BY <1>2 DEF MakerShape, Reached
<1>8. ToBeSent' BY DEF MakerShape, ToBeSent
<1>9. QED BY <1>2, <1>3, <1>4, <1>5, <1>6, <1>7, <1>8 DEF MakerShape

\* The task goes to its fills, or to sleep, with nothing to account for but the quote.
LEMMA ShapeRests ==
    ASSUME MakerShape, MakerTypeOK', posted' = posted, active' \in {0, active},
           \/ maker' = [Awake("fills") EXCEPT !.left = polled']
           \/ maker' = Asleep
           \/ maker' = Awake("quotes") /\ active' = 0,
           \A o \in Prior : leg'[o].at \in {"resting", "filled", "cancelled"},
           \A o \in Quote : leg[o].at = "unsent" => leg'[o].at = "unsent"
    PROVE  MakerShape'
<1> USE DEF Asleep, Awake
<1>1. /\ maker'.todo = {} /\ maker'.live = {} /\ maker'.pair = 0 /\ maker'.ended = {}
      /\ maker'.at \in {"asleep", "quotes", "fills"}
      /\ maker'.left \in {{}, polled'}
      /\ maker' \in [at : Where, pair : {0}, todo : {{}}, live : {{}}, left : {{}, polled'}, ended : {{}}]
  BY DEF Where
<1>2. polled' \subseteq Quote /\ posted' \in Nat BY DEF MakerTypeOK
<1>3. LocalsTyped' BY <1>1, <1>2 DEF LocalsTyped
<1>4. LocalsUsed' BY <1>1 DEF LocalsUsed
<1>5. InPlay' = Prior' /\ Prior' \subseteq Prior BY <1>1 DEF InPlay, Prior
<1>6. OnePair' BY <1>5 DEF MakerShape, OnePair, InPlay
<1>7. Reached' BY <1>1, <1>5 DEF Reached
<1>8. ToBeSent' BY <1>1 DEF MakerShape, ToBeSent
<1>9. QED BY <1>3, <1>4, <1>6, <1>7, <1>8 DEF MakerShape

LEMMA QuoteReached ==
    ASSUME MakerShape, NEW o \in Prior
    PROVE  leg[o].at \in {"resting", "filled", "cancelled"}
BY DEF MakerShape, Reached, InPlay, LocalsUsed, Prior

LEMMA ShapeNothing ==
    ASSUME MakerShape, QuotesNothing \/ KeepsQuote
    PROVE  MakerShape' /\ InPlay' = InPlay
<1> USE DEF QuotesNothing, KeepsQuote, books
<1>1. MakerTypeOK' BY DEF MakerShape, MakerTypeOK
<1>2. MakerShape' BY <1>1, QuoteReached, ShapeRests
<1>3. maker.todo = {} /\ maker.live = {} BY DEF MakerShape, LocalsUsed
<1>4. maker'.todo = {} /\ maker'.live = {} BY DEF Awake
<1>5. Prior' = Prior BY DEF Prior
<1>6. QED BY <1>2, <1>3, <1>4, <1>5 DEF InPlay

LEMMA ShapeForms ==
    ASSUME MakerShape, FormsPair
    PROVE  MakerShape' /\ InPlay' = InPlay /\ \A o \in Quote : leg'[o].at = leg[o].at
<1> USE DEF FormsPair, Awake
<1>1. /\ posted \in Nat /\ posted + 1 \in 1 .. Pairs /\ active \in 0 .. posted
      /\ maker.live = {} /\ maker.todo = {}
      /\ inventory \in Int
  BY MakerAssumption DEF MakerShape, MakerTypeOK, LocalsUsed
<1>2. PICK size \in 1 .. MaxInventory - Absolute(inventory) :
        leg' = [o \in Quote |-> IF o[2] = posted + 1 THEN [leg[o] EXCEPT !.size = size] ELSE leg[o]]
  OBVIOUS
<1>3. size \in 0 .. MaxInventory BY <1>1, MakerAssumption DEF Absolute
<1>4. MakerTypeOK' BY <1>1, <1>2, <1>3 DEF MakerShape, MakerTypeOK
<1>5. Prior \subseteq Quote BY <1>1, MakerAssumption, InQuote DEF Prior, MakerShape, MakerTypeOK
<1>6. LocalsTyped'
  <2>1. maker' = [at |-> "replaces", pair |-> posted + 1, todo |-> Prior, live |-> {},
                  left |-> {}, ended |-> {}]
    OBVIOUS
  <2>2. Prior \in SUBSET Quote /\ {} \in SUBSET Quote /\ posted' = posted + 1 BY <1>5
  <2>3. maker' \in [at : Where, pair : Nat, todo : SUBSET Quote, live : SUBSET Quote,
                    left : SUBSET Quote, ended : SUBSET Quote]
    BY <1>1, <2>1, <2>2 DEF Where
  <2>4. maker'.pair \in 0 .. posted' BY <1>1, <2>1, <2>2
  <2>5. QED BY <2>3, <2>4 DEF LocalsTyped
<1>7. LocalsUsed' BY <1>1, <1>5 DEF MakerShape, LocalsUsed
<1>8. InPlay' = InPlay BY <1>1 DEF InPlay, Prior
<1>9. OnePair' BY <1>8 DEF MakerShape, OnePair
<1>10. \A o \in Quote : leg'[o].at = leg[o].at BY <1>2 DEF MakerShape, MakerTypeOK
<1>11. Reached' BY <1>1, <1>5, <1>8, <1>10 DEF MakerShape, Reached, InPlay
<1>12. ToBeSent'
  <2>1. maker'.at = "replaces" /\ maker'.pair = posted + 1 /\ posted' = posted + 1 OBVIOUS
  <2>2. \A o \in Quote : o[2] \in Int BY InQuote
  <2>3. Both(posted + 1) \subseteq Quote BY <1>1, InQuote
  <2>4. \A o \in Both(posted + 1) : o[2] = posted + 1 BY InQuote
  <2>5. QED BY <1>1, <1>10, <2>1, <2>2, <2>3, <2>4 DEF MakerShape, ToBeSent
<1>13. QED BY <1>4, <1>6, <1>7, <1>8, <1>9, <1>10, <1>11, <1>12 DEF MakerShape

LEMMA ShapeNothingToCancel ==
    ASSUME MakerShape, NothingToCancel
    PROVE  MakerShape' /\ InPlay' = InPlay
<1> USE DEF NothingToCancel, books
<1>1. MakerTypeOK' BY DEF MakerShape, MakerTypeOK
<1>2. LocalsTyped' BY DEF MakerShape, LocalsTyped, Where
<1>3. LocalsUsed' BY <1>2 DEF MakerShape, LocalsUsed, LocalsTyped
<1>4. InPlay' = InPlay BY DEF InPlay, Prior, MakerShape, LocalsTyped
<1>5. OnePair' BY <1>4 DEF MakerShape, OnePair
<1>6. Reached' BY <1>4 DEF MakerShape, Reached, LocalsTyped
<1>7. ToBeSent' BY DEF MakerShape, LocalsTyped, ToBeSent
<1>8. QED BY <1>1, <1>2, <1>3, <1>4, <1>5, <1>6, <1>7 DEF MakerShape

LEMMA CancelKeepsReached ==
    ASSUME MakerTypeOK, NEW o \in Quote, leg' \in {leg, Cancelled(o)}
    PROVE  /\ leg' \in [Quote -> [at : {"unsent", "sent", "refused", "resting", "filled", "cancelled"},
                                  size : 0 .. MaxInventory]]
           /\ \A other \in Quote :
                /\ leg'[other].size = leg[other].size
                /\ leg[other].at \in {"resting", "filled", "cancelled"} =>
                   leg'[other].at \in {"resting", "filled", "cancelled"}
                /\ leg'[other].at # leg[other].at =>
                   other = o /\ leg[o].at = "resting" /\ leg'[o].at = "cancelled"
BY DEF MakerTypeOK, Cancelled, Rests

\* One leg of the quote to be cancelled is done with, the venue having done so or not.
LEMMA ShapeCancelEnds ==
    ASSUME MakerShape, NEW o \in Quote, NextToCancel(o), CancelEnds(o),
           leg' \in {leg, Cancelled(o)}, active' = active, posted' = posted,
           inventory' = inventory, mishaps' \in 0 .. Mishaps
    PROVE  MakerShape' /\ InPlay' = InPlay \ {o}
<1>1. /\ maker.at \in {"stale", "replaces", "survivor"} /\ o \in maker.todo
      /\ maker.live = {} /\ active = 0 /\ Prior = {}
  BY DEF NextToCancel, MakerShape, LocalsUsed, Prior
<1>2. polled' \subseteq polled BY DEF CancelEnds
<1>3. MakerTypeOK' BY <1>2, CancelKeepsReached DEF MakerShape, MakerTypeOK
<1>4. InPlay = maker.todo /\ Prior' = {} BY <1>1 DEF InPlay, Prior
<1>5. maker \in [at : Where, pair : Nat, todo : SUBSET Quote, live : SUBSET Quote,
                 left : SUBSET Quote, ended : SUBSET Quote]
  BY DEF MakerShape, LocalsTyped
<1>6. maker'.todo = maker.todo \ {o} /\ maker'.live = {}
  BY <1>1, <1>5 DEF CancelEnds, Awake
<1>7. InPlay' = InPlay \ {o} BY <1>4, <1>6 DEF InPlay
<1>8. OnePair' BY <1>7 DEF MakerShape, OnePair
<1>9. maker'.at # "answer" /\ \A other \in InPlay' : other \in Quote /\ other \in InPlay
  BY <1>1, <1>4, <1>5, <1>7 DEF CancelEnds, Awake
<1>10. Reached'
  BY <1>1, <1>9, CancelKeepsReached DEF MakerShape, Reached
<1>11. polled' \subseteq Quote BY <1>3 DEF MakerTypeOK
<1>12. LocalsTyped'
  <2>1. CASE maker.todo # {o}
    <3>1. maker' = [maker EXCEPT !.todo = @ \ {o}] BY <2>1 DEF CancelEnds
    <3>2. QED BY <1>5, <3>1 DEF MakerShape, LocalsTyped
  <2>2. CASE maker.todo = {o}
    <3>1. \/ maker' = Awake("quotes")
          \/ maker' = [maker EXCEPT !.todo = {}, !.at = "posts"]
          \/ maker' = [Awake("fills") EXCEPT !.left = polled']
      BY <1>1, <2>2 DEF CancelEnds
    <3>2. CASE maker' = [maker EXCEPT !.todo = {}, !.at = "posts"]
      BY <1>5, <3>2 DEF MakerShape, LocalsTyped, Where
    <3>3. CASE maker' # [maker EXCEPT !.todo = {}, !.at = "posts"]
      <4>1. maker' \in [at : Where, pair : {0}, todo : {{}}, live : {{}},
                        left : {{}, polled'}, ended : {{}}]
        BY <3>1, <3>3 DEF Awake, Where
      <4>2. posted' \in Nat BY <1>3 DEF MakerTypeOK
      <4>3. QED BY <1>11, <4>1, <4>2 DEF LocalsTyped
    <3>4. QED BY <3>2, <3>3
  <2>3. QED BY <2>1, <2>2
<1>13. LocalsUsed'
  BY <1>1, <1>5, <1>6 DEF CancelEnds, Awake, MakerShape, LocalsUsed
<1>14. ToBeSent'
  <2>1. \A other \in Quote : leg[other].at = "unsent" => leg'[other].at = "unsent"
    BY CancelKeepsReached DEF MakerShape
  <2>2. maker.pair # 0 => Both(maker.pair) \subseteq Quote
    BY InQuote, MakerAssumption DEF MakerShape, LocalsTyped, MakerTypeOK
  <2>3. maker'.at \in {"replaces", "posts"} => maker'.pair = maker.pair /\ maker.at = "replaces"
    BY <1>1, <1>5 DEF CancelEnds, Awake
  <2>4. maker'.at # "answer" BY <1>9
  <2>5. QED BY <2>1, <2>2, <2>3, <2>4 DEF MakerShape, LocalsUsed, ToBeSent
<1>15. QED BY <1>3, <1>7, <1>8, <1>10, <1>12, <1>13, <1>14 DEF MakerShape

\* What is known to rest has reached the book.
LEMMA PlayReached ==
    ASSUME MakerShape
    PROVE  \A other \in maker.live : leg[other].at \in {"resting", "filled", "cancelled"}
BY DEF MakerShape, Reached, InPlay

LEMMA ShapeSent ==
    ASSUME MakerShape, NEW o \in Quote, LegSent(o)
    PROVE  /\ MakerShape' /\ InPlay' = InPlay \cup {o}
           /\ \A other \in Quote : other # o => leg'[other] = leg[other]
<1>1. /\ maker.at = "posts" /\ o = <<Posting, maker.pair>> /\ maker.todo = {} /\ active = 0
      /\ maker.live \subseteq Both(maker.pair) /\ Posting \in Sides
      /\ o \in Both(maker.pair)
  BY DEF LegSent, NextToPost, MakerShape, LocalsUsed, Posting, Sides, Both
<1>2. leg' = [leg EXCEPT ![o].at = "sent"] /\ active' = active /\ polled' = polled
      /\ inventory' = inventory /\ posted' = posted /\ mishaps' = mishaps
      /\ maker' = [maker EXCEPT !.at = "answer", !.todo = {o}]
  BY DEF LegSent, books
<1>3. MakerTypeOK' BY <1>2 DEF MakerShape, MakerTypeOK
<1>4. LocalsTyped' BY <1>2 DEF MakerShape, LocalsTyped, Where
<1>5. LocalsUsed' BY <1>1, <1>2 DEF MakerShape, LocalsUsed, LocalsTyped
<1>6. InPlay' = maker.live \cup {o} /\ InPlay = maker.live
  BY <1>1, <1>2 DEF InPlay, Prior, MakerShape, LocalsTyped
<1>7. InPlay' \subseteq Both(maker.pair) BY <1>1, <1>6
<1>8. OnePair' BY <1>7, InQuote DEF OnePair
<1>9. o \in Quote /\ leg[o].at = "unsent"
  BY <1>1 DEF MakerShape, ToBeSent, Posting, Both
<1>10. Reached'
  <2>1. ASSUME NEW other \in maker.live
        PROVE  leg'[other].at \in {"resting", "filled", "cancelled"}
    <3>1. leg[other].at \in {"resting", "filled", "cancelled"} /\ other \in Quote
      BY <1>1, <1>6 DEF MakerShape, Reached, LocalsTyped
    <3>2. other # o BY <1>9, <3>1
    <3>3. QED BY <1>2, <3>1, <3>2 DEF MakerShape, MakerTypeOK
  <2>2. maker'.at = "answer" /\ maker'.live = maker.live
    BY <1>2 DEF MakerShape, LocalsTyped
  <2>3. o \notin maker.live /\ leg'[o].at = "sent"
    BY <1>2, <1>9, PlayReached DEF MakerShape, MakerTypeOK
  <2>4. QED BY <1>6, <2>1, <2>2, <2>3 DEF Reached
<1>11. ToBeSent'
  <2>1. maker'.at = "answer" /\ maker'.pair = maker.pair /\ maker'.todo = {o}
        /\ posted' = posted
    BY <1>2 DEF MakerShape, LocalsTyped
  <2>2. o[2] = maker.pair /\ maker.pair <= posted /\ posted \in Nat /\ maker.pair \in Nat
    BY <1>1, InQuote DEF MakerShape, LocalsTyped, MakerTypeOK
  <2>3. \A other \in Quote : other # o => leg'[other] = leg[other]
    BY <1>2 DEF MakerShape, MakerTypeOK
  <2>4. \A other \in Quote : other[2] > posted => other # o BY <2>2
  <2>5. Both(maker.pair) \subseteq Quote
    BY <2>2, InQuote, MakerAssumption DEF MakerShape, LocalsUsed, MakerTypeOK, LegSent, NextToPost
  <2>6. QED BY <1>1, <2>1, <2>3, <2>4, <2>5 DEF MakerShape, ToBeSent
<1>12. \A other \in Quote : other # o => leg'[other] = leg[other]
  BY <1>2 DEF MakerShape, MakerTypeOK
<1>13. QED BY <1>3, <1>4, <1>5, <1>6, <1>8, <1>10, <1>11, <1>12 DEF MakerShape

\* Of a pair, one leg survives, or both or neither does.
LEMMA Survivors ==
    ASSUME NEW n, NEW live \in SUBSET Both(n)
    PROVE  /\ live # {} /\ live # Both(n) => Survivor(live) = live
           /\ live = {} \/ live = Both(n) => Survivor(live) = {}
           /\ Both(n) # {} /\ \A o, other \in Both(n) : o[2] = other[2]
<1>1. Both(n) = {<<"bid", n>>, <<"ask", n>>}
  <2>1. \A o \in Both(n) : o = <<"bid", n>> \/ o = <<"ask", n>> BY InQuote DEF Sides
  <2>2. <<"bid", n>> \in Both(n) /\ <<"ask", n>> \in Both(n) BY InQuote DEF Sides
  <2>3. QED BY <2>1, <2>2
<1>2. IsFiniteSet(Both(n))
  <2>1. IsFiniteSet({<<"bid", n>>}) BY FS_Singleton
  <2>2. IsFiniteSet({<<"bid", n>>} \cup {<<"ask", n>>}) BY <2>1, FS_AddElement
  <2>3. Both(n) = {<<"bid", n>>} \cup {<<"ask", n>>} BY <1>1
  <2>4. QED BY <2>2, <2>3
<1>3. IsFiniteSet(live) BY <1>2, FS_Subset
<1>4. live # {} /\ live # Both(n) => \E x : live = {x} BY <1>1
<1>5. live = Both(n) => ~ \E x : live = {x}
  <2> SUFFICES ASSUME live = Both(n), NEW x, live = {x} PROVE FALSE OBVIOUS
  <2>1. <<"bid", n>> \in {x} /\ <<"ask", n>> \in {x} BY <1>1, Zenon
  <2>2. <<"bid", n>> = <<"ask", n>> BY <2>1
  <2>3. QED BY <2>2
<1>6. Cardinality(live) = 1 <=> \E x : live = {x} BY <1>3, FS_Singleton
<1>7. \A o, other \in Both(n) : o[2] = other[2] BY InQuote
<1>8. QED BY <1>1, <1>4, <1>5, <1>6, <1>7 DEF Survivor

\* A leg's answer is in: what of the pair is known to rest stays in play.
LEMMA ShapePostEnds ==
    ASSUME MakerShape, NEW o \in Quote, Awaited(o),
           NEW live \in {maker.live, maker.live \cup {o}}, PostEnds(o, live),
           \A other \in live : leg'[other].at \in {"resting", "filled", "cancelled"},
           \A other \in Quote : other # o => leg'[other] = leg[other],
           leg[o].at = "unsent" => leg'[o].at = "unsent",
           leg' \in [Quote -> [at : {"unsent", "sent", "refused", "resting", "filled", "cancelled"},
                               size : 0 .. MaxInventory]],
           inventory' = inventory, posted' = posted, mishaps' \in 0 .. Mishaps
    PROVE  MakerShape' /\ InPlay' = live /\ maker.todo = {o} /\ InPlay = maker.live \cup {o}
<1> DEFINE pair == maker.pair
<1>1. /\ maker.at = "answer" /\ active = 0 /\ pair \in 1 .. posted /\ posted \in 0 .. Pairs
      /\ maker.live \subseteq Both(pair) /\ o \in maker.todo
      /\ posted \in Nat
  BY MakerAssumption DEF Awaited, MakerShape, LocalsUsed, LocalsTyped, MakerTypeOK
<1>2. maker.todo = {o} /\ o \in Both(pair) /\ o[2] = pair /\ o[1] \in Sides
  <2>1. PICK side \in Sides : maker.todo = {<<side, pair>>}
    BY <1>1 DEF MakerShape, LocalsUsed
  <2>2. o = <<side, pair>> BY <1>1, <2>1
  <2>3. QED BY <2>1, <2>2, InQuote
<1>3. live \in SUBSET Both(pair) /\ Both(pair) \subseteq Quote
  BY <1>1, <1>2, InQuote, MakerAssumption
<1>4. maker \in [at : Where, pair : Nat, todo : SUBSET Quote, live : SUBSET Quote,
                 left : SUBSET Quote, ended : SUBSET Quote]
  BY DEF MakerShape, LocalsTyped
<1>5. InPlay = maker.live \cup {o} BY <1>1, <1>2 DEF InPlay, Prior
<1>6. CASE o[1] = "bid"
  <2>1. maker' = [maker EXCEPT !.at = "posts", !.todo = {}, !.live = live]
        /\ active' = active /\ polled' = polled
    BY <1>6 DEF PostEnds
  <2>2. maker'.at = "posts" /\ maker'.todo = {} /\ maker'.live = live /\ maker'.pair = pair
    BY <1>4, <2>1
  <2>3. MakerTypeOK' BY <2>1 DEF MakerShape, MakerTypeOK
  <2>4. LocalsTyped'
    <3>1. live \in SUBSET Quote BY <1>3
    <3>2. maker' \in [at : Where, pair : Nat, todo : SUBSET Quote, live : SUBSET Quote,
                      left : SUBSET Quote, ended : SUBSET Quote]
      BY <1>4, <2>1, <3>1 DEF Where
    <3>3. QED BY <1>1, <2>2, <3>2 DEF LocalsTyped
  <2>5. LocalsUsed' BY <1>1, <1>3, <2>1, <2>2 DEF LocalsUsed
  <2>6. InPlay' = live
    <3>1. Prior' = {} BY <1>1, <2>1 DEF Prior
    <3>2. QED BY <2>2, <3>1, Zenon DEF InPlay
  <2>7. OnePair' BY <1>3, <2>6, InQuote DEF OnePair
  <2>8. Reached' BY <2>2, <2>6 DEF Reached
  <2>9. ToBeSent'
    <3>1. \A other \in Both(pair) : other[1] = "ask" => leg[other].at = "unsent"
      <4> SUFFICES ASSUME NEW other \in Both(pair), other[1] = "ask"
                   PROVE  leg[other].at = "unsent"
        OBVIOUS
      <4>1. other \notin maker.todo BY <1>2, <1>6
      <4>2. <<"bid", pair>> \in maker.todo BY <1>2, <1>6, InQuote
      <4>3. QED BY <1>1, <4>1, <4>2 DEF MakerShape, ToBeSent
    <3>2. \A other \in Quote : other[2] > posted => other # o BY <1>1, <1>2
    <3>3. QED BY <1>3, <1>6, <2>2, <3>1, <3>2 DEF MakerShape, ToBeSent
  <2>10. QED BY <1>2, <1>5, <2>3, <2>4, <2>5, <2>6, <2>7, <2>8, <2>9 DEF MakerShape
<1>7. CASE o[1] # "bid"
  <2>1. /\ active' = IF live = Both(pair) THEN pair ELSE active
        /\ polled' = IF live = Both(pair) \/ Survivor(live) # {} THEN polled \cup live ELSE polled
        /\ maker' = IF Survivor(live) # {}
                     THEN [Awake("survivor") EXCEPT !.todo = Survivor(live)]
                     ELSE [Awake("fills") EXCEPT !.left = polled']
    BY <1>2, <1>7 DEF PostEnds
  <2>2. polled' \subseteq Quote /\ active' \in 0 .. posted /\ active' \in Nat
    BY <1>1, <1>3, <2>1 DEF MakerShape, MakerTypeOK
  <2>3. MakerTypeOK' BY <2>2 DEF MakerShape, MakerTypeOK
  <2>4. \A other \in Quote : other[2] > posted => leg'[other].at = "unsent"
    BY <1>1, <1>2 DEF MakerShape, ToBeSent
  <2>5. CASE live # {} /\ live # Both(pair)
    <3>1. Survivor(live) = live BY <1>3, <2>5, Survivors
    <3>2. maker' = [at |-> "survivor", pair |-> 0, todo |-> live, live |-> {}, left |-> {},
                    ended |-> {}] /\ active' = 0
      BY <1>1, <2>1, <2>5, <3>1 DEF Awake
    <3>3. live \in SUBSET Quote /\ {} \in SUBSET Quote BY <1>3
    <3>4. maker' \in [at : Where, pair : Nat, todo : SUBSET Quote, live : SUBSET Quote,
                      left : SUBSET Quote, ended : SUBSET Quote]
      BY <3>2, <3>3 DEF Where
    <3>5. LocalsTyped' BY <1>1, <3>2, <3>4 DEF LocalsTyped
    <3>6. LocalsUsed' BY <3>2 DEF LocalsUsed
    <3>7. InPlay' = live
      <4>1. Prior' = {} BY <3>2 DEF Prior
      <4>2. maker'.todo = live /\ maker'.live = {} BY <3>2
      <4>3. QED BY <4>1, <4>2, Zenon DEF InPlay
    <3>8. OnePair' BY <1>3, <3>7, InQuote DEF OnePair
    <3>9. Reached' BY <3>2, <3>7 DEF Reached
    <3>10. ToBeSent' BY <2>4, <3>2 DEF ToBeSent
    <3>11. QED
      BY <1>2, <1>5, <2>3, <3>5, <3>6, <3>7, <3>8, <3>9, <3>10 DEF MakerShape
  <2>6. CASE live = {} \/ live = Both(pair)
    <3>1. Survivor(live) = {} BY <1>3, <2>6, Survivors
    <3>2. maker' = [at |-> "fills", pair |-> 0, todo |-> {}, live |-> {}, left |-> polled',
                    ended |-> {}]
      BY <2>1, <3>1 DEF Awake
    <3>3. polled' \in SUBSET Quote /\ {} \in SUBSET Quote BY <2>2
    <3>4. maker' \in [at : Where, pair : Nat, todo : SUBSET Quote, live : SUBSET Quote,
                      left : SUBSET Quote, ended : SUBSET Quote]
      BY <3>2, <3>3 DEF Where
    <3>5. LocalsTyped' BY <1>1, <3>2, <3>4 DEF LocalsTyped
    <3>6. LocalsUsed' BY <3>2 DEF LocalsUsed
    <3>7. InPlay' = live
      <4>1. live = {} => live # Both(pair) BY <1>3, Survivors
      <4>2. Prior' = live BY <1>1, <2>1, <2>6, <4>1 DEF Prior
      <4>3. maker'.todo = {} /\ maker'.live = {} BY <3>2
      <4>4. QED BY <4>2, <4>3, Zenon DEF InPlay
    <3>8. OnePair' BY <1>3, <3>7, InQuote DEF OnePair
    <3>9. Reached' BY <3>2, <3>7 DEF Reached
    <3>10. ToBeSent' BY <2>4, <3>2 DEF ToBeSent
    <3>11. QED
      BY <1>2, <1>5, <2>3, <3>5, <3>6, <3>7, <3>8, <3>9, <3>10 DEF MakerShape
  <2>7. QED BY <2>5, <2>6
<1>8. QED BY <1>6, <1>7

LEMMA ShapePosted ==
    ASSUME MakerShape, NEW o \in Quote, LegPosted(o)
    PROVE  MakerShape' /\ InPlay' = maker.live \cup {o} /\ InPlay = maker.live \cup {o}
<1>1. /\ Awaited(o) /\ leg[o].at # "sent" /\ PostEnds(o, maker.live \cup {o})
      /\ leg' = leg /\ inventory' = inventory /\ posted' = posted /\ mishaps' = mishaps
  BY DEF LegPosted
<1>2. leg[o].at \in {"resting", "filled", "cancelled"}
  BY <1>1 DEF Awaited, MakerShape, Reached, InPlay
<1>3. QED BY <1>1, <1>2, PlayReached, ShapePostEnds DEF MakerShape, MakerTypeOK

LEMMA ShapeRefused ==
    ASSUME MakerShape, NEW o \in Quote, LegRefused(o)
    PROVE  MakerShape' /\ InPlay' = maker.live /\ InPlay = maker.live \cup {o}
<1>1. /\ Awaited(o) /\ leg[o].at = "sent" /\ PostEnds(o, maker.live)
      /\ leg' = [leg EXCEPT ![o].at = "refused"]
      /\ inventory' = inventory /\ posted' = posted /\ mishaps' = mishaps
  BY DEF LegRefused
<1>2. o \notin maker.live BY <1>1, PlayReached
<1>3. maker.live \subseteq Quote BY DEF MakerShape, LocalsTyped
<1>4. leg' \in [Quote -> [at : {"unsent", "sent", "refused", "resting", "filled", "cancelled"},
                          size : 0 .. MaxInventory]]
  BY <1>1 DEF MakerShape, MakerTypeOK
<1>5. \A other \in Quote : other # o => leg'[other] = leg[other]
  BY <1>1 DEF MakerShape, MakerTypeOK
<1>6. mishaps' \in 0 .. Mishaps BY <1>1 DEF MakerShape, MakerTypeOK
<1>7. \A other \in maker.live : leg'[other].at \in {"resting", "filled", "cancelled"}
  BY <1>2, <1>3, <1>5, PlayReached
<1>8. QED BY <1>1, <1>4, <1>5, <1>6, <1>7, ShapePostEnds

LEMMA ShapeLost ==
    ASSUME MakerShape, NEW o \in Quote, LegLost(o)
    PROVE  MakerShape' /\ InPlay' = maker.live /\ InPlay = maker.live \cup {o}
<1>1. /\ Awaited(o) /\ Mishap /\ PostEnds(o, maker.live)
      /\ leg' = leg /\ inventory' = inventory /\ posted' = posted
  BY DEF LegLost
<1>2. mishaps' \in 0 .. Mishaps
  BY <1>1, MakerAssumption DEF Mishap, MakerShape, MakerTypeOK
<1>3. QED BY <1>1, <1>2, PlayReached, ShapePostEnds DEF MakerShape, MakerTypeOK

LEMMA ShapePolls ==
    ASSUME MakerShape, NEW o \in Quote, PollsLeg(o) \/ PollFails(o)
    PROVE  MakerShape' /\ InPlay' = InPlay
<1>1. /\ maker.at = "fills" /\ leg' = leg /\ active' = active /\ polled' = polled
      /\ posted' = posted /\ mishaps' = mishaps
  BY DEF PollsLeg, PollFails, NextToPoll, books
<1>2. maker \in [at : Where, pair : Nat, todo : SUBSET Quote, live : SUBSET Quote,
                 left : SUBSET Quote, ended : SUBSET Quote]
  BY DEF MakerShape, LocalsTyped
<1>3. PICK e \in {maker.ended, maker.ended \cup {o}} :
        maker' = [maker EXCEPT !.left = @ \ {o}, !.ended = e]
  <2>1. maker.ended = maker.ended BY <1>2
  <2>2. maker' = [maker EXCEPT !.left = @ \ {o}] =>
        maker' = [maker EXCEPT !.left = @ \ {o}, !.ended = maker.ended]
    BY <1>2
  <2>3. QED BY <2>2 DEF PollsLeg, PollFails
<1>4. inventory' \in Int
  <2>1. leg[o].size \in 0 .. MaxInventory /\ MaxInventory \in Nat /\ inventory \in Int
    BY MakerAssumption DEF MakerShape, MakerTypeOK
  <2>2. inventory' \in {inventory, inventory + leg[o].size, inventory - leg[o].size}
    BY DEF PollsLeg, PollFails, books, Tallied
  <2>3. leg[o].size \in Int BY <2>1
  <2>4. QED BY <2>1, <2>2, <2>3
<1>5. MakerTypeOK' BY <1>1, <1>4 DEF MakerShape, MakerTypeOK
<1>6. LocalsTyped' BY <1>1, <1>2, <1>3 DEF MakerShape, LocalsTyped
<1>7. maker'.at = maker.at /\ maker'.todo = maker.todo /\ maker'.live = maker.live
      /\ maker'.pair = maker.pair
  BY <1>2, <1>3
<1>8. LocalsUsed' BY <1>1, <1>7 DEF MakerShape, LocalsUsed
<1>9. InPlay' = InPlay BY <1>1, <1>7 DEF InPlay, Prior
<1>10. OnePair' BY <1>9 DEF MakerShape, OnePair
<1>11. Reached' BY <1>1, <1>7, <1>9 DEF MakerShape, Reached
<1>12. ToBeSent' BY <1>1, <1>7 DEF MakerShape, ToBeSent
<1>13. QED BY <1>5, <1>6, <1>8, <1>9, <1>10, <1>11, <1>12 DEF MakerShape

LEMMA ShapeChecked ==
    ASSUME MakerShape, FillsChecked
    PROVE  MakerShape' /\ InPlay' = InPlay
<1>1. MakerTypeOK' BY DEF FillsChecked, MakerShape, MakerTypeOK
<1>2. MakerShape' BY <1>1, QuoteReached, ShapeRests DEF FillsChecked
<1>3. maker.todo = {} /\ maker.live = {} BY DEF FillsChecked, MakerShape, LocalsUsed
<1>4. maker'.todo = {} /\ maker'.live = {} BY DEF FillsChecked, Asleep, Awake
<1>5. Prior' = Prior BY DEF FillsChecked, Prior
<1>6. QED BY <1>2, <1>3, <1>4, <1>5 DEF InPlay

LEMMA ShapeAbandons ==
    ASSUME MakerShape, Abandons
    PROVE  MakerShape' /\ mishaps' = mishaps + 1 /\ leg' = leg
<1>1. /\ leg' = leg /\ active' = active /\ polled' = polled /\ inventory' = inventory
      /\ posted' = posted /\ mishaps' = mishaps + 1 /\ mishaps < Mishaps
  BY DEF Abandons, books, Mishap
<1>2. MakerTypeOK' BY <1>1, MakerAssumption DEF MakerShape, MakerTypeOK
<1>3. CASE maker.at = "stale"
  <2>1. maker' = Awake("quotes") /\ active' = 0
    BY <1>1, <1>3 DEF Abandons, MakerShape, LocalsUsed
  <2>2. QED BY <1>1, <1>2, <2>1, QuoteReached, ShapeRests
<1>4. CASE maker.at = "fills"
  <2>1. maker' = Asleep BY <1>4 DEF Abandons
  <2>2. QED BY <1>1, <1>2, <2>1, QuoteReached, ShapeRests
<1>5. CASE maker.at \notin {"stale", "fills"}
  <2>1. maker' = [Awake("fills") EXCEPT !.left = polled'] BY <1>1, <1>5 DEF Abandons
  <2>2. QED BY <1>1, <1>2, <2>1, QuoteReached, ShapeRests
<1>6. QED BY <1>3, <1>4, <1>5

LEMMA ShapeRestarts ==
    ASSUME MakerShape, MakerRestart
    PROVE  MakerShape' /\ mishaps' = mishaps + 1 /\ leg' = leg
<1>1. /\ leg' = leg /\ active' = 0 /\ polled' = {} /\ inventory' = 0
      /\ posted' = posted /\ mishaps' = mishaps + 1 /\ mishaps < Mishaps /\ maker' = Asleep
  BY DEF MakerRestart, Mishap
<1>2. MakerTypeOK' BY <1>1, MakerAssumption DEF MakerShape, MakerTypeOK
<1>3. QED BY <1>1, <1>2, QuoteReached, ShapeRests

\* The venue and the order monitor.
LEMMA ShapeVenue ==
    ASSUME MakerShape, NEW o \in Quote, QuoteLands(o) \/ QuoteMatches(o) \/ MonitorReaps(o)
    PROVE  /\ MakerShape' /\ InPlay' = InPlay /\ mishaps' = mishaps
           /\ \A other \in Quote :
                leg'[other].at \in {"sent", "resting"} => leg[other].at \in {"sent", "resting"}
<1>1. /\ active' = active /\ polled' = polled /\ inventory' = inventory /\ maker' = maker
      /\ posted' = posted /\ mishaps' = mishaps
  BY DEF QuoteLands, QuoteMatches, MonitorReaps, books
<1>2. /\ leg[o].at \in {"sent", "resting"}
      /\ \E at \in {"resting", "filled", "cancelled"} :
           /\ leg' = [leg EXCEPT ![o].at = at]
           /\ leg[o].at = "resting" \/ at = "resting"
  BY DEF QuoteLands, QuoteMatches, MonitorReaps, Cancelled, Rests
<1>3. /\ leg' \in [Quote -> [at : {"unsent", "sent", "refused", "resting", "filled", "cancelled"},
                             size : 0 .. MaxInventory]]
      /\ leg'[o].at \in {"resting", "filled", "cancelled"}
      /\ \A other \in Quote : other # o => leg'[other] = leg[other]
  BY <1>2 DEF MakerShape, MakerTypeOK
<1>4. MakerTypeOK' BY <1>1, <1>3 DEF MakerShape, MakerTypeOK
<1>5. LocalsTyped' BY <1>1 DEF MakerShape, LocalsTyped
<1>6. LocalsUsed' BY <1>1 DEF MakerShape, LocalsUsed
<1>7. InPlay' = InPlay BY <1>1 DEF InPlay, Prior
<1>8. OnePair' BY <1>7 DEF MakerShape, OnePair
<1>9. InPlay \subseteq Quote
  BY InQuote, MakerAssumption DEF InPlay, Prior, MakerShape, MakerTypeOK, LocalsTyped
<1>10. Reached' BY <1>1, <1>3, <1>7, <1>9 DEF MakerShape, Reached
<1>11. ToBeSent'
  <2>1. maker.pair # 0 => Both(maker.pair) \subseteq Quote
    BY InQuote, MakerAssumption DEF MakerShape, LocalsTyped, MakerTypeOK
  <2>2. maker.at \in {"replaces", "posts", "answer"} => maker.pair # 0
    BY DEF MakerShape, LocalsUsed
  <2>3. QED BY <1>1, <1>2, <1>3, <2>1, <2>2 DEF MakerShape, ToBeSent
<1>12. QED
  BY <1>1, <1>2, <1>3, <1>4, <1>5, <1>6, <1>7, <1>8, <1>10, <1>11 DEF MakerShape

-----------------------------------------------------------------------------
(* What rests without the maker accounting for it.                         *)

Standing(side) == {n \in 1 .. Pairs : leg[<<side, n>>].at \in {"sent", "resting"}}
Strays(side) == {n \in Standing(side) : <<side, n>> \notin InPlay}

StraysCovered == \A side \in Sides : Cardinality(Strays(side)) <= mishaps

StackInv == MakerShape /\ StraysCovered

LEMMA StraysFinite ==
    /\ \A side \in Sides : IsFiniteSet(Strays(side)) /\ Cardinality(Strays(side)) \in Nat
    /\ \A side \in Sides : IsFiniteSet(Strays(side)') /\ Cardinality(Strays(side)') \in Nat
<1>1. IsFiniteSet(1 .. Pairs) BY MakerAssumption, FS_Interval
<1>2. \A side \in Sides : Strays(side) \subseteq 1 .. Pairs /\ Strays(side)' \subseteq 1 .. Pairs
  BY DEF Strays, Standing
<1>3. QED BY <1>1, <1>2, FS_Subset, FS_CardinalityType

LEMMA NoNewStray ==
    ASSUME StackInv, MakerShape', mishaps' >= mishaps,
           \A o \in Quote : leg'[o].at \in {"sent", "resting"} /\ o \notin InPlay' =>
                            leg[o].at \in {"sent", "resting"} /\ o \notin InPlay
    PROVE  StackInv'
<1>1. mishaps \in Nat /\ mishaps' \in Nat
  BY MakerAssumption DEF StackInv, MakerShape, MakerTypeOK
<1>2. ASSUME NEW side \in Sides PROVE Cardinality(Strays(side)') <= mishaps'
  <2>1. Strays(side)' \subseteq Strays(side)
    BY InQuote DEF Strays, Standing
  <2>2. Cardinality(Strays(side)') <= Cardinality(Strays(side))
    BY <2>1, StraysFinite, FS_Subset
  <2>3. QED BY <1>1, <2>2, StraysFinite DEF StackInv, StraysCovered
<1>3. QED BY <1>2 DEF StackInv, StraysCovered

\* In play is one order of a side.
LEMMA OneASide ==
    ASSUME MakerShape, NEW side
    PROVE  \E m : \A n \in 1 .. Pairs : <<side, n>> \in InPlay => n = m
<1>1. \A n, k \in 1 .. Pairs : <<side, n>> \in InPlay /\ <<side, k>> \in InPlay => n = k
  <2> SUFFICES ASSUME NEW n \in 1 .. Pairs, NEW k \in 1 .. Pairs,
                      <<side, n>> \in InPlay, <<side, k>> \in InPlay
               PROVE  n = k
    OBVIOUS
  <2>1. <<side, n>>[2] = <<side, k>>[2] BY DEF MakerShape, OnePair
  <2>2. QED BY <2>1
<1>2. CASE \E n \in 1 .. Pairs : <<side, n>> \in InPlay BY <1>1, <1>2
<1>3. CASE ~ \E n \in 1 .. Pairs : <<side, n>> \in InPlay BY <1>3
<1>4. QED BY <1>2, <1>3

\* A mishap leaves what was in play, one order a side.
LEMMA NewStrays ==
    ASSUME StackInv, MakerShape', mishaps' = mishaps + 1,
           \A o \in Quote : leg'[o].at \in {"sent", "resting"} => leg[o].at \in {"sent", "resting"}
    PROVE  StackInv'
<1>1. mishaps \in Nat BY MakerAssumption DEF StackInv, MakerShape, MakerTypeOK
<1>2. ASSUME NEW side \in Sides PROVE Cardinality(Strays(side)') <= mishaps'
  <2>1. PICK m : \A n \in 1 .. Pairs : <<side, n>> \in InPlay => n = m
    BY OneASide DEF StackInv
  <2>2. Strays(side)' \subseteq Strays(side) \cup {m}
    BY <2>1, InQuote DEF Strays, Standing
  <2>3. IsFiniteSet(Strays(side) \cup {m})
        /\ Cardinality(Strays(side) \cup {m}) \in {Cardinality(Strays(side)), Cardinality(Strays(side)) + 1}
    BY StraysFinite, FS_AddElement
  <2>4. Cardinality(Strays(side)') <= Cardinality(Strays(side) \cup {m})
    BY <2>2, <2>3, FS_Subset
  <2>5. QED BY <1>1, <2>3, <2>4, StraysFinite DEF StackInv, StraysCovered
<1>3. QED BY <1>2 DEF StackInv, StraysCovered

LEMMA StackStep == ASSUME StackInv, [MakerNext]_makerVars PROVE StackInv'
<1>0. MakerShape /\ mishaps \in Nat
  BY MakerAssumption DEF StackInv, MakerShape, MakerTypeOK
<1>1. CASE CancelsStale \/ QuotesNothing \/ KeepsQuote \/ NothingToCancel \/ FillsChecked
  <2>1. leg' = leg /\ mishaps' = mishaps
    BY <1>1 DEF CancelsStale, QuotesNothing, KeepsQuote, NothingToCancel, FillsChecked
  <2>2. MakerShape' /\ InPlay' = InPlay
    BY <1>0, <1>1, ShapeStale, ShapeNothing, ShapeNothingToCancel, ShapeChecked
  <2>3. QED BY <1>0, <2>1, <2>2, NoNewStray
<1>2. CASE FormsPair
  <2>1. mishaps' = mishaps BY <1>2 DEF FormsPair
  <2>2. QED BY <1>0, <1>2, <2>1, ShapeForms, NoNewStray
<1>3. ASSUME NEW o \in Quote, LegCancelled(o) PROVE StackInv'
  <2>1. /\ NextToCancel(o) /\ CancelEnds(o) /\ leg' = Cancelled(o) /\ active' = active
        /\ posted' = posted /\ inventory' = inventory /\ mishaps' = mishaps
    BY <1>3 DEF LegCancelled
  <2>2. MakerShape' /\ InPlay' = InPlay \ {o}
    BY <1>0, <2>1, ShapeCancelEnds DEF MakerShape, MakerTypeOK
  <2>3. leg[o].at \in {"resting", "filled", "cancelled"}
    BY <1>0, <2>1 DEF NextToCancel, MakerShape, Reached, InPlay
  <2>4. leg'[o].at \notin {"sent", "resting"}
    BY <1>0, <2>1, <2>3 DEF Cancelled, Rests, MakerShape, MakerTypeOK
  <2>5. \A other \in Quote : leg'[other].at \in {"sent", "resting"} =>
                              leg[other].at \in {"sent", "resting"}
    BY <1>0, <2>1, CancelKeepsReached DEF MakerShape
  <2>6. QED BY <1>0, <2>1, <2>2, <2>4, <2>5, NoNewStray
<1>4. ASSUME NEW o \in Quote, LegCancelLost(o) PROVE StackInv'
  <2>1. /\ NextToCancel(o) /\ CancelEnds(o) /\ leg' \in {leg, Cancelled(o)} /\ active' = active
        /\ posted' = posted /\ inventory' = inventory
        /\ mishaps < Mishaps /\ mishaps' = mishaps + 1
    BY <1>4 DEF LegCancelLost, Mishap
  <2>2. mishaps' \in 0 .. Mishaps BY <1>0, <2>1, MakerAssumption
  <2>3. MakerShape' BY <1>0, <2>1, <2>2, ShapeCancelEnds
  <2>4. \A other \in Quote : leg'[other].at \in {"sent", "resting"} =>
                              leg[other].at \in {"sent", "resting"}
    BY <1>0, <2>1, CancelKeepsReached DEF MakerShape
  <2>5. QED BY <2>1, <2>3, <2>4, NewStrays
<1>5. ASSUME NEW o \in Quote, LegSent(o) PROVE StackInv'
  <2>1. mishaps' = mishaps BY <1>5 DEF LegSent
  <2>2. QED BY <1>0, <1>5, <2>1, ShapeSent, NoNewStray
<1>6. ASSUME NEW o \in Quote, LegPosted(o) PROVE StackInv'
  <2>1. leg' = leg /\ mishaps' = mishaps BY <1>6 DEF LegPosted
  <2>2. QED BY <1>0, <1>6, <2>1, ShapePosted, NoNewStray
<1>7. ASSUME NEW o \in Quote, LegRefused(o) PROVE StackInv'
  <2>1. leg' = [leg EXCEPT ![o].at = "refused"] /\ mishaps' = mishaps BY <1>7 DEF LegRefused
  <2>2. MakerShape' /\ InPlay' = maker.live /\ InPlay = maker.live \cup {o}
    BY <1>0, <1>7, ShapeRefused
  <2>3. leg'[o].at = "refused" /\ \A other \in Quote : other # o => leg'[other] = leg[other]
    BY <1>0, <2>1 DEF MakerShape, MakerTypeOK
  <2>4. QED BY <1>0, <2>1, <2>2, <2>3, NoNewStray
<1>8. ASSUME NEW o \in Quote, LegLost(o) PROVE StackInv'
  <2>1. leg' = leg /\ mishaps' = mishaps + 1 BY <1>8 DEF LegLost, Mishap
  <2>2. QED BY <1>0, <1>8, <2>1, ShapeLost, NewStrays
<1>9. ASSUME NEW o \in Quote, PollsLeg(o) \/ PollFails(o) PROVE StackInv'
  <2>1. leg' = leg /\ mishaps' = mishaps BY <1>9 DEF PollsLeg, PollFails
  <2>2. QED BY <1>0, <1>9, <2>1, ShapePolls, NoNewStray
<1>10. CASE Abandons \/ MakerRestart
  BY <1>0, <1>10, ShapeAbandons, ShapeRestarts, NewStrays
<1>11. ASSUME NEW o \in Quote, QuoteLands(o) \/ QuoteMatches(o) \/ MonitorReaps(o)
       PROVE  StackInv'
  BY <1>0, <1>11, ShapeVenue, NoNewStray
<1>12. CASE UNCHANGED makerVars
  BY <1>12 DEF makerVars, books, StackInv, MakerShape, MakerTypeOK, LocalsTyped, LocalsUsed,
     OnePair, Reached, ToBeSent, InPlay, Prior, StraysCovered, Strays, Standing
<1>13. QED
  BY <1>1, <1>2, <1>3, <1>4, <1>5, <1>6, <1>7, <1>8, <1>9, <1>10, <1>11, <1>12
  DEF MakerNext, MakerStep

LEMMA StackInit == MakerInit => StackInv
<1> SUFFICES ASSUME MakerInit PROVE StackInv OBVIOUS
<1>1. \A side \in Sides : Strays(side) = {}
  BY InQuote DEF MakerInit, Strays, Standing
<1>2. QED BY <1>1, ShapeInit, FS_EmptySet DEF StackInv, StraysCovered, MakerInit

LEMMA StackFollows == StackInv => QuotesDoNotStack
<1> SUFFICES ASSUME StackInv, NEW side \in Sides
             PROVE  Cardinality({n \in 1 .. Pairs : Rests(<<side, n>>)}) <= 1 + mishaps
  BY DEF QuotesDoNotStack
<1> DEFINE resting == {n \in 1 .. Pairs : Rests(<<side, n>>)}
<1>1. mishaps \in Nat BY MakerAssumption DEF StackInv, MakerShape, MakerTypeOK
<1>2. PICK m : \A n \in 1 .. Pairs : <<side, n>> \in InPlay => n = m
  BY OneASide DEF StackInv
<1>3. resting \subseteq Strays(side) \cup {m}
  BY <1>2, InQuote DEF Strays, Standing, Rests
<1> HIDE DEF resting
<1>4. IsFiniteSet(Strays(side) \cup {m})
      /\ Cardinality(Strays(side) \cup {m}) \in {Cardinality(Strays(side)), Cardinality(Strays(side)) + 1}
  BY StraysFinite, FS_AddElement
<1>5. IsFiniteSet(resting) /\ Cardinality(resting) <= Cardinality(Strays(side) \cup {m})
  BY <1>3, <1>4, FS_Subset
<1>6. Cardinality(resting) \in Nat BY <1>5, FS_CardinalityType
<1>7. Cardinality(resting) <= 1 + mishaps
  BY <1>1, <1>4, <1>5, <1>6, StraysFinite DEF StackInv, StraysCovered
<1>8. QED BY <1>7 DEF resting

\* Of any number of quotes and mishaps: a side of the book holds one order of the
\* maker's, and one more for each mishap (QuotesDoNotStack; place_quote_pair cancels the
\* survivor of a pair and run_cycle the quote before the next).
THEOREM NoStacking == MakerSpec => []QuotesDoNotStack
<1>1. MakerInit => StackInv BY StackInit
<1>2. StackInv /\ [MakerNext]_makerVars => StackInv' BY StackStep
<1>3. StackInv => QuotesDoNotStack BY StackFollows
<1>4. QED BY <1>1, <1>2, <1>3, PTL DEF MakerSpec

THEOREM MakerTyped == MakerSpec => []MakerTypeOK
<1>1. MakerInit => StackInv BY StackInit
<1>2. StackInv /\ [MakerNext]_makerVars => StackInv' BY StackStep
<1>3. StackInv => MakerTypeOK BY DEF StackInv, MakerShape
<1>4. QED BY <1>1, <1>2, <1>3, PTL DEF MakerSpec

-----------------------------------------------------------------------------
(* The inventory as counted.                                               *)

\* When it fills, the leg leaves the inventory within its capacity.
FitsCapacity(o) == IF o[1] = "bid" THEN inventory + leg[o].size <= MaxInventory
                           ELSE inventory - leg[o].size >= -MaxInventory

\* What is polled is of the quote that is shown, or is being cancelled.
PolledShown ==
    /\ maker.at \in {"asleep", "fills"} => polled \subseteq Prior
    /\ maker.at \in {"stale", "replaces", "survivor"} =>
         \A o \in polled : \E other \in maker.todo : o[2] = other[2]
    /\ maker.at \in {"quotes", "posts", "answer"} => polled = {}
    /\ maker.left \subseteq polled \ maker.ended
    /\ maker.at # "fills" => maker.left = {} /\ maker.ended = {}

\* Both legs of a pair have the size that was left when it was formed; each of those yet
\* to be counted still fits, whether or not its twin was.
Fitting ==
    /\ Absolute(inventory) <= MaxInventory
    /\ \A n \in 1 .. Pairs : leg[<<"bid", n>>].size = leg[<<"ask", n>>].size
    /\ \A o \in polled \ maker.ended : FitsCapacity(o)
    /\ maker.at \in {"replaces", "posts", "answer"} => \A o \in Both(maker.pair) : FitsCapacity(o)

Tallying == mishaps = 0 => PolledShown /\ Fitting

LEMMA PolledTyped ==
    ASSUME MakerShape
    PROVE  /\ polled \subseteq Quote /\ inventory \in Int /\ MaxInventory \in Nat
           /\ \A o \in Quote : leg[o].size \in Nat
           /\ maker.pair # 0 => Both(maker.pair) \subseteq Quote
BY InQuote, MakerAssumption DEF MakerShape, MakerTypeOK, LocalsTyped

LEMMA AbsoluteWithin ==
    ASSUME NEW n \in Int, NEW m \in Int, n <= m, n >= -m
    PROVE  Absolute(n) <= m
BY DEF Absolute

\* Sizes and the inventory stay: what fits goes on fitting.
LEMMA FittingKept ==
    ASSUME MakerShape, MakerShape', Fitting, inventory' = inventory,
           \A o \in Quote : leg'[o].size = leg[o].size,
           \A o \in polled' \ maker'.ended :
               o \in polled \ maker.ended
               \/ (maker.at \in {"replaces", "posts", "answer"} /\ o \in Both(maker.pair)),
           maker'.at \in {"replaces", "posts", "answer"} =>
               maker.at \in {"replaces", "posts", "answer"} /\ maker'.pair = maker.pair
    PROVE  Fitting'
<1>1. \A o \in Quote : FitsCapacity(o) => FitsCapacity(o)' BY DEF FitsCapacity
<1>2. polled' \subseteq Quote BY DEF MakerShape, MakerTypeOK
<1>3. maker.at \in {"replaces", "posts", "answer"} => Both(maker.pair) \subseteq Quote
  BY PolledTyped DEF MakerShape, LocalsUsed
<1>4. \A o \in polled' \ maker'.ended : FitsCapacity(o)'
  BY <1>1, <1>2, <1>3 DEF Fitting
<1>5. maker'.at \in {"replaces", "posts", "answer"} => \A o \in Both(maker'.pair) : FitsCapacity(o)'
  BY <1>1, <1>3 DEF Fitting
<1>6. \A n \in 1 .. Pairs : leg'[<<"bid", n>>].size = leg'[<<"ask", n>>].size
  BY InQuote DEF Fitting, Sides
<1>7. QED BY <1>4, <1>5, <1>6 DEF Fitting, Absolute

LEMMA TallyCycle ==
    ASSUME MakerShape, MakerShape', PolledShown, Fitting,
           CancelsStale \/ QuotesNothing \/ KeepsQuote \/ NothingToCancel \/ FillsChecked
    PROVE  PolledShown' /\ Fitting'
<1>1. leg' = leg /\ inventory' = inventory
  BY DEF CancelsStale, QuotesNothing, KeepsQuote, NothingToCancel, FillsChecked, books
<1>2. maker \in [at : Where, pair : Nat, todo : SUBSET Quote, live : SUBSET Quote,
                 left : SUBSET Quote, ended : SUBSET Quote]
  BY DEF MakerShape, LocalsTyped
<1>3. PolledShown' /\ polled' \ maker'.ended \subseteq polled \ maker.ended
  <2>1. CASE CancelsStale
    BY <2>1 DEF CancelsStale, Awake, PolledShown, Prior
  <2>2. CASE QuotesNothing
    BY <2>2 DEF QuotesNothing, Awake, PolledShown, Prior, books
  <2>3. CASE KeepsQuote
    BY <2>3 DEF KeepsQuote, Awake, PolledShown, Prior, books
  <2>4. CASE NothingToCancel
    <3>1. maker' = [maker EXCEPT !.at = "posts"] /\ polled' = polled /\ maker.at = "replaces"
          /\ maker.todo = {}
      BY <2>4 DEF NothingToCancel, books
    <3>2. maker'.at = "posts" /\ maker'.left = maker.left /\ maker'.ended = maker.ended
      BY <1>2, <3>1
    <3>3. QED BY <3>1, <3>2 DEF PolledShown
  <2>5. CASE FillsChecked
    BY <2>5 DEF FillsChecked, Asleep, Awake, PolledShown, Prior
  <2>6. QED BY <2>1, <2>2, <2>3, <2>4, <2>5
<1>4. maker'.at \in {"replaces", "posts", "answer"} =>
          maker.at \in {"replaces", "posts", "answer"} /\ maker'.pair = maker.pair
  BY <1>2 DEF CancelsStale, QuotesNothing, KeepsQuote, NothingToCancel, FillsChecked, Asleep, Awake
<1>5. /\ \A o \in Quote : leg'[o].size = leg[o].size
      /\ \A o \in polled' \ maker'.ended : o \in polled \ maker.ended
  BY <1>1, <1>3
<1>6. Fitting' BY <1>1, <1>4, <1>5, FittingKept
<1>7. QED BY <1>3, <1>6

LEMMA TallyForms ==
    ASSUME MakerShape, MakerShape', PolledShown, Fitting, FormsPair
    PROVE  PolledShown' /\ Fitting'
<1>1. /\ polled' = polled /\ inventory' = inventory /\ posted' = posted + 1 /\ active' = 0
      /\ maker.at \in {"asleep", "quotes"}
      /\ maker' = [at |-> "replaces", pair |-> posted + 1, todo |-> Prior, live |-> {},
                   left |-> {}, ended |-> {}]
  BY DEF FormsPair, Awake
<1>2. PICK size \in 1 .. MaxInventory - Absolute(inventory) :
        leg' = [o \in Quote |-> IF o[2] = posted + 1 THEN [leg[o] EXCEPT !.size = size] ELSE leg[o]]
  BY DEF FormsPair
<1>3. posted \in Nat /\ posted + 1 \in 1 .. Pairs /\ active \in 0 .. posted /\ active \in Nat
      /\ inventory \in Int /\ MaxInventory \in Nat
  BY MakerAssumption DEF FormsPair, MakerShape, MakerTypeOK
<1>4. polled \subseteq Prior BY <1>1 DEF PolledShown
<1>5. PolledShown' BY <1>1, <1>4 DEF PolledShown
<1>6. maker.ended = {} BY <1>1 DEF PolledShown
<1>7. \A o \in polled : o[2] # posted + 1 /\ o \in Quote
  BY <1>3, <1>4, InQuote, PolledTyped DEF Prior
<1>8. \A o \in polled' \ maker'.ended : FitsCapacity(o)'
  <2>1. \A o \in polled : leg'[o].size = leg[o].size
    BY <1>2, <1>7
  <2>2. \A o \in polled : FitsCapacity(o) BY <1>6 DEF Fitting
  <2>3. QED BY <1>1, <2>1, <2>2 DEF FitsCapacity
<1>9. \A o \in Both(posted + 1) : FitsCapacity(o)'
  <2> TAKE o \in Both(posted + 1)
  <2>1. o \in Quote /\ o[2] = posted + 1 BY <1>3, InQuote
  <2>2. leg'[o].size = size BY <1>2, <2>1 DEF MakerShape, MakerTypeOK
  <2>3. inventory + size <= MaxInventory /\ inventory - size >= -MaxInventory
    BY <1>3 DEF Absolute
  <2>4. QED BY <1>1, <2>2, <2>3 DEF FitsCapacity
<1>10. \A n \in 1 .. Pairs : leg'[<<"bid", n>>].size = leg'[<<"ask", n>>].size
  <2> TAKE n \in 1 .. Pairs
  <2>1. <<"bid", n>> \in Quote /\ <<"ask", n>> \in Quote BY InQuote DEF Sides
  <2>2. leg[<<"bid", n>>].size = leg[<<"ask", n>>].size BY DEF Fitting
  <2>3. CASE n = posted + 1
    BY <1>2, <2>1, <2>3 DEF MakerShape, MakerTypeOK
  <2>4. CASE n # posted + 1
    BY <1>2, <2>1, <2>2, <2>4
  <2>5. QED BY <2>3, <2>4
<1>11. QED BY <1>1, <1>5, <1>8, <1>9, <1>10 DEF Fitting

LEMMA TallyCancelEnds ==
    ASSUME MakerShape, MakerShape', PolledShown, Fitting, NEW o \in Quote,
           NextToCancel(o), CancelEnds(o), leg' \in {leg, Cancelled(o)},
           active' = active, inventory' = inventory
    PROVE  PolledShown' /\ Fitting'
<1>1. /\ maker.at \in {"stale", "replaces", "survivor"} /\ o \in maker.todo /\ active = 0
      /\ maker.left = {} /\ maker.ended = {}
      /\ \A p \in polled : \E other \in maker.todo : p[2] = other[2]
  BY DEF NextToCancel, MakerShape, LocalsUsed, PolledShown
<1>2. maker \in [at : Where, pair : Nat, todo : SUBSET Quote, live : SUBSET Quote,
                 left : SUBSET Quote, ended : SUBSET Quote]
  BY DEF MakerShape, LocalsTyped
<1>3. \A p \in polled : p[2] = o[2] /\ p \in Both(o[2])
  <2> TAKE p \in polled
  <2>1. p[2] = o[2] BY <1>1 DEF MakerShape, OnePair, InPlay
  <2>2. p = <<p[1], o[2]>> /\ p[1] \in Sides BY <2>1, InQuote, PolledTyped
  <2>3. QED BY <2>1, <2>2, InQuote
<1>4. \A p \in Quote : leg'[p].size = leg[p].size
  BY CancelKeepsReached DEF MakerShape
<1>5. CASE maker.todo # {o}
  <2>1. maker' = [maker EXCEPT !.todo = @ \ {o}] /\ polled' = polled
    BY <1>5 DEF CancelEnds
  <2>2. PICK other \in maker.todo : other # o BY <1>1, <1>5
  <2>3. other[2] = o[2] /\ other \in maker'.todo
    BY <1>1, <1>2, <2>1, <2>2 DEF MakerShape, OnePair, InPlay
  <2>4. PolledShown' BY <1>1, <1>2, <1>3, <2>1, <2>3 DEF PolledShown
  <2>5. maker'.at = maker.at /\ maker'.pair = maker.pair /\ maker'.ended = maker.ended
    BY <1>2, <2>1
  <2>6. \A p \in polled' \ maker'.ended : p \in polled \ maker.ended
    BY <2>1, <2>5
  <2>7. Fitting' BY <1>4, <2>5, <2>6, FittingKept
  <2>8. QED BY <2>4, <2>7
<1>6. CASE maker.todo = {o}
  <2>1. polled' = {} BY <1>3, <1>6 DEF CancelEnds
  <2>2. \/ maker' = Awake("quotes")
        \/ maker' = [maker EXCEPT !.todo = {}, !.at = "posts"] /\ maker.at = "replaces"
        \/ maker' = [Awake("fills") EXCEPT !.left = polled']
    BY <1>1, <1>6 DEF CancelEnds
  <2>3. maker'.left = {} /\ maker'.ended = {}
        /\ maker'.at \in {"quotes", "posts", "fills"}
        /\ (maker'.at = "posts" => maker.at = "replaces" /\ maker'.pair = maker.pair)
    <3>1. CASE maker' = Awake("quotes") BY <3>1 DEF Awake
    <3>2. CASE maker' = [maker EXCEPT !.todo = {}, !.at = "posts"] /\ maker.at = "replaces"
      <4>1. maker'.at = "posts" /\ maker'.pair = maker.pair /\ maker'.left = maker.left
            /\ maker'.ended = maker.ended
        BY <1>2, <3>2
      <4>2. QED BY <1>1, <3>2, <4>1
    <3>3. CASE maker' = [Awake("fills") EXCEPT !.left = polled'] BY <2>1, <3>3 DEF Awake
    <3>4. QED BY <2>2, <3>1, <3>2, <3>3
  <2>4. PolledShown' BY <2>1, <2>3 DEF PolledShown
  <2>5. QED BY <1>4, <2>1, <2>3, <2>4, FittingKept
<1>7. QED BY <1>5, <1>6

LEMMA TallySent ==
    ASSUME MakerShape, MakerShape', PolledShown, Fitting, NEW o \in Quote, LegSent(o)
    PROVE  PolledShown' /\ Fitting'
<1>1. /\ maker.at = "posts" /\ polled' = polled /\ inventory' = inventory
      /\ leg' = [leg EXCEPT ![o].at = "sent"]
      /\ maker' = [maker EXCEPT !.at = "answer", !.todo = {o}]
  BY DEF LegSent, NextToPost, books
<1>2. /\ maker'.at = "answer" /\ maker'.pair = maker.pair /\ maker'.left = maker.left
      /\ maker'.ended = maker.ended
  BY <1>1 DEF MakerShape, LocalsTyped
<1>3. \A p \in Quote : leg'[p].size = leg[p].size
  BY <1>1 DEF MakerShape, MakerTypeOK
<1>4. PolledShown' BY <1>1, <1>2 DEF PolledShown
<1>5. \A p \in polled' \ maker'.ended : p \in polled \ maker.ended
  BY <1>1, <1>2
<1>6. Fitting' BY <1>1, <1>2, <1>3, <1>5, FittingKept
<1>7. QED BY <1>4, <1>6

LEMMA TallyPostEnds ==
    ASSUME MakerShape, MakerShape', PolledShown, Fitting, NEW o \in Quote, Awaited(o),
           NEW live \in {maker.live, maker.live \cup {o}}, PostEnds(o, live),
           inventory' = inventory, \A p \in Quote : leg'[p].size = leg[p].size
    PROVE  PolledShown' /\ Fitting'
<1>1. /\ maker.at = "answer" /\ polled = {} /\ maker.left = {} /\ maker.ended = {} /\ active = 0
      /\ maker.live \subseteq Both(maker.pair) /\ o \in Both(maker.pair) /\ o[2] = maker.pair
      /\ maker.pair # 0
  BY InQuote DEF Awaited, PolledShown, MakerShape, LocalsUsed
<1>2. live \in SUBSET Both(maker.pair) BY <1>1
<1>3. maker \in [at : Where, pair : Nat, todo : SUBSET Quote, live : SUBSET Quote,
                 left : SUBSET Quote, ended : SUBSET Quote]
  BY DEF MakerShape, LocalsTyped
<1>4. CASE o[1] = "bid"
  <2>1. maker' = [maker EXCEPT !.at = "posts", !.todo = {}, !.live = live] /\ polled' = polled
    BY <1>4 DEF PostEnds
  <2>2. /\ maker'.at = "posts" /\ maker'.pair = maker.pair /\ maker'.left = maker.left
        /\ maker'.ended = maker.ended
    BY <1>3, <2>1
  <2>3. PolledShown' BY <1>1, <2>1, <2>2 DEF PolledShown
  <2>4. QED BY <1>1, <2>1, <2>2, <2>3, FittingKept
<1>5. CASE o[1] # "bid"
  <2>1. /\ active' = IF live = Both(maker.pair) THEN maker.pair ELSE active
        /\ polled' = IF live = Both(maker.pair) \/ Survivor(live) # {} THEN polled \cup live ELSE polled
        /\ maker' = IF Survivor(live) # {}
                     THEN [Awake("survivor") EXCEPT !.todo = Survivor(live)]
                     ELSE [Awake("fills") EXCEPT !.left = polled']
    BY <1>1, <1>5 DEF PostEnds
  <2>2. polled' \subseteq Both(maker.pair) BY <1>1, <1>2, <2>1
  <2>3. CASE live # {} /\ live # Both(maker.pair)
    <3>1. /\ maker'.at = "survivor" /\ maker'.todo = live /\ maker'.left = {} /\ maker'.ended = {}
          /\ polled' = live
      BY <1>1, <1>2, <2>1, <2>3, Survivors DEF Awake
    <3>2. PolledShown' BY <3>1 DEF PolledShown
    <3>3. QED BY <1>1, <2>2, <3>1, <3>2, FittingKept
  <2>4. CASE live = {} \/ live = Both(maker.pair)
    <3>1. maker'.at = "fills" /\ maker'.left = polled' /\ maker'.ended = {}
      BY <1>2, <2>1, <2>4, Survivors DEF Awake
    <3>2. polled' \subseteq Prior' BY <1>1, <1>2, <2>1, <2>4, Survivors DEF Prior
    <3>3. PolledShown' BY <3>1, <3>2 DEF PolledShown
    <3>4. QED BY <1>1, <2>2, <3>1, <3>3, FittingKept
  <2>5. QED BY <2>3, <2>4
<1>6. QED BY <1>4, <1>5

\* A leg is counted once, and its twin fits as it did before, or better.
LEMMA TallyPolls ==
    ASSUME MakerShape, MakerShape', PolledShown, Fitting, NEW o \in Quote,
           PollsLeg(o) \/ PollFails(o)
    PROVE  PolledShown' /\ Fitting'
<1>1. /\ maker.at = "fills" /\ o \in maker.left /\ leg' = leg /\ active' = active
      /\ polled' = polled
  BY DEF PollsLeg, PollFails, NextToPoll, books
<1>2. maker \in [at : Where, pair : Nat, todo : SUBSET Quote, live : SUBSET Quote,
                 left : SUBSET Quote, ended : SUBSET Quote]
  BY DEF MakerShape, LocalsTyped
<1>3. o \in polled \ maker.ended /\ polled \subseteq Prior
  BY <1>1 DEF PolledShown
<1>4. /\ maker'.at = "fills" /\ maker'.left = maker.left \ {o} /\ maker'.pair = maker.pair
      /\ \/ maker'.ended = maker.ended /\ inventory' = inventory
         \/ maker'.ended = maker.ended \cup {o} /\ inventory' \in {inventory, Tallied(o)}
  <2>1. CASE PollFails(o) BY <1>1, <1>2, <2>1 DEF PollFails, books
  <2>2. CASE PollsLeg(o)
    <3>1. /\ maker' = [maker EXCEPT !.left = @ \ {o}, !.ended = IF Ended(o) THEN @ \cup {o} ELSE @]
          /\ inventory' = IF Filled(o) THEN Tallied(o) ELSE inventory
      BY <2>2 DEF PollsLeg
    <3>2. Filled(o) => Ended(o) BY DEF Filled, Ended
    <3>3. /\ maker'.at = maker.at /\ maker'.left = maker.left \ {o} /\ maker'.pair = maker.pair
          /\ maker'.ended = IF Ended(o) THEN maker.ended \cup {o} ELSE maker.ended
      BY <1>2, <3>1
    <3>4. QED BY <1>1, <3>1, <3>2, <3>3
  <2>3. QED BY <2>1, <2>2
<1>5. PolledShown'
  <2>1. maker'.left \subseteq polled' \ maker'.ended
    BY <1>1, <1>4 DEF PolledShown
  <2>2. Prior' = Prior BY <1>1 DEF Prior
  <2>3. QED BY <1>1, <1>3, <1>4, <2>1, <2>2 DEF PolledShown
<1>6. CASE inventory' = inventory
  <2>1. \A p \in polled' \ maker'.ended : p \in polled \ maker.ended
    BY <1>1, <1>4
  <2>2. Fitting' BY <1>1, <1>4, <1>6, <2>1, FittingKept
  <2>3. QED BY <1>5, <2>2
<1>7. CASE maker'.ended = maker.ended \cup {o} /\ inventory' = Tallied(o)
  <2>1. /\ leg[o].size \in Nat /\ inventory \in Int /\ MaxInventory \in Nat
        /\ inventory <= MaxInventory /\ inventory >= -MaxInventory
    BY PolledTyped DEF Fitting, Absolute
  <2>2. FitsCapacity(o) BY <1>3 DEF Fitting
  <2>3. inventory' <= MaxInventory /\ inventory' >= -MaxInventory
    BY <1>7, <2>1, <2>2 DEF FitsCapacity, Tallied
  <2>4. ASSUME NEW p \in polled' \ maker'.ended PROVE FitsCapacity(p)'
    <3>1. p \in Prior /\ p # o /\ o \in Prior /\ p \in Quote
      BY <1>1, <1>3, <1>7, <2>4, PolledTyped
    <3>2. p[2] = o[2] BY <3>1 DEF MakerShape, OnePair, InPlay
    <3>3. /\ p = <<p[1], o[2]>> /\ o = <<o[1], o[2]>> /\ o[2] \in 1 .. Pairs
          /\ p[1] \in {"bid", "ask"} /\ o[1] \in {"bid", "ask"}
      BY <3>1, <3>2, InQuote DEF Sides
    <3>4. p[1] # o[1] BY <3>1, <3>3
    <3>5. leg[p].size = leg[o].size BY <3>3, <3>4 DEF Fitting
    <3>6. QED BY <1>1, <1>7, <2>1, <3>3, <3>4, <3>5 DEF FitsCapacity, Tallied
  <2>5. maker'.at = "fills" BY <1>4
  <2>6. Absolute(inventory') <= MaxInventory
    <3>1. inventory' \in Int BY DEF MakerShape, MakerTypeOK
    <3>2. QED BY <2>1, <2>3, <3>1, AbsoluteWithin
  <2>7. Fitting' BY <1>1, <2>4, <2>5, <2>6 DEF Fitting
  <2>8. QED BY <1>5, <2>7
<1>8. QED BY <1>4, <1>6, <1>7

LEMMA TallyVenue ==
    ASSUME MakerShape, MakerShape', PolledShown, Fitting, NEW o \in Quote,
           QuoteLands(o) \/ QuoteMatches(o) \/ MonitorReaps(o)
    PROVE  PolledShown' /\ Fitting'
<1>1. active' = active /\ polled' = polled /\ inventory' = inventory /\ maker' = maker
  BY DEF QuoteLands, QuoteMatches, MonitorReaps, books
<1>2. \A p \in Quote : leg'[p].size = leg[p].size
  BY DEF QuoteLands, QuoteMatches, MonitorReaps, Cancelled, Rests, MakerShape, MakerTypeOK
<1>3. PolledShown' BY <1>1 DEF PolledShown, Prior
<1>4. \A p \in polled' \ maker'.ended : p \in polled \ maker.ended BY <1>1
<1>5. Fitting' BY <1>1, <1>2, <1>4, FittingKept
<1>6. QED BY <1>3, <1>5

TallyInv == StackInv /\ Tallying

LEMMA TallyStep == ASSUME TallyInv, [MakerNext]_makerVars PROVE TallyInv'
<1>1. StackInv' /\ MakerShape /\ MakerShape' /\ mishaps \in Nat /\ mishaps' \in Nat
  BY StackStep, MakerAssumption DEF TallyInv, StackInv, MakerShape, MakerTypeOK
<1> SUFFICES ASSUME mishaps' = 0 PROVE PolledShown' /\ Fitting'
  BY <1>1 DEF TallyInv, Tallying
<1>2. ~Mishap BY <1>1 DEF Mishap
<1>3. mishaps = 0
  <2>1. mishaps' = mishaps
    BY <1>2 DEF MakerNext, MakerStep, CancelsStale, QuotesNothing, KeepsQuote, NothingToCancel,
       FillsChecked, FormsPair, LegCancelled, LegCancelLost, LegSent, LegPosted, LegRefused,
       LegLost, PollsLeg, PollFails, Abandons, MakerRestart, QuoteLands, QuoteMatches,
       MonitorReaps, makerVars
  <2>2. QED BY <2>1
<1>4. PolledShown /\ Fitting BY <1>3 DEF TallyInv, Tallying
<1>5. CASE CancelsStale \/ QuotesNothing \/ KeepsQuote \/ NothingToCancel \/ FillsChecked
  BY <1>1, <1>4, <1>5, TallyCycle
<1>6. CASE FormsPair BY <1>1, <1>4, <1>6, TallyForms
<1>7. ASSUME NEW o \in Quote, LegCancelled(o) PROVE PolledShown' /\ Fitting'
  BY <1>1, <1>4, <1>7, TallyCancelEnds DEF LegCancelled
<1>8. ASSUME NEW o \in Quote, LegSent(o) PROVE PolledShown' /\ Fitting'
  BY <1>1, <1>4, <1>8, TallySent
<1>9. ASSUME NEW o \in Quote, LegPosted(o) PROVE PolledShown' /\ Fitting'
  BY <1>1, <1>4, <1>9, TallyPostEnds DEF LegPosted
<1>10. ASSUME NEW o \in Quote, LegRefused(o) PROVE PolledShown' /\ Fitting'
  <2>1. \A p \in Quote : leg'[p].size = leg[p].size
    BY <1>1, <1>10 DEF LegRefused, MakerShape, MakerTypeOK
  <2>2. QED BY <1>1, <1>4, <1>10, <2>1, TallyPostEnds DEF LegRefused
<1>11. ASSUME NEW o \in Quote, PollsLeg(o) \/ PollFails(o) PROVE PolledShown' /\ Fitting'
  BY <1>1, <1>4, <1>11, TallyPolls
<1>12. ASSUME NEW o \in Quote, QuoteLands(o) \/ QuoteMatches(o) \/ MonitorReaps(o)
       PROVE  PolledShown' /\ Fitting'
  BY <1>1, <1>4, <1>12, TallyVenue
<1>13. CASE UNCHANGED makerVars
  BY <1>4, <1>13 DEF makerVars, books, PolledShown, Fitting, FitsCapacity, Prior
<1>14. QED
  BY <1>2, <1>5, <1>6, <1>7, <1>8, <1>9, <1>10, <1>11, <1>12, <1>13
  DEF MakerNext, MakerStep, LegCancelLost, LegLost, Abandons, MakerRestart

LEMMA TallyInit == MakerInit => TallyInv
<1> SUFFICES ASSUME MakerInit PROVE TallyInv OBVIOUS
<1>1. PolledShown BY DEF MakerInit, PolledShown, Asleep, Awake
<1>2. Fitting
  BY MakerAssumption, InQuote DEF MakerInit, Fitting, Absolute, Asleep, Awake, Sides
<1>3. QED BY <1>1, <1>2, StackInit DEF TallyInv, Tallying

\* Of any number of quotes, refreshed, refused in part, filled on either side and polled
\* in any order: while nothing is lost, the inventory as counted stays within its
\* capacity (TrackedWithinCapacity; check_fills and _update_inventory).
THEOREM CapacityIsTracked == MakerSpec => []TrackedWithinCapacity
<1>1. MakerInit => TallyInv BY TallyInit
<1>2. TallyInv /\ [MakerNext]_makerVars => TallyInv' BY TallyStep
<1>3. TallyInv => TrackedWithinCapacity
  BY DEF TallyInv, Tallying, Fitting, TrackedWithinCapacity
<1>4. QED BY <1>1, <1>2, <1>3, PTL DEF MakerSpec
=============================================================================
