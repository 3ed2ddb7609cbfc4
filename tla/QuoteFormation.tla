----------------------------- MODULE QuoteFormation -----------------------------
(***************************************************************************)
(* form_coupled_quote (experiments/strategies/market_maker.py): from the   *)
(* best prices of a market's YES book and the YES tokens already held, the *)
(* two legs of a post-only quote.                                          *)
(*                                                                         *)
(* Book prices are in tenths of a cent, as fine as the venue quotes, the   *)
(* quote's in cents, sizes in hundredths of a token.  The code computes in *)
(* binary floats: what falls on a tie may go either way.                   *)
(***************************************************************************)
EXTENDS Integers

CONSTANTS
    BestPrices,    \* the books: pairs of a best bid and a best ask
    Held,          \* the inventories
    QuoteSize,     \* quote_size
    MaxHeld,       \* max_inventory
    MinSpread,     \* min_spread_bps, in tenths of a cent
    MaxSpread      \* max_spread_bps, in tenths of a cent

ASSUME FormationAssumption ==
    /\ \A b \in BestPrices : /\ b \in [bid : Nat, ask : Nat]
                              /\ 0 < b.bid /\ b.bid < b.ask /\ b.ask < 1000
    /\ \A held \in Held : held \in Int
    /\ QuoteSize \in Nat \ {0} /\ MaxHeld \in Nat \ {0}
    /\ MinSpread \in Nat /\ MinSpread <= MaxSpread

VARIABLES
    bbo,    \* the best bid and ask
    stock,  \* the inventory
    offer   \* the quote formed of them

formationVars == <<bbo, stock, offer>>

NoOffer == [bid |-> 0, ask |-> 0, size |-> 0]

-----------------------------------------------------------------------------
(* Arithmetic.                                                             *)

Distance(a, b) == IF a < b THEN b - a ELSE a - b

Smaller(a, b) == IF a < b THEN a ELSE b
Larger(a, b) == IF a < b THEN b ELSE a

\* round(n / d): the nearest integer, either of two on a tie.
Rounded(n, d) == {k \in {n \div d, n \div d + 1} : 2 * Distance(k * d, n) <= d}

\* round(price, 2), in cents.
Cents(tenths) == Rounded(tenths, 10)

\* ceil(100 / price), in hundredths of a token.
FewestFor(cents) == (10000 + cents - 1) \div cents

Clamped(cents) == Larger(1, Smaller(99, cents))

-----------------------------------------------------------------------------
(* The quote.                                                              *)

\* Step inside the book by a cent, unless too little would be left between the legs;
\* at exactly min_spread_bps int() may truncate below it.
Stepped(b) ==
    LET left == b.ask - b.bid - 20
    IN  (IF left >= MinSpread
         THEN {[bid |-> x, ask |-> y] : x \in Cents(b.bid + 10), y \in Cents(b.ask - 10)}
         ELSE {})
        \cup
        (IF left <= MinSpread
         THEN {[bid |-> x, ask |-> y] : x \in Cents(b.bid), y \in Cents(b.ask)}
         ELSE {})

\* Both legs lean against the inventory, by up to three cents.
Skewed(q, held) ==
    {[bid |-> Clamped(q.bid - k), ask |-> Clamped(q.ask - k)] : k \in Rounded(3 * held, MaxHeld)}

\* Mutant: a bid on the ask is allowed.
Uncrossed_On(q, b) ==
    {[bid |-> x, ask |-> y] :
        x \in IF 10 * q.bid > b.ask THEN Cents(b.ask - 10) ELSE {q.bid},
        y \in IF 10 * q.ask <= b.bid THEN Cents(b.bid + 10) ELSE {q.ask}}

\* A leg that would cross the book goes back to a cent from it.
Uncrossed(q, b) ==
    {[bid |-> x, ask |-> y] :
        x \in IF 10 * q.bid >= b.ask THEN Cents(b.ask - 10) ELSE {q.bid},
        y \in IF 10 * q.ask <= b.bid THEN Cents(b.bid + 10) ELSE {q.ask}}

\* bid_gte_ask, spread_too_narrow, invalid_no_price; a bid of nothing raises.
Acceptable(q) ==
    /\ 0 < q.bid /\ q.bid < q.ask /\ q.ask <= 99
    /\ 10 * (q.ask - q.bid) >= MinSpread

\* The size both legs share: what the inventory leaves room for, or the venue's
\* dollar a leg if that is more and there is room for it; 0 for none.
SizeOf(q, held) ==
    LET room == MaxHeld - Distance(held, 0)
        wanted == Smaller(QuoteSize, room)
        cheaper == Smaller(q.bid, 100 - q.ask)
    IN  IF wanted < 100 THEN 0
        ELSE IF wanted * cheaper >= 10000 THEN wanted
        ELSE IF FewestFor(cheaper) > room THEN 0
        ELSE FewestFor(cheaper)

Prices(b, held) ==
    IF b.ask - b.bid > MaxSpread THEN {}
    ELSE UNION {Uncrossed(q, b) : q \in UNION {Skewed(s, held) : s \in Stepped(b)}}

\* form_coupled_quote: what it may answer.
Formed(b, held) ==
    {IF Acceptable(q) /\ SizeOf(q, held) > 0
     THEN [bid |-> q.bid, ask |-> q.ask, size |-> SizeOf(q, held)]
     ELSE NoOffer : q \in Prices(b, held)}
    \cup IF Prices(b, held) = {} THEN {NoOffer} ELSE {}

-----------------------------------------------------------------------------
FormationInit ==
    /\ bbo \in BestPrices
    /\ stock \in Held
    /\ offer = NoOffer

FormsQuote ==
    /\ offer = NoOffer
    /\ offer' \in Formed(bbo, stock)
    /\ UNCHANGED <<bbo, stock>>

FormationSpec == FormationInit /\ [][FormsQuote]_formationVars

-----------------------------------------------------------------------------
(* Properties.                                                             *)

\* "An indivisible YES/NO maker quote": whatever the book, the skew and the rounding,
\* neither leg crosses it (post-only would refuse that leg and leave the other naked),
\* the two cost less than the dollar the pair pays, each is worth the venue's dollar
\* minimum, and filling either keeps the inventory within its capacity.
QuotesAreSound ==
    offer # NoOffer =>
        /\ 10 * offer.bid < bbo.ask
        /\ 10 * offer.ask > bbo.bid
        /\ offer.bid + (100 - offer.ask) < 100
        /\ offer.size * offer.bid >= 10000
        /\ offer.size * (100 - offer.ask) >= 10000
        /\ Distance(stock, 0) + offer.size <= MaxHeld
=============================================================================
