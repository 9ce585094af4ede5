----------------------------- MODULE MarketData -----------------------------
(***************************************************************************)
(* The market data board of one instrument: exchangesim/core/marketdata.py *)
(* (MarketDataService.ladder) over the reference data of                   *)
(* exchangesim/core/instrument.py.                                         *)
(*                                                                         *)
(* The board is a window of tick-aligned prices around the touch, of at    *)
(* most LadderRows rows on either side of the centre.  The rows are a set  *)
(* of prices here: the code lists them from the highest down.  Formatting, *)
(* the trade tape and the session statistics are left out, so the anchor   *)
(* of an empty book is the base price, also after a trade.                 *)
(***************************************************************************)
EXTENDS Market

CONSTANTS
    TickRows,        \* TickTable rows of the instrument's tier: bound -> tick
    BandRows,        \* BandTable rows: bound -> band
    BasePrice,       \* Instrument.base_price
    LadderRows,      \* the rows argument of the ladder command
    Centers          \* the center arguments of the ladder command

ASSUME TablesAssumption ==
    /\ \A rows \in {TickRows, BandRows} :
          /\ DOMAIN rows \subseteq Nat
          /\ 0 \in DOMAIN rows
    /\ \A bound \in DOMAIN TickRows :
          /\ TickRows[bound] \in Nat \ {0}
          /\ bound % TickRows[bound] = 0
    /\ BasePrice \in Nat \ {0}
    /\ LadderRows \in Nat \ {0}
    /\ Centers \subseteq Nat \ {0}

\* bisect_right: the row with the greatest lower bound not above the price.
RowFor(rows, price) == rows[Max({b \in DOMAIN rows : b <= price})]

band_for == RowFor(BandRows, BasePrice)

tick_for(price) == RowFor(TickRows, price)

\* Instrument.price_limits without an override: the lower limit is floored at
\* one price unit.
price_limits == << Greater(1, BasePrice - band_for), BasePrice + band_for >>

is_within_band(price) == price_limits[1] <= price /\ price <= price_limits[2]

is_on_tick(price) == price % tick_for(price) = 0

----------------------------------------------------------------------------

PricesOf(side) == {orders[o].price : o \in Priced(place, side)}

quantity_at(side, price) ==
    Quantity({o \in Priced(place, side) : orders[o].price = price})

at_market_quantity(side) == Quantity(AtMarket(place, side))

\* The ladder command may name a centre of its own.
Automatic == 0

\* _anchor: where the board is centred, before it is snapped onto the ladder.
anchor(center) ==
    LET bids == PricesOf("BUY")
        asks == PricesOf("SELL")
    IN  CASE center # Automatic -> center
          [] bids # {} /\ asks # {} -> (Max(bids) + Min(asks)) \div 2
          [] bids # {} /\ asks = {} -> Max(bids)
          [] bids = {} /\ asks # {} -> Min(asks)
          [] OTHER -> BasePrice

Snapped(price) == price - (price % tick_for(price))

\* Each step up takes the tick of the price being left.
Above(centre) ==
    LET up[n \in 0..LadderRows] ==
            IF n = 0 THEN centre ELSE up[n - 1] + tick_for(up[n - 1])
    IN  {p \in {up[n] : n \in 1..LadderRows} : p <= price_limits[2]}

\* Mutant: the step down takes the tick of the price being left, too.
BelowByOwnTick(centre) ==
    LET down[n \in 0..LadderRows] ==
            IF n = 0 THEN centre
            ELSE down[n - 1] - tick_for(Greater(1, down[n - 1]))
    IN  {p \in {down[n] : n \in 1..LadderRows} : p >= price_limits[1]}

\* A step down consults price - 1: a price exactly on a boundary of the tick table
\* takes the lower row's tick.
Below(centre) ==
    LET down[n \in 0..LadderRows] ==
            IF n = 0 THEN centre
            ELSE down[n - 1] - tick_for(Greater(1, down[n - 1] - 1))
    IN  {p \in {down[n] : n \in 1..LadderRows} : p >= price_limits[1]}

\* _walk; a limit is never below one price unit.
Walk(centre) ==
    Above(centre) \cup Below(centre)
        \cup (IF is_within_band(centre) THEN {centre} ELSE {})

\* The board: the quantity in the rows, of the at-auction orders, and resting
\* outside the window as OVER and UNDER.
ladder(center) ==
    LET prices == Walk(Snapped(anchor(center)))
        InRows(side) == MapThenSumSet(LAMBDA p : quantity_at(side, p), prices)
        Beyond(side, Outside(_)) ==
            MapThenSumSet(LAMBDA p : quantity_at(side, p),
                          {p \in PricesOf(side) : Outside(p)})
    IN  [prices |-> prices,
         bids   |-> InRows("BUY"),
         asks   |-> InRows("SELL"),
         bidAtAuction |-> at_market_quantity("BUY"),
         askAtAuction |-> at_market_quantity("SELL"),
         over   |-> IF prices = {} THEN 0
                    ELSE Beyond("SELL", LAMBDA p : p > Max(prices)),
         under  |-> IF prices = {} THEN 0
                    ELSE Beyond("BUY", LAMBDA p : p < Min(prices))]

----------------------------------------------------------------------------

\* The orders of a side that a board of these rows has a place for: a bid above the
\* highest row and an offer below the lowest have none.
Shown(side, prices) ==
    {o \in Resting(place, side) :
        \/ IsPriceless(orders[o])
        \/ prices # {} /\ IF side = "BUY" THEN orders[o].price <= Max(prices)
                          ELSE orders[o].price >= Min(prices)}

\* "so the board still accounts for the whole book at a fixed height"
\* (MarketDataService.ladder): the rows of the board, its at-auction quantities and
\* what is over and under the window add up to what rests, however the window
\* straddles the tick table: to everything, while the book is not crossed and the
\* board is centred on it, and to what the window does not lie beyond, for a centre
\* the operator names.
LadderAccountsForBook ==
    task = "idle" => \A center \in {Automatic} \cup Centers :
        LET board == ladder(center)
            whole == center = Automatic /\ ~IsCrossed /\ OnBook # {}
            Accounted(side) == IF whole THEN Resting(place, side) ELSE Shown(side, board.prices)
        IN  /\ board.bids + board.under + board.bidAtAuction = Quantity(Accounted("BUY"))
            /\ board.asks + board.over + board.askAtAuction = Quantity(Accounted("SELL"))

=============================================================================
