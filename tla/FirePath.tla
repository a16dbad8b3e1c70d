------------------------------ MODULE FirePath ------------------------------
(***************************************************************************)
(* ExecutorServer::handle_fire (src/executor.cpp) and what it uses: the    *)
(* defaults of a decoded wake, the price guard, snap_to_grid, the kill     *)
(* switch and the order templates.  The server's thread handles one wake   *)
(* at a time while an operator toggles the kill switch and time passes.    *)
(***************************************************************************)
EXTENDS KillSwitch, Pricing

CONSTANTS
    WirePrices,   \* wire_price_yes_dollars values a frame may carry, in ticks
    PriceGrids,   \* price_ranges values a frame may carry
    Tickers,      \* market_ticker
    NotSent,      \* a field an older poller's frame leaves out
    MaxFires      \* bound: wakes handled

ASSUME FirePathAssumption ==
    /\ WirePrices \subseteq Int
    /\ PriceGrids \subseteq Seq([start : Int, end : Int, step : Int])
    /\ NotSent \notin PriceGrids
    /\ MaxFires \in Nat

VARIABLES
    fpc,         \* where handle_fire is
    message,     \* the wake being handled, decoded
    frame,       \* the fields of its frame that have defaults
    wire_price,  \* handle_fire's local of that name
    orders,      \* the FireRequests given to config_.dispatch
    templates,   \* templates_: the tickers already built
    fires_dispatched, fires_refused_price, fires_refused_kill_switch,
    handled      \* history: calls of handle_fire

fireVars == <<fpc, message, frame, wire_price, orders, templates, fires_dispatched,
              fires_refused_price, fires_refused_kill_switch, handled>>
vars == <<switchVars, fireVars>>

Sides == {"yes", "no"}
NoFrame == [dry_run |-> TRUE, price |-> NotSent, ranges |-> NotSent]
DefaultRanges == << [start |-> 0, end |-> One, step |-> CentGrid] >>

\* Mutant: a price that was not sent taken for an even one.
DecodeWithEvenPrice(f, ticker, side) ==
    [dry_run |-> f.dry_run, ticker |-> ticker, side |-> side,
     price |-> IF f.price = NotSent THEN One \div 2 ELSE f.price,
     ranges |-> IF f.ranges = NotSent THEN DefaultRanges ELSE f.ranges]

\* decode_wake_message fills a WakeMessage whose members carry the defaults.
DecodeFrame(f, ticker, side) ==
    [dry_run |-> f.dry_run, ticker |-> ticker, side |-> side,
     price |-> IF f.price = NotSent THEN 0 ELSE f.price,
     ranges |-> IF f.ranges = NotSent THEN DefaultRanges ELSE f.ranges]

Init ==
    /\ SwitchInit
    /\ fpc = "idle" /\ frame = NoFrame
    /\ message \in {DecodeFrame(NoFrame, t, "yes") : t \in Tickers}
    /\ wire_price = 0 /\ orders = << >> /\ templates = {}
    /\ fires_dispatched = 0 /\ fires_refused_price = 0
    /\ fires_refused_kill_switch = 0 /\ handled = 0

-----------------------------------------------------------------------------
\* A wake arrives, acked and recorded: see ExecutorServer.
Receive ==
    /\ fpc = "idle" /\ handled < MaxFires
    /\ frame' \in [dry_run : BOOLEAN, price : WirePrices \cup {NotSent},
                   ranges : PriceGrids \cup {NotSent}]
    /\ \E t \in Tickers, s \in Sides : message' = DecodeFrame(frame', t, s)
    /\ handled' = handled + 1
    /\ fpc' = "price"
    /\ UNCHANGED <<switchVars, wire_price, orders, templates, fires_dispatched,
                   fires_refused_price, fires_refused_kill_switch>>

Untradeable(price) == price <= 0 \/ price >= One

RefusePrice == ~message.dry_run /\ Untradeable(message.price)

\* The price guard, then the snap: both on locals.
PriceGuard ==
    /\ fpc = "price"
    /\ IF RefusePrice
         THEN /\ fires_refused_price' = fires_refused_price + 1
              /\ fpc' = "idle"
              /\ UNCHANGED wire_price
         ELSE /\ \E off \in Offsets :
                    wire_price' = SnapToGrid(message.price, message.ranges, off)
              /\ fpc' = IF message.dry_run THEN "dispatch" ELSE "switch"
              /\ UNCHANGED fires_refused_price
    /\ UNCHANGED <<switchVars, message, frame, orders, templates, fires_dispatched,
                   fires_refused_kill_switch, handled>>

\* is_engaged(), in KillSwitch's steps.
AskKillSwitch ==
    /\ fpc = "switch" /\ AskSwitch
    /\ fpc' = "switch_asked"
    /\ UNCHANGED <<message, frame, wire_price, orders, templates, fires_dispatched,
                   fires_refused_price, fires_refused_kill_switch, handled>>

StatKillSwitch ==
    /\ fpc = "switch_asked" /\ StatSwitch
    /\ UNCHANGED fireVars

\* Mutant: the kill switch consulted and its answer not acted on.
KillSwitchAnsweredIgnored ==
    /\ fpc = "switch_asked" /\ kpc = "answered"
    /\ fpc' = "dispatch"
    /\ UNCHANGED <<switchVars, message, frame, wire_price, orders, templates,
                   fires_dispatched, fires_refused_price, fires_refused_kill_switch,
                   handled>>

KillSwitchAnswered ==
    /\ fpc = "switch_asked" /\ kpc = "answered"
    /\ fpc' = IF answer THEN "idle" ELSE "dispatch"
    /\ fires_refused_kill_switch' =
          fires_refused_kill_switch + (IF answer THEN 1 ELSE 0)
    /\ UNCHANGED <<switchVars, message, frame, wire_price, orders, templates,
                   fires_dispatched, fires_refused_price, handled>>

\* templates_.acquire() and config_.dispatch().  The order notes what it was made
\* from: its frame, and the last answer of the kill switch to it.
Dispatch ==
    /\ fpc = "dispatch"
    /\ templates' = templates \cup {message.ticker}
    /\ orders' = Append(orders,
          [ticker |-> message.ticker, side |-> message.side, price |-> wire_price,
           dry_run |-> message.dry_run, frame |-> frame,
           late |-> ~message.dry_run /\ file /\ ~misread /\ due <= asked_at])
    /\ fires_dispatched' = fires_dispatched + 1
    /\ fpc' = "idle"
    /\ UNCHANGED <<switchVars, message, frame, wire_price, fires_refused_price,
                   fires_refused_kill_switch, handled>>

\* The owner of the KillSwitch calls engage() or release() between two wakes.
OwnerSwitches == fpc = "idle" /\ (Engage \/ Release) /\ UNCHANGED fireVars

Next ==
    \/ Receive \/ PriceGuard \/ AskKillSwitch \/ StatKillSwitch
    \/ KillSwitchAnswered \/ Dispatch \/ OwnerSwitches
    \/ (OperatorToggles \/ Tick) /\ UNCHANGED fireVars

Spec == Init /\ [][Next]_vars

-----------------------------------------------------------------------------
(* Properties.                                                             *)

\* The variables keep their types, and a template exists for every ticker that
\* an order was built for.
TypeOK ==
    /\ SwitchTypeOK
    /\ fpc \in {"idle", "price", "switch", "switch_asked", "dispatch"}
    /\ message.ticker \in Tickers /\ message.side \in Sides
    /\ message.dry_run = frame.dry_run
    /\ wire_price \in Int
    /\ templates = {orders[i].ticker : i \in DOMAIN orders}
    /\ handled \in 0..MaxFires

\* "A file exists at a known path and new real dispatch stops": no real order
\* leaves for a wake whose check came Ttl or more after the file appeared,
\* unless the stat behind that check failed.
RealOrdersHonourSwitch == \A i \in DOMAIN orders : ~orders[i].late

\* "An older poller degrades to a refused fire": a real order always comes from
\* a price that its frame carried, a tradeable one, snapped to the grid of the
\* frame, or to cents.
RealOrdersPricedByFrame ==
    \A i \in DOMAIN orders :
        LET o == orders[i] IN
        ~o.dry_run =>
            /\ o.frame.price # NotSent /\ 0 < o.frame.price /\ o.frame.price < One
            /\ Abs(2 * (o.price - o.frame.price)) <=
                  StepFor(o.frame.price,
                          IF o.frame.ranges = NotSent THEN << >> ELSE o.frame.ranges)

\* "A real fire without a tradeable [wire price] is refused": the price a real
\* order carries is tradeable.
RealOrdersTradeable ==
    \A i \in DOMAIN orders : ~orders[i].dry_run => ~Untradeable(orders[i].price)

=============================================================================
