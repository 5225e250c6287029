------------------------------ MODULE SpotSell ------------------------------
(***************************************************************************)
(* Selling one deal: Orders.receive_sell_order, the limit sell with its    *)
(* timeout, cancel and market fallback (ExchangeSellManager,               *)
(* ExchangeLimitOrderManager, ExchangeLimitSellManager), and the booking   *)
(* of what the attempt reports.                                            *)
(*                                                                         *)
(* The sell lock of the symbol admits one attempt at a time and a second   *)
(* caller returns at once, so an attempt is one process; the exchange      *)
(* moves between any two of its awaits.                                    *)
(***************************************************************************)
EXTENDS Integers

CONSTANTS
    Amounts,      \* what a deal may have bought
    Other,        \* coins of the same asset in the account that are not the deal's
    Step,         \* the amount precision of the market
    Dust,         \* the largest amount below the exchange's minimum notional
    OrderTypes,   \* sell_order_type, "limit" or "market"
    Fallback,     \* limit_sell_fallback_to_market
    MaxTries,     \* attempts of a market sell, stop_after_attempt(200)
    Lookups,      \* what a trade lookup returns: "found", "empty", "error"
    Faults,       \* "reply": an order reaches the exchange, its reply never comes back;
                  \* "fetch": the state of an order or the balance cannot be read
    CrashPoints   \* where an attempt may be cancelled or the process may die

ASSUME SellAssumption ==
    /\ Amounts \subseteq Nat /\ Step \in Nat \ {0}
    /\ Other \in Nat /\ Dust \in Nat /\ MaxTries \in Nat
    /\ Fallback \in BOOLEAN
    /\ "idle" \notin CrashPoints

VARIABLES
    wallet,    \* free balance of the coin
    limit,     \* the limit order of the attempt, as it stands on the exchange
    strays,    \* coins in open orders that no attempt follows any more
    sold,      \* coins the exchange has sold
    bought,    \* what the Trades rows of the deal add up to
    deal,      \* the OpenTrades row: "open", or how it went away
    booked,    \* OpenTrades.sold_amount
    closed,    \* what ClosedTrades says the deal has sold
    archived,  \* what UnsellableTrades says is left of it
    pc,        \* where the attempt is suspended
    sell       \* the order payload and the status built from it

vars == <<wallet, limit, strays, sold, bought, deal, booked, closed, archived,
          pc, sell>>

exchange == <<wallet, limit, strays, sold>>
ledger == <<bought, deal, booked, closed, archived>>

NoLimit == [status |-> "none", amount |-> 0, filled |-> 0]

NoSell == [requested |-> 0, amount |-> 0, partial |-> 0, market |-> 0,
           steps |-> 0, tries |-> 0, remaining |-> 0, dust |-> FALSE]

Init ==
    /\ bought \in Amounts
    /\ wallet = bought + Other
    /\ limit = NoLimit
    /\ strays = 0
    /\ sold = 0
    /\ deal = "open"
    /\ booked = 0 /\ closed = 0 /\ archived = 0
    /\ pc = "idle"
    /\ sell = NoSell

NonNegative(n) == IF n > 0 THEN n ELSE 0

Rest(order) == order.amount - order.filled

\* An attempt that ends leaves an order that is still open to itself.
EndAttempt ==
    /\ pc' = "idle"
    /\ sell' = NoSell
    /\ limit' = NoLimit
    /\ strays' = strays + IF limit.status = "open" THEN Rest(limit) ELSE 0

-----------------------------------------------------------------------------
(***************************************************************************)
(* The exchange.                                                           *)
(***************************************************************************)
LimitFills(n) ==
    /\ limit.status = "open" /\ n <= Rest(limit) /\ n % Step = 0
    /\ limit' = [limit EXCEPT !.filled = @ + n,
                              !.status = IF n = Rest(limit) THEN "closed" ELSE @]
    /\ sold' = sold + n
    /\ UNCHANGED <<wallet, strays, ledger, pc, sell>>

\* The operator cancels the order, or the exchange ends it: rejected, expired.
LimitEnds(status) ==
    /\ limit.status = "open"
    /\ limit' = [limit EXCEPT !.status = status]
    /\ wallet' = wallet + Rest(limit)
    /\ UNCHANGED <<strays, sold, ledger, pc, sell>>

StrayFills(n) ==
    /\ n <= strays /\ n % Step = 0
    /\ strays' = strays - n
    /\ sold' = sold + n
    /\ UNCHANGED <<wallet, limit, ledger, pc, sell>>

-----------------------------------------------------------------------------
(***************************************************************************)
(* receive_sell_order and create_spot_limit_sell.                          *)
(***************************************************************************)
\* A mistake: the bookkeeping is not clamped at zero.
UnclampedSellable == bought - booked

\* get_token_amount_from_trades
Sellable == NonNegative(bought - booked)

StartSell(type) ==
    /\ pc = "idle" /\ deal = "open"
    /\ sell' = [NoSell EXCEPT !.requested = Sellable, !.amount = Sellable]
    /\ pc' = IF type = "limit" THEN "place" ELSE "market"
    /\ UNCHANGED <<exchange, ledger>>

\* amount_to_precision cuts an amount down; one below a step makes it raise.
Precise(n) == IF n < Step THEN n ELSE n - (n % Step)

\* Whether the balance is known.
Balances == IF "fetch" \in Faults THEN BOOLEAN ELSE {TRUE}

\* resolve_sell_amount: without a balance the requested amount is kept.
Available(known) ==
    Precise(IF known /\ wallet < sell.amount THEN wallet ELSE sell.amount)

NothingToSell(known) ==
    /\ pc \in {"place", "market"}
    /\ Available(known) = 0
    /\ EndAttempt
    /\ UNCHANGED <<wallet, sold, ledger>>

\* An order that fails to be placed, or never gets an id, falls back.
FallBack(amount) ==
    /\ sell' = [sell EXCEPT !.amount = amount]
    /\ pc' = "fallback"

PlaceLimit(known) ==
    LET amount == Available(known)
    IN  /\ pc = "place" /\ amount >= Step /\ amount > Dust /\ amount <= wallet
        /\ wallet' = wallet - amount
        /\ \/ /\ limit' = [status |-> "open", amount |-> amount, filled |-> 0]
              /\ sell' = [sell EXCEPT !.amount = amount]
              /\ pc' = "poll"
              /\ UNCHANGED strays
           \/ /\ "reply" \in Faults
              /\ strays' = strays + amount
              /\ FallBack(amount)
              /\ UNCHANGED limit
        /\ UNCHANGED <<sold, ledger>>

\* Below the minimum notional, or refused by the exchange.
LimitRefused(known) ==
    /\ pc = "place" /\ Available(known) >= Step
    /\ FallBack(Available(known))
    /\ UNCHANGED <<exchange, ledger>>

\* An amount below one step cannot be placed and is reported unsellable.
BelowPrecision(known) ==
    /\ pc = "place" /\ Available(known) \in 1 .. (Step - 1)
    /\ sell' = [sell EXCEPT !.remaining = Available(known), !.dust = TRUE]
    /\ pc' = "book"
    /\ UNCHANGED <<exchange, ledger>>

-----------------------------------------------------------------------------
(***************************************************************************)
(* handle_limit_sell_fill.                                                 *)
(***************************************************************************)
\* wait_for_limit_sell_fill sees the fill, or gives up: timeout, canceled.
PollFilled ==
    /\ pc = "poll" /\ limit.status = "closed"
    /\ pc' = "report"
    /\ UNCHANGED <<exchange, ledger, sell>>

\* A mistake: polling has no timeout.
PollEndsWithOrder ==
    /\ pc = "poll" /\ limit.status # "open"
    /\ pc' = "latest"
    /\ UNCHANGED <<exchange, ledger, sell>>

PollEnds ==
    /\ pc = "poll"
    /\ pc' = "latest"
    /\ UNCHANGED <<exchange, ledger, sell>>

\* The last look before the cancel: what it shows is what will be sold again.
FetchLatest ==
    /\ pc = "latest"
    /\ IF limit.status = "closed"
       THEN pc' = "report" /\ UNCHANGED sell
       ELSE /\ pc' = "cancel"
            /\ sell' = [sell EXCEPT !.amount = Rest(limit), !.partial = limit.filled]
    /\ UNCHANGED <<exchange, ledger>>

FetchFails ==
    /\ "fetch" \in Faults
    /\ pc = "latest"
    /\ pc' = "cancel"
    /\ UNCHANGED <<exchange, ledger, sell>>

\* cancel_order_safe only logs a failure.
CancelLimit ==
    /\ pc = "cancel"
    /\ pc' = "confirm"
    /\ IF limit.status = "open"
       THEN \/ /\ limit' = [limit EXCEPT !.status = "canceled"]
               /\ wallet' = wallet + Rest(limit)
            \/ UNCHANGED <<wallet, limit>>
       ELSE UNCHANGED <<wallet, limit>>
    /\ UNCHANGED <<strays, sold, ledger, sell>>

\* A mistake: the cancel is taken for done without a look at the order.
ConfirmUnseen ==
    /\ pc = "confirm"
    /\ pc' = IF sell.partial > 0 THEN "lookup" ELSE "fallback"
    /\ UNCHANGED <<exchange, ledger, sell>>

ConfirmCanceled ==
    /\ pc = "confirm" /\ limit.status \in {"closed", "canceled"}
    /\ pc' = IF sell.partial > 0 THEN "lookup" ELSE "fallback"
    /\ UNCHANGED <<exchange, ledger, sell>>

\* Five looks failed or did not show the order closed: no market fallback.
Unconfirmed ==
    /\ pc = "confirm"
    /\ EndAttempt
    /\ UNCHANGED <<wallet, sold, ledger>>

\* A mistake: the whole order is booked for what it has filled.
LookUpWhole ==
    /\ pc = "lookup" /\ {"found", "empty"} \cap Lookups # {}
    /\ sell' = [sell EXCEPT !.partial = limit.amount]
    /\ pc' = "fallback"
    /\ UNCHANGED <<exchange, ledger>>

\* parse_order_status: the fills of the order by now, or without any trade the
\* amount of the order itself.
LookUpPartial ==
    /\ pc = "lookup"
    /\ \/ "found" \in Lookups /\ sell' = [sell EXCEPT !.partial = limit.filled]
       \/ "empty" \in Lookups /\ sell' = [sell EXCEPT !.partial = limit.amount]
    /\ pc' = "fallback"
    /\ UNCHANGED <<exchange, ledger>>

\* Ten lookups failed: the error leaves the attempt.
LookUpFails ==
    /\ "error" \in Lookups
    /\ pc = "lookup" \/ (pc = "report" /\ sell.market = 0)
    /\ EndAttempt
    /\ UNCHANGED <<wallet, sold, ledger>>

-----------------------------------------------------------------------------
(***************************************************************************)
(* create_spot_sell after the limit order, and create_spot_market_sell.    *)
(***************************************************************************)
\* The fallback is disabled, or the live price is below the floor.
KeepPartial ==
    /\ pc = "fallback"
    /\ sell' = [sell EXCEPT !.remaining = sell.amount]
    /\ pc' = "book"
    /\ UNCHANGED <<exchange, ledger>>

GoToMarket ==
    /\ pc = "fallback" /\ Fallback
    /\ pc' = "market"
    /\ UNCHANGED <<exchange, ledger, sell>>

\* After a refusal for want of balance the amount is reduced step by step.
MarketAmount(known) == NonNegative(Available(known) - sell.steps * Step)

\* Below the price floor, or too small: nothing is sold at market.
MarketSkipped(known, dust) ==
    /\ pc = "market" /\ MarketAmount(known) >= Step
    /\ dust => MarketAmount(known) <= Dust
    /\ sell' = [sell EXCEPT !.remaining = MarketAmount(known), !.dust = dust]
    /\ pc' = "book"
    /\ UNCHANGED <<exchange, ledger>>

MarketFills(known) ==
    LET amount == MarketAmount(known)
    IN  /\ pc = "market" /\ amount >= Step /\ amount > Dust /\ amount <= wallet
        /\ wallet' = wallet - amount
        /\ sold' = sold + amount
        /\ \/ /\ sell' = [sell EXCEPT !.amount = amount, !.market = amount, !.steps = 0]
              /\ pc' = "report"
              /\ UNCHANGED <<limit, strays>>
           \/ "reply" \in Faults /\ EndAttempt
        /\ UNCHANGED ledger

\* An exchange or network error, or an amount below one step: a partial fill of
\* the limit order goes with it.
MarketFails ==
    /\ pc = "market"
    /\ EndAttempt
    /\ UNCHANGED <<wallet, sold, ledger>>

Retry(amount, steps) ==
    IF sell.tries < MaxTries
    THEN /\ sell' = [sell EXCEPT !.amount = amount, !.steps = steps, !.tries = @ + 1]
         /\ pc' = "market"
         /\ UNCHANGED <<limit, strays>>
    ELSE EndAttempt

MarketRefused(known) ==
    /\ pc = "market" /\ MarketAmount(known) >= Step /\ MarketAmount(known) > wallet
    /\ Retry(MarketAmount(known), sell.steps + 1)
    /\ UNCHANGED <<wallet, sold, ledger>>

\* The retry decorator covers the lookup too: the order is sent once more.
MarketLookUpFails ==
    /\ pc = "report" /\ sell.market > 0
    /\ "error" \in Lookups
    /\ Retry(sell.amount, sell.steps)
    /\ UNCHANGED <<wallet, sold, ledger>>

\* A mistake: the remainder is what the last order could not sell.
RemainderOfOrder(reported) == NonNegative(sell.amount - reported)

\* requested_total_amount is what the attempt started with.
Remainder(reported) == NonNegative(sell.requested - reported)

\* What the market sold comes on top of the partial fill of the limit order.
Merged(reported) == sell.partial + reported

\* __build_sell_order_status
Report ==
    LET reported == IF sell.market > 0 THEN sell.market ELSE limit.filled
        left     == Remainder(reported)
    IN  /\ pc = "report"
        /\ sell' = [sell EXCEPT !.partial = Merged(reported),
                                !.remaining = left,
                                !.dust = Precise(left) \in 1 .. Dust]
        /\ pc' = IF left = 0 THEN "close" ELSE "book"
        /\ UNCHANGED <<exchange, ledger>>

-----------------------------------------------------------------------------
(***************************************************************************)
(* Booking: a partial sell raises sold_amount; an unsellable remainder is  *)
(* three transactions; a close adds what was booked before.                *)
(***************************************************************************)
PersistPartial ==
    /\ pc = "book"
    /\ booked' = booked + sell.partial
    /\ IF sell.dust
       THEN /\ pc' = IF sell.partial > 0 THEN "summary" ELSE "archive"
            /\ UNCHANGED <<limit, strays, sell>>
       ELSE EndAttempt
    /\ UNCHANGED <<wallet, sold, bought, deal, closed, archived>>

PersistSummary ==
    /\ pc = "summary"
    /\ closed' = closed + sell.partial
    /\ pc' = "archive"
    /\ UNCHANGED <<exchange, bought, deal, booked, archived, sell>>

PersistRemainder ==
    /\ pc = "archive"
    /\ archived' = sell.remaining
    /\ deal' = "archived" /\ booked' = 0
    /\ EndAttempt
    /\ UNCHANGED <<wallet, sold, bought, closed>>

PersistClose ==
    /\ pc = "close"
    /\ closed' = closed + booked + sell.partial
    /\ deal' = "closed" /\ booked' = 0
    /\ EndAttempt
    /\ UNCHANGED <<wallet, sold, bought, archived>>

\* A reload or a restart: only the database and the exchange remember.
Abort ==
    /\ pc \in CrashPoints
    /\ EndAttempt
    /\ UNCHANGED <<wallet, sold, ledger>>

-----------------------------------------------------------------------------
Exchange ==
    \/ \E amount \in Amounts : \E n \in 1 .. amount : LimitFills(n) \/ StrayFills(n)
    \/ \E status \in {"canceled", "expired"} : LimitEnds(status)

LimitStep ==
    \/ \E known \in Balances : PlaceLimit(known) \/ LimitRefused(known) \/ BelowPrecision(known)
    \/ PollFilled \/ PollEnds \/ FetchLatest \/ FetchFails
    \/ CancelLimit \/ ConfirmCanceled \/ Unconfirmed
    \/ LookUpPartial \/ LookUpFails

MarketStep ==
    \/ KeepPartial \/ GoToMarket
    \/ \E known \in Balances, dust \in BOOLEAN : MarketSkipped(known, dust)
    \/ \E known \in Balances : NothingToSell(known) \/ MarketFills(known) \/ MarketRefused(known)
    \/ MarketFails \/ MarketLookUpFails
    \/ Report

Booking == PersistPartial \/ PersistSummary \/ PersistRemainder \/ PersistClose

SellStep == LimitStep \/ MarketStep \/ Booking

Next ==
    \/ Exchange
    \/ \E type \in OrderTypes : StartSell(type)
    \/ SellStep
    \/ Abort

Spec == Init /\ [][Next]_vars

(***************************************************************************)
(* Polling ends by the clock, the looks at a cancelled order and the       *)
(* retries by their number, and calls to the exchange and the database     *)
(* return.  No order is owed a fill, and nobody owes the next attempt.     *)
(***************************************************************************)
FairSpec == Spec /\ WF_vars(SellStep)

-----------------------------------------------------------------------------
LimitType == [status : {"none", "open", "closed", "canceled", "expired"},
              amount : Nat, filled : Nat]

SellType == [requested : Nat, amount : Nat, partial : Nat, market : Nat,
             steps : Nat, tries : 0 .. MaxTries, remaining : Nat, dust : BOOLEAN]

\* The type of every variable; no amount is negative, even after more was sold
\* than the deal had.
TypeOK ==
    /\ {wallet, strays, sold, bought, booked, closed, archived} \subseteq Nat
    /\ limit \in LimitType /\ limit.filled <= limit.amount
    /\ deal \in {"open", "closed", "archived"}
    /\ pc \in {"idle", "place", "poll", "latest", "cancel", "confirm", "lookup", "fallback",
               "market", "report", "book", "summary", "archive", "close"}
    /\ sell \in SellType

\* No fill is booked twice: whatever fails between the exchange and the
\* database, sold_amount and ClosedTrades never claim more than was sold.
BookedIsSold == booked <= sold /\ closed <= sold

\* A deal is only closed when all it had bought is booked as sold; a reduced
\* order, a partial fill or a retry in between does not close it.
ClosedIsSold == deal = "closed" => closed >= bought

\* The market fallback never runs beside the limit order it replaces.
MarketAlone == pc = "market" => limit.status # "open"

\* Every attempt ends and gives the sell lock back.
SellEnds == pc # "idle" ~> pc = "idle"

\* "Skipping market fallback to avoid double-selling": the attempts never sell
\* more than the deal has bought.
NoDoubleSelling == sold <= bought

\* The leftover a sell archives as unsellable is not booked as sold already: the
\* two together are no more than the deal has bought.
RemainderIsLeft == pc = "archive" => booked + sell.remaining <= bought
=============================================================================
