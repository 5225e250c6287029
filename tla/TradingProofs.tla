------------------------------ MODULE TradingProofs ------------------------------
(***************************************************************************)
(* What the trading instance promises, for every value of its constants:    *)
(* the accounts of a sell, the standing take-profit order, the missions and *)
(* the confirmation of a take-profit.                                      *)
(***************************************************************************)
EXTENDS MCTrading, TLAPS

OrderP == INSTANCE TpLimitOrderProofs WITH booked <- fills
MissionP == INSTANCE MissionProofs WITH row <- mission, actor <- task, closed <- summed

-----------------------------------------------------------------------------
(***************************************************************************)
(* The accounts of a sell hold for every amount, every interleaving with   *)
(* the exchange and any number of attempts, as long as Recorded holds: a   *)
(* lookup that answers finds the trades of the order, and no attempt dies  *)
(* between the summary and the archive of an unsellable remainder.         *)
(***************************************************************************)

Recorded == "empty" \notin Lookups /\ "archive" \notin CrashPoints

-----------------------------------------------------------------------------
(***************************************************************************)
(* The inductive invariant.  What is booked is bounded by what is sold     *)
(* only because the fills an attempt has not booked yet are sold too, and  *)
(* its partial amount is among those fills.                                *)
(***************************************************************************)
\* Where the attempt has nothing to book, or has booked it.
Resting == {"idle", "summary", "archive"}

\* The limit order is only followed between its placement and its cancel.
LimitInv ==
    /\ pc \in {"idle", "place", "lookup", "fallback", "market", "report"}
           => limit.status # "open"
    /\ pc \in {"idle", "place"} => limit.filled = 0

\* The partial amount stands for fills, and is reported once.
PartialInv ==
    /\ pc \in {"place", "poll", "latest"} => sell.partial = 0 /\ sell.market = 0
    /\ pc = "report" /\ sell.market = 0 => sell.partial = 0
    /\ pc \in {"cancel", "confirm", "lookup", "fallback", "market", "report"}
           => sell.partial <= limit.filled
    /\ pc \in {"book", "close"} => sell.partial <= limit.filled + sell.market

\* The fills of the attempt come on top of what is booked.
SoldInv ==
    /\ booked <= sold /\ closed <= sold
    /\ pc \notin Resting => booked + limit.filled + sell.market <= sold
    /\ pc = "summary" => sell.partial <= booked
    /\ deal = "open" /\ pc # "archive" => closed = 0
    /\ deal # "open" => pc = "idle"

\* A complete sell is one of all that was left of the deal.
CloseInv ==
    /\ pc \notin Resting => bought - booked <= sell.requested
    /\ pc = "close" => sell.requested <= sell.partial
    /\ ClosedIsSold

SellInv == TypeOK /\ LimitInv /\ PartialInv /\ SoldInv /\ CloseInv

\* Cutting an amount down to the precision of the market keeps it an amount.
LEMMA PreciseType ==
    ASSUME NEW n \in Nat
    PROVE  Precise(n) \in Nat
  BY SellAssumption DEF Precise

\* The amounts a market order is made of are numbers.
LEMMA AmountType ==
    ASSUME TypeOK, NEW known \in BOOLEAN
    PROVE  Available(known) \in Nat /\ MarketAmount(known) \in Nat
<1>1. wallet \in Nat /\ sell.amount \in Nat /\ sell.steps \in Nat
  BY DEF TypeOK, SellType
<1>2. Available(known) \in Nat
  BY <1>1, PreciseType DEF Available
<1> QED
  BY <1>1, <1>2, SellAssumption DEF MarketAmount, NonNegative

\* No deal has sold anything at first.
LEMMA InvInit == Init => SellInv
  BY SellAssumption
  DEF Init, NoLimit, NoSell, SellInv, TypeOK, LimitType, SellType, LimitInv, PartialInv,
      SoldInv, CloseInv, ClosedIsSold, Resting

\* An attempt that ends leaves the accounts as they are.
LEMMA InvEnd ==
    ASSUME SellInv, EndAttempt, pc # "archive", UNCHANGED <<wallet, sold, ledger>>
    PROVE  SellInv'
<1> USE DEF SellInv, TypeOK, LimitType, SellType, LimitInv, PartialInv, SoldInv, CloseInv,
            ClosedIsSold, Resting, ledger, EndAttempt, NoLimit, NoSell, Rest
<1>1. strays' \in Nat
  BY SMT
<1>2. TypeOK'
  BY <1>1, SellAssumption
<1> QED
  BY <1>2
-----------------------------------------------------------------------------
\* A fill adds to what is sold whatever it adds to the order.
LEMMA InvExchange ==
    ASSUME SellInv, Exchange
    PROVE  SellInv'
<1> USE DEF SellInv, TypeOK, LimitType, SellType, LimitInv, PartialInv, SoldInv, CloseInv,
            ClosedIsSold, Resting, ledger, Rest
<1>1. ASSUME NEW amount \in Amounts, NEW n \in 1 .. amount, LimitFills(n)
      PROVE  SellInv'
  <2>1. n \in Nat /\ limit.amount \in Nat /\ limit.filled \in Nat
    BY SellAssumption
  <2>2. /\ limit' \in LimitType
        /\ limit'.filled = limit.filled + n /\ limit'.amount = limit.amount
        /\ limit'.filled <= limit'.amount
    <3> DEFINE status == IF n = Rest(limit) THEN "closed" ELSE limit.status
    <3>1. limit' = [limit EXCEPT !.filled = limit.filled + n, !.status = status]
      BY <1>1 DEF LimitFills
    <3>2. limit.filled + n <= limit.amount /\ limit.filled + n \in Nat
      BY <1>1, <2>1 DEF LimitFills
    <3>3. limit \in LimitType /\ status \in {"none", "open", "closed", "canceled", "expired"}
      OBVIOUS
    <3> HIDE DEF status
    <3> QED
      BY ONLY <3>1, <3>2, <3>3 DEF LimitType
  <2>3. /\ sold' = sold + n /\ limit.status = "open"
        /\ UNCHANGED <<wallet, strays, bought, deal, booked, closed, archived, pc, sell>>
    BY <1>1 DEF LimitFills
  <2>4. TypeOK' /\ LimitInv' /\ CloseInv'
    BY <2>1, <2>2, <2>3
  <2>5. PartialInv' /\ SoldInv'
    BY <2>1, <2>2, <2>3
  <2> QED
    BY <2>4, <2>5
<1>2. ASSUME NEW amount \in Amounts, NEW n \in 1 .. amount, StrayFills(n)
      PROVE  SellInv'
  <2>1. n \in Nat /\ n <= strays
    BY <1>2, SellAssumption DEF StrayFills
  <2> QED
    BY <1>2, <2>1 DEF StrayFills
<1>3. ASSUME NEW status \in {"canceled", "expired"}, LimitEnds(status)
      PROVE  SellInv'
  <2>1. /\ limit' \in LimitType
        /\ limit'.filled = limit.filled /\ limit'.amount = limit.amount
        /\ limit'.status = status
        /\ wallet' \in Nat
    BY <1>3 DEF LimitEnds
  <2> QED
    BY <1>3, <2>1 DEF LimitEnds
<1> QED
  BY <1>1, <1>2, <1>3 DEF Exchange

\* The payload of a fresh attempt.
LEMMA NoSellType ==
    NoSell \in SellType /\ NoSell.partial = 0 /\ NoSell.market = 0
  BY SellAssumption DEF NoSell, SellType

\* An attempt starts with all that is left of the deal.
LEMMA InvStart ==
    ASSUME SellInv, NEW type \in OrderTypes, StartSell(type)
    PROVE  SellInv'
<1> USE DEF SellInv, TypeOK, LimitType, SellType, LimitInv, PartialInv, SoldInv, CloseInv,
            ClosedIsSold, Resting, ledger, exchange
<1>1. Sellable \in Nat /\ bought - booked <= Sellable
  BY DEF Sellable, NonNegative
<1>2. /\ sell' \in SellType
      /\ sell'.partial = 0 /\ sell'.market = 0 /\ sell'.requested = Sellable
  BY <1>1, NoSellType DEF StartSell
<1>3. /\ pc = "idle" /\ deal = "open" /\ pc' \in {"place", "market"}
      /\ UNCHANGED <<wallet, limit, strays, sold, bought, deal, booked, closed, archived>>
  BY DEF StartSell
<1> QED
  BY <1>1, <1>2, <1>3
-----------------------------------------------------------------------------
\* The limit order: what the last look shows as filled is filled, and the
\* attempt only leaves an order behind that is closed.
LEMMA InvPlace ==
    ASSUME SellInv, NEW known \in BOOLEAN,
           PlaceLimit(known) \/ LimitRefused(known) \/ BelowPrecision(known)
    PROVE  SellInv'
<1> USE DEF SellInv, TypeOK, LimitType, SellType, LimitInv, PartialInv, SoldInv, CloseInv,
            ClosedIsSold, Resting, ledger, exchange
<1>1. Available(known) \in Nat
  BY AmountType
<1>2. CASE PlaceLimit(known)
  <2>1. /\ pc = "place" /\ wallet' \in Nat
        /\ UNCHANGED <<sold, bought, deal, booked, closed, archived>>
    BY <1>1, <1>2 DEF PlaceLimit
  <2>2. /\ sell' = [sell EXCEPT !.amount = Available(known)]
        /\ \/ /\ limit' = [status |-> "open", amount |-> Available(known), filled |-> 0]
              /\ pc' = "poll" /\ strays' = strays
           \/ limit' = limit /\ pc' = "fallback" /\ strays' = strays + Available(known)
    BY <1>2 DEF PlaceLimit, FallBack
  <2>3. sell' \in SellType /\ UNCHANGED <<sell.partial, sell.market, sell.requested>>
    BY <1>1, <2>2
  <2>4. /\ limit' \in LimitType /\ limit'.filled = 0 /\ strays' \in Nat
        /\ pc' = "fallback" => limit'.status # "open"
        /\ pc' \in {"poll", "fallback"}
    BY <1>1, <2>1, <2>2
  <2>5. limit'.filled <= limit'.amount
    BY <1>1, <2>2
  <2> QED
    BY <2>1, <2>3, <2>4, <2>5
<1>3. CASE LimitRefused(known)
  <2>1. sell' \in SellType /\ UNCHANGED <<sell.partial, sell.market, sell.requested>>
    BY <1>1, <1>3 DEF LimitRefused, FallBack
  <2> QED
    BY <1>3, <2>1 DEF LimitRefused, FallBack
<1>4. CASE BelowPrecision(known)
  <2>1. sell' \in SellType /\ UNCHANGED <<sell.partial, sell.market, sell.requested>>
    BY <1>1, <1>4 DEF BelowPrecision
  <2> QED
    BY <1>4, <2>1 DEF BelowPrecision
<1> QED
  BY <1>2, <1>3, <1>4

\* Following a limit order, canceling it and looking up what it sold.
LEMMA InvFollow ==
    ASSUME Recorded, SellInv,
           \/ PollFilled \/ PollEnds \/ FetchLatest \/ FetchFails
           \/ CancelLimit \/ ConfirmCanceled \/ Unconfirmed \/ LookUpPartial \/ LookUpFails
    PROVE  SellInv'
<1> USE DEF SellInv, TypeOK, LimitType, SellType, LimitInv, PartialInv, SoldInv, CloseInv,
            ClosedIsSold, Resting, ledger, exchange
<1>1. CASE PollFilled \/ PollEnds \/ FetchFails \/ ConfirmCanceled
  BY <1>1 DEF PollFilled, PollEnds, FetchFails, ConfirmCanceled
<1>2. CASE FetchLatest
  <2>1. CASE limit.status = "closed"
    BY <1>2, <2>1 DEF FetchLatest
  <2>2. CASE limit.status # "closed"
    <3>1. Rest(limit) \in Nat
      BY DEF Rest
    <3>2. sell' = [sell EXCEPT !.amount = Rest(limit), !.partial = limit.filled]
      BY <1>2, <2>2 DEF FetchLatest
    <3>3. /\ sell' \in SellType /\ UNCHANGED <<sell.market, sell.requested>>
          /\ sell'.partial = limit.filled
      BY ONLY TypeOK, <3>1, <3>2 DEF TypeOK, SellType, LimitType
    <3> QED
      BY <1>2, <2>2, <3>3 DEF FetchLatest
  <2> QED
    BY <2>1, <2>2
<1>3. CASE CancelLimit
  <2>1. /\ pc = "cancel" /\ pc' = "confirm"
        /\ UNCHANGED <<strays, sold, bought, deal, booked, closed, archived, sell>>
    BY <1>3 DEF CancelLimit
  <2>2. /\ limit' \in LimitType /\ UNCHANGED <<limit.amount, limit.filled>>
        /\ wallet' \in Nat
    BY <1>3 DEF CancelLimit, Rest
  <2> QED
    BY <2>1, <2>2
<1>4. CASE Unconfirmed \/ LookUpFails
  BY <1>4, InvEnd DEF Unconfirmed, LookUpFails
<1>5. CASE LookUpPartial
  <2>1. /\ sell' \in SellType /\ UNCHANGED <<sell.market, sell.requested>>
        /\ sell'.partial = limit.filled
    BY <1>5 DEF LookUpPartial, Recorded
  <2> QED
    BY <1>5, <2>1 DEF LookUpPartial
<1> QED
  BY <1>1, <1>2, <1>3, <1>4, <1>5
-----------------------------------------------------------------------------
\* The market sell: one that is sent again only adds to what is sold.
LEMMA InvRetry ==
    ASSUME SellInv, pc \in {"market", "report"}, UNCHANGED <<wallet, sold, ledger>>,
           NEW amount \in Nat, NEW steps \in Nat, Retry(amount, steps)
    PROVE  SellInv'
<1> USE DEF SellInv, TypeOK, LimitType, SellType, LimitInv, PartialInv, SoldInv, CloseInv,
            ClosedIsSold, Resting, ledger
<1>1. CASE sell.tries < MaxTries
  <2>1. sell.tries + 1 \in 0 .. MaxTries
    BY <1>1, SellAssumption
  <2>2. sell' = [sell EXCEPT !.amount = amount, !.steps = steps, !.tries = sell.tries + 1]
    BY <1>1 DEF Retry
  <2>3. sell' \in SellType /\ UNCHANGED <<sell.partial, sell.market, sell.requested>>
    BY <2>1, <2>2
  <2>4. pc' = "market" /\ UNCHANGED <<limit, strays>>
    BY <1>1 DEF Retry
  <2> QED
    BY <2>3, <2>4
<1>2. CASE ~(sell.tries < MaxTries)
  BY <1>2, InvEnd DEF Retry
<1> QED
  BY <1>1, <1>2

\* A market order sells what is left and no more.
LEMMA InvMarket ==
    ASSUME SellInv, MarketStep
    PROVE  SellInv'
<1> USE DEF SellInv, TypeOK, LimitType, SellType, LimitInv, PartialInv, SoldInv, CloseInv,
            ClosedIsSold, Resting, ledger, exchange
<1>1. CASE KeepPartial
  <2>1. sell' \in SellType /\ UNCHANGED <<sell.partial, sell.market, sell.requested>>
    BY <1>1 DEF KeepPartial
  <2> QED
    BY <1>1, <2>1 DEF KeepPartial
<1>2. CASE GoToMarket
  BY <1>2 DEF GoToMarket
<1>3. ASSUME NEW known \in Balances, NEW dust \in BOOLEAN, MarketSkipped(known, dust)
      PROVE  SellInv'
  <2>1. MarketAmount(known) \in Nat
    BY AmountType DEF Balances
  <2>2. sell' \in SellType /\ UNCHANGED <<sell.partial, sell.market, sell.requested>>
    BY <1>3, <2>1 DEF MarketSkipped
  <2> QED
    BY <1>3, <2>2 DEF MarketSkipped
<1>4. ASSUME NEW known \in Balances, NothingToSell(known)
      PROVE  SellInv'
  BY <1>4, InvEnd DEF NothingToSell
<1>5. ASSUME NEW known \in Balances, MarketFills(known)
      PROVE  SellInv'
  <2> DEFINE amount == MarketAmount(known)
  <2>0. known \in BOOLEAN
    BY DEF Balances
  <2>1. amount \in Nat /\ amount > 0
    <3>1. amount \in Nat
      BY <2>0, AmountType
    <3>2. amount >= Step
      BY <1>5 DEF MarketFills
    <3> HIDE DEF amount
    <3> QED
      BY <3>1, <3>2, SellAssumption
  <2>2. /\ pc = "market" /\ wallet' \in Nat /\ sold' = sold + amount
        /\ UNCHANGED <<bought, deal, booked, closed, archived>>
    BY <1>5, <2>1 DEF MarketFills
  <2>3. CASE pc' = "report"
    <3>1. /\ sell' = [sell EXCEPT !.amount = amount, !.market = amount, !.steps = 0]
          /\ UNCHANGED <<limit, strays>>
      BY <1>5, <2>3 DEF MarketFills, EndAttempt
    <3> HIDE DEF amount
    <3>2. sell' \in SellType /\ UNCHANGED <<sell.partial, sell.requested>>
          /\ sell'.market = amount
      BY <2>1, <3>1
    <3> QED
      BY <2>1, <2>2, <2>3, <3>1, <3>2
  <2>4. CASE EndAttempt
    <3>1. /\ pc' = "idle" /\ limit' = NoLimit /\ sell' \in SellType /\ strays' \in Nat
      BY <2>4, NoSellType DEF EndAttempt, Rest
    <3> QED
      BY <2>1, <2>2, <3>1 DEF NoLimit
  <2>5. pc' = "report" \/ EndAttempt
    BY <1>5 DEF MarketFills
  <2> QED
    BY <2>3, <2>4, <2>5
<1>6. ASSUME NEW known \in Balances, MarketRefused(known)
      PROVE  SellInv'
  <2>1. known \in BOOLEAN
    BY DEF Balances
  <2>2. MarketAmount(known) \in Nat
    BY <2>1, AmountType
  <2>3. sell.steps + 1 \in Nat
    OBVIOUS
  <2> QED
    BY <1>6, <2>2, <2>3, InvRetry DEF MarketRefused
<1>7. CASE MarketFails
  BY <1>7, InvEnd DEF MarketFails
<1>8. CASE MarketLookUpFails
  BY <1>8, InvRetry DEF MarketLookUpFails
<1>9. CASE Report
  <2> DEFINE reported == IF sell.market > 0 THEN sell.market ELSE limit.filled
             left     == Remainder(reported)
  <2>1. /\ reported \in Nat /\ left \in Nat
        /\ left = 0 => sell.requested <= reported
        /\ sell.partial + reported <= limit.filled + sell.market
    BY <1>9 DEF Report, Remainder, NonNegative
  <2>2. /\ sell' = [sell EXCEPT !.partial = sell.partial + reported, !.remaining = left,
                                !.dust = Precise(left) \in 1 .. Dust]
        /\ pc = "report" /\ pc' = IF left = 0 THEN "close" ELSE "book"
        /\ UNCHANGED <<wallet, limit, strays, sold, bought, deal, booked, closed, archived>>
    BY <1>9 DEF Report, Merged
  <2> HIDE DEF reported, left
  <2>3. /\ sell' \in SellType /\ UNCHANGED <<sell.market, sell.requested>>
        /\ sell'.partial = sell.partial + reported
    <3> DEFINE isDust == Precise(left) \in 1 .. Dust
    <3>1. isDust \in BOOLEAN
      OBVIOUS
    <3>2. sell' = [sell EXCEPT !.partial = sell.partial + reported, !.remaining = left,
                               !.dust = isDust]
      BY <2>2
    <3>3. sell.partial + reported \in Nat
      BY <2>1
    <3> HIDE DEF isDust
    <3> QED
      BY ONLY <2>1, <3>1, <3>2, <3>3, sell \in SellType DEF SellType
  <2> QED
    BY <2>1, <2>2, <2>3
<1> QED
  BY <1>1, <1>2, <1>3, <1>4, <1>5, <1>6, <1>7, <1>8, <1>9 DEF MarketStep

-----------------------------------------------------------------------------
\* Booking moves the fills of the attempt into the ledger, each once.
LEMMA InvBooking ==
    ASSUME SellInv, Booking
    PROVE  SellInv'
<1> USE DEF SellInv, TypeOK, LimitType, SellType, LimitInv, PartialInv, SoldInv, CloseInv,
            ClosedIsSold, Resting, ledger, exchange
<1>1. CASE PersistPartial
  <2>1. /\ pc = "book" /\ booked' = booked + sell.partial
        /\ UNCHANGED <<wallet, sold, bought, deal, closed, archived>>
    BY <1>1 DEF PersistPartial
  <2>2. CASE sell.dust
    BY <1>1, <2>1, <2>2 DEF PersistPartial
  <2>3. CASE ~sell.dust
    <3>1. /\ pc' = "idle" /\ limit' = NoLimit /\ sell' \in SellType /\ strays' \in Nat
      BY <1>1, <2>3, NoSellType DEF PersistPartial, EndAttempt, Rest
    <3> QED
      BY <2>1, <3>1 DEF NoLimit
  <2> QED
    BY <2>2, <2>3
<1>2. CASE PersistSummary
  BY <1>2 DEF PersistSummary
<1>3. CASE PersistRemainder
  <2>1. /\ pc' = "idle" /\ limit' = NoLimit /\ sell' \in SellType /\ strays' \in Nat
    BY <1>3, NoSellType DEF PersistRemainder, EndAttempt, Rest
  <2> QED
    BY <1>3, <2>1 DEF PersistRemainder, NoLimit
<1>4. CASE PersistClose
  <2>1. /\ pc' = "idle" /\ limit' = NoLimit /\ sell' \in SellType /\ strays' \in Nat
    BY <1>4, NoSellType DEF PersistClose, EndAttempt, Rest
  <2>2. closed' = booked + sell.partial /\ closed' >= bought /\ closed' <= sold
    BY <1>4 DEF PersistClose
  <2> QED
    BY <1>4, <2>1, <2>2 DEF PersistClose, NoLimit
<1> QED
  BY <1>1, <1>2, <1>3, <1>4 DEF Booking

\* The invariant holds in every reachable state.
LEMMA SellInvariant == Recorded => (Spec => []SellInv)
<1> SUFFICES ASSUME Recorded
             PROVE  Spec => []SellInv
  OBVIOUS
<1>1. SellInv /\ [Next]_vars => SellInv'
  <2> SUFFICES ASSUME SellInv, [Next]_vars
               PROVE  SellInv'
    OBVIOUS
  <2>1. CASE Exchange
    BY <2>1, InvExchange
  <2>2. CASE \E type \in OrderTypes : StartSell(type)
    BY <2>2, InvStart
  <2>3. CASE LimitStep
    BY <2>3, InvPlace, InvFollow DEF LimitStep, Balances
  <2>4. CASE MarketStep \/ Booking
    BY <2>4, InvMarket, InvBooking
  <2>5. CASE Abort
    BY <2>5, InvEnd DEF Abort, Recorded
  <2>6. CASE UNCHANGED vars
    BY <2>6
    DEF vars, exchange, ledger, SellInv, TypeOK, LimitInv, PartialInv, SoldInv,
        CloseInv, ClosedIsSold
  <2> QED
    BY <2>1, <2>2, <2>3, <2>4, <2>5, <2>6 DEF Next, SellStep
<1> QED
  BY <1>1, InvInit, PTL DEF Spec

-----------------------------------------------------------------------------
\* The type of every variable, for every amount, step and number of tries.
THEOREM SellTypeCorrect == Recorded => (Spec => []TypeOK)
  BY SellInvariant, PTL DEF SellInv

\* No fill is booked twice: sold_amount and ClosedTrades never claim more than
\* the exchange has sold.
THEOREM BookingIsSound == Recorded => (Spec => []BookedIsSold)
<1>1. SellInv => BookedIsSold
  BY DEF SellInv, SoldInv, BookedIsSold
<1> QED
  BY <1>1, SellInvariant, PTL

\* A deal is only closed when all it had bought is booked as sold.
THEOREM ClosingIsComplete == Recorded => (Spec => []ClosedIsSold)
  BY SellInvariant, PTL DEF SellInv, CloseInv

\* The market fallback never runs beside the limit order it replaces.
THEOREM MarketIsAlone == Recorded => (Spec => []MarketAlone)
<1>1. SellInv => MarketAlone
  BY DEF SellInv, LimitInv, MarketAlone
<1> QED
  BY <1>1, SellInvariant, PTL
-----------------------------------------------------------------------------
(***************************************************************************)
(* The confirmation of a take-profit. The counts of a pending confirmation  *)
(* are of the run of ticks that found the price at the target: one that finds *)
(* it below drops both. It does not while the deal trails, or a confirmation *)
(* that asks for nothing waits for the strategy, so a save must not pass    *)
(* through such settings; MCTrading's do not.                              *)
(***************************************************************************)
\* The settings of one name all trail or none does, and all ask for something or none does.
Steady ==
    \A c, d \in Configs : c.name = d.name =>
        /\ c.trailing = 0 <=> d.trailing = 0
        /\ c.confirm /\ c.seconds + c.ticks = 0 <=> d.confirm /\ d.seconds + d.ticks = 0

\* A tick below the target drops what is pending.
Filters(c) == c.trailing = 0 /\ ~(c.confirm /\ c.seconds + c.ticks = 0)

\* A pending confirmation counts ticks of the run of ticks that is still going on.
PendingInv ==
    pending.on =>
        /\ Filters(config) /\ above.stamp = pending.stamp
        /\ 1 <= pending.ticks /\ pending.ticks <= above.ticks
        /\ above.since <= pending.since

ExitInv ==
    /\ config \in Configs /\ now \in Nat
    /\ pending = [on |-> pending.on, since |-> pending.since, ticks |-> pending.ticks,
                  stamp |-> pending.stamp]
    /\ pending.on \in BOOLEAN /\ pending.ticks \in Nat /\ pending.since \in Nat
    /\ above.ticks \in Nat /\ above.since \in Nat /\ above.since <= now
    /\ PendingInv
    /\ Exits!SpikesFiltered

\* The lesser of two numbers.
LEMMA LesserOf ==
    ASSUME NEW m \in Int, NEW n \in Int
    PROVE  Exits!Min({m, n}) = IF m <= n THEN m ELSE n
  BY DEF Exits!Min

\* Nothing is pending at first.
LEMMA ExitInit == Steady /\ Exits!Init => ExitInv
  BY DEF Exits!Init, ExitInv, PendingInv, Steady, Exits!SpikesFiltered, Exits!NotPending,
         Exits!NotAbove, Exits!NoExit

\* The counts after a tick
LEMMA TickCounts ==
    ASSUME Steady, ExitInv, NEW p, NEW word, Exits!Tick(p, word)
    PROVE  /\ above'.ticks \in Nat /\ above'.since \in Nat /\ above'.since <= now
           /\ pending' = [on |-> pending'.on, since |-> pending'.since,
                          ticks |-> pending'.ticks, stamp |-> pending'.stamp]
           /\ pending'.on \in BOOLEAN /\ pending'.ticks \in Nat /\ pending'.since \in Nat
           /\ PendingInv'
<1> DEFINE hit == Exits!TakeProfitHit(trade, p)
           stamp == Exits!Stamp(trade)
           qualified == pending.on /\ pending.stamp = stamp
           run == IF above.stamp = stamp THEN above.ticks ELSE 0
           since == IF run = 0 THEN now ELSE above.since
           fewer(n) == Exits!Min({n, MaxTicks})
<1>1. /\ UNCHANGED <<config, now>>
      /\ above' = IF hit /\ Exits!Confirming
                  THEN [ticks |-> fewer(run + 1), since |-> since, stamp |-> stamp]
                  ELSE Exits!NotAbove
      /\ \/ pending' = Exits!NotPending
         \/ pending' = Exits!PendingAfter(trade, p)
  BY DEF Exits!Tick
<1>2. \/ ~hit /\ config.trailing > 0 /\ Exits!PendingAfter(trade, p) = pending
      \/ /\ hit /\ Exits!Confirming /\ config.seconds + config.ticks = 0
         /\ Exits!PendingAfter(trade, p) = pending
      \/ Exits!PendingAfter(trade, p) = Exits!NotPending
      \/ /\ hit /\ Exits!Confirming /\ qualified
         /\ Exits!PendingAfter(trade, p) = [pending EXCEPT !.ticks = fewer(pending.ticks + 1)]
      \/ /\ hit /\ Exits!Confirming /\ config.seconds + config.ticks # 0
         /\ Exits!PendingAfter(trade, p) = [on |-> TRUE, since |-> now, ticks |-> 1, stamp |-> stamp]
  BY DEF Exits!PendingAfter, Exits!Qualified
<1>3. /\ config \in Configs /\ now \in Nat /\ MaxTicks \in Nat \ {0}
      /\ above.ticks \in Nat /\ above.since \in Nat /\ above.since <= now
      /\ pending = [on |-> pending.on, since |-> pending.since, ticks |-> pending.ticks,
                    stamp |-> pending.stamp]
      /\ pending.on \in BOOLEAN /\ pending.ticks \in Nat /\ pending.since \in Nat
      /\ config.ticks \in Nat /\ config.seconds \in Nat /\ config.trailing \in Nat
  BY TradingAssumption DEF ExitInv
<1>4. Exits!Confirming => config.trailing = 0 /\ config.confirm
  BY DEF Exits!Confirming
<1>5. run \in Nat /\ since \in Nat /\ since <= now
  BY <1>3
<1>6. \A n \in Nat : fewer(n) \in Nat /\ fewer(n) = IF n <= MaxTicks THEN n ELSE MaxTicks
  BY <1>3, LesserOf
<1>7. pending.on => /\ Filters(config) /\ above.stamp = pending.stamp
                   /\ 1 <= pending.ticks /\ pending.ticks <= above.ticks
                   /\ above.since <= pending.since
  BY DEF ExitInv, PendingInv
<1> HIDE DEF hit, stamp, run, since, fewer, qualified
<1>8. /\ above'.ticks \in Nat /\ above'.since \in Nat /\ above'.since <= now
      /\ hit /\ Exits!Confirming => /\ above'.ticks = fewer(run + 1) /\ above'.since = since
                                   /\ above'.stamp = stamp
  BY <1>1, <1>3, <1>5, <1>6 DEF Exits!NotAbove
<1>9. fewer(run + 1) >= 1
  BY <1>3, <1>5, <1>6
<1>a. CASE pending' = Exits!NotPending
  BY <1>a, <1>8 DEF Exits!NotPending, PendingInv
<1>b. CASE /\ pending' = pending
           /\ \/ ~hit /\ config.trailing > 0
              \/ hit /\ Exits!Confirming /\ config.seconds + config.ticks = 0
  <2>1. ~pending.on
    BY <1>b, <1>3, <1>4, <1>7 DEF Filters
  <2>2. pending' = pending
    BY <1>b
  <2>3. PendingInv'
    BY <2>1, <2>2 DEF PendingInv
  <2> QED
    BY <2>2, <2>3, <1>3, <1>8
<1>c. CASE /\ hit /\ Exits!Confirming /\ qualified
           /\ pending' = [pending EXCEPT !.ticks = fewer(pending.ticks + 1)]
  <2>1. pending.on /\ pending.stamp = stamp
    BY <1>c DEF qualified
  <2>2. run = above.ticks /\ since = above.since
    BY <2>1, <1>7, <1>3 DEF run, since
  <2>3. fewer(pending.ticks + 1) <= fewer(run + 1) /\ 1 <= fewer(pending.ticks + 1)
    BY <2>1, <2>2, <1>3, <1>5, <1>6, <1>7
  <2>4. pending' = [on |-> pending.on, since |-> pending.since,
                    ticks |-> fewer(pending.ticks + 1), stamp |-> pending.stamp]
    BY <1>c, <1>3
  <2>5. /\ pending'.on = pending.on /\ pending'.since = pending.since
        /\ pending'.ticks = fewer(pending.ticks + 1) /\ pending'.stamp = pending.stamp
    BY <2>4
  <2>6. PendingInv'
    BY <2>1, <2>2, <2>3, <2>5, <1>c, <1>1, <1>7, <1>8 DEF PendingInv, Filters
  <2> QED
    BY <2>4, <2>5, <2>6, <1>3, <1>6, <1>8
<1>d. CASE /\ hit /\ Exits!Confirming /\ config.seconds + config.ticks # 0
           /\ pending' = [on |-> TRUE, since |-> now, ticks |-> 1, stamp |-> stamp]
  <2>1. Filters(config)
    BY <1>d, <1>4 DEF Filters
  <2> QED
    BY <2>1, <1>d, <1>1, <1>3, <1>5, <1>8, <1>9 DEF PendingInv, Filters
<1> DEFINE after == Exits!PendingAfter(trade, p)
<1>10. pending' = Exits!NotPending \/ pending' = after
  BY <1>1
<1>11. \/ /\ after = pending
          /\ \/ ~hit /\ config.trailing > 0
             \/ hit /\ Exits!Confirming /\ config.seconds + config.ticks = 0
       \/ after = Exits!NotPending
       \/ /\ hit /\ Exits!Confirming /\ qualified
          /\ after = [pending EXCEPT !.ticks = fewer(pending.ticks + 1)]
       \/ /\ hit /\ Exits!Confirming /\ config.seconds + config.ticks # 0
          /\ after = [on |-> TRUE, since |-> now, ticks |-> 1, stamp |-> stamp]
  BY <1>2
<1> HIDE DEF after
<1> QED
  BY <1>10, <1>11, <1>a, <1>b, <1>c, <1>d

\* A take-profit that is sold has been confirmed.
LEMMA TickSells ==
    ASSUME Steady, ExitInv, NEW p, NEW word, Exits!Tick(p, word)
    PROVE  Exits!SpikesFiltered'
<1> DEFINE hit == Exits!TakeProfitHit(trade, p)
           stamp == Exits!Stamp(trade)
           run == IF above.stamp = stamp THEN above.ticks ELSE 0
           since == IF run = 0 THEN now ELSE above.since
           asked == Exits!Asked(trade, p, word)
           trail == Exits!Trail(Exits!Pnl(trade, p), asked # "none")
           trailed == config.trailing > 0 /\ trail.sell
           reason == IF Exits!TimedOut(trade, p) THEN "autopilot_timeout"
                     ELSE IF config.trailing = 0 THEN asked
                     ELSE IF ~trailed THEN "none"
                     ELSE IF asked = "none" THEN "trailing_take_profit" ELSE asked
<1> SUFFICES ASSUME exit'.reason = "take_profit", Exits!Confirming'
             PROVE  exit'.ticks >= config'.ticks /\ exit'.seconds >= config'.seconds
  BY DEF Exits!SpikesFiltered
<1>1. /\ UNCHANGED <<config, now>>
      /\ above' = IF hit /\ Exits!Confirming
                  THEN [ticks |-> Exits!Min({run + 1, MaxTicks}), since |-> since, stamp |-> stamp]
                  ELSE Exits!NotAbove
      /\ exit' = IF reason = "none" THEN Exits!NoExit
                 ELSE [reason |-> reason, trailed |-> trailed, own |-> armed = trade.id,
                       ticks |-> above'.ticks, seconds |-> now - since]
  BY DEF Exits!Tick
<1>2. config.trailing = 0 /\ Exits!Confirming
  BY <1>1 DEF Exits!Confirming
<1>3. asked = "take_profit" => hit /\ Exits!Confirmed(trade)
  BY <1>2 DEF Exits!Asked
<1>4. /\ config \in Configs /\ now \in Nat /\ MaxTicks \in Nat \ {0}
      /\ above.ticks \in Nat /\ above.since \in Nat /\ above.since <= now
      /\ pending.ticks \in Nat /\ pending.since \in Nat
      /\ config.ticks \in Nat /\ config.seconds \in Nat /\ config.ticks <= MaxTicks
  BY TradingAssumption DEF ExitInv
<1> HIDE DEF asked, trailed
<1>5. /\ reason = asked /\ asked = "take_profit"
      /\ exit'.ticks = above'.ticks /\ exit'.seconds = now - since
  <2>1. reason = "take_profit" /\ exit'.ticks = above'.ticks /\ exit'.seconds = now - since
    <3> HIDE DEF reason, since, run
    <3> QED
      BY <1>1 DEF Exits!NoExit
  <2> QED
    BY <2>1, <1>2
<1> HIDE DEF reason
<1>6. hit /\ above'.ticks = Exits!Min({run + 1, MaxTicks})
  BY <1>1, <1>2, <1>3, <1>5
<1>7. run \in Nat /\ since \in Nat /\ since <= now
  BY <1>4
<1>8. above'.ticks = IF run + 1 <= MaxTicks THEN run + 1 ELSE MaxTicks
  BY <1>4, <1>6, <1>7, LesserOf
<1>9. CASE config.seconds = 0 /\ config.ticks = 0
  <2> HIDE DEF run, since
  <2> QED
    BY <1>9, <1>1, <1>4, <1>5, <1>7, <1>8
<1>10. CASE /\ Exits!Qualified(trade)
            /\ config.seconds > 0 => now - pending.since >= config.seconds
            /\ config.ticks > 0 => pending.ticks + 1 >= config.ticks
  <2>1. pending.on /\ pending.stamp = stamp
    BY <1>10 DEF Exits!Qualified
  <2>2. /\ above.stamp = stamp /\ 1 <= pending.ticks /\ pending.ticks <= above.ticks
        /\ above.since <= pending.since
    BY <2>1 DEF ExitInv, PendingInv
  <2>3. run = above.ticks /\ since = above.since
    BY <2>2, <1>4
  <2> HIDE DEF run, since
  <2> QED
    BY <1>10, <2>2, <2>3, <1>1, <1>4, <1>5, <1>8
<1> QED
  BY <1>3, <1>5, <1>9, <1>10 DEF Exits!Confirmed

\* Deals come and go, time passes, settings change: what is pending stays.
LEMMA ExitStep == Steady /\ ExitInv /\ [Exits!Next]_exitVars => ExitInv'
<1> SUFFICES ASSUME Steady, ExitInv, [Exits!Next]_exitVars
             PROVE  ExitInv'
  OBVIOUS
<1>1. ASSUME NEW p \in Prices, NEW word \in BOOLEAN, Exits!Tick(p, word)
      PROVE  ExitInv'
  <2>1. UNCHANGED <<config, now>>
    BY <1>1 DEF Exits!Tick
  <2> QED
    BY <1>1, <2>1, TickCounts, TickSells DEF ExitInv
<1>2. CASE \/ \E p \in Prices : Exits!Open(p)
           \/ Exits!ClosedElsewhere \/ Exits!Wait
  <2>1. /\ UNCHANGED <<config, pending, above>> /\ now' \in {now, now + 1}
        /\ exit' = Exits!NoExit
    BY <1>2 DEF Exits!Open, Exits!ClosedElsewhere, Exits!Wait
  <2> QED
    BY <2>1 DEF ExitInv, PendingInv, Filters, Exits!SpikesFiltered, Exits!NoExit
<1>s. ASSUME NEW p \in Prices, Exits!SidestepExit(p)
      PROVE  ExitInv'
  <2>1. /\ UNCHANGED <<config, pending, above, now>>
        /\ exit'.reason = "sidestep_exit"
    BY <1>s DEF Exits!SidestepExit, Exits!NoExit
  <2> QED
    BY <2>1 DEF ExitInv, PendingInv, Filters, Exits!SpikesFiltered
<1>3. CASE Exits!Reconfigure
  <2>1. /\ UNCHANGED <<now, pending, above>> /\ exit' = Exits!NoExit
        /\ config' \in Configs /\ config'.name = config.name
    BY <1>3 DEF Exits!Reconfigure
  <2>2. pending.on => Filters(config)'
    BY <2>1 DEF ExitInv, PendingInv, Filters, Steady
  <2> QED
    BY <2>1, <2>2 DEF ExitInv, PendingInv, Exits!SpikesFiltered, Exits!NoExit
<1>4. CASE UNCHANGED exitVars
  BY <1>4 DEF exitVars, ExitInv, PendingInv, Filters, Exits!SpikesFiltered, Exits!Confirming
<1> QED
  BY <1>1, <1>2, <1>s, <1>3, <1>4 DEF Exits!Next
-----------------------------------------------------------------------------
(***************************************************************************)
(* The trading instance. It and the proof modules instantiate the same      *)
(* specifications, which the prover has to be shown.                       *)
(***************************************************************************)
\* The standing orders of the instance are those of TpLimitOrderProofs.
LEMMA SameOrders ==
  /\ Order!Init => OrderP!Init
  /\ [Order!Next]_orderVars => [OrderP!Next]_(OrderP!vars)
<1> USE DEF Order!NoRow, OrderP!NoRow, Order!NoOrder, OrderP!NoOrder, Order!Idle, OrderP!Idle,
    Order!Orders, OrderP!Orders, Order!Actors, OrderP!Actors, Order!ledger, OrderP!ledger
<1>0. Order!Init => OrderP!Init
  BY DEF Order!Init, OrderP!Init
<1>1. Order!OpenDeal => OrderP!OpenDeal
  BY DEF Order!OpenDeal, OrderP!OpenDeal
<1>2. \A o : Order!Fill(o) \/ Order!Expire(o) => OrderP!Fill(o) \/ OrderP!Expire(o)
  BY DEF Order!Fill, OrderP!Fill, Order!Expire, OrderP!Expire
<1>3. /\ \A o : /\ Order!Finalize(o) => OrderP!Finalize(o)
                /\ Order!BookPartial(o) => OrderP!BookPartial(o)
                /\ Order!Remember(o) => OrderP!Remember(o)
  BY DEF Order!Finalize, OrderP!Finalize, Order!BookPartial, OrderP!BookPartial,
      Order!Remember, OrderP!Remember
<1>4. /\ \A a : /\ Order!Done(a) => OrderP!Done(a)
                /\ Order!GoOn(a) => OrderP!GoOn(a)
      /\ \A a, place : Order!Move(a, place) => OrderP!Move(a, place)
  BY DEF Order!Done, OrderP!Done, Order!GoOn, OrderP!GoOn, Order!Move, OrderP!Move
<1>5. Order!Tick \/ Order!Reconcile \/ Order!NothingToReconcile
      => OrderP!Tick \/ OrderP!Reconcile \/ OrderP!NothingToReconcile
  BY <1>3, <1>4 DEF Order!Tick, OrderP!Tick, Order!Reconcile, OrderP!Reconcile,
      Order!NothingToReconcile, OrderP!NothingToReconcile
<1>6. /\ \A todo : Order!Decide(todo) => OrderP!Decide(todo)
      /\ \A n : Order!EndTick(n) => OrderP!EndTick(n)
  BY <1>4 DEF Order!Decide, OrderP!Decide, Order!EndTick, OrderP!EndTick
<1>7. Order!Place \/ Order!Record => OrderP!Place \/ OrderP!Record
  BY <1>4 DEF Order!Place, OrderP!Place, Order!Record, OrderP!Record
<1>8. \A todo : Order!Request(todo) => OrderP!Request(todo)
  BY DEF Order!Request, OrderP!Request
<1>9. \A a : Order!CancelTp(a) => OrderP!CancelTp(a)
  BY <1>3, <1>4 DEF Order!CancelTp, OrderP!CancelTp
<1>10. \A a : Order!ClearTp(a) => OrderP!ClearTp(a)
  BY <1>4 DEF Order!ClearTp, OrderP!ClearTp
<1>11. \A a, n : Order!Sell(a, n) => OrderP!Sell(a, n)
  BY <1>4 DEF Order!Sell, OrderP!Sell
<1>12. Order!PersistStop \/ Order!PersistAdd => OrderP!PersistStop \/ OrderP!PersistAdd
  BY <1>4 DEF Order!PersistStop, OrderP!PersistStop, Order!PersistAdd, OrderP!PersistAdd
<1>13. Order!Crash => OrderP!Crash
  BY DEF Order!Crash, OrderP!Crash
<1>14. Order!Next => OrderP!Next
  BY <1>1, <1>2, <1>5, <1>6, <1>7, <1>8, <1>9, <1>10, <1>11, <1>12, <1>13 DEF Order!Next,
      OrderP!Next
<1> QED
  BY <1>0, <1>14 DEF orderVars, OrderP!vars

\* The missions of the instance are those of MissionProofs.
LEMMA SameMissions ==
  /\ Mission!Init => MissionP!Init
  /\ [Mission!Next]_missionVars => [MissionP!Next]_(MissionP!vars)
<1> USE DEF Mission!NoRow, MissionP!NoRow, Mission!NoCampaign, MissionP!NoCampaign,
    Mission!NoContext, MissionP!NoContext, Mission!Idle, MissionP!Idle, Mission!Campaigns,
    MissionP!Campaigns, Mission!Actors, MissionP!Actors, Mission!LiveStates,
    MissionP!LiveStates, Mission!books, MissionP!books, Mission!config, MissionP!config,
    Mission!Created, MissionP!Created, Mission!Unused, MissionP!Unused, Mission!Fresh,
    MissionP!Fresh, Mission!InState, MissionP!InState, Mission!PausedOf, MissionP!PausedOf
<1>0. Mission!Init => MissionP!Init
  BY DEF Mission!Init, MissionP!Init
<1>1. /\ \A a : Mission!Done(a) => MissionP!Done(a)
      /\ \A a, place, kind, r :
            Mission!Submit(a, place, kind, r) => MissionP!Submit(a, place, kind, r)
      /\ \A S : Mission!Cross(S) => MissionP!Cross(S)
  BY DEF Mission!Done, MissionP!Done, Mission!Submit, MissionP!Submit,
      Mission!Cross, MissionP!Cross
<1>2. /\ \A S : Mission!Recent(S) = MissionP!Recent(S)
      /\ \A r : Mission!Derived(r) = MissionP!Derived(r)
      /\ \A S : Mission!InFlight(S) = MissionP!InFlight(S)
  BY DEF Mission!Recent, MissionP!Recent, Mission!Derived, MissionP!Derived,
      Mission!InFlight, MissionP!InFlight
<1>3. \A kind, p : Mission!CloseContext(kind, p) = MissionP!CloseContext(kind, p)
  BY <1>2 DEF Mission!CloseContext, MissionP!CloseContext
<1>4. /\ \A a, ctx : Mission!ApplyBuy(a, ctx) => MissionP!ApplyBuy(a, ctx)
      /\ \A c, ctx : Mission!ApplyClose(c, ctx) => MissionP!ApplyClose(c, ctx)
  BY DEF Mission!ApplyBuy, MissionP!ApplyBuy, Mission!ApplyClose, MissionP!ApplyClose
<1>5. Mission!Enter => MissionP!Enter
  BY <1>1, <1>2, <1>3, <1>4 DEF Mission!Enter, MissionP!Enter
<1>6. \A a : Mission!BuyFills(a) => MissionP!BuyFills(a)
  BY <1>1, <1>2, <1>3, <1>4 DEF Mission!BuyFills, MissionP!BuyFills
<1>7. \A a : Mission!BuyFails(a) => MissionP!BuyFails(a)
  BY <1>1, <1>2, <1>3, <1>4 DEF Mission!BuyFails, MissionP!BuyFails
<1>8. \A a : Mission!PersistBuy(a) => MissionP!PersistBuy(a)
  BY <1>1, <1>2, <1>3, <1>4 DEF Mission!PersistBuy, MissionP!PersistBuy
<1>9. \A a : Mission!SellFills(a) => MissionP!SellFills(a)
  BY <1>1, <1>2, <1>3, <1>4 DEF Mission!SellFills, MissionP!SellFills
<1>10. \A a : Mission!SellFails(a) => MissionP!SellFails(a)
  BY <1>1, <1>2, <1>3, <1>4 DEF Mission!SellFails, MissionP!SellFails
<1>11. \A a : Mission!PersistClose(a) => MissionP!PersistClose(a)
  BY <1>1, <1>2, <1>3, <1>4 DEF Mission!PersistClose, MissionP!PersistClose
<1>12. \A a : Mission!PersistExit(a) => MissionP!PersistExit(a)
  BY <1>1, <1>2, <1>3, <1>4 DEF Mission!PersistExit, MissionP!PersistExit
<1>13. Mission!StopDeal => MissionP!StopDeal
  BY <1>1, <1>2, <1>3, <1>4 DEF Mission!StopDeal, MissionP!StopDeal
<1>14. Mission!PersistStop => MissionP!PersistStop
  BY <1>1, <1>2, <1>3, <1>4 DEF Mission!PersistStop, MissionP!PersistStop
<1>15. \A c : Mission!StopCampaign(c) => MissionP!StopCampaign(c)
  BY <1>1, <1>2, <1>3, <1>4 DEF Mission!StopCampaign, MissionP!StopCampaign
<1>16. \A c : Mission!Activate(c) => MissionP!Activate(c)
  BY <1>1, <1>2, <1>3, <1>4 DEF Mission!Activate, MissionP!Activate
<1>17. \A c : Mission!CoolDown(c) => MissionP!CoolDown(c)
  BY <1>1, <1>2, <1>3, <1>4 DEF Mission!CoolDown, MissionP!CoolDown
<1>18. \A kind : Mission!ManualOrder(kind) => MissionP!ManualOrder(kind)
  BY <1>1, <1>2, <1>3, <1>4 DEF Mission!ManualOrder, MissionP!ManualOrder
<1>19. Mission!ResolvePause => MissionP!ResolvePause
  BY <1>1, <1>2, <1>3, <1>4 DEF Mission!ResolvePause, MissionP!ResolvePause
<1>20. Mission!WritePause => MissionP!WritePause
  BY <1>1, <1>2, <1>3, <1>4 DEF Mission!WritePause, MissionP!WritePause
<1>21. Mission!Tick => MissionP!Tick
  BY <1>1, <1>2, <1>3, <1>4 DEF Mission!Tick, MissionP!Tick
<1>22. /\ \A c : Mission!Expected(c) = MissionP!Expected(c)
       /\ \A c : Mission!Ensured(c) => MissionP!Ensured(c)
  BY DEF Mission!Expected, MissionP!Expected, Mission!Ensured, MissionP!Ensured
<1>r. Mission!ReadRow => MissionP!ReadRow
  BY DEF Mission!ReadRow, MissionP!ReadRow
<1>l. Mission!LookUp => MissionP!LookUp
  BY <1>22 DEF Mission!LookUp, MissionP!LookUp
<1>p. Mission!Repair => MissionP!Repair
  BY <1>1, <1>22 DEF Mission!Repair, MissionP!Repair
<1>s. Mission!Search => MissionP!Search
  BY <1>2 DEF Mission!Search, MissionP!Search
<1>t. Mission!Attach => MissionP!Attach
  BY <1>1, <1>22 DEF Mission!Attach, MissionP!Attach
<1>23. Mission!EndTick => MissionP!EndTick
  BY <1>1, <1>2, <1>3, <1>4 DEF Mission!EndTick, MissionP!EndTick
<1>24. Mission!Reenter => MissionP!Reenter
  BY <1>1, <1>2, <1>3, <1>4 DEF Mission!Reenter, MissionP!Reenter
<1>25. \A kind : Mission!Trade(kind) => MissionP!Trade(kind)
  BY <1>1, <1>2, <1>3, <1>4 DEF Mission!Trade, MissionP!Trade
<1>26. Mission!SwitchMode => MissionP!SwitchMode
  BY <1>1, <1>2, <1>3, <1>4 DEF Mission!SwitchMode, MissionP!SwitchMode
<1>q. Mission!Next => MissionP!Next
  BY <1>5, <1>6, <1>7, <1>8, <1>9, <1>10, <1>11, <1>12, <1>13, <1>14, <1>15, <1>16, <1>17,
      <1>18, <1>19, <1>20, <1>21, <1>r, <1>l, <1>p, <1>s, <1>t, <1>23, <1>24, <1>25, <1>26
      DEF Mission!Next, MissionP!Next
<1> QED
  BY <1>0, <1>q DEF missionVars, MissionP!vars

allVars == <<part, vars, orderVars, missionVars, exitVars>>

\* What a step of the instance is to each of its parts
LEMMA PartSteps ==
    ASSUME [MCNext]_allVars
    PROVE  /\ UNCHANGED part
           /\ part = "order" => [Order!Next]_orderVars
           /\ part = "mission" => [Mission!Next]_missionVars
           /\ [Exits!Next]_exitVars
<1>1. CASE part = "sell" /\ OfSell(Next)
  BY <1>1 DEF OfSell
<1>2. CASE part = "order" /\ OfOrder(Order!Next)
  BY <1>2 DEF OfOrder
<1>3. CASE part = "one order" /\ OfOrder(OneOrder!Next)
  BY <1>3 DEF OfOrder
<1>4. CASE part = "mission" /\ OfMission(Mission!Next)
  BY <1>4 DEF OfMission
<1>5. CASE part = "one mission" /\ OfMission(OneMission!Next)
  BY <1>5 DEF OfMission
<1>6. CASE part = "exit" /\ OfExits(Exits!Next)
  BY <1>6 DEF OfExits
<1>7. CASE UNCHANGED allVars
  BY <1>7 DEF allVars
<1> QED
  BY <1>1, <1>2, <1>3, <1>4, <1>5, <1>6, <1>7 DEF MCNext

\* The invariants of the standing order hold of the instance, part by part.
LEMMA OrderPart ==
    /\ MCInit => (part = "order" => OrderP!OrderInv /\ OrderP!BookInv)
    /\ (part = "order" => OrderP!OrderInv /\ OrderP!BookInv) /\ [MCNext]_allVars
        => (part = "order" => OrderP!OrderInv /\ OrderP!BookInv)'
<1>1. MCInit /\ part = "order" => OrderP!OrderInv /\ OrderP!BookInv
  BY SameOrders, OrderP!OrderInit, OrderP!BookInit DEF MCInit
<1>2. ASSUME part = "order", OrderP!OrderInv, OrderP!BookInv, [MCNext]_allVars
      PROVE  (OrderP!OrderInv /\ OrderP!BookInv)'
  <2>1. [OrderP!Next]_(OrderP!vars)
    BY <1>2, PartSteps, SameOrders
  <2>2. Size \in Nat /\ MaxRequests \in Nat
    BY TradingAssumption
  <2>3. OrderP!OrderInv'
    BY <1>2, <2>1, <2>2, OrderP!OrderStep
  <2>4. OrderP!BookInv'
    BY <1>2, <2>1, <2>2, <2>3, OrderP!BookStep DEF OrderP!OrderInv, OrderP!Places
  <2> QED
    BY <2>3, <2>4
<1> QED
  BY <1>1, <1>2, PartSteps

\* Both invariants of the standing order hold of the instance.
LEMMA OrdersAreSound == MCSpec => [](OrdersTracked /\ SellsAlone)
<1> DEFINE Inv == part = "order" => OrderP!OrderInv /\ OrderP!BookInv
<1>1. MCInit => Inv
  BY OrderPart
<1>2. Inv /\ [MCNext]_allVars => Inv'
  BY OrderPart
<1>3. Inv => OrdersTracked /\ SellsAlone
  BY DEF OrdersTracked, SellsAlone, OrderP!OrderInv, Order!OrdersTracked, OrderP!OrdersTracked,
         Order!SellsAlone, OrderP!SellsAlone, Order!Orders, OrderP!Orders, Order!Actors,
         OrderP!Actors
<1> QED
  BY <1>1, <1>2, <1>3, PTL DEF MCSpec, allVars

\* A standing order that may still fill is not forgotten (orders.py), however ticks, requests,
\* fills and crashes interleave.
THEOREM TradingIsTracked == MCSpec => []OrdersTracked
  BY OrdersAreSound, PTL

\* No sale is made while a standing order still offers the coins (orders.py).
THEOREM TradingSellsAlone == MCSpec => []SellsAlone
  BY OrdersAreSound, PTL

\* What an order sold enters the books once (orders.py), whatever is filled, reconciled,
\* canceled and restarted meanwhile, unless it was reconciled for a row that had moved on.
THEOREM TradingIsBooked == MCSpec => []BookedOnce
<1> DEFINE Inv == part = "order" => OrderP!OrderInv /\ OrderP!BookInv
<1>1. MCInit => Inv
  BY OrderPart
<1>2. Inv /\ [MCNext]_allVars => Inv'
  BY OrderPart
<1>3. Inv => BookedOnce
  <2>1. OrderP!OrderInv /\ OrderP!BookInv => OrderP!BookedOnce
    BY OrderP!OnceBooked
  <2> QED
    BY <2>1 DEF BookedOnce, Order!BookedOnce, OrderP!BookedOnce, Order!Orders, OrderP!Orders
<1> QED
  BY <1>1, <1>2, <1>3, PTL DEF MCSpec, allVars

\* Both invariants of the missions hold of the instance.
LEMMA MissionsAreSound == MCSpec => [](MissionsAgree /\ MissionBookedOnce)
<1> DEFINE Inv == part = "mission" => MissionP!MissionInv
<1>0. MissionP!Whole
  BY TradingAssumption DEF MissionP!Whole
<1>1. MCInit => Inv
  BY <1>0, SameMissions, MissionP!MissionInit DEF MCInit
<1>2. Inv /\ [MCNext]_allVars => Inv'
  BY <1>0, PartSteps, SameMissions, MissionP!MissionStep
<1>3. Inv => MissionsAgree /\ MissionBookedOnce
  <2>1. MissionP!MissionInv => MissionP!MissionsAgree /\ MissionP!MissionBookedOnce
    BY <1>0, MissionP!MissionSafe
  <2> QED
    BY <2>1 DEF MissionsAgree, MissionBookedOnce, Mission!MissionsAgree, MissionP!MissionsAgree,
       Mission!MissionBookedOnce, MissionP!MissionBookedOnce, Mission!InState, MissionP!InState,
       Mission!Campaigns, MissionP!Campaigns, Mission!LiveStates, MissionP!LiveStates
<1> QED
  BY <1>1, <1>2, <1>3, PTL DEF MCSpec, allVars

\* A mission nobody's request crossed stays with the row of its symbol
\* (spot_sidestep_campaign.py, orders.py), whatever the plugin, the worker and the dashboard
\* read before the others wrote.
THEOREM TradingMissionsAgree == MCSpec => []MissionsAgree
  BY MissionsAreSound, PTL

\* The summary of such a mission books every leg once (spot_sidestep_campaign.py).
THEOREM TradingMissionsAreBooked == MCSpec => []MissionBookedOnce
  BY MissionsAreSound, PTL

\* A spike does not sell a deal (dca_tp_state.py): whoever buys, sells, waits and saves between
\* the ticks, a confirmation that sells has counted enough ticks on end at this target.
THEOREM SpikesAreFiltered == Steady => (MCSpec => []SpikesFiltered)
<1> SUFFICES ASSUME Steady
             PROVE  MCSpec => []SpikesFiltered
  OBVIOUS
<1>1. MCInit => ExitInv
  BY ExitInit DEF MCInit
<1>2. ExitInv /\ [MCNext]_allVars => ExitInv'
  BY ExitStep, PartSteps
<1>3. ExitInv => SpikesFiltered
  BY DEF ExitInv, SpikesFiltered
<1> QED
  BY <1>1, <1>2, <1>3, PTL DEF MCSpec, allVars
==================================================================================
