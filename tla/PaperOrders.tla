---------------------------- MODULE PaperOrders ----------------------------
(***************************************************************************)
(* KISPaperOrderClient.run_buy_then_sell (integrations/kis/                *)
(* paper_orders.py): buy at the market, wait for a fill, sell what was     *)
(* filled, wait again, and report what the account holds.  The broker      *)
(* fills whenever it likes, also in parts and after the client has given   *)
(* up, and any call may fail before or after the broker has acted on it.   *)
(*                                                                         *)
(* The token and the throttle of KISPaperClient are part of a call: what   *)
(* they can do to a run is to make one of its calls fail.                  *)
(***************************************************************************)
EXTENDS Integers

CONSTANTS Quantities,  \* the quantities a run is started with
          Initial,     \* shares in the account before the run
          Earlier,     \* shares bought earlier the same day, by another order
          Timeout,     \* sleeps until the deadline of a wait
          LastDay      \* bound: midnights (UTC) that pass

ASSUME PaperAssumption ==
    /\ Quantities \subseteq Int
    /\ Initial \in Nat /\ Earlier \in Nat
    /\ Timeout \in Nat /\ LastDay \in Nat

Side == {"buy", "sell"}
OrderId == Side \cup {"earlier"}
\* account_snapshot knows the exchanges by other names than the orders do.
AccountExchange == {"NASD", "NAS", "NYS", "AMS"}
OrderExchange == {"NASD", "NYSE", "AMEX"}
Status == {"FLAT", "NOT_FLAT", "SELL_NOT_FILLED", "BUY_NOT_FILLED", "ERROR"}

VARIABLES pc,        \* what the client does next
          waiting,   \* the side of the order waited for
          quantity, exchange,
          initial,   \* initial_position, as it was read
          slept,     \* sleeps in the present wait
          filled,    \* filled_buy and filled_sell, once a wait has returned
          report,    \* the status the caller gets, "none" until then
          order,     \* at the broker: each order's quantity, fills and date
          position,  \* the shares in the account
          day        \* the date in UTC

client == <<pc, waiting, quantity, exchange, initial, slept, filled, report>>
broker == <<order, position, day>>
vars == <<client, broker>>

TypeOK ==
    /\ pc \in {"position", "buy", "poll", "sleep", "sell", "final", "done"}
    /\ waiting \in Side
    /\ quantity \in Quantities /\ exchange \in AccountExchange \cup OrderExchange
    /\ initial \in Nat
    /\ slept \in 0..Timeout
    /\ filled \in [Side -> Nat]
    /\ report \in Status \cup {"none"}
    /\ order \in [OrderId -> [quantity : Nat, filled : Nat, day : 0..LastDay]]
    /\ position \in Int
    /\ day \in 0..LastDay

Init ==
    /\ pc = "position" /\ waiting = "buy"
    /\ quantity \in Quantities /\ exchange \in AccountExchange \cup OrderExchange
    /\ initial = 0 /\ slept = 0
    /\ filled = [s \in Side |-> 0]
    /\ report = "none"
    /\ order = [o \in OrderId |->
                  LET shares == IF o = "earlier" THEN Earlier ELSE 0
                  IN [quantity |-> shares, filled |-> shares, day |-> 0]]
    /\ position = Initial
    /\ day = 0
-----------------------------------------------------------------------------
(* The client. *)

\* What the caller of the command gets: the result, or the reason of an error.
Return(status) == pc' = "done" /\ report' = status

\* Any call may raise, for its token, its transport or its answer: nothing
\* catches it before the command line, which prints the reason alone.
Raise == Return("ERROR") /\ UNCHANGED <<waiting, quantity, exchange, initial, slept, filled>>

ReadInitial ==
    /\ pc = "position"
    /\ \/ /\ exchange \in AccountExchange
          /\ initial' = position
          /\ pc' = "buy"
          /\ UNCHANGED <<waiting, quantity, exchange, slept, filled, report>>
       \/ Raise
    /\ UNCHANGED broker

\* The broker accepts an order for n shares.
Accept(side, n) ==
    /\ order' = [order EXCEPT ![side] = [quantity |-> n, filled |-> 0, day |-> day]]
    /\ UNCHANGED <<position, day>>

\* Nothing is sent for a quantity or an exchange that is not valid.  An accepted
\* order starts its wait, unless its answer is lost.
PlaceOrder(side, n) ==
    \/ /\ n > 0 /\ exchange \in OrderExchange
       /\ Accept(side, n)
       /\ \/ /\ pc' = "poll" /\ waiting' = side /\ slept' = 0
             /\ UNCHANGED <<quantity, exchange, initial, filled, report>>
          \/ Raise
    \/ Raise /\ UNCHANGED broker

Buy == pc = "buy" /\ PlaceOrder("buy", quantity)

\* Variant: the sale is for what was ordered.
SellRequested == pc = "sell" /\ PlaceOrder("sell", quantity)

Sell == pc = "sell" /\ PlaceOrder("sell", filled["buy"])

\* The executions dated today whose order has the receipt's id.
FilledQuantity(side) == IF order[side].day = day THEN order[side].filled ELSE 0

\* Variant: a partial fill counts as no fill.
AfterWaitForAll(n) ==
    IF waiting = "sell" THEN pc' = "final" /\ UNCHANGED report
    ELSE IF n < quantity THEN Return("BUY_NOT_FILLED")
    ELSE pc' = "sell" /\ UNCHANGED report

\* What follows a wait that returned n fills.
AfterWait(n) ==
    IF waiting = "sell" THEN pc' = "final" /\ UNCHANGED report
    ELSE IF n = 0 THEN Return("BUY_NOT_FILLED")
    ELSE pc' = "sell" /\ UNCHANGED report

\* One turn of _wait_for_fill: the first fill, or the deadline, ends it.
Poll ==
    /\ pc = "poll"
    /\ \/ IF FilledQuantity(waiting) > 0 \/ slept >= Timeout
          THEN /\ filled' = [filled EXCEPT ![waiting] = FilledQuantity(waiting)]
               /\ AfterWait(FilledQuantity(waiting))
               /\ UNCHANGED <<waiting, quantity, exchange, initial, slept>>
          ELSE /\ pc' = "sleep"
               /\ UNCHANGED <<waiting, quantity, exchange, initial, slept, filled, report>>
       \/ Raise
    /\ UNCHANGED broker

\* Variant: every sleep moves the deadline.
SleepMovesDeadline ==
    /\ pc = "sleep" /\ pc' = "poll"
    /\ UNCHANGED <<waiting, quantity, exchange, initial, slept, filled, report, broker>>

Sleep ==
    /\ pc = "sleep" /\ pc' = "poll"
    /\ slept' = slept + 1
    /\ UNCHANGED <<waiting, quantity, exchange, initial, filled, report, broker>>

\* Variant: the account is not compared.
VerdictByFills ==
    IF filled["sell"] < filled["buy"] THEN "SELL_NOT_FILLED" ELSE "FLAT"

\* The account is read once, after the second wait, and compared.
Verdict ==
    IF filled["sell"] < filled["buy"] THEN "SELL_NOT_FILLED"
    ELSE IF position # initial THEN "NOT_FLAT"
    ELSE "FLAT"

ReadFinal ==
    /\ pc = "final"
    /\ \/ Return(Verdict) /\ UNCHANGED <<waiting, quantity, exchange, initial, slept, filled>>
       \/ Raise
    /\ UNCHANGED broker

Client == ReadInitial \/ Buy \/ Poll \/ Sleep \/ Sell \/ ReadFinal
-----------------------------------------------------------------------------
(* The broker, at any time. *)

Fill(side) ==
    /\ \E n \in 1..(order[side].quantity - order[side].filled) :
           /\ order' = [order EXCEPT ![side].filled = @ + n]
           /\ position' = IF side = "buy" THEN position + n ELSE position - n
    /\ UNCHANGED <<client, day>>

Midnight ==
    /\ day < LastDay /\ day' = day + 1
    /\ UNCHANGED <<client, order, position>>

Next == Client \/ Midnight \/ \E side \in Side : Fill(side)

Spec == Init /\ [][Next]_vars

\* Calls return or time out and sleeps end, so the client goes on.
LiveSpec == Spec /\ WF_vars(Client)
-----------------------------------------------------------------------------
(* Properties. *)

\* Whatever the broker fills and whichever calls fail, the run leaves the
\* account with no fewer shares than it found and with at most the quantity it
\* was asked to buy more: it sells only what it saw filled, and it repeats no
\* order whose answer was lost (paper_orders.py:99-135).
PositionBounded ==
    /\ Initial <= position
    /\ quantity > 0 => position <= Initial + quantity
    /\ quantity <= 0 => position = Initial

\* After FLAT or BUY_NOT_FILLED the only shares the report does not account for
\* are those the buy order was given where the client did not look: after its
\* wait, or on another date (paper_orders.py:113-126, 147-188).
UnseenFillsOnly ==
    report \in {"FLAT", "BUY_NOT_FILLED"} =>
        position - Initial = order["buy"].filled - filled["buy"]

\* FLAT is said of an account that is flat, also when the buy was filled further
\* after its wait had ended (paper_orders.py:121-126).
FlatWhenReported == [][report' = "FLAT" /\ report # "FLAT" => position = Initial]_vars

\* A run ends, in a result or an error, whatever the broker does
\* (paper_orders.py:137-145).
RunEnds == <>(report # "none")
=============================================================================
