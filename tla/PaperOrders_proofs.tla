------------------------- MODULE PaperOrders_proofs -------------------------
(***************************************************************************)
(* Proofs about PaperOrders, for every quantity, every number of shares    *)
(* held before, every deadline and any number of midnights: the account is *)
(* bounded, the report leaves out late fills only, and FLAT is true when   *)
(* it is said.                                                             *)
(***************************************************************************)
EXTENDS PaperOrders, TLAPS

\* The account holds what it held and what the two orders of the run did to it.
Balance == position = Initial + order["buy"].filled - order["sell"].filled

\* A broker fills no more than was ordered, a buy is ordered for the quantity
\* asked, and a sale for the fills that were seen.
OrdersBounded ==
    /\ \A s \in Side : order[s].filled <= order[s].quantity
    /\ \/ order["buy"].quantity = 0
       \/ quantity > 0 /\ order["buy"].quantity = quantity
    /\ order["sell"].quantity <= filled["buy"]
    /\ \A s \in Side : filled[s] <= order[s].filled

\* The run is at the buy, or before it.
Buying ==
    \/ pc \in {"position", "buy"}
    \/ pc \in {"poll", "sleep"} /\ waiting = "buy"

\* What has not happened yet at each place of the run.
Progress ==
    /\ pc \in {"position", "buy"} => order["buy"].quantity = 0
    /\ Buying \/ pc = "sell" => order["sell"].quantity = 0
    /\ Buying => filled["buy"] = 0
    /\ pc \notin {"position", "done"} => initial = Initial
    /\ pc = "sleep" => slept < Timeout

\* What a report was given on; nothing is reported before the end.
Reported ==
    /\ pc # "done" => report = "none"
    /\ report = "FLAT" => filled["sell"] >= filled["buy"]
    /\ report = "BUY_NOT_FILLED" => filled["buy"] = 0

IInv == TypeOK /\ Balance /\ OrdersBounded /\ Progress /\ Reported

LEMMA InitInv == Init => IInv
<1> SUFFICES ASSUME Init PROVE IInv
  OBVIOUS
<1>1. order["buy"] = [quantity |-> 0, filled |-> 0, day |-> 0]
  BY DEF Init, Side, OrderId
<1>2. order["sell"] = [quantity |-> 0, filled |-> 0, day |-> 0]
  BY DEF Init, Side, OrderId
<1>3. order \in [OrderId -> [quantity : Nat, filled : Nat, day : 0..LastDay]]
  BY PaperAssumption DEF Init
<1>4. TypeOK
  BY <1>3, PaperAssumption DEF Init, TypeOK, Side, Status
<1>5. filled["buy"] = 0 /\ filled["sell"] = 0
  BY DEF Init, Side
<1>6. Balance
  BY <1>1, <1>2, PaperAssumption DEF Init, Balance
<1>7. OrdersBounded
  BY <1>1, <1>2, <1>5 DEF OrdersBounded, Side
<1>8. Progress /\ Reported
  BY <1>1, <1>2, <1>5 DEF Init, Progress, Reported, Buying
<1> QED
  BY <1>4, <1>6, <1>7, <1>8 DEF IInv

LEMMA NextInv == IInv /\ [Next]_vars => IInv'
<1> SUFFICES ASSUME IInv, [Next]_vars PROVE IInv'
  OBVIOUS
<1> USE PaperAssumption
<1> USE DEF IInv, Side, OrderId, Status, Buying
<1>1. CASE ReadInitial
  <2>1. order["buy"].filled = 0 /\ order["sell"].filled = 0
    BY <1>1 DEF ReadInitial, TypeOK, OrdersBounded, Progress
  <2>2. position = Initial
    BY <2>1 DEF Balance, TypeOK
  <2>3. TypeOK'
    BY <1>1, <2>2 DEF ReadInitial, Raise, Return, broker, TypeOK
  <2> QED
    BY <1>1, <2>2, <2>3
    DEF ReadInitial, Raise, Return, broker, TypeOK, Balance, OrdersBounded, Progress, Reported
<1>2. CASE Buy
  <2>1. TypeOK'
    BY <1>2 DEF Buy, PlaceOrder, Accept, Raise, Return, broker, TypeOK
  <2>2. order["buy"].filled = 0
    BY <1>2 DEF Buy, TypeOK, OrdersBounded, Progress
  <2> QED
    BY <1>2, <2>1, <2>2
    DEF Buy, PlaceOrder, Accept, Raise, Return, broker,
        TypeOK, Balance, OrdersBounded, Progress, Reported
<1>3. CASE Sell
  <2>1. TypeOK'
    BY <1>3 DEF Sell, PlaceOrder, Accept, Raise, Return, broker, TypeOK
  <2>2. order["sell"].filled = 0 /\ filled["sell"] = 0
    <3>1. order["sell"].quantity = 0
      BY <1>3 DEF Sell, Progress
    <3>2. order["sell"].filled \in Nat /\ filled["sell"] \in Nat
      BY DEF TypeOK
    <3>3. order["sell"].filled <= order["sell"].quantity /\ filled["sell"] <= order["sell"].filled
      BY DEF OrdersBounded
    <3> QED
      BY <3>1, <3>2, <3>3
  <2>3. CASE filled["buy"] > 0 /\ Accept("sell", filled["buy"])
             /\ UNCHANGED <<quantity, exchange, initial, filled>>
    <3>1. order'["sell"].quantity = filled["buy"] /\ order'["sell"].filled = 0
          /\ order'["buy"] = order["buy"] /\ filled' = filled /\ position' = position
      BY <2>3 DEF Accept, TypeOK
    <3>2. Balance' /\ OrdersBounded'
      BY <2>2, <2>3, <3>1 DEF Balance, OrdersBounded, TypeOK
    <3>3. \/ pc' = "poll" /\ waiting' = "sell" /\ report' = report
          \/ pc' = "done" /\ report' = "ERROR"
      BY <1>3, <2>3 DEF Sell, PlaceOrder, Raise, Return, Accept, broker
    <3>4. Progress' /\ Reported'
      BY <1>3, <2>3, <3>1, <3>3 DEF Sell, Progress, Reported, TypeOK
    <3> QED
      BY <2>1, <3>2, <3>4
  <2>4. CASE Raise /\ UNCHANGED broker
    BY <1>3, <2>1, <2>4
    DEF Sell, Raise, Return, broker, TypeOK, Balance, OrdersBounded, Progress, Reported
  <2> QED
    BY <1>3, <2>3, <2>4 DEF Sell, PlaceOrder, Raise
<1>4. CASE Poll
  <2>1. FilledQuantity(waiting) \in Nat /\ FilledQuantity(waiting) <= order[waiting].filled
    BY DEF FilledQuantity, TypeOK
  <2>2. TypeOK'
    BY <1>4, <2>1 DEF Poll, AfterWait, Raise, Return, broker, TypeOK
  <2>3. CASE UNCHANGED filled
    BY <1>4, <2>2, <2>3
    DEF Poll, AfterWait, Raise, Return, broker,
        TypeOK, Balance, OrdersBounded, Progress, Reported
  <2>4. CASE filled' = [filled EXCEPT ![waiting] = FilledQuantity(waiting)]
             /\ AfterWait(FilledQuantity(waiting))
             /\ UNCHANGED <<waiting, quantity, exchange, initial, slept>>
             /\ UNCHANGED broker
    <3>1. CASE waiting = "buy"
      <4>1. filled'["buy"] \in Nat /\ filled'["buy"] <= order["buy"].filled
            /\ filled'["sell"] = filled["sell"]
        BY <2>1, <2>4, <3>1 DEF TypeOK
      <4>2. order["sell"].quantity = 0 /\ order' = order /\ position' = position
        BY <1>4, <2>4, <3>1 DEF Poll, Progress, broker
      <4>3. \/ pc' = "sell" /\ report' = report
            \/ pc' = "done" /\ report' = "BUY_NOT_FILLED" /\ filled'["buy"] = 0
        <5>1. filled'["buy"] = FilledQuantity(waiting)
          BY <2>4, <3>1 DEF TypeOK
        <5> QED
          BY <2>4, <3>1, <5>1 DEF AfterWait, Return
      <4>4. Balance' /\ OrdersBounded'
        BY <2>4, <4>1, <4>2 DEF Balance, OrdersBounded, TypeOK
      <4>5. Progress' /\ Reported'
        <5>1. initial' = Initial /\ waiting' = "buy"
          BY <1>4, <2>4, <3>1 DEF Poll, Progress
        <5>2. filled["buy"] = 0
          BY <1>4, <3>1 DEF Poll, Progress
        <5>3. report' = "FLAT" => filled'["sell"] >= filled'["buy"]
          BY <1>4, <4>3 DEF Poll, Reported
        <5> QED
          BY <1>4, <4>1, <4>2, <4>3, <5>1, <5>2, <5>3 DEF Poll, Progress, Reported
      <4> QED
        BY <2>2, <4>4, <4>5
    <3>2. CASE waiting = "sell"
      <4>1. filled'["sell"] \in Nat /\ filled'["sell"] <= order["sell"].filled
            /\ filled'["buy"] = filled["buy"]
        BY <2>1, <2>4, <3>2 DEF TypeOK
      <4>2. order' = order /\ position' = position /\ pc' = "final" /\ report' = report
            /\ initial' = initial /\ waiting' = waiting /\ quantity' = quantity
        BY <2>4, <3>2 DEF AfterWait, broker
      <4>3. Balance' /\ OrdersBounded'
        BY <4>1, <4>2 DEF Balance, OrdersBounded, TypeOK
      <4>4. Progress' /\ Reported'
        BY <1>4, <3>2, <4>1, <4>2 DEF Poll, Progress, Reported
      <4> QED
        BY <2>2, <4>3, <4>4
    <3> QED
      BY <3>1, <3>2 DEF TypeOK
  <2> QED
    BY <1>4, <2>3, <2>4 DEF Poll, Raise
<1>5. CASE Sleep
  BY <1>5 DEF Sleep, broker, TypeOK, Balance, OrdersBounded, Progress, Reported
<1>6. CASE ReadFinal
  <2>1. TypeOK'
    BY <1>6 DEF ReadFinal, Verdict, Raise, Return, broker, TypeOK
  <2> QED
    BY <1>6, <2>1
    DEF ReadFinal, Verdict, Raise, Return, broker,
        TypeOK, Balance, OrdersBounded, Progress, Reported
<1>7. CASE Midnight
  BY <1>7 DEF Midnight, client, TypeOK, Balance, OrdersBounded, Progress, Reported
<1>8. ASSUME NEW side \in Side, Fill(side) PROVE IInv'
  <2>1. PICK n \in 1..(order[side].quantity - order[side].filled) :
           /\ order' = [order EXCEPT ![side].filled = @ + n]
           /\ position' = IF side = "buy" THEN position + n ELSE position - n
    BY <1>8 DEF Fill
  <2>2. n \in Nat /\ order[side].filled + n <= order[side].quantity
    BY <2>1 DEF TypeOK
  <2>3. order' \in [OrderId -> [quantity : Nat, filled : Nat, day : 0..LastDay]]
    BY <2>1, <2>2 DEF TypeOK
  <2>4. /\ order'[side].filled = order[side].filled + n
        /\ order'[side].quantity = order[side].quantity
        /\ \A o \in OrderId : o # side => order'[o] = order[o]
    BY <2>1, <2>2 DEF TypeOK
  <2>5. position' \in Int
    BY <2>1, <2>2 DEF TypeOK
  <2>6. UNCHANGED <<client, day>>
    BY <1>8 DEF Fill
  <2>7. TypeOK'
    BY <2>3, <2>5, <2>6 DEF TypeOK, client
  <2>8. Balance'
    BY <2>1, <2>2, <2>4 DEF TypeOK, Balance
  <2>9. OrdersBounded' /\ Progress' /\ Reported'
    BY <2>2, <2>3, <2>4, <2>6 DEF TypeOK, OrdersBounded, Progress, Reported, client
  <2> QED
    BY <2>7, <2>8, <2>9
<1>9. CASE UNCHANGED vars
  BY <1>9 DEF vars, client, broker, TypeOK, Balance, OrdersBounded, Progress, Reported
<1> QED
  BY <1>1, <1>2, <1>3, <1>4, <1>5, <1>6, <1>7, <1>8, <1>9 DEF Next, Client

LEMMA Invariance == Spec => []IInv
  BY InitInv, NextInv, PTL DEF Spec

\* Every state of every run has its type.
THEOREM TypeCorrect == Spec => []TypeOK
<1>1. IInv => TypeOK
  BY DEF IInv
<1> QED
  BY <1>1, Invariance, PTL

\* The run neither oversells nor buys twice, whatever fails or fills
\* (paper_orders.py:99-135).
THEOREM PositionIsBounded == Spec => []PositionBounded
<1>1. IInv => PositionBounded
  <2> SUFFICES ASSUME IInv PROVE PositionBounded
    OBVIOUS
  <2>1. /\ order["buy"].filled \in Nat /\ order["sell"].filled \in Nat
        /\ order["buy"].quantity \in Nat /\ order["sell"].quantity \in Nat
        /\ filled["buy"] \in Nat /\ quantity \in Int /\ Initial \in Nat
    BY PaperAssumption DEF IInv, TypeOK, Side, OrderId
  <2>2. order["sell"].filled <= order["buy"].filled
    BY <2>1 DEF IInv, OrdersBounded, Side
  <2>3. order["buy"].filled <= order["buy"].quantity
    BY DEF IInv, OrdersBounded, Side
  <2>4. \/ order["buy"].quantity = 0
        \/ quantity > 0 /\ order["buy"].quantity = quantity
    BY DEF IInv, OrdersBounded
  <2>5. position = Initial + order["buy"].filled - order["sell"].filled
    BY DEF IInv, Balance
  <2> QED
    BY <2>1, <2>2, <2>3, <2>4, <2>5 DEF PositionBounded
<1> QED
  BY <1>1, Invariance, PTL

\* What a report leaves out is what the broker filled unseen
\* (paper_orders.py:113-126, 147-188).
THEOREM ReportsLeaveOutUnseenFills == Spec => []UnseenFillsOnly
<1>1. IInv => UnseenFillsOnly
  <2> SUFFICES ASSUME IInv, report \in {"FLAT", "BUY_NOT_FILLED"}
               PROVE  position - Initial = order["buy"].filled - filled["buy"]
    BY DEF UnseenFillsOnly
  <2>1. /\ order["buy"].filled \in Nat /\ order["sell"].filled \in Nat
        /\ order["sell"].quantity \in Nat
        /\ filled["buy"] \in Nat /\ filled["sell"] \in Nat /\ Initial \in Nat
    BY PaperAssumption DEF IInv, TypeOK, Side, OrderId
  <2>2. order["sell"].filled = filled["buy"]
    BY <2>1 DEF IInv, OrdersBounded, Reported, Side
  <2> QED
    BY <2>1, <2>2 DEF IInv, Balance
<1> QED
  BY <1>1, Invariance, PTL

\* FLAT is true of the account at the moment it is reported
\* (paper_orders.py:121-126).
THEOREM FlatIsTrueWhenReported == Spec => FlatWhenReported
<1>1. IInv /\ [Next]_vars => [report' = "FLAT" /\ report # "FLAT" => position = Initial]_vars
  <2> SUFFICES ASSUME IInv, Next, report' = "FLAT", report # "FLAT"
               PROVE  position = Initial
    BY DEF vars
  <2>1. ReadFinal
    BY DEF Next, Client, ReadInitial, Buy, Sell, PlaceOrder, Poll, AfterWait, Sleep,
           Fill, Midnight, Raise, Return, client
  <2>2. position = initial
    BY <2>1 DEF ReadFinal, Verdict, Raise, Return
  <2>3. initial = Initial
    BY <2>1 DEF IInv, Progress, ReadFinal
  <2> QED
    BY <2>2, <2>3
<1> QED
  BY <1>1, Invariance, PTL DEF Spec, FlatWhenReported
=============================================================================
