------------------------ MODULE MCStockTransactions ------------------------
(* Requests for two products and two orders. *)
EXTENDS StockTransactions, TLC

CONSTANTS p1, p2, b1, b2, t1, t2

MCBatchOrder == b1 :> 1 @@ b2 :> 2
OneOfEach == [p \in Product |-> 1]
MCNeed == [o \in Order |-> OneOfEach]
MCSupply == [p \in Product |-> IF p = p1 THEN 2 ELSE 1]

Ask(kind, doc, lines) == [kind |-> kind, doc |-> doc, lines |-> lines, qty |-> OneOfEach]

\* One order is given to production and a batch of it starts, another one
\* reserves and is cancelled; goods come, in the opposite order, and go.
Mixed == {Ask("give", 1, <<p1, p2>>),
          Ask("reserve", 2, <<p1>>), Ask("arrive", None, <<p2, p1>>),
          Ask("issue", None, <<p1>>), Ask("start", b1, <<p1, p2>>),
          Ask("cancel", 2, <<>>)}

\* Two batches that need the same product.
TwoStarts == {Ask("start", b1, <<p1, p2>>), Ask("start", b2, <<p1, p2>>)}

\* Goods arrive for an order while it is being cancelled.
CancelAndArrive == {Ask("arrive", None, <<p1>>), Ask("cancel", 2, <<>>)}

\* None of these requests clash, as the theorems ask of them.
ASSUME NoClash == Apart
=============================================================================
