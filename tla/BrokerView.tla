------------------------------ MODULE BrokerView ------------------------------
(***************************************************************************)
(* The broker of core/broker/paper_broker.py as the server's handlers see  *)
(* it: the quantities, the prices and the kill switch, without orders,     *)
(* cash and P&L.  Whether a price or an order finds the daily loss is left *)
(* open.                                                                   *)
(*                                                                         *)
(* The server trades at the market and only what has a price, so an order  *)
(* is filled at once, or refused because the switch is on or has just been *)
(* found due.  AIBrain builds its handlers from these operators;           *)
(* TradingEngine, with the whole of PaperBroker inside, implements         *)
(* BrokerSpec (TradingEngineProofs).                                       *)
(***************************************************************************)
EXTENDS Integers

CONSTANT Symbols   \* instruments

VARIABLES
    qty,           \* quantity of each position, negative when short
    ltp,           \* last price, or NoPrice
    killed,        \* _killed
    squareOffs     \* square-offs posted to the event loop and not yet run

viewVars == <<qty, ltp, killed, squareOffs>>

NoPrice == 0

-----------------------------------------------------------------------------
(* A view is what one handler finds and leaves of the broker for one         *)
(* symbol: [held, killed, posts].                                            *)

View(s) == [held |-> qty[s], killed |-> killed, posts |-> squareOffs]

Store(s, v) ==
    /\ qty' = [qty EXCEPT ![s] = v.held]
    /\ killed' = v.killed
    /\ squareOffs' = v.posts

\* update_ltp may find the daily loss: the flag is set, a square-off is posted.
AfterPrice(v) ==
    {v} \cup {u \in {[held |-> v.held, killed |-> TRUE, posts |-> v.posts + 1]} : ~v.killed}

\* place_order: refused when killed; else filled, or refused with the flag set.
AfterOrder(v, n) ==
    IF v.killed THEN {v}
    ELSE {[held |-> v.held + n, killed |-> FALSE, posts |-> v.posts],
          [held |-> v.held, killed |-> TRUE, posts |-> v.posts]}

-----------------------------------------------------------------------------
(* The calls                                                                 *)

UpdateLtp(s, p) ==
    /\ ltp' = [ltp EXCEPT ![s] = p]
    /\ \E v \in AfterPrice(View(s)) : Store(s, v)

\* The switch is looked at before the price.
PlaceOrder(s, n) ==
    /\ \E v \in AfterOrder(View(s), n) :
        /\ Store(s, v)
        /\ v.held # qty[s] => ltp[s] # NoPrice
    /\ UNCHANGED ltp

CloseAll == qty' = [s \in Symbols |-> 0]

\* The callback posted by update_ltp.
PostedSquareOff ==
    /\ squareOffs > 0
    /\ squareOffs' = squareOffs - 1
    /\ CloseAll
    /\ UNCHANGED <<ltp, killed>>

\* square_off_all, which the operator's routes call.
SquareOffAll == CloseAll /\ UNCHANGED <<ltp, killed, squareOffs>>

\* /api/kill/reset
ClearSwitch == killed' = FALSE /\ UNCHANGED <<qty, ltp, squareOffs>>

BrokerInit ==
    /\ qty = [s \in Symbols |-> 0]
    /\ ltp = [s \in Symbols |-> NoPrice]
    /\ killed = FALSE
    /\ squareOffs = 0

BrokerNext ==
    \/ \E s \in Symbols, p \in Nat \ {NoPrice} : UpdateLtp(s, p)
    \/ \E s \in Symbols, n \in Int \ {0} : PlaceOrder(s, n)
    \/ PostedSquareOff
    \/ SquareOffAll
    \/ ClearSwitch

BrokerSpec == BrokerInit /\ [][BrokerNext]_viewVars
=============================================================================
