----------------------------- MODULE OrderLedger -----------------------------
(***************************************************************************)
(* What any broker behind core/broker/base_broker.py promises about an     *)
(* order, whatever it does with prices and positions: an order is refused, *)
(* or it works until it is executed in full or withdrawn; it is executed   *)
(* at most once, and once it has ended nothing about it changes.           *)
(* A step may move any number of orders: one price can execute several.    *)
(***************************************************************************)
EXTENDS Integers, Sequences

VARIABLE ledger   \* the orders ever submitted, oldest first

States == {"working", "executed", "withdrawn", "refused"}

Entry == [asked : Nat, done : Nat, state : States]

TypeOK == ledger \in Seq(Entry)

\* An order enters the ledger working, executed at once, or refused; only an
\* order for a positive quantity is accepted.
Enters(e) ==
    \/ e.state = "working"  /\ e.asked > 0 /\ e.done = 0
    \/ e.state = "executed" /\ e.asked > 0 /\ e.done = e.asked
    \/ e.state = "refused"  /\ e.done = 0

Execute(e, f) ==
    e.state = "working" /\ f = [asked |-> e.asked, done |-> e.asked, state |-> "executed"]

Withdraw(e, f) ==
    e.state = "working" /\ f = [e EXCEPT !.state = "withdrawn"]

Init == ledger = << >>

Next ==
    /\ DOMAIN ledger \subseteq DOMAIN ledger'
    /\ \A i \in DOMAIN ledger :
        \/ ledger'[i] = ledger[i]
        \/ Execute(ledger[i], ledger'[i])
        \/ Withdraw(ledger[i], ledger'[i])
    /\ \A i \in DOMAIN ledger' \ DOMAIN ledger : Enters(ledger'[i])

Spec == Init /\ [][Next]_ledger
=============================================================================
