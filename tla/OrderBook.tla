------------------------------ MODULE OrderBook ------------------------------
(***************************************************************************)
(* What order submission promises, without transactions or retries:        *)
(* orders enter the book one at a time, each against the offer's current   *)
(* revision, inside its ordering window, within the capacity that is left, *)
(* while the seller may sell, and at most once per customer and key for as *)
(* long as the key is retained.                                            *)
(*                                                                         *)
(* A customer orders at a desk, to which only a current session admits.    *)
(* The session may end while its owner stands there, but it admits nobody  *)
(* any more: one order may follow each admission, and whoever has left the *)
(* desk, with an order or without, needs a current session to come back.   *)
(***************************************************************************)
EXTENDS Naturals, Sequences

CONSTANTS Account, Key, Trip, Terms, Offer, Capacity, Retention,
          Desk  \* places at which an order can be under way

VARIABLES now, trip, orders, selling,
          current,   \* accounts with a session
          admitted   \* <<desk, customer>>: who may order

vars == <<now, trip, orders, selling, current, admitted>>

Init ==
    /\ now = 0
    /\ trip = [t \in Trip |-> [version |-> 1, remaining |-> Capacity[t]]]
    /\ orders = << >>
    /\ selling = {Offer[t].seller : t \in Trip}
    /\ current = Account
    /\ admitted = {}

MayOrder(customer, t, terms) ==
    /\ Offer[t].status = "PUBLISHED"
    /\ Offer[t].seller # customer
    /\ Offer[t].seller \in selling
    /\ terms.mode \in Offer[t].modes
    /\ terms.units <= trip[t].remaining

KeyIsFree(customer, key, at) ==
    \A i \in 1 .. Len(orders) :
        orders[i].customer = customer /\ orders[i].key = key =>
            orders[i].submittedAt + Retention <= at

Admit(desk, customer) ==
    /\ customer \in current
    /\ admitted' = admitted \cup {<<desk, customer>>}
    /\ UNCHANGED <<now, trip, orders, selling, current>>

Leave(desk, customer) ==
    /\ admitted' = admitted \ {<<desk, customer>>}
    /\ UNCHANGED <<now, trip, orders, selling, current>>

\* an order enters the book; it bears the time at which it was reserved
Accept(desk, customer, key, t, terms, at) ==
    /\ <<desk, customer>> \in admitted
    /\ admitted' = admitted \ {<<desk, customer>>}
    /\ MayOrder(customer, t, terms)
    /\ KeyIsFree(customer, key, at)
    /\ at <= now
    /\ Offer[t].opens <= at /\ at < Offer[t].closes
    /\ orders' = Append(orders,
          [customer |-> customer, key |-> key, trip |-> t, terms |-> terms,
           version |-> trip[t].version, submittedAt |-> at])
    /\ trip' = [trip EXCEPT ![t] = [version |-> trip[t].version + 1,
                                    remaining |-> trip[t].remaining - terms.units]]
    /\ UNCHANGED <<now, selling, current>>

Tick == now' = now + 1 /\ UNCHANGED <<trip, orders, selling, current, admitted>>

EndSession(a) ==
    /\ current' = current \ {a}
    /\ UNCHANGED <<now, trip, orders, selling, admitted>>

Suspend(a) ==
    /\ a \in selling
    /\ selling' = selling \ {a}
    /\ UNCHANGED <<now, trip, orders, current, admitted>>

Next ==
    \/ \E desk \in Desk, customer \in Account :
          \/ Admit(desk, customer)
          \/ Leave(desk, customer)
          \/ \E key \in Key, t \in Trip, terms \in Terms, at \in 0 .. now :
                Accept(desk, customer, key, t, terms, at)
    \/ Tick
    \/ \E a \in Account : EndSession(a) \/ Suspend(a)

Spec == Init /\ [][Next]_vars
=============================================================================
