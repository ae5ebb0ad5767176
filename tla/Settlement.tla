----------------------------- MODULE Settlement -----------------------------
(***************************************************************************)
(* What the exchange promises the seller of a listing when a bot buys from *)
(* it, without the bot: no query, no rows, no transaction, no failures.    *)
(* A listing is bought by the bot at most once, in one step that takes all *)
(* that is left; the seller is paid for at least that and never for more   *)
(* than was listed.  A bot may even buy a listing that has just gone.      *)
(***************************************************************************)
EXTENDS Integers

CONSTANT Listings

VARIABLES
    units,     \* what a listing starts with
    order,     \* "none", "open" or "gone"
    left,      \* units it still holds
    receipts,  \* how often the bot bought it
    paid       \* units the bot paid for

vars == <<units, order, left, receipts, paid>>

Init ==
    /\ units \in [Listings -> Nat]
    /\ order = [l \in Listings |-> "none"]
    /\ left = [l \in Listings |-> 0]
    /\ receipts = [l \in Listings |-> 0]
    /\ paid = [l \in Listings |-> 0]

List(l) ==
    /\ order[l] = "none"
    /\ order' = [order EXCEPT ![l] = "open"]
    /\ left' = [left EXCEPT ![l] = units[l]]
    /\ UNCHANGED <<units, receipts, paid>>

(* Other players take some, or the rest is handed back.                    *)
Shrink(l) ==
    /\ order[l] = "open"
    /\ \E n \in 0 .. left[l] - 1 :
        /\ left' = [left EXCEPT ![l] = n]
        /\ order' = [order EXCEPT ![l] = IF n = 0 THEN "gone" ELSE "open"]
    /\ UNCHANGED <<units, receipts, paid>>

BotBuys(l) ==
    /\ order[l] # "none" /\ receipts[l] = 0
    /\ \E n \in left[l] .. units[l] : paid' = [paid EXCEPT ![l] = n]
    /\ receipts' = [receipts EXCEPT ![l] = 1]
    /\ order' = [order EXCEPT ![l] = "gone"]
    /\ left' = [left EXCEPT ![l] = 0]
    /\ UNCHANGED units

Next == \E l \in Listings : List(l) \/ Shrink(l) \/ BotBuys(l)

Spec == Init /\ [][Next]_vars
=============================================================================
