---------------------------- MODULE EscrowPromise ----------------------------
(***************************************************************************)
(* What the escrow promises its users, without fees, owner or token:       *)
(* a deal is struck once, never altered, and concluded at most once; the   *)
(* amount it holds is then divided among claims, with a guaranteed share   *)
(* for the party each outcome favours; a claim is only ever paid out whole *)
(* to the account that holds it.  The owner has no step of its own.        *)
(***************************************************************************)
EXTENDS Totals

CONSTANTS Accounts, Holders, Ids, NoDeal,
          MAX_ANSWER_FEE_BPS, MAX_CANCEL_FEE_BPS, BPS_DENOMINATOR

VARIABLES
  deal,    \* per id: parties, amount, deadline, status
  claim,   \* per holder: what it may collect
  wallet,  \* per account: USDC outside the escrow
  now

vars == <<deal, claim, wallet, now>>

Init ==
  /\ deal = [id \in Ids |-> NoDeal]
  /\ claim = [h \in Holders |-> 0]
  /\ wallet \in [Accounts -> Nat]
  /\ now = 0

\* The asker parts with exactly the amount the deal records.
Strike(id) ==
  /\ deal[id] = NoDeal
  /\ deal'[id].status = "Open"
  /\ deal'[id].deadline > now
  /\ deal'[id].asker \in Accounts
  /\ deal' = [deal EXCEPT ![id] = deal'[id]]
  /\ wallet' = [wallet EXCEPT ![deal'[id].asker] = @ - deal'[id].amount]
  /\ UNCHANGED <<claim, now>>

Gain(h) == claim'[h] - claim[h]

\* h receives the amount of deal id less a fee of at most cap basis points.
Keeps(h, id, cap) ==
  Gain(h) * BPS_DENOMINATOR >= deal[id].amount * (BPS_DENOMINATOR - cap)

Share(id, outcome) ==
  \/ outcome = "Answered" /\ Keeps(deal[id].answerer, id, MAX_ANSWER_FEE_BPS)
  \/ outcome = "Declined" /\ Gain(deal[id].asker) = deal[id].amount
  \/ /\ outcome = "Cancelled"
     /\ now < deal[id].deadline
     /\ Keeps(deal[id].asker, id, MAX_CANCEL_FEE_BPS)
  \/ /\ outcome = "Reclaimed"
     /\ now >= deal[id].deadline
     /\ Gain(deal[id].asker) = deal[id].amount

\* The whole amount goes to claims, and nobody's claim shrinks.
Conclude(id, outcome) ==
  /\ deal[id].status = "Open"
  /\ deal' = [deal EXCEPT ![id].status = outcome]
  /\ \A h \in Holders : Gain(h) >= 0
  /\ Total(claim') = Total(claim) + deal[id].amount
  /\ Share(id, outcome)
  /\ UNCHANGED <<wallet, now>>

Collect(a) ==
  /\ claim[a] > 0
  /\ claim' = [claim EXCEPT ![a] = 0]
  /\ wallet' = [wallet EXCEPT ![a] = @ + claim[a]]
  /\ UNCHANGED <<deal, now>>

\* A gift to the escrow buys nothing.
GiveAway(a) ==
  /\ wallet'[a] < wallet[a]
  /\ wallet' = [wallet EXCEPT ![a] = wallet'[a]]
  /\ UNCHANGED <<deal, claim, now>>

Tick == now' = now + 1 /\ UNCHANGED <<deal, claim, wallet>>

Next ==
  \/ \E id \in Ids :
       \/ Strike(id)
       \/ \E outcome \in {"Answered", "Declined", "Cancelled", "Reclaimed"} :
            Conclude(id, outcome)
  \/ \E a \in Accounts : Collect(a) \/ GiveAway(a)
  \/ Tick

Spec == Init /\ [][Next]_vars
=============================================================================
