------------------------------ MODULE Checkout ------------------------------
(***************************************************************************)
(* The browser's ask-and-pay flow, apps/web/app/hooks/useAskAndPay.ts, and *)
(* the form that drives it: mint a draft over the API, pay for it from the *)
(* wallet, wait for the receipt, poll until the indexer has seen it.       *)
(*                                                                         *)
(* An attempt is an async function that outlives what started it: it may   *)
(* be abandoned (its token no longer the current one) at any await, and it *)
(* looks at the token at some of them only.  Every attempt therefore has   *)
(* its own program counter, and the wallet, the nodes that answer reads,   *)
(* the API and the indexer move between any two of its steps.              *)
(*                                                                         *)
(* One asker, one creator, every question of one price, which is the unit. *)
(* That the indexer opens a paid draft, and nothing else, is what          *)
(* Indexer.tla establishes; here it is the action index.  Its sweep, which *)
(* deletes drafts the indexer has seen no payment of, is the action sweep. *)
(***************************************************************************)
EXTENDS Naturals, Sequences, FiniteSets

CONSTANTS
  Runs,        \* bound: attempts alive at once, the abandoned ones included
  Ids,         \* bound: questions the API can mint
  NoId,        \* no question
  MaxSent,     \* bound: transactions the wallet sends
  MaxBalance   \* bound: prices the wallet can pay

ASSUME NoIdAssumption == NoId \notin Ids
ASSUME BoundsAssumption == MaxSent \in Nat /\ MaxBalance \in Nat

VARIABLES
  run,         \* the attempts: program counter, question, token, transaction
  phase,       \* the phase the form shows, with its question
  pendingId,   \* pendingIdRef: the question a retry pays for
  row,         \* database: questions.status
  sent,        \* the wallet's transactions, in nonce order
  account,     \* the asker's USDC on-chain: balance, allowance, permit nonce
  stale,       \* the same at the node that lags the most
  session,     \* is the session cookie still good?
  lost         \* questions of which a payment's receipt, or its hash, was not had

client == <<run, phase, pendingId>>
chain == <<sent, account, stale>>
vars == <<client, row, chain, session, lost>>

Busy == {"creating", "checking", "permitting", "approving", "confirming",
         "pending", "indexing"}
Failed == {"insufficient", "rejected", "error"}

Payment == {"askQuestion", "askQuestionWithPermit"}
Accounts == [balance : 0..MaxBalance, allowance : 0..1, nonce : 0..MaxSent]

\* What became of a transaction.  "replaced": the wallet had another one, of its
\* own making, mined under the same nonce (its "cancel").
Statuses == {"inflight", "success", "reverted", "replaced"}
Transactions == [fn : Payment \cup {"approve"}, id : Ids, nonce : 0..MaxSent,
                 status : Statuses]
At == {"off", "create", "check", "sign", "simulatePermit", "simulate",
       "approve", "approved", "allowance", "askQuestion", "askQuestionWithPermit",
       "receipt", "indexLoop"}

CheckoutTypeOK ==
  /\ run \in [Runs -> [at : At, id : Ids \cup {NoId}, current : BOOLEAN,
                       tx : 0..MaxSent, nonce : 0..MaxSent]]
  /\ \A s \in Runs : run[s].at \in {"off", "create"} <=> run[s].id = NoId
  /\ phase \in [step : Busy \cup Failed \cup {"idle", "confirmed"}, id : Ids \cup {NoId}]
  /\ pendingId \in Ids \cup {NoId}
  /\ row \in [Ids -> {"unminted", "pending_payment", "open", "swept"}]
  /\ sent \in Seq(Transactions)
  /\ account \in Accounts /\ stale \in Accounts
  /\ session \in BOOLEAN
  /\ lost \subseteq Ids

Off == [at |-> "off", id |-> NoId, current |-> FALSE, tx |-> 0, nonce |-> 0]
Show(step, id) == [step |-> step, id |-> id]

Init ==
  /\ run = [s \in Runs |-> Off]
  /\ phase = Show("idle", NoId)
  /\ pendingId = NoId
  /\ row = [i \in Ids |-> "unminted"]
  /\ sent = <<>>
  /\ account \in {a \in Accounts : a.allowance = 0 /\ a.nonce = 0}
  /\ stale = account
  /\ session = TRUE
  /\ lost = {}

-----------------------------------------------------------------------------
(* The chain, the nodes and the wallet *)

\* A read or a simulation is answered by a node that may lag.
views == {account, stale}

\* A permit that still verifies sets the allowance; one that does not is
\* swallowed by the contract, and the transfer needs the allowance there is.
Permitted(a, tx) ==
  IF tx.fn = "askQuestionWithPermit" /\ tx.nonce = a.nonce
  THEN [a EXCEPT !.allowance = 1, !.nonce = @ + 1]
  ELSE a

Works(a, tx) ==
  tx.fn \in Payment => Permitted(a, tx).allowance = 1 /\ a.balance > 0

After(a, tx) ==
  IF tx.fn \in Payment
  THEN [Permitted(a, tx) EXCEPT !.balance = @ - 1, !.allowance = 0]
  ELSE [a EXCEPT !.allowance = 1]

\* The next transaction of the wallet is mined; it may revert for a reason of
\* its own (the escrow paused, gas).
IsNext(i) ==
  /\ sent[i].status = "inflight"
  /\ \A j \in 1..(i - 1) : sent[j].status # "inflight"

mine(i) ==
  /\ IsNext(i)
  /\ \E status \in {"success", "reverted"} :
       /\ status = "success" => Works(account, sent[i])
       /\ sent' = [sent EXCEPT ![i].status = status]
       /\ account' = IF status = "success" THEN After(account, sent[i]) ELSE account
  /\ UNCHANGED <<client, row, stale, session, lost>>

\* In the wallet the asker replaces the next transaction by another of the same
\* nonce, which is mined and succeeds.  It is none of the page's, and moves none
\* of the asker's USDC.
replaceInWallet(i) ==
  /\ IsNext(i)
  /\ sent' = [sent EXCEPT ![i].status = "replaced"]
  /\ UNCHANGED <<client, row, account, stale, session, lost>>

nodeCatchesUp ==
  /\ stale # account
  /\ stale' = account
  /\ UNCHANGED <<client, row, sent, account, session, lost>>

Pays(tx, id) == tx.fn \in Payment /\ tx.id = id
Paid(id) == \E i \in DOMAIN sent : Pays(sent[i], id) /\ sent[i].status = "success"
Replaced(id) == \E i \in DOMAIN sent : Pays(sent[i], id) /\ sent[i].status = "replaced"

index(id) ==
  /\ row[id] = "pending_payment" /\ Paid(id)
  /\ row' = [row EXCEPT ![id] = "open"]
  /\ UNCHANGED <<client, chain, session, lost>>

\* The indexer's sweep deletes drafts of a certain age it has seen no payment of,
\* those of a payment it has not seen yet among them.
sweep(id) ==
  /\ row[id] = "pending_payment"
  /\ row' = [row EXCEPT ![id] = "swept"]
  /\ UNCHANGED <<client, chain, session, lost>>

sessionExpires ==
  /\ session
  /\ session' = FALSE
  /\ UNCHANGED <<client, row, chain, lost>>

-----------------------------------------------------------------------------
(* What the asker can press *)

Abandoned == [s \in Runs |-> [run[s] EXCEPT !.current = FALSE]]

\* A new attempt takes the token from every earlier one.
Begin(s, at, id) ==
  run' = [Abandoned EXCEPT ![s] = [Off EXCEPT !.at = at, !.id = id, !.current = TRUE]]

startPay(s, id) ==
  /\ Begin(s, "check", id)
  /\ phase' = Show("checking", id)
  /\ pendingId' = id

submit(s) ==
  /\ Begin(s, "create", NoId)
  /\ phase' = Show("creating", NoId)
  /\ pendingId' = NoId

RetryOffered_whilePending == phase.step \in Failed \cup {"pending"}

\* The controls AskStatus renders under the form.
RetryOffered == phase.step \in Failed

pressSubmit(s) ==
  /\ run[s].at = "off"
  /\ phase.step \notin Busy \cup {"confirmed"}
  /\ submit(s)
  /\ UNCHANGED <<row, chain, session, lost>>

retry_alwaysPays(s) ==
  /\ run[s].at = "off"
  /\ RetryOffered
  /\ startPay(s, pendingId)
  /\ UNCHANGED <<row, chain, session, lost>>

retry(s) ==
  /\ run[s].at = "off"
  /\ RetryOffered
  /\ IF pendingId # NoId THEN startPay(s, pendingId) ELSE submit(s)
  /\ UNCHANGED <<row, chain, session, lost>>

reset ==
  /\ phase.step \in Failed \cup {"confirmed"}
  /\ run' = Abandoned
  /\ phase' = Show("idle", NoId)
  /\ pendingId' = NoId
  /\ UNCHANGED <<row, chain, session, lost>>

\* The form is unmounted and later mounted afresh: the asker leaves the page, or
\* the gate replaces it when the wallet's account or network changes.
leave ==
  /\ run # Abandoned \/ phase.step # "idle"
  /\ run' = Abandoned
  /\ phase' = Show("idle", NoId)
  /\ pendingId' = NoId
  /\ UNCHANGED <<row, chain, session, lost>>

-----------------------------------------------------------------------------
(* The steps of an attempt, one per await *)

\* setPhase: an abandoned attempt shows nothing.
setPhase(s, step) ==
  phase' = IF run[s].current THEN Show(step, run[s].id) ELSE phase

Goto(s, at) == run' = [run EXCEPT ![s].at = at]
Stop(s) == run' = [run EXCEPT ![s] = Off]
StopWith(s, step) == Stop(s) /\ setPhase(s, step)

\* A call of the API returns data; or it was handled but its answer is lost, or
\* it was refused or never arrived, and both of these throw.
request == {"data", "lost", "refused"}

\* POST /questions.
create(s) ==
  /\ run[s].at = "create"
  /\ \E result \in request :
       /\ IF result = "refused" THEN UNCHANGED row
          ELSE \E id \in Ids :
                 /\ session /\ row[id] = "unminted"
                 /\ row' = [row EXCEPT ![id] = "pending_payment"]
       /\ IF result # "data" THEN StopWith(s, "error") /\ UNCHANGED pendingId
          ELSE IF ~run[s].current THEN Stop(s) /\ UNCHANGED <<phase, pendingId>>
          ELSE \E id \in Ids : row'[id] # row[id] /\ startPay(s, id)
  /\ UNCHANGED <<chain, session, lost>>

\* The balance and the allowance are two reads, perhaps of two nodes.
check(s) ==
  /\ run[s].at = "check"
  /\ \/ ~run[s].current /\ Stop(s) /\ UNCHANGED phase
     \/ /\ run[s].current
        /\ \/ StopWith(s, "error")
           \/ (\E v \in views : v.balance = 0) /\ StopWith(s, "insufficient")
           \/ /\ \E v \in views : v.balance > 0
              /\ \/ /\ \E v \in views : v.allowance = 1
                    /\ Goto(s, "simulate") /\ UNCHANGED phase
                 \/ /\ \E v \in views : v.allowance = 0
                    /\ Goto(s, "sign") /\ setPhase(s, "permitting")
  /\ UNCHANGED <<pendingId, row, chain, session, lost>>

\* What a wallet throws: the asker declined, or anything else.
Thrown == {"user rejected", "other"}
isUserRejection(e) == e = "user rejected"

\* signPermit: the nonce is read, then the wallet asked for the signature.
signPermit(s) ==
  /\ run[s].at = "sign"
  /\ \/ \E v \in views :
          /\ run' = [run EXCEPT ![s].at = "simulatePermit", ![s].nonce = v.nonce]
          /\ UNCHANGED phase
     \/ \E e \in Thrown :
          IF isUserRejection(e) THEN StopWith(s, "rejected")
          ELSE Goto(s, "approve") /\ setPhase(s, "approving")
  /\ UNCHANGED <<pendingId, row, chain, session, lost>>

Request(s, fn) ==
  [fn |-> fn, id |-> run[s].id, nonce |-> run[s].nonce, status |-> "inflight"]

\* A permit that does not simulate, or cannot be simulated, falls back to approve.
permitSimulates(s) ==
  /\ run[s].at = "simulatePermit"
  /\ \/ /\ \E v \in views : Works(v, Request(s, "askQuestionWithPermit"))
        /\ Goto(s, "askQuestionWithPermit") /\ setPhase(s, "confirming")
     \/ /\ run' = [run EXCEPT ![s].at = "approve", ![s].nonce = 0]
        /\ setPhase(s, "approving")
  /\ UNCHANGED <<pendingId, row, chain, session, lost>>

\* sendPlainAsk: the simulation decides whether the wallet is asked at all.
sendPlainAsk(s) ==
  /\ run[s].at = "simulate"
  /\ \/ /\ \E v \in views : Works(v, Request(s, "askQuestion"))
        /\ Goto(s, "askQuestion") /\ setPhase(s, "confirming")
     \/ StopWith(s, "error")
  /\ UNCHANGED <<pendingId, row, chain, session, lost>>

\* The wallet's prompt: signed and sent, declined, or failed, perhaps only after
\* it had sent the transaction.  An abandoned attempt still sends the payment,
\* and only then stops.
writeContract(s) ==
  /\ run[s].at \in Payment \cup {"approve"}
  /\ \/ /\ Len(sent) < MaxSent
        /\ sent' = Append(sent, Request(s, run[s].at))
        /\ \/ /\ UNCHANGED lost
              /\ IF run[s].at = "approve"
                 THEN /\ run' = [run EXCEPT ![s].at = "approved", ![s].tx = Len(sent) + 1]
                      /\ UNCHANGED phase
                 ELSE IF run[s].current
                 THEN /\ run' = [run EXCEPT ![s].at = "receipt", ![s].tx = Len(sent) + 1]
                      /\ setPhase(s, "pending")
                 ELSE Stop(s) /\ UNCHANGED phase
           \/ /\ StopWith(s, "error")
              /\ lost' = IF run[s].at \in Payment THEN lost \cup {run[s].id} ELSE lost
     \/ /\ \E e \in Thrown : StopWith(s, IF isUserRejection(e) THEN "rejected" ELSE "error")
        /\ UNCHANGED <<sent, lost>>
  /\ UNCHANGED <<pendingId, row, account, stale, session>>

-----------------------------------------------------------------------------
(* lib/allowance.ts: the approval's receipt, then a bounded wait for a node *)
(* that has seen it                                                         *)

\* waitForTransactionReceipt, asked for a transaction that was replaced, answers
\* with the receipt of what replaced it.
ReceiptSucceeds(s) == sent[run[s].tx].status \in {"success", "replaced"}

confirmApproval(s) ==
  /\ run[s].at = "approved"
  /\ \/ /\ ReceiptSucceeds(s)
        /\ Goto(s, "allowance") /\ UNCHANGED phase
     \/ sent[run[s].tx].status = "reverted" /\ StopWith(s, "error")
     \/ StopWith(s, "error")    \* the receipt cannot be fetched
  /\ UNCHANGED <<pendingId, row, chain, session, lost>>

waitForAllowance_unbounded(s) ==
  /\ run[s].at = "allowance"
  /\ stale.allowance = 1    \* the node that answers is the one that lags
  /\ IF run[s].current THEN Goto(s, "simulate") ELSE Stop(s)
  /\ UNCHANGED <<phase, pendingId, row, chain, session, lost>>

\* A read covers the amount or the deadline passes, and either way the attempt
\* goes on.
waitForAllowance(s) ==
  /\ run[s].at = "allowance"
  /\ IF run[s].current THEN Goto(s, "simulate") ELSE Stop(s)
  /\ UNCHANGED <<phase, pendingId, row, chain, session, lost>>

-----------------------------------------------------------------------------
(* After the payment is sent *)

afterSend_anyReceipt(s) ==
  /\ run[s].at = "receipt"
  /\ \/ /\ sent[run[s].tx].status # "inflight"
        /\ IF run[s].current THEN Goto(s, "indexLoop") ELSE Stop(s)
        /\ setPhase(s, "indexing") /\ UNCHANGED lost
     \/ StopWith(s, "error") /\ lost' = lost \cup {run[s].id}
  /\ UNCHANGED <<pendingId, row, chain, session>>

\* A receipt comes, and nothing but its status is looked at; or the wait for it
\* fails or times out, and the payment may then still be mined.
afterSend(s) ==
  /\ run[s].at = "receipt"
  /\ \/ /\ ReceiptSucceeds(s)
        /\ IF run[s].current THEN Goto(s, "indexLoop") ELSE Stop(s)
        /\ setPhase(s, "indexing") /\ UNCHANGED lost
     \/ /\ sent[run[s].tx].status = "reverted"
        /\ StopWith(s, "error") /\ UNCHANGED lost
     \/ StopWith(s, "error") /\ lost' = lost \cup {run[s].id}
  /\ UNCHANGED <<pendingId, row, chain, session>>

indexLoop_endsOnFailure(s) ==
  /\ run[s].at = "indexLoop"
  /\ Stop(s)
  /\ IF run[s].current /\ session /\ row[run[s].id] = "open"
     THEN setPhase(s, "confirmed") ELSE UNCHANGED phase
  /\ UNCHANGED <<pendingId, row, chain, session, lost>>

\* A poll that fails, as one for a draft that was swept does, or that finds the
\* draft still unpaid, sleeps and comes back: no change.  The nudge it sends is
\* one more pass of the indexer.
indexLoop(s) ==
  /\ run[s].at = "indexLoop"
  /\ \/ ~run[s].current /\ Stop(s) /\ UNCHANGED phase
     \/ session /\ row[run[s].id] = "open" /\ StopWith(s, "confirmed")
  /\ UNCHANGED <<pendingId, row, chain, session, lost>>

-----------------------------------------------------------------------------
Step(s) ==
  \/ create(s) \/ check(s) \/ signPermit(s) \/ permitSimulates(s) \/ sendPlainAsk(s)
  \/ writeContract(s) \/ confirmApproval(s) \/ waitForAllowance(s) \/ afterSend(s)
  \/ indexLoop(s)

Press(s) == pressSubmit(s) \/ retry(s)

Environment ==
  \/ \E i \in DOMAIN sent : mine(i) \/ replaceInWallet(i)
  \/ nodeCatchesUp
  \/ \E id \in Ids : index(id) \/ sweep(id)
  \/ sessionExpires

Next == (\E s \in Runs : Press(s) \/ Step(s)) \/ reset \/ leave \/ Environment

Spec == Init /\ [][Next]_vars

\* Attempts go on (the asker answers the wallet), transactions are mined, and
\* the indexer catches up.  A lagging node need not.
Fairness ==
  /\ \A s \in Runs : WF_vars(Step(s))
  /\ \A i \in 1..MaxSent : WF_vars(i \in DOMAIN sent /\ mine(i))
  /\ \A id \in Ids : WF_vars(index(id))

FairSpec == Spec /\ Fairness

-----------------------------------------------------------------------------
(* Properties *)

\* The form is disabled exactly while one attempt holds the token: no error path
\* of any await leaves it disabled with nothing running, and no second attempt
\* starts beside a live one (useAskAndPay.ts:82-90, 121-138, 479).
BusyHasRun ==
  LET live == {s \in Runs : run[s].at # "off" /\ run[s].current}
  IN /\ phase.step \in Busy <=> live # {}
     /\ Cardinality(live) <= 1
     /\ \A s \in live : run[s].at # "create" => run[s].id = pendingId

\* "You're all set" is shown only for a question the chain holds a payment of and
\* the database has open, and "Payment confirmed on-chain" only for one whose own
\* payment was accepted, whatever was abandoned, retried, swept or read from a
\* lagging node before (useAskAndPay.ts:156-191, AskStatus.tsx:89,
\* AskComposer.tsx:89-108).  The one exception to the second is a payment the
\* asker replaced in the wallet, whose replacement's receipt is taken for its own.
ShownIsPaid ==
  /\ phase.step = "indexing" => Paid(phase.id) \/ Replaced(phase.id)
  /\ phase.step = "confirmed" => Paid(phase.id) /\ row[phase.id] = "open"

Payments(id) ==
  {i \in DOMAIN sent : Pays(sent[i], id) /\ sent[i].status \in {"inflight", "success"}}

\* Two payments of one question are ever under way or made only after a receipt
\* could not be fetched, or the wallet failed after it had sent: abandoning,
\* retrying, replacing and switching to the approve path pay for it once
\* (useAskAndPay.ts:196-303, 459-465).  After either the retry does pay again,
\* because nothing asks what became of the first payment.
OnePaymentUnlessLost ==
  \A id \in Ids : Cardinality(Payments(id)) > 1 => id \in lost

\* The form never stays disabled: an attempt ends, also when the node that reads
\* the allowance never catches up (allowance.ts:59-78) and when polls fail
\* (useAskAndPay.ts:156-180).  Three things keep the last poll waiting, for good:
\* a session that expires, a draft that was swept (useAskAndPay.ts:168-170 takes
\* both the 401 and the 404 for a passing failure) and a payment that was replaced.
PollsForGood ==
  /\ phase.step = "indexing"
  /\ ~session \/ row[phase.id] = "swept" \/ Replaced(phase.id)
NeverStuck == phase.step \in Busy ~> (phase.step \notin Busy \/ PollsForGood)
=============================================================================
