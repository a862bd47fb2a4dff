------------------------------- MODULE Escrow -------------------------------
(***************************************************************************)
(* The escrow contract contracts/src/BuyAnAnswerEscrow.sol together with   *)
(* the part of the USDC token and of OpenZeppelin's Ownable2Step and       *)
(* Pausable it relies on.                                                  *)
(*                                                                         *)
(* A transaction is atomic: a call that reverts is a call that is not      *)
(* enabled, a call that succeeds is one step.  The token has no transfer   *)
(* hooks, so nonReentrant never fires and has no counterpart here.  Every  *)
(* action is named after the function it models; its first argument is     *)
(* msg.sender where the function reads it.                                 *)
(*                                                                         *)
(* An operator with an underscore in its name is no part of Next: it is a  *)
(* plausible slip in the operator that follows it, which PROJECT.json puts *)
(* in that operator's place to see the properties fail.                    *)
(***************************************************************************)
EXTENDS Totals, Sequences

CONSTANTS
  Accounts,       \* externally owned accounts, those that can send transactions
  EscrowAddress,  \* address(this)
  ZeroAddress,    \* address(0)
  Recipients,     \* addresses callers pass as answerer, fee address, new owner
  Refs,           \* bytes32 values callers pass as ref
  NoRef,          \* bytes32(0), the ref of an unused id
  Amounts,        \* amounts callers pass to the ask functions and to transfer
  Approvals,      \* allowances callers approve or sign a permit for
  FeeChoices,     \* basis points the owner passes to the fee setters
  WindowChoices,  \* windows the owner passes to setAnswerWindow
  InitialFeeBps,  \* constructor's answerFeeBps_ and cancelFeeBps_
  InitialWindow,  \* constructor's answerWindow_
  InitialUsdc,    \* USDC each account owns at the start
  MAX_ANSWER_FEE_BPS, MAX_CANCEL_FEE_BPS, BPS_DENOMINATOR, MAX_ANSWER_WINDOW,
  MaxQuestions,   \* bound: questions ever asked
  MaxTime         \* bound: block.timestamp, and deadlines

Ids == 1..MaxQuestions
Holders == Accounts \cup {EscrowAddress}
Statuses == {"None", "Open", "Answered", "Declined", "Cancelled", "Reclaimed"}

ASSUME EscrowAssumption ==
  /\ IsFiniteSet(Accounts)
  /\ EscrowAddress \notin Accounts
  /\ ZeroAddress \notin Holders
  /\ Recipients \subseteq Holders \cup {ZeroAddress}
  /\ Amounts \subseteq Nat /\ Approvals \subseteq Nat /\ InitialUsdc \in Nat
  /\ FeeChoices \subseteq Nat /\ WindowChoices \subseteq Nat
  /\ MaxQuestions \in Nat /\ MaxTime \in Nat
  /\ BPS_DENOMINATOR \in Nat \ {0} /\ MAX_ANSWER_WINDOW \in Nat
  /\ MAX_ANSWER_FEE_BPS \in 0..BPS_DENOMINATOR
  /\ MAX_CANCEL_FEE_BPS \in 0..BPS_DENOMINATOR
  /\ InitialFeeBps \in 0..MAX_ANSWER_FEE_BPS /\ InitialFeeBps <= MAX_CANCEL_FEE_BPS
  /\ InitialWindow \in 1..MAX_ANSWER_WINDOW

VARIABLES
  usdc,           \* token: balanceOf
  allowance,      \* token: allowance granted by each account to the escrow
  owner, pendingOwner, paused,
  feeAddress, answerWindow, answerFeeBps, cancelFeeBps,
  nextId, questions, questionRef, withdrawable,
  events,         \* what the contract has emitted about questions
  now             \* block.timestamp

token == <<usdc, allowance>>
control == <<owner, pendingOwner, paused>>
params == <<feeAddress, answerWindow, answerFeeBps, cancelFeeBps>>
asked == <<nextId, questionRef, events>>
vars == <<token, control, params, asked, questions, withdrawable, now>>

NoQuestion == [asker |-> ZeroAddress, answerer |-> ZeroAddress,
               amount |-> 0, deadline |-> 0, status |-> "None"]

Question == [asker : Accounts, answerer : Holders, amount : Nat \ {0},
             deadline : Nat, status : Statuses \ {"None"}] \cup {NoQuestion}

\* The event each way to settle emits.
SettledEvent == [Answered |-> "QuestionAnswered", Declined |-> "QuestionDeclined",
                 Cancelled |-> "QuestionCancelled", Reclaimed |-> "QuestionReclaimed"]
Closed == DOMAIN SettledEvent

QuestionEvent == [name : {"QuestionAsked"} \cup {SettledEvent[s] : s \in Closed},
                  id : Ids, ref : Refs \cup {NoRef}]
EventLog == Seq(QuestionEvent)

TypeOK ==
  /\ usdc \in [Holders -> Nat]
  /\ allowance \in [Accounts -> Nat]
  /\ owner \in Accounts \cup {ZeroAddress}
  /\ pendingOwner \in Holders \cup {ZeroAddress}
  /\ paused \in BOOLEAN
  /\ feeAddress \in Holders
  /\ answerWindow \in 1..MAX_ANSWER_WINDOW
  /\ answerFeeBps \in 0..MAX_ANSWER_FEE_BPS
  /\ cancelFeeBps \in 0..MAX_CANCEL_FEE_BPS
  /\ nextId \in 1..(MaxQuestions + 1)
  /\ questions \in [Ids -> Question]
  /\ questionRef \in [Ids -> Refs \cup {NoRef}]
  /\ withdrawable \in [Holders -> Nat]
  /\ events \in EventLog
  /\ now \in 0..MaxTime

Init ==
  /\ usdc = [h \in Holders |-> IF h \in Accounts THEN InitialUsdc ELSE 0]
  /\ allowance = [a \in Accounts |-> 0]
  /\ owner \in Recipients \cap Accounts
  /\ pendingOwner = ZeroAddress
  /\ paused = FALSE
  /\ feeAddress \in Recipients \ {ZeroAddress}
  /\ answerWindow = InitialWindow
  /\ answerFeeBps = InitialFeeBps
  /\ cancelFeeBps = InitialFeeBps
  /\ nextId = 1
  /\ questions = [id \in Ids |-> NoQuestion]
  /\ questionRef = [id \in Ids |-> NoRef]
  /\ withdrawable = [h \in Holders |-> 0]
  /\ events = << >>
  /\ now = 0

-----------------------------------------------------------------------------
(* USDC.  transferFrom and permit as the contract's calls see them; approve *)
(* and transfer as any account can call them on the token directly.         *)

\* safeTransferFrom(from, this, amount) under the allowances granted.
Pull(from, amount, granted) ==
  /\ granted[from] >= amount
  /\ usdc[from] >= amount
  /\ allowance' = [granted EXCEPT ![from] = @ - amount]
  /\ usdc' = [usdc EXCEPT ![from] = @ - amount, ![EscrowAddress] = @ + amount]

\* safeTransfer(to, amount) by the contract.
Push(to, amount) ==
  /\ usdc[EscrowAddress] >= amount
  /\ usdc' = IF to = EscrowAddress THEN usdc
             ELSE [usdc EXCEPT ![EscrowAddress] = @ - amount, ![to] = @ + amount]

Approve(caller, value) ==
  /\ allowance' = [allowance EXCEPT ![caller] = value]
  /\ UNCHANGED <<usdc, control, params, asked, questions, withdrawable, now>>

\* A token transfer straight to the contract, which no function records.
DirectTransfer(caller, amount) ==
  /\ usdc[caller] >= amount
  /\ usdc' = [usdc EXCEPT ![caller] = @ - amount, ![EscrowAddress] = @ + amount]
  /\ UNCHANGED <<allowance, control, params, asked, questions, withdrawable, now>>

-----------------------------------------------------------------------------
\* Of an event only what the indexer matches it by is kept.  The events of
\* withdrawals and setters have no reader.
emit(name, id, ref) == events' = Append(events, [name |-> name, id |-> id, ref |-> ref])

(* Ask *)

createQuestion_sameId(caller, ref, answerer, amount) ==
  /\ answerer # ZeroAddress
  /\ amount # 0
  /\ now + answerWindow <= MaxTime
  /\ questions' = [questions EXCEPT ![nextId] =
       [asker |-> caller, answerer |-> answerer, amount |-> amount,
        deadline |-> now + answerWindow, status |-> "Open"]]
  /\ questionRef' = [questionRef EXCEPT ![nextId] = ref]
  /\ emit("QuestionAsked", nextId, ref)
  /\ UNCHANGED nextId

createQuestion_tellsNextId(caller, ref, answerer, amount) ==
  /\ answerer # ZeroAddress
  /\ amount # 0
  /\ nextId <= MaxQuestions
  /\ now + answerWindow <= MaxTime
  /\ questions' = [questions EXCEPT ![nextId] =
       [asker |-> caller, answerer |-> answerer, amount |-> amount,
        deadline |-> now + answerWindow, status |-> "Open"]]
  /\ questionRef' = [questionRef EXCEPT ![nextId] = ref]
  /\ nextId' = nextId + 1
  /\ emit("QuestionAsked", nextId', ref)

createQuestion(caller, ref, answerer, amount) ==
  /\ answerer # ZeroAddress
  /\ amount # 0
  /\ nextId <= MaxQuestions
  /\ now + answerWindow <= MaxTime
  /\ questions' = [questions EXCEPT ![nextId] =
       [asker |-> caller, answerer |-> answerer, amount |-> amount,
        deadline |-> now + answerWindow, status |-> "Open"]]
  /\ questionRef' = [questionRef EXCEPT ![nextId] = ref]
  /\ nextId' = nextId + 1
  /\ emit("QuestionAsked", nextId, ref)

askQuestion(caller, ref, answerer, amount) ==
  /\ ~paused
  /\ createQuestion(caller, ref, answerer, amount)
  /\ Pull(caller, amount, allowance)
  /\ UNCHANGED <<control, params, withdrawable, now>>

\* The permit call is in a try/catch: a valid signature sets the allowance to
\* value, an invalid or already consumed one leaves the allowance alone.
askQuestionWithPermit(caller, ref, answerer, amount, value, valid) ==
  /\ ~paused
  /\ createQuestion(caller, ref, answerer, amount)
  /\ Pull(caller, amount,
          IF valid THEN [allowance EXCEPT ![caller] = value] ELSE allowance)
  /\ UNCHANGED <<control, params, withdrawable, now>>

-----------------------------------------------------------------------------
(* Settle.  Fees are read when the question settles, not when it is asked.  *)

IsOpen(id) == questions[id].status = "Open"

FeeOf(amount, bps) == (amount * bps) \div BPS_DENOMINATOR

Credit(balances, to, amount) == [balances EXCEPT ![to] = @ + amount]

Settle_leavesOpen(id, terminal, payee, fee) ==
  /\ withdrawable' = Credit(Credit(withdrawable, payee, questions[id].amount - fee),
                            feeAddress, fee)
  /\ emit(SettledEvent[terminal], id, questionRef[id])
  /\ UNCHANGED <<questions, token, control, params, nextId, questionRef, now>>

\* The effects every settle function has: close the record, credit the payee with
\* the amount less the fee and the fee address with the fee, and tell of it.
Settle(id, terminal, payee, fee) ==
  /\ questions' = [questions EXCEPT ![id].status = terminal]
  /\ withdrawable' = Credit(Credit(withdrawable, payee, questions[id].amount - fee),
                            feeAddress, fee)
  /\ emit(SettledEvent[terminal], id, questionRef[id])
  /\ UNCHANGED <<token, control, params, nextId, questionRef, now>>

answerQuestion(caller, id) ==
  /\ ~paused
  /\ IsOpen(id)
  /\ caller = questions[id].answerer
  /\ Settle(id, "Answered", questions[id].answerer,
            FeeOf(questions[id].amount, answerFeeBps))

declineQuestion(caller, id) ==
  /\ ~paused
  /\ IsOpen(id)
  /\ caller = questions[id].answerer
  /\ Settle(id, "Declined", questions[id].asker, 0)

cancelQuestion(caller, id) ==
  /\ ~paused
  /\ IsOpen(id)
  /\ caller = questions[id].asker
  /\ now < questions[id].deadline
  /\ Settle(id, "Cancelled", questions[id].asker,
            FeeOf(questions[id].amount, cancelFeeBps))

reclaimQuestion_strictlyAfter(id) ==
  /\ ~paused
  /\ IsOpen(id)
  /\ now > questions[id].deadline
  /\ Settle(id, "Reclaimed", questions[id].asker, 0)

reclaimQuestion(id) ==
  /\ ~paused
  /\ IsOpen(id)
  /\ now >= questions[id].deadline
  /\ Settle(id, "Reclaimed", questions[id].asker, 0)

withdraw_whenNotPaused(caller) ==
  /\ ~paused
  /\ withdrawable[caller] # 0
  /\ withdrawable' = [withdrawable EXCEPT ![caller] = 0]
  /\ Push(caller, withdrawable[caller])
  /\ UNCHANGED <<allowance, control, params, asked, questions, now>>

withdraw(caller) ==
  /\ withdrawable[caller] # 0
  /\ withdrawable' = [withdrawable EXCEPT ![caller] = 0]
  /\ Push(caller, withdrawable[caller])
  /\ UNCHANGED <<allowance, control, params, asked, questions, now>>

-----------------------------------------------------------------------------
(* Owner *)

onlyOwner(caller) == caller = owner

adminUnchanged == UNCHANGED <<token, asked, questions, withdrawable, now>>

setAnswerFee_uncapped(caller, bps) ==
  /\ onlyOwner(caller)
  /\ answerFeeBps' = bps
  /\ UNCHANGED <<control, feeAddress, answerWindow, cancelFeeBps>>
  /\ adminUnchanged

setAnswerFee(caller, bps) ==
  /\ onlyOwner(caller)
  /\ bps <= MAX_ANSWER_FEE_BPS
  /\ answerFeeBps' = bps
  /\ UNCHANGED <<control, feeAddress, answerWindow, cancelFeeBps>>
  /\ adminUnchanged

setCancelFee_answerCap(caller, bps) ==
  /\ onlyOwner(caller)
  /\ bps <= MAX_ANSWER_FEE_BPS
  /\ cancelFeeBps' = bps
  /\ UNCHANGED <<control, feeAddress, answerWindow, answerFeeBps>>
  /\ adminUnchanged

setCancelFee(caller, bps) ==
  /\ onlyOwner(caller)
  /\ bps <= MAX_CANCEL_FEE_BPS
  /\ cancelFeeBps' = bps
  /\ UNCHANGED <<control, feeAddress, answerWindow, answerFeeBps>>
  /\ adminUnchanged

setAnswerWindow(caller, window) ==
  /\ onlyOwner(caller)
  /\ window # 0 /\ window <= MAX_ANSWER_WINDOW
  /\ answerWindow' = window
  /\ UNCHANGED <<control, feeAddress, answerFeeBps, cancelFeeBps>>
  /\ adminUnchanged

setFeeAddress(caller, newFeeAddress) ==
  /\ onlyOwner(caller)
  /\ newFeeAddress # ZeroAddress
  /\ feeAddress' = newFeeAddress
  /\ UNCHANGED <<control, answerWindow, answerFeeBps, cancelFeeBps>>
  /\ adminUnchanged

pause(caller) ==
  /\ onlyOwner(caller)
  /\ ~paused
  /\ paused' = TRUE
  /\ UNCHANGED <<owner, pendingOwner, params>>
  /\ adminUnchanged

unpause_whenNotPaused(caller) ==
  /\ onlyOwner(caller)
  /\ ~paused
  /\ paused' = FALSE
  /\ UNCHANGED <<owner, pendingOwner, params>>
  /\ adminUnchanged

unpause(caller) ==
  /\ onlyOwner(caller)
  /\ paused
  /\ paused' = FALSE
  /\ UNCHANGED <<owner, pendingOwner, params>>
  /\ adminUnchanged

\* Inherited from Ownable2Step; renounceOwnership is in the deployed ABI too.
transferOwnership(caller, newOwner) ==
  /\ onlyOwner(caller)
  /\ pendingOwner' = newOwner
  /\ UNCHANGED <<owner, paused, params>>
  /\ adminUnchanged

acceptOwnership(caller) ==
  /\ caller = pendingOwner
  /\ owner' = caller
  /\ pendingOwner' = ZeroAddress
  /\ UNCHANGED <<paused, params>>
  /\ adminUnchanged

renounceOwnership(caller) ==
  /\ onlyOwner(caller)
  /\ owner' = ZeroAddress
  /\ pendingOwner' = ZeroAddress
  /\ UNCHANGED <<paused, params>>
  /\ adminUnchanged

-----------------------------------------------------------------------------
\* The next block has a later timestamp.
Tick ==
  /\ now < MaxTime
  /\ now' = now + 1
  /\ UNCHANGED <<token, control, params, asked, questions, withdrawable>>

Ask(caller) ==
  \E ref \in Refs, answerer \in Recipients, amount \in Amounts :
    \/ askQuestion(caller, ref, answerer, amount)
    \/ \E value \in Approvals, valid \in BOOLEAN :
         askQuestionWithPermit(caller, ref, answerer, amount, value, valid)

SettleCall(caller) ==
  \E id \in Ids :
    \/ answerQuestion(caller, id)
    \/ declineQuestion(caller, id)
    \/ cancelQuestion(caller, id)

Admin(caller) ==
  \/ \E bps \in FeeChoices : setAnswerFee(caller, bps) \/ setCancelFee(caller, bps)
  \/ \E window \in WindowChoices : setAnswerWindow(caller, window)
  \/ \E a \in Recipients : setFeeAddress(caller, a) \/ transferOwnership(caller, a)
  \/ pause(caller)
  \/ unpause(caller)
  \/ acceptOwnership(caller)
  \/ renounceOwnership(caller)

TokenCall(caller) ==
  \/ \E value \in Approvals : Approve(caller, value)
  \/ \E amount \in Amounts : DirectTransfer(caller, amount)

Next ==
  \/ Tick
  \/ \E id \in Ids : reclaimQuestion(id)
  \/ \E caller \in Accounts :
       \/ Ask(caller)
       \/ SettleCall(caller)
       \/ withdraw(caller)
       \/ Admin(caller)
       \/ TokenCall(caller)

Spec == Init /\ [][Next]_vars

\* Time passes; whoever wants an overdue question reclaimed retries until the
\* call gets through, which a pause can defeat only while it lasts.
Keepers == WF_vars(Tick) /\ \A id \in Ids : SF_vars(reclaimQuestion(id))

\* An owner that has paused the contract unpauses it again in the end.
OwnerUnpauses == WF_vars(\E caller \in Accounts : unpause(caller))

FairSpec == Spec /\ Keepers /\ OwnerUnpauses
=============================================================================
