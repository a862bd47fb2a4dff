------------------------- MODULE EscrowPromiseProofs -------------------------
(***************************************************************************)
(* The two abstractions of the escrow the rest of the project rests on.    *)
(*                                                                         *)
(* It implements EscrowPromise: every step of the contract, the token and  *)
(* the clock is a step of the promise or leaves its state alone, for every *)
(* number of accounts and questions, every amount and every fee within the *)
(* caps.  And its events are a log as Indexer takes the chain's to be.     *)
(***************************************************************************)
EXTENDS EscrowProofs

\* The promise's wallet: what each account holds outside the escrow.
Wallet == [a \in Accounts |-> usdc[a]]

\* A step that the promise's state does not see is a stutter of the promise.
LEMMA Unseen ==
  ASSUME UNCHANGED <<questions, withdrawable, usdc, now>>
  PROVE  UNCHANGED Promise!vars
BY DEF Promise!vars

\* A fee within its cap leaves the payee the share the promise guarantees.
\* (_feeOf:277, answerQuestion:183-184, cancelQuestion:216-217)
LEMMA ShareKept ==
  ASSUME NEW amount \in Nat, NEW cap \in 0..BPS_DENOMINATOR, NEW bps \in 0..cap,
         NEW gain \in Nat, gain >= amount - FeeOf(amount, bps)
  PROVE  gain * BPS_DENOMINATOR >= amount * (BPS_DENOMINATOR - cap)
<1> DEFINE D == BPS_DENOMINATOR
           fee == FeeOf(amount, bps)
<1>1. D \in Nat \ {0} /\ cap \in Nat /\ bps \in Nat /\ bps <= cap /\ cap <= D
  BY EscrowAssumption
<1>2. fee \in Nat /\ fee <= amount
  BY <1>1, FeeBound
<1>3. fee * D <= amount * bps
  <2> DEFINE n == amount * bps
  <2>1. n \in Nat
    BY <1>1
  <2>2. fee = n \div D
    BY DEF FeeOf
  <2> HIDE DEF n, fee
  <2>3. (n \div D) * D <= n
    BY <2>1, <1>1
  <2>. QED  BY <2>2, <2>3 DEF n
<1>4. amount * bps <= amount * cap
  BY <1>1
<1>5. gain * D >= (amount - fee) * D
  <2> HIDE DEF fee
  <2>1. amount - fee \in Nat /\ gain >= amount - fee
    BY <1>2 DEF fee
  <2>. QED  BY <2>1, <1>1
<1>6. (amount - fee) * D = amount * D - fee * D
  <2> HIDE DEF fee
  <2>. QED  BY <1>1, <1>2
<1>7. amount * (D - cap) = amount * D - amount * cap
  BY <1>1
<1>. QED
  <2> DEFINE gD == gain * D
             aD == amount * D
             fD == fee * D
             ab == amount * bps
             ac == amount * cap
  <2>1. gD \in Int /\ aD \in Int /\ fD \in Int /\ ab \in Int /\ ac \in Int
    <3> HIDE DEF fee
    <3>. QED  BY <1>1, <1>2
  <2>2. gD >= aD - fD /\ fD <= ab /\ ab <= ac
    BY <1>3, <1>4, <1>5, <1>6
  <2>3. amount * (D - cap) = aD - ac
    BY <1>7
  <2> HIDE DEF gD, aD, fD, ab, ac
  <2>4. gD >= aD - ac
    BY <2>1, <2>2
  <2>. QED  BY <2>3, <2>4 DEF gD

-----------------------------------------------------------------------------
\* The deployment is an initial state of the promise.
LEMMA PromiseInit == Init => Promise!Init
<1> SUFFICES ASSUME Init PROVE Promise!Init
  OBVIOUS
<1>1. Wallet \in [Accounts -> Nat]
  BY EscrowAssumption DEF Init, Wallet, Holders
<1>. QED  BY <1>1 DEF Init, Promise!Init, Wallet

\* Asking strikes the deal of the next id: the asker, and nobody else, parts
\* with exactly the amount recorded.
LEMMA AskStrikes ==
  ASSUME TypeOK, Unasked, NEW caller \in Accounts, NEW ref \in Refs,
         NEW answerer \in Recipients, NEW amount \in Amounts,
         NEW granted \in [Accounts -> Nat],
         createQuestion(caller, ref, answerer, amount),
         Pull(caller, amount, granted),
         UNCHANGED <<params, withdrawable, now>>
  PROVE  Promise!Next
<1>1. nextId \in Ids /\ questions[nextId] = NoQuestion
  BY EscrowAssumption DEF createQuestion, TypeOK, Ids, Unasked
<1>2. /\ questions' = [questions EXCEPT ![nextId] = questions'[nextId]]
      /\ questions'[nextId].status = "Open"
      /\ questions'[nextId].asker = caller
      /\ questions'[nextId].amount = amount
      /\ questions'[nextId].deadline > now
  BY <1>1, EscrowAssumption DEF createQuestion, TypeOK
<1>3. Wallet' = [Wallet EXCEPT ![caller] = @ - amount]
  BY EscrowAssumption DEF Pull, Wallet, TypeOK, Holders
<1>4. PICK id \in Ids : id = nextId
  BY <1>1
<1>5. Promise!Strike(id)
  BY <1>1, <1>2, <1>3, <1>4 DEF Promise!Strike, Wallet
<1>. QED  BY <1>5 DEF Promise!Next

\* Settling concludes the deal: the record changes its status only, the whole
\* amount goes to claims, no claim shrinks, and the payee gains at least the
\* amount less the fee.
LEMMA SettleDivides ==
  ASSUME TypeOK, NEW id \in Ids, NEW terminal \in Statuses,
         NEW payee \in Holders, NEW fee \in 0..questions[id].amount,
         Settle(id, terminal, payee, fee)
  PROVE  /\ questions' = [questions EXCEPT ![id].status = terminal]
         /\ \A h \in Holders : withdrawable'[h] - withdrawable[h] \in Nat
         /\ withdrawable'[payee] - withdrawable[payee] >= questions[id].amount - fee
         /\ fee = 0 => withdrawable'[payee] - withdrawable[payee] = questions[id].amount
         /\ Total(withdrawable') = Total(withdrawable) + questions[id].amount
         /\ UNCHANGED <<Wallet, now>>
<1> DEFINE amount == questions[id].amount
           half == Credit(withdrawable, payee, amount - fee)
<1>1. amount \in Nat /\ fee \in Nat /\ amount - fee \in Nat
  BY QuestionFields DEF TypeOK
<1>2. withdrawable \in [Holders -> Nat] /\ feeAddress \in Holders
  BY DEF TypeOK
<1>3. /\ half \in [Holders -> Nat]
      /\ \A h \in Holders : half[h] =
           IF h = payee THEN withdrawable[h] + (amount - fee) ELSE withdrawable[h]
      /\ Total(half) = Total(withdrawable) + (amount - fee)
  <2>1. \A x \in Nat :
          /\ Credit(withdrawable, payee, x) \in [Holders -> Nat]
          /\ \A h \in Holders : Credit(withdrawable, payee, x)[h] =
               IF h = payee THEN withdrawable[h] + x ELSE withdrawable[h]
          /\ Total(Credit(withdrawable, payee, x)) = Total(withdrawable) + x
    BY <1>2, CreditEffect
  <2> HIDE DEF amount
  <2> QED BY <1>1, <2>1
<1>4. /\ withdrawable' \in [Holders -> Nat]
      /\ \A h \in Holders : withdrawable'[h] =
           IF h = feeAddress THEN half[h] + fee ELSE half[h]
      /\ Total(withdrawable') = Total(half) + fee
  <2> HIDE DEF half
  <2>1. /\ Credit(half, feeAddress, fee) \in [Holders -> Nat]
        /\ \A h \in Holders : Credit(half, feeAddress, fee)[h] =
             IF h = feeAddress THEN half[h] + fee ELSE half[h]
        /\ Total(Credit(half, feeAddress, fee)) = Total(half) + fee
    <3>1. half \in [Holders -> Nat] /\ feeAddress \in Holders /\ fee \in Nat
      BY <1>1, <1>2, <1>3
    <3> QED BY <3>1, CreditEffect
  <2>2. withdrawable' = Credit(half, feeAddress, fee)
    BY DEF Settle, half
  <2>. QED  BY <2>1, <2>2
<1>5. /\ \A h \in Holders : withdrawable'[h] - withdrawable[h] \in Nat
      /\ withdrawable'[payee] - withdrawable[payee] >= amount - fee
      /\ fee = 0 => withdrawable'[payee] - withdrawable[payee] = amount
  <2> HIDE DEF amount, half
  <2>. QED  BY <1>1, <1>2, <1>3, <1>4
<1>6. Total(withdrawable') = Total(withdrawable) + amount
  <2>1. Total(withdrawable) \in Nat
    BY <1>2, FiniteIndex, TotalNat
  <2> HIDE DEF amount, half
  <2>. QED  BY <2>1, <1>1, <1>3, <1>4
<1>7. UNCHANGED <<Wallet, now>>
  BY DEF Settle, token, Wallet
<1>. QED  BY <1>5, <1>6, <1>7 DEF Settle

\* The promise counts totals as the contract's module does.
LEMMA SameTotal == \A f : Promise!Total(f) = Total(f)
<1>1. \A f : Promise!UnitsOf(f) = UnitsOf(f)
  BY DEF Promise!UnitsOf, UnitsOf, Promise!BaseUnits, BaseUnits
<1>2. \A S : Promise!Cardinality(S) = Cardinality(S)
  BY Zenon DEF Promise!Cardinality, Cardinality
<1>. QED  BY <1>1, <1>2 DEF Promise!Total, Total

\* The four functions that settle: each gives the party it favours its share,
\* whatever the fees are by now and whoever the fee address is.
LEMMA SettleConcludes ==
  ASSUME TypeOK, NEW id \in Ids, NEW caller \in Accounts,
         \/ answerQuestion(caller, id) \/ declineQuestion(caller, id)
         \/ cancelQuestion(caller, id) \/ reclaimQuestion(id)
  PROVE  Promise!Next
<1> DEFINE q == questions[id]
<1>1. /\ q.amount \in Nat /\ q.asker \in Holders /\ q.answerer \in Holders
      /\ q.status = "Open"
  BY QuestionFields DEF TypeOK, answerQuestion, declineQuestion, cancelQuestion,
     reclaimQuestion, IsOpen
<1>2. /\ answerFeeBps \in 0..MAX_ANSWER_FEE_BPS /\ MAX_ANSWER_FEE_BPS \in 0..BPS_DENOMINATOR
      /\ cancelFeeBps \in 0..MAX_CANCEL_FEE_BPS /\ MAX_CANCEL_FEE_BPS \in 0..BPS_DENOMINATOR
  BY EscrowAssumption DEF TypeOK
<1>3. /\ FeeOf(q.amount, answerFeeBps) \in 0..q.amount
      /\ FeeOf(q.amount, cancelFeeBps) \in 0..q.amount
  <2>1. answerFeeBps \in 0..BPS_DENOMINATOR /\ cancelFeeBps \in 0..BPS_DENOMINATOR
    BY <1>2, EscrowAssumption
  <2>. QED  BY <2>1, <1>1, FeeBound
<1>4. SUFFICES \E outcome \in {"Answered", "Declined", "Cancelled", "Reclaimed"} :
                 Promise!Conclude(id, outcome)
  BY DEF Promise!Next
<1>5. CASE answerQuestion(caller, id)
  <2> DEFINE fee == FeeOf(q.amount, answerFeeBps)
  <2>1. Settle(id, "Answered", q.answerer, fee)
    BY <1>5 DEF answerQuestion
  <2>2. /\ questions' = [questions EXCEPT ![id].status = "Answered"]
        /\ \A h \in Holders : withdrawable'[h] - withdrawable[h] \in Nat
        /\ withdrawable'[q.answerer] - withdrawable[q.answerer] >= q.amount - fee
        /\ Total(withdrawable') = Total(withdrawable) + q.amount
        /\ UNCHANGED <<Wallet, now>>
    <3> HIDE DEF fee
    <3>. QED  BY <2>1, <1>1, <1>3, SettleDivides DEF Statuses, fee
  <2>3. Promise!Keeps(q.answerer, id, MAX_ANSWER_FEE_BPS)
    BY <2>2, <1>1, <1>2, ShareKept DEF Promise!Keeps, Promise!Gain
  <2>4. Promise!Share(id, "Answered")
    BY <2>3 DEF Promise!Share
  <2>5. Promise!Conclude(id, "Answered")
    BY <2>2, <2>4, <1>1, SameTotal DEF Promise!Conclude, Promise!Gain, Wallet
  <2>. QED  BY <2>5
<1>6. CASE declineQuestion(caller, id)
  <2>1. Settle(id, "Declined", q.asker, 0) /\ 0 \in 0..q.amount
    BY <1>6, <1>1 DEF declineQuestion
  <2>2. /\ questions' = [questions EXCEPT ![id].status = "Declined"]
        /\ \A h \in Holders : withdrawable'[h] - withdrawable[h] \in Nat
        /\ withdrawable'[q.asker] - withdrawable[q.asker] = q.amount
        /\ Total(withdrawable') = Total(withdrawable) + q.amount
        /\ UNCHANGED <<Wallet, now>>
    BY <2>1, <1>1, SettleDivides DEF Statuses
  <2>3. Promise!Share(id, "Declined")
    BY <2>2 DEF Promise!Share, Promise!Gain
  <2>4. Promise!Conclude(id, "Declined")
    BY <2>2, <2>3, <1>1, SameTotal DEF Promise!Conclude, Promise!Gain, Wallet
  <2>. QED  BY <2>4
<1>7. CASE cancelQuestion(caller, id)
  <2> DEFINE fee == FeeOf(q.amount, cancelFeeBps)
  <2>1. Settle(id, "Cancelled", q.asker, fee) /\ now < q.deadline
    BY <1>7 DEF cancelQuestion
  <2>2. /\ questions' = [questions EXCEPT ![id].status = "Cancelled"]
        /\ \A h \in Holders : withdrawable'[h] - withdrawable[h] \in Nat
        /\ withdrawable'[q.asker] - withdrawable[q.asker] >= q.amount - fee
        /\ Total(withdrawable') = Total(withdrawable) + q.amount
        /\ UNCHANGED <<Wallet, now>>
    <3> HIDE DEF fee
    <3>. QED  BY <2>1, <1>1, <1>3, SettleDivides DEF Statuses, fee
  <2>3. Promise!Keeps(q.asker, id, MAX_CANCEL_FEE_BPS)
    BY <2>2, <1>1, <1>2, ShareKept DEF Promise!Keeps, Promise!Gain
  <2>4. Promise!Share(id, "Cancelled")
    BY <2>1, <2>3 DEF Promise!Share
  <2>5. Promise!Conclude(id, "Cancelled")
    BY <2>2, <2>4, <1>1, SameTotal DEF Promise!Conclude, Promise!Gain, Wallet
  <2>. QED  BY <2>5
<1>8. CASE reclaimQuestion(id)
  <2>1. Settle(id, "Reclaimed", q.asker, 0) /\ 0 \in 0..q.amount /\ now >= q.deadline
    BY <1>8, <1>1 DEF reclaimQuestion
  <2>2. /\ questions' = [questions EXCEPT ![id].status = "Reclaimed"]
        /\ \A h \in Holders : withdrawable'[h] - withdrawable[h] \in Nat
        /\ withdrawable'[q.asker] - withdrawable[q.asker] = q.amount
        /\ Total(withdrawable') = Total(withdrawable) + q.amount
        /\ UNCHANGED <<Wallet, now>>
    BY <2>1, <1>1, SettleDivides DEF Statuses
  <2>3. Promise!Share(id, "Reclaimed")
    BY <2>1, <2>2 DEF Promise!Share, Promise!Gain
  <2>4. Promise!Conclude(id, "Reclaimed")
    BY <2>2, <2>3, <1>1, SameTotal DEF Promise!Conclude, Promise!Gain, Wallet
  <2>. QED  BY <2>4
<1>. QED  BY <1>5, <1>6, <1>7, <1>8

\* A withdrawal collects the caller's whole claim into its own wallet.
LEMMA WithdrawCollects ==
  ASSUME TypeOK, NEW caller \in Accounts, withdraw(caller)
  PROVE  Promise!Next
<1>1. caller \in Holders /\ caller # EscrowAddress /\ EscrowAddress \notin Accounts
  BY EscrowAssumption DEF Holders
<1>2. withdrawable[caller] > 0
  BY <1>1 DEF TypeOK, withdraw
<1>3. Wallet' = [Wallet EXCEPT ![caller] = @ + withdrawable[caller]]
  BY <1>1 DEF withdraw, Push, Wallet, TypeOK, Holders
<1>4. Promise!Collect(caller)
  BY <1>2, <1>3 DEF Promise!Collect, withdraw, Wallet
<1>. QED  BY <1>4 DEF Promise!Next

\* A transfer to the contract is a gift, or nothing at all.
LEMMA TransferGives ==
  ASSUME TypeOK, NEW caller \in Accounts, NEW amount \in Amounts,
         DirectTransfer(caller, amount)
  PROVE  Promise!Next \/ UNCHANGED Promise!vars
<1>1. caller \in Holders /\ EscrowAddress \notin Accounts /\ amount \in Nat
  BY EscrowAssumption DEF Holders
<1>2. Wallet' = [Wallet EXCEPT ![caller] = @ - amount] /\ usdc[caller] \in Nat
  <2>1. usdc[caller] \in Nat /\ usdc \in [Holders -> Nat] /\ Accounts \subseteq Holders
    BY <1>1 DEF TypeOK, Holders
  <2>2. \A a \in Accounts : usdc'[a] = IF a = caller THEN usdc[a] - amount ELSE usdc[a]
    BY <1>1, <2>1 DEF DirectTransfer
  <2>. QED  BY <2>1, <2>2 DEF Wallet
<1>3. UNCHANGED <<questions, withdrawable, now>>
  BY DEF DirectTransfer
<1>4. Wallet = [Wallet EXCEPT ![caller] = usdc[caller]]
  BY DEF Wallet
<1>5. Wallet[caller] = usdc[caller] /\ Wallet'[caller] = usdc[caller] - amount
  BY <1>2 DEF Wallet
<1>6. CASE amount = 0
  <2>1. Wallet' = Wallet
    BY <1>2, <1>4, <1>5, <1>6
  <2>. QED  BY <2>1, <1>3 DEF Promise!vars, Wallet
<1>7. CASE amount # 0
  <2>1. Wallet'[caller] < Wallet[caller]
    BY <1>1, <1>2, <1>5, <1>7
  <2>2. Wallet' = [Wallet EXCEPT ![caller] = Wallet'[caller]]
    BY <1>2, <1>5
  <2>3. Promise!GiveAway(caller)
    BY <2>1, <2>2, <1>3 DEF Promise!GiveAway, Wallet
  <2>. QED  BY <2>3 DEF Promise!Next
<1>. QED  BY <1>6, <1>7

-----------------------------------------------------------------------------
\* Every step of the contract is a step of the promise or a stutter.
LEMMA PromiseStep ==
  ASSUME BooksInv, [Next]_vars
  PROVE  [Promise!Next]_(Promise!vars)
<1>0. TypeOK /\ Unasked
  BY DEF BooksInv
<1>1. CASE Tick
  <2>1. Promise!Tick
    BY <1>1 DEF Tick, Promise!Tick, token, Wallet
  <2>. QED  BY <2>1 DEF Promise!Next
<1>2. ASSUME NEW id \in Ids, reclaimQuestion(id) PROVE Promise!Next
  <2>1. PICK caller \in Accounts : TRUE
    BY <1>0, QuestionFields, <1>2 DEF reclaimQuestion, IsOpen, TypeOK, Question, NoQuestion
  <2>. QED  BY <1>0, <1>2, <2>1, SettleConcludes
<1>3. ASSUME NEW caller \in Accounts, Ask(caller) PROVE Promise!Next
  <2>1. PICK ref \in Refs, answerer \in Recipients, amount \in Amounts :
          \/ askQuestion(caller, ref, answerer, amount)
          \/ \E value \in Approvals, valid \in BOOLEAN :
               askQuestionWithPermit(caller, ref, answerer, amount, value, valid)
    BY <1>3 DEF Ask
  <2>2. PICK granted \in [Accounts -> Nat] : Pull(caller, amount, granted)
    BY <2>1, <1>0, AskPulls
  <2>3. /\ createQuestion(caller, ref, answerer, amount)
        /\ UNCHANGED <<params, withdrawable, now>>
    BY <2>1 DEF askQuestion, askQuestionWithPermit
  <2>. QED  BY <1>0, <2>2, <2>3, AskStrikes
<1>4. ASSUME NEW caller \in Accounts, SettleCall(caller) PROVE Promise!Next
  BY <1>0, <1>4, SettleConcludes DEF SettleCall
<1>5. ASSUME NEW caller \in Accounts, withdraw(caller) PROVE Promise!Next
  BY <1>0, <1>5, WithdrawCollects
<1>6. ASSUME NEW caller \in Accounts, Admin(caller) PROVE UNCHANGED Promise!vars
  <2>1. UNCHANGED <<questions, withdrawable, usdc, now>>
    BY <1>6 DEF Admin, adminUnchanged, token, setAnswerFee, setCancelFee,
       setAnswerWindow, setFeeAddress, transferOwnership, pause, unpause,
       acceptOwnership, renounceOwnership
  <2>. QED  BY <2>1, Unseen
<1>7. ASSUME NEW caller \in Accounts, TokenCall(caller)
      PROVE  Promise!Next \/ UNCHANGED Promise!vars
  <2>1. ASSUME NEW value \in Approvals, Approve(caller, value)
        PROVE  UNCHANGED Promise!vars
    BY <2>1, Unseen DEF Approve
  <2>2. ASSUME NEW amount \in Amounts, DirectTransfer(caller, amount)
        PROVE  Promise!Next \/ UNCHANGED Promise!vars
    BY <1>0, <2>2, TransferGives
  <2>. QED  BY <1>7, <2>1, <2>2 DEF TokenCall
<1>8. CASE UNCHANGED vars
  BY <1>8, Unseen DEF vars, token
<1>. QED  BY <1>1, <1>2, <1>3, <1>4, <1>5, <1>6, <1>7, <1>8 DEF Next

\* The contract keeps its promise, whatever fees the owner sets and whoever
\* asks, settles and withdraws in what order. (IBuyAnAnswerEscrow.sol:13-15)
THEOREM EscrowKeepsPromise == Spec => PromiseKept
<1>1. EscrowInv => BooksInv
  BY DEF EscrowInv
<1>. QED
  BY <1>1, PromiseInit, PromiseStep, EscrowInvariant, PTL DEF Spec, PromiseKept, Promise!Spec

-----------------------------------------------------------------------------
(* The contract as the chain of the indexer's module. *)

\* The indexer's log, as ChainKept takes it from the events.
ChainLog == [i \in DOMAIN events |-> [name |-> events[i].name, id |-> events[i].id,
                                      ref |-> events[i].ref, block |-> 1]]

\* The indexer's module counts as the contract's does.
LEMMA SameCardinality == \A S : Chain!Cardinality(S) = Cardinality(S)
BY Zenon DEF Chain!Cardinality, Cardinality

\* Its log is as long as the events, position by position.
LEMMA ChainLogFacts ==
  /\ DOMAIN ChainLog = DOMAIN events
  /\ \A i \in DOMAIN events : /\ ChainLog[i].name = events[i].name
                              /\ ChainLog[i].id = events[i].id
                              /\ ChainLog[i].ref = events[i].ref
BY DEF ChainLog

\* Emitting an event puts it at the end of that log too.
LEMMA ChainLogGrows ==
  ASSUME TypeOK, NEW name, NEW id, NEW ref, emit(name, id, ref)
  PROVE  ChainLog' = Append(ChainLog, [name |-> name, id |-> id, ref |-> ref, block |-> 1])
<1> DEFINE n == Len(events) + 1
           e == [name |-> name, id |-> id, ref |-> ref, block |-> 1]
<1>1. /\ Len(events) \in Nat /\ DOMAIN events = 1..Len(events)
      /\ DOMAIN events' = 1..n
      /\ \A i \in 1..Len(events) : events'[i] = events[i]
      /\ events'[n] = [name |-> name, id |-> id, ref |-> ref]
  BY LogFacts DEF emit, TypeOK, EventLog
<1>2. ChainLog \in Seq({ChainLog[i] : i \in DOMAIN events}) /\ Len(ChainLog) = Len(events)
  BY <1>1 DEF ChainLog
<1>3. /\ DOMAIN Append(ChainLog, e) = 1..n
      /\ \A i \in 1..Len(events) : Append(ChainLog, e)[i] = ChainLog[i]
      /\ Append(ChainLog, e)[n] = e
  BY <1>1, <1>2
<1>. QED  BY <1>1, <1>3 DEF ChainLog

\* An event the indexer's module can emit is one the contract emitted.
LEMMA ChainEmits ==
  ASSUME TypeOK, NEW name, NEW id, NEW ref, emit(name, id, ref)
  PROVE  Chain!Emit(name, id, ref)
<1>1. ChainLog' = Append(ChainLog, [name |-> name, id |-> id, ref |-> ref, block |-> 0 + 1])
  BY ChainLogGrows
<1>. QED  BY <1>1 DEF Chain!Emit, Chain!worker, ChainLog

\* The indexer counts the asks the contract has counted, in all and for a ref.
LEMMA ChainCounts ==
  ASSUME TypeOK, Told, NEW r
  PROVE  /\ Chain!AskedCount = nextId - 1
         /\ Chain!Cardinality(Chain!AskedRef(r)) \in Nat
         /\ Chain!Cardinality(Chain!AskedRef(r)) <= nextId - 1
<1>1. {i \in DOMAIN ChainLog : ChainLog[i].name = "QuestionAsked"} = AskedEvents
  BY ChainLogFacts DEF AskedEvents
<1>2. Cardinality(AskedEvents) = nextId - 1
  BY DEF Told, AskedEvents
<1>3. Chain!AskedCount = Cardinality(AskedEvents)
  BY <1>1, SameCardinality DEF Chain!AskedCount, ChainLog
<1>4. Chain!AskedRef(r) = {i \in DOMAIN ChainLog : ChainLog[i].name = "QuestionAsked"
                                                   /\ ChainLog[i].ref = r}
  BY DEF Chain!AskedRef, ChainLog
<1>5. Chain!AskedRef(r) \in SUBSET AskedEvents
  BY <1>1, <1>4
<1>6. /\ Cardinality(Chain!AskedRef(r)) \in Nat
      /\ Cardinality(Chain!AskedRef(r)) <= Cardinality(AskedEvents)
  BY <1>5, LogFacts, FS_Subset, FS_CardinalityType
<1>. QED  BY <1>2, <1>3, <1>6, SameCardinality

\* Asking is the chain's ask: the id is the count of asks so far and one.
LEMMA AskIsChainAsk ==
  ASSUME TypeOK, Told, NEW caller \in Accounts, NEW ref \in Refs,
         NEW answerer \in Recipients, NEW amount \in Amounts,
         createQuestion(caller, ref, answerer, amount)
  PROVE  Chain!ChainNext
<1>1. nextId \in Nat /\ nextId <= MaxQuestions /\ MaxQuestions \in Nat
  BY EscrowAssumption DEF createQuestion, TypeOK
<1>2. Chain!Emit("QuestionAsked", nextId, ref)
  BY ChainEmits DEF createQuestion
<1>3. /\ Chain!Cardinality(Chain!AskedRef(ref)) < MaxQuestions
      /\ Chain!AskedCount < MaxQuestions /\ Chain!AskedCount + 1 = nextId
  BY <1>1, ChainCounts
<1>4. Chain!Ask(ref)
  BY <1>2, <1>3 DEF Chain!Ask
<1>. QED  BY <1>4 DEF Chain!ChainNext

\* Settling is the chain's settlement: of an id told of, and not settled before.
LEMMA SettleIsChainSettle ==
  ASSUME TypeOK, Unasked, Told, NEW id \in Ids, NEW terminal \in Closed, IsOpen(id),
         emit(SettledEvent[terminal], id, questionRef[id])
  PROVE  Chain!ChainNext
<1>1. id < nextId /\ questions[id].status \notin Closed
  BY ClosedFacts DEF Unasked, IsOpen, NoQuestion, TypeOK, Ids
<1>2. PICK i \in DOMAIN events : events[i].id = id
  BY <1>1 DEF Told
<1>3. /\ i \in DOMAIN ChainLog
      /\ ChainLog[i].id = id /\ ChainLog[i].ref = questionRef[id]
  BY <1>2, ChainLogFacts DEF Told
<1>4. \A j \in DOMAIN ChainLog : ChainLog[j].id = id => ChainLog[j].name = "QuestionAsked"
  BY <1>1, ChainLogFacts DEF Told
<1>5. PICK name, ref : name = SettledEvent[terminal] /\ ref = questionRef[id]
  OBVIOUS
<1>6. Chain!Emit(name, id, ref)
  <2>1. emit(name, id, ref)
    BY <1>5 DEF emit
  <2>. QED  BY <2>1, ChainEmits
<1>7. Chain!SettleOnChain(id, name)
  <2>1. Chain!EventsOf(id) = {j \in DOMAIN ChainLog : ChainLog[j].id = id}
    BY DEF Chain!EventsOf, ChainLog
  <2>2. i \in Chain!EventsOf(id)
    BY <2>1, <1>3
  <2>3. \A j \in Chain!EventsOf(id) : ChainLog[j].name \notin Chain!Settled
    BY <2>1, <1>4 DEF Chain!Settled
  <2>4. Chain!Emit(name, id, ChainLog[i].ref)
    BY <1>3, <1>5, <1>6 DEF Chain!Emit
  <2>. QED  BY <2>2, <2>3, <2>4 DEF Chain!SettleOnChain, ChainLog
<1>8. Chain!SettleOnChain(ChainLog[i].id, name)
  BY <1>3, <1>7 DEF Chain!SettleOnChain, Chain!Emit, Chain!EventsOf
<1>. QED  BY <1>3, <1>5, <1>8 DEF Chain!ChainNext, ChainLog

\* What the events make of an id is the status the contract has for it.
LEMMA StatusTold ==
  ASSUME BooksInv, Told, NEW id \in Ids
  PROVE  Chain!ContractStatus(id) = CONTRACT_STATUS_TO_QUESTION_STATUS[questions[id].status]
<1> DEFINE of == {i \in DOMAIN ChainLog : ChainLog[i].id = id}
           settled == {i \in of : ChainLog[i].name \in Chain!Settled}
           s == questions[id].status
<1>1. Chain!ContractStatus(id) =
        IF of = {} THEN "pending_payment"
        ELSE IF settled = {} THEN "open"
        ELSE Chain!statusForEvent[ChainLog[CHOOSE i \in settled : TRUE].name]
  BY DEF Chain!ContractStatus, Chain!EventsOf, ChainLog
<1>2. id \in Nat /\ nextId \in Nat /\ s \in Statuses /\ s \in {"None", "Open"} \cup Closed
  <2>1. questions[id] \in Question /\ id \in Nat /\ nextId \in Nat
    <3>1. questions \in [Ids -> Question] /\ nextId \in 1..(MaxQuestions + 1)
      BY DEF BooksInv, TypeOK
    <3>. QED  BY <3>1, EscrowAssumption DEF Ids
  <2>2. \A q \in Question : q.status \in Statuses
    <3>1. NoQuestion.status \in Statuses
      BY DEF NoQuestion, Statuses
    <3>2. \A q \in Question : q = NoQuestion \/ q.status \in Statuses \ {"None"}
      BY DEF Question
    <3>. QED  BY <3>1, <3>2
  <2>. QED  BY <2>1, <2>2, ClosedFacts DEF Statuses
<1>3. \A i \in of : /\ i \in DOMAIN events /\ events[i].id = id
                    /\ ChainLog[i].name = events[i].name
  BY ChainLogFacts
<1>4. \A i \in of : events[i].name # "QuestionAsked" =>
                    s \in Closed /\ events[i].name = SettledEvent[s]
  BY <1>3 DEF Told
<1>5. CASE s = "None"
  <2>1. id >= nextId
    BY <1>2, <1>5 DEF Told
  <2>2. of = {}
    BY <1>2, <1>3, <2>1 DEF Told
  <2>. QED  BY <1>1, <1>5, <2>2 DEF CONTRACT_STATUS_TO_QUESTION_STATUS
<1>6. ASSUME s # "None" PROVE id < nextId /\ of # {}
  <2>1. id < nextId
    BY <1>2, <1>6 DEF BooksInv, Unasked, NoQuestion
  <2>2. PICK i \in DOMAIN events : events[i].id = id
    BY <2>1 DEF Told
  <2>. QED  BY <2>1, <2>2, ChainLogFacts
<1>7. CASE s = "Open"
  <2>1. s \notin Closed
    BY <1>7, ClosedFacts
  <2>2. settled = {}
    BY <1>3, <1>4, <2>1 DEF Chain!Settled
  <2> HIDE DEF of, settled
  <2>. QED  BY <1>1, <1>6, <1>7, <2>2 DEF CONTRACT_STATUS_TO_QUESTION_STATUS
<1>8. CASE s \in Closed
  <2>1. s # "None" /\ SettledEvent[s] \in Chain!Settled
    BY <1>8 DEF Closed, SettledEvent, Chain!Settled
  <2>2. PICK i \in DOMAIN events : events[i].id = id /\ events[i].name = SettledEvent[s]
    BY <1>6, <1>8, <2>1 DEF Told
  <2>3. i \in settled
    BY <2>1, <2>2, ChainLogFacts
  <2>4. \A j \in settled : ChainLog[j].name = SettledEvent[s]
    BY <1>3, <1>4 DEF Chain!Settled
  <2>5. ChainLog[CHOOSE j \in settled : TRUE].name = SettledEvent[s]
    <3> HIDE DEF settled
    <3>. QED  BY <2>3, <2>4
  <2>6. Chain!statusForEvent[SettledEvent[s]] = CONTRACT_STATUS_TO_QUESTION_STATUS[s]
    BY <1>8 DEF Closed, SettledEvent, Chain!statusForEvent, CONTRACT_STATUS_TO_QUESTION_STATUS
  <2>7. of # {} /\ settled # {}
    BY <1>6, <2>1, <2>3
  <2> HIDE DEF of, settled
  <2>. QED  BY <1>1, <2>5, <2>6, <2>7
<1> HIDE DEF of, settled
<1>. QED  BY <1>2, <1>5, <1>7, <1>8

\* The contract is the chain the indexer is written against: what the indexer's
\* theorems take for granted of the chain, the contract's code provides.
\* (BuyAnAnswerEscrow.sol:169-238, reconcile.ts:12-13)
THEOREM EscrowFeedsIndexer == Spec => ChainKept
<1>1. Init => events = << >>
  BY DEF Init
<1>2. ASSUME EscrowInv, [Next]_vars
      PROVE  [events' # events => Chain!ChainNext]_events
  <2>1. BooksInv /\ TypeOK /\ Unasked /\ Told
    BY <1>2 DEF EscrowInv, BooksInv
  <2>. QED  BY <1>2, <2>1, RecordSteps, AskIsChainAsk, SettleIsChainSettle
<1>3. EscrowInv =>
        \A id \in Ids : Chain!ContractStatus(id) =
                         CONTRACT_STATUS_TO_QUESTION_STATUS[questions[id].status]
  BY StatusTold DEF EscrowInv
<1>. QED  BY <1>1, <1>2, <1>3, EscrowInvariant, PTL DEF Spec, ChainKept
=============================================================================
