---------------------------- MODULE EscrowProofs ----------------------------
(***************************************************************************)
(* Solvency of the escrow contract for every number of accounts and        *)
(* questions, every amount, fee, window and supply.  The invariant of the  *)
(* books is BooksInv: types, solvency, and the emptiness of the ids still  *)
(* to be given out, without which an ask could replace an escrowed amount. *)
(* That of the events, Told, rests on it.                                  *)
(***************************************************************************)
EXTENDS EscrowProperties, TotalsProofs

\* What the contract holds beyond what it owes.
Surplus == usdc[EscrowAddress] - Obligations

\* The two index sets of the sums are finite.
LEMMA FiniteIndex == IsFiniteSet(Ids) /\ IsFiniteSet(Holders)
<1>1. IsFiniteSet(Ids)
  BY EscrowAssumption, FS_Interval DEF Ids
<1>2. IsFiniteSet(Holders)
  BY EscrowAssumption, FS_AddElement DEF Holders
<1>. QED  BY <1>1, <1>2

\* A fee of at most 100% is a part of the amount (answerQuestion:183-184,
\* cancelQuestion:216-217: the subtraction never underflows).
LEMMA FeeBound ==
  ASSUME NEW amount \in Nat, NEW bps \in 0..BPS_DENOMINATOR
  PROVE  FeeOf(amount, bps) \in 0..amount
<1>1. BPS_DENOMINATOR \in Nat /\ BPS_DENOMINATOR > 0 /\ bps \in Nat
  BY EscrowAssumption
<1> DEFINE D == BPS_DENOMINATOR
           n == amount * bps
<1>2. n \in Nat /\ n <= amount * D
  BY <1>1
<1>3. n \div D \in Nat /\ D * (n \div D) <= n
  <2> HIDE DEF n
  <2>. QED  BY <1>1, <1>2
<1>4. n \div D <= amount
  <2> DEFINE k == n \div D
  <2>1. k \in Nat /\ D * k <= amount * D
    <3> HIDE DEF n
    <3>. QED  BY <1>1, <1>2, <1>3
  <2> HIDE DEF k
  <2>2. k <= amount
    BY <2>1, <1>1
  <2>. QED  BY <2>2 DEF k
<1>. QED  BY <1>3, <1>4 DEF FeeOf

\* Every record, used or not, holds an amount; a used one keeps its parties.
LEMMA QuestionFields ==
  ASSUME NEW q \in Question
  PROVE  /\ q.amount \in Nat
         /\ q.status = "Open" => q.asker \in Holders /\ q.answerer \in Holders
         /\ q.status = "Open" =>
              \A s \in Statuses \ {"None"} : [q EXCEPT !.status = s] \in Question
BY DEF Question, NoQuestion, Holders

\* The locked amounts are amounts by id.
LEMMA LockedType ==
  ASSUME NEW book \in [Ids -> Question]
  PROVE  [id \in Ids |-> IF book[id].status = "Open" THEN book[id].amount ELSE 0]
           \in [Ids -> Nat]
<1>1. \A id \in Ids : book[id].amount \in Nat
  BY QuestionFields
<1>. QED  BY <1>1

\* The locked sum is an amount.
LEMMA LockedNat == ASSUME TypeOK PROVE Total(Locked) \in Nat
<1>1. Locked \in [Ids -> Nat]
  BY LockedType DEF TypeOK, Locked, IsOpen
<1>. QED  BY <1>1, FiniteIndex, TotalNat

\* So is what the contract owes.
LEMMA ObligationsNat == ASSUME TypeOK PROVE Obligations \in Nat
<1>1. Total(Locked) \in Nat /\ Total(withdrawable) \in Nat
  BY LockedNat, FiniteIndex, TotalNat DEF TypeOK
<1>. QED  BY <1>1 DEF Obligations

-----------------------------------------------------------------------------
(* What each kind of call does to the types and the sums. *)

\* The initial state owes nothing.
LEMMA InitInv == Init => BooksInv
<1> SUFFICES ASSUME Init PROVE BooksInv
  OBVIOUS
<1>1. TypeOK
  <2>1. NoQuestion \in Question
    BY DEF Question
  <2>2. questions \in [Ids -> Question] /\ questionRef \in [Ids -> Refs \cup {NoRef}]
    BY <2>1 DEF Init
  <2>3. /\ usdc \in [Holders -> Nat] /\ allowance \in [Accounts -> Nat]
        /\ withdrawable \in [Holders -> Nat]
    BY EscrowAssumption DEF Init
  <2>4. /\ owner \in Accounts \cup {ZeroAddress} /\ feeAddress \in Holders
        /\ pendingOwner \in Holders \cup {ZeroAddress} /\ paused \in BOOLEAN
    BY EscrowAssumption DEF Init
  <2>5. /\ answerWindow \in 1..MAX_ANSWER_WINDOW /\ now \in 0..MaxTime
        /\ answerFeeBps \in 0..MAX_ANSWER_FEE_BPS
        /\ cancelFeeBps \in 0..MAX_CANCEL_FEE_BPS
        /\ nextId \in 1..(MaxQuestions + 1)
    BY EscrowAssumption DEF Init
  <2>6. events \in EventLog
    BY DEF Init, EventLog
  <2>. QED  BY <2>2, <2>3, <2>4, <2>5, <2>6 DEF TypeOK
<1>2. Unasked
  BY DEF Init, Unasked
<1>3. Locked = [id \in Ids |-> 0]
  BY DEF Init, Locked, IsOpen, NoQuestion
<1>4. Obligations = 0
  BY <1>3, TotalZero DEF Obligations, Init
<1>5. Solvent
  BY <1>1, <1>4 DEF Solvent, TypeOK, Holders
<1>. QED  BY <1>1, <1>2, <1>5 DEF BooksInv

\* A pull moves the amount into the escrow, whatever allowances are in force.
LEMMA PullEffect ==
  ASSUME TypeOK, NEW caller \in Accounts, NEW amount \in Nat,
         NEW granted \in [Accounts -> Nat], Pull(caller, amount, granted)
  PROVE  /\ usdc' \in [Holders -> Nat]
         /\ allowance' \in [Accounts -> Nat]
         /\ usdc'[EscrowAddress] = usdc[EscrowAddress] + amount
BY EscrowAssumption DEF TypeOK, Pull, Holders

\* What is emitted is an event, and comes after those emitted before.
LEMMA EmitType ==
  ASSUME events \in EventLog, NEW id \in Ids, NEW ref \in Refs \cup {NoRef},
         NEW name \in {"QuestionAsked"} \cup {SettledEvent[s] : s \in Closed},
         emit(name, id, ref)
  PROVE  events' \in EventLog
<1>1. [name |-> name, id |-> id, ref |-> ref] \in QuestionEvent
  BY DEF QuestionEvent
<1>. QED  BY <1>1 DEF emit, EventLog

\* A new question adds its amount to the obligations and nothing else.
LEMMA CreateEffect ==
  ASSUME TypeOK, Unasked, NEW caller \in Accounts, NEW ref \in Refs,
         NEW answerer \in Recipients, NEW amount \in Amounts,
         createQuestion(caller, ref, answerer, amount),
         withdrawable' = withdrawable, answerWindow' = answerWindow
  PROVE  /\ questions' \in [Ids -> Question]
         /\ questionRef' \in [Ids -> Refs \cup {NoRef}]
         /\ nextId' \in 1..(MaxQuestions + 1)
         /\ events' \in EventLog
         /\ Unasked'
         /\ Obligations' = Obligations + amount
<1>1. nextId \in Ids /\ nextId' = nextId + 1 /\ amount \in Nat
  BY EscrowAssumption DEF createQuestion, TypeOK, Ids
<1>2. questions' \in [Ids -> Question]
  BY <1>1, EscrowAssumption DEF createQuestion, TypeOK, Question, Statuses, Holders
<1>3. questionRef' \in [Ids -> Refs \cup {NoRef}]
  BY DEF createQuestion, TypeOK
<1>4. nextId' \in 1..(MaxQuestions + 1)
  BY <1>1, EscrowAssumption DEF Ids
<1>5. Unasked'
  BY <1>1, EscrowAssumption DEF Unasked, createQuestion, Ids, TypeOK
<1>6. Locked \in [Ids -> Nat]
  BY LockedType DEF TypeOK, Locked, IsOpen
<1>7. /\ Locked' \in [Ids -> Nat]
      /\ Locked[nextId] = 0 /\ Locked'[nextId] = amount
      /\ \A id \in Ids : id # nextId => Locked'[id] = Locked[id]
  <2>1. Locked[nextId] = 0
    BY <1>1 DEF Unasked, Locked, IsOpen, NoQuestion, Ids
  <2>2. Locked'[nextId] = amount
    BY <1>1 DEF Locked, IsOpen, createQuestion, TypeOK
  <2>3. \A id \in Ids : id # nextId => Locked'[id] = Locked[id]
    BY DEF Locked, IsOpen, createQuestion, TypeOK
  <2>4. Locked' \in [Ids -> Nat]
    BY <1>2, LockedType DEF Locked, IsOpen
  <2>. QED  BY <2>1, <2>2, <2>3, <2>4
<1>8. Total(Locked') = Total(Locked) + amount
  <2> DEFINE f == Locked
             g == Locked'
  <2>1. /\ f \in [Ids -> Nat] /\ g \in [Ids -> Nat]
        /\ f[nextId] = 0 /\ g[nextId] = amount
        /\ \A id \in Ids : id # nextId => g[id] = f[id]
    BY <1>6, <1>7
  <2> HIDE DEF f, g
  <2>2. Total(g) = Total(f) - f[nextId] + g[nextId] /\ Total(f) \in Nat
    BY <2>1, <1>1, FiniteIndex, TotalUpdate, TotalNat
  <2>3. Total(g) = Total(f) + amount
    BY <2>1, <2>2, <1>1
  <2>. QED  BY <2>3 DEF f, g
<1>9. Total(Locked) \in Nat /\ Total(withdrawable) \in Nat
  BY <1>6, FiniteIndex, TotalNat DEF TypeOK
<1>10. Obligations' = Total(Locked') + Total(withdrawable)
  BY DEF Obligations
<1>11. events' \in EventLog
  BY <1>1, EmitType DEF createQuestion, TypeOK
<1>. QED
  BY <1>1, <1>2, <1>3, <1>4, <1>5, <1>8, <1>9, <1>10, <1>11 DEF Obligations

\* A credit adds its amount to one balance and to the total.
LEMMA CreditEffect ==
  ASSUME NEW balances \in [Holders -> Nat], NEW to \in Holders, NEW amount \in Nat
  PROVE  /\ Credit(balances, to, amount) \in [Holders -> Nat]
         /\ \A h \in Holders : Credit(balances, to, amount)[h] =
              IF h = to THEN balances[h] + amount ELSE balances[h]
         /\ Total(Credit(balances, to, amount)) = Total(balances) + amount
<1> DEFINE g == Credit(balances, to, amount)
<1>1. /\ g \in [Holders -> Nat]
      /\ \A h \in Holders : g[h] = IF h = to THEN balances[h] + amount ELSE balances[h]
  BY DEF Credit
<1>2. Total(g) = Total(balances) + amount
  <2> HIDE DEF g
  <2>1. /\ Total(g) = Total(balances) - balances[to] + g[to]
        /\ Total(balances) \in Nat
    BY <1>1, FiniteIndex, TotalUpdate, TotalNat
  <2>2. g[to] = balances[to] + amount /\ balances[to] \in Nat
    BY <1>1
  <2>. QED  BY <2>1, <2>2
<1>. QED  BY <1>1, <1>2

\* Settling question id with a fee that is part of its amount takes the amount
\* off the locked sum and adds exactly the same to the credited sum.
LEMMA SettleEffect ==
  ASSUME TypeOK, Unasked, NEW id \in Ids, NEW terminal \in Statuses \ {"None", "Open"},
         NEW payee \in Holders, NEW fee \in 0..questions[id].amount,
         IsOpen(id), Settle(id, terminal, payee, fee)
  PROVE  TypeOK' /\ Unasked' /\ Obligations' = Obligations
<1> DEFINE amount == questions[id].amount
           half == Credit(withdrawable, payee, amount - fee)
           f == Locked
           g == Locked'
<1>1. amount \in Nat /\ fee \in Nat /\ amount - fee \in Nat
  BY QuestionFields DEF TypeOK
<1>2. questions' \in [Ids -> Question]
  <2>1. [questions[id] EXCEPT !.status = terminal] \in Question
    BY QuestionFields DEF TypeOK, IsOpen
  <2>2. questions' = [questions EXCEPT ![id] = [questions[id] EXCEPT !.status = terminal]]
    BY DEF Settle
  <2>. QED  BY <2>1, <2>2 DEF TypeOK
<1>3. half \in [Holders -> Nat] /\ Total(half) = Total(withdrawable) + (amount - fee)
  <2>1. withdrawable \in [Holders -> Nat]
    BY DEF TypeOK
  <2> HIDE DEF amount
  <2>. QED  BY <2>1, <1>1, CreditEffect
<1>4. withdrawable' \in [Holders -> Nat] /\ Total(withdrawable') = Total(half) + fee
  <2>1. feeAddress \in Holders /\ withdrawable' = Credit(half, feeAddress, fee)
    BY DEF Settle, TypeOK
  <2> HIDE DEF half
  <2>. QED  BY <2>1, <1>1, <1>3, CreditEffect
<1>5. TypeOK'
  <2>1. terminal \in Closed
    BY DEF Closed, SettledEvent, Statuses
  <2>2. events' \in EventLog
    BY <2>1, EmitType DEF Settle, TypeOK
  <2>. QED  BY <1>2, <1>4, <2>2 DEF TypeOK, Settle, token, control, params
<1>6. Unasked'
  <2>1. nextId' = nextId /\ \A j \in Ids : j # id => questions'[j] = questions[j]
    BY DEF Settle, TypeOK
  <2>2. id < nextId
    BY DEF Unasked, IsOpen, NoQuestion, TypeOK, Ids
  <2>. QED  BY <2>1, <2>2 DEF Unasked, Ids, TypeOK
<1>7. /\ f \in [Ids -> Nat] /\ g \in [Ids -> Nat]
      /\ f[id] = amount /\ g[id] = 0
      /\ \A j \in Ids : j # id => g[j] = f[j]
  <2>1. f \in [Ids -> Nat]
    BY LockedType DEF TypeOK, Locked, IsOpen
  <2>2. g \in [Ids -> Nat]
    BY <1>2, LockedType DEF Locked, IsOpen
  <2>3. f[id] = amount /\ g[id] = 0
    BY DEF Locked, IsOpen, Settle, TypeOK
  <2>4. \A j \in Ids : j # id => g[j] = f[j]
    BY DEF Locked, IsOpen, Settle, TypeOK
  <2>. QED  BY <2>1, <2>2, <2>3, <2>4
<1>8. Total(g) = Total(f) - amount /\ Total(f) \in Nat
  <2> HIDE DEF f, g, amount
  <2>1. Total(g) = Total(f) - f[id] + g[id] /\ Total(f) \in Nat
    BY <1>7, FiniteIndex, TotalUpdate, TotalNat
  <2>. QED  BY <2>1, <1>1, <1>7
<1>9. Total(withdrawable) \in Nat
  BY FiniteIndex, TotalNat DEF TypeOK
<1>10. Obligations' = Total(g) + Total(withdrawable')
  BY DEF Obligations
<1>11. Obligations' = Obligations
  <2> HIDE DEF amount, half, g
  <2>1. Obligations' = (Total(f) - amount) + (Total(withdrawable) + (amount - fee) + fee)
    BY <1>3, <1>4, <1>8, <1>10
  <2>. QED  BY <2>1, <1>1, <1>8, <1>9 DEF Obligations
<1>. QED  BY <1>5, <1>6, <1>11

\* A withdrawal takes the same units off the credited sum and the balance.
LEMMA WithdrawEffect ==
  ASSUME TypeOK, Unasked, NEW caller \in Accounts, withdraw(caller)
  PROVE  /\ TypeOK' /\ Unasked'
         /\ Obligations' = Obligations - withdrawable[caller]
         /\ usdc'[EscrowAddress] = usdc[EscrowAddress] - withdrawable[caller]
<1> DEFINE w == withdrawable[caller]
<1>1. caller \in Holders /\ caller # EscrowAddress /\ EscrowAddress \in Holders
  BY EscrowAssumption DEF Holders
<1>2. w \in Nat /\ usdc[EscrowAddress] - w \in Nat /\ usdc[caller] + w \in Nat
  BY <1>1 DEF TypeOK, withdraw, Push
<1>3. /\ usdc' \in [Holders -> Nat]
      /\ usdc'[EscrowAddress] = usdc[EscrowAddress] - w
  BY <1>1, <1>2 DEF TypeOK, withdraw, Push
<1>4. /\ withdrawable' \in [Holders -> Nat]
      /\ withdrawable'[caller] = 0
      /\ \A h \in Holders : h # caller => withdrawable'[h] = withdrawable[h]
  BY <1>1 DEF TypeOK, withdraw
<1>5. TypeOK'
  BY <1>3, <1>4 DEF TypeOK, withdraw, control, params, asked
<1>6. Unasked' /\ Locked' = Locked
  BY DEF Unasked, Locked, IsOpen, withdraw, asked
<1>7. Total(withdrawable') = Total(withdrawable) - w /\ Total(withdrawable) \in Nat
  <2> DEFINE f == withdrawable
             g == withdrawable'
  <2>1. /\ f \in [Holders -> Nat] /\ g \in [Holders -> Nat]
        /\ f[caller] = w /\ g[caller] = 0
        /\ \A h \in Holders : h # caller => g[h] = f[h]
    BY <1>4 DEF TypeOK
  <2> HIDE DEF f, g, w
  <2>2. Total(g) = Total(f) - f[caller] + g[caller] /\ Total(f) \in Nat
    BY <2>1, <1>1, FiniteIndex, TotalUpdate, TotalNat
  <2>3. Total(g) = Total(f) - w
    BY <2>1, <2>2, <1>2
  <2>. QED  BY <2>2, <2>3 DEF f, g
<1>8. Total(Locked) \in Nat
  BY LockedNat
<1>9. Obligations' = Total(Locked) + Total(withdrawable')
  BY <1>6 DEF Obligations
<1>. QED  BY <1>2, <1>3, <1>5, <1>6, <1>7, <1>8, <1>9 DEF Obligations

\* A call that leaves the questions and the credits alone preserves the
\* invariant as long as it keeps the types and takes no USDC from the escrow.
LEMMA BookUnchanged ==
  ASSUME BooksInv, TypeOK', UNCHANGED <<nextId, questions, withdrawable>>,
         usdc'[EscrowAddress] >= usdc[EscrowAddress]
  PROVE  BooksInv' /\ Obligations' = Obligations
<1>1. Unasked' /\ Locked' = Locked
  BY DEF BooksInv, Unasked, Locked, IsOpen
<1>2. Obligations' = Obligations
  BY <1>1 DEF Obligations
<1>3. Obligations \in Nat
  BY ObligationsNat DEF BooksInv
<1>4. usdc[EscrowAddress] \in Nat /\ usdc'[EscrowAddress] \in Nat
  BY DEF BooksInv, TypeOK, Holders
<1>. QED  BY <1>1, <1>2, <1>3, <1>4 DEF BooksInv, Solvent

\* Both ask functions pull the amount, under the allowance the permit may set.
LEMMA AskPulls ==
  ASSUME TypeOK, NEW caller \in Accounts, NEW ref \in Refs,
         NEW answerer \in Recipients, NEW amount \in Amounts,
         \/ askQuestion(caller, ref, answerer, amount)
         \/ \E value \in Approvals, valid \in BOOLEAN :
              askQuestionWithPermit(caller, ref, answerer, amount, value, valid)
  PROVE  \E granted \in [Accounts -> Nat] : Pull(caller, amount, granted)
<1>1. CASE askQuestion(caller, ref, answerer, amount)
  BY <1>1 DEF askQuestion, TypeOK
<1>2. ASSUME NEW value \in Approvals, NEW valid \in BOOLEAN,
             askQuestionWithPermit(caller, ref, answerer, amount, value, valid)
      PROVE  \E granted \in [Accounts -> Nat] : Pull(caller, amount, granted)
  <2> DEFINE granted == IF valid THEN [allowance EXCEPT ![caller] = value] ELSE allowance
  <2>1. granted \in [Accounts -> Nat]
    BY EscrowAssumption DEF TypeOK
  <2>2. Pull(caller, amount, granted)
    BY <1>2 DEF askQuestionWithPermit
  <2> HIDE DEF granted
  <2>. QED  BY <2>1, <2>2
<1>. QED  BY <1>1, <1>2

\* Both ask functions: the balance grows by what the obligations grow by.
LEMMA AskStep ==
  ASSUME BooksInv, NEW caller \in Accounts, Ask(caller)
  PROVE  BooksInv' /\ Surplus' = Surplus
<1>1. PICK ref \in Refs, answerer \in Recipients, amount \in Amounts :
        \/ askQuestion(caller, ref, answerer, amount)
        \/ \E value \in Approvals, valid \in BOOLEAN :
             askQuestionWithPermit(caller, ref, answerer, amount, value, valid)
  BY DEF Ask
<1>2. amount \in Nat
  BY EscrowAssumption
<1>3. PICK granted \in [Accounts -> Nat] : Pull(caller, amount, granted)
  BY <1>1, AskPulls DEF BooksInv
<1>4. /\ createQuestion(caller, ref, answerer, amount)
      /\ UNCHANGED <<control, params, withdrawable, now>>
  BY <1>1 DEF askQuestion, askQuestionWithPermit
<1>5. /\ usdc' \in [Holders -> Nat] /\ allowance' \in [Accounts -> Nat]
      /\ usdc'[EscrowAddress] = usdc[EscrowAddress] + amount
  BY <1>2, <1>3, PullEffect DEF BooksInv
<1>6. withdrawable' = withdrawable /\ answerWindow' = answerWindow
  BY <1>4 DEF params
<1>7. /\ questions' \in [Ids -> Question]
      /\ questionRef' \in [Ids -> Refs \cup {NoRef}]
      /\ nextId' \in 1..(MaxQuestions + 1)
      /\ events' \in EventLog
      /\ Unasked'
      /\ Obligations' = Obligations + amount
  BY <1>4, <1>6, CreateEffect DEF BooksInv
<1>8. TypeOK'
  BY <1>4, <1>5, <1>7 DEF BooksInv, TypeOK, control, params
<1>9. Solvent' /\ Surplus' = Surplus
  <2>1. Obligations <= usdc[EscrowAddress] /\ usdc[EscrowAddress] \in Nat
    BY DEF BooksInv, Solvent, TypeOK, Holders
  <2>2. Obligations \in Nat
    BY ObligationsNat DEF BooksInv
  <2>. QED  BY <2>1, <2>2, <1>2, <1>5, <1>7 DEF Solvent, Surplus
<1>. QED  BY <1>7, <1>8, <1>9 DEF BooksInv

\* Each settle function is Settle with a fee that is part of the amount.
LEMMA SettleStep ==
  ASSUME BooksInv,
         \/ \E id \in Ids : reclaimQuestion(id)
         \/ \E caller \in Accounts : SettleCall(caller)
  PROVE  BooksInv' /\ Surplus' = Surplus
<1>1. PICK id \in Ids :
        \/ reclaimQuestion(id)
        \/ \E caller \in Accounts : \/ answerQuestion(caller, id)
                                    \/ declineQuestion(caller, id)
                                    \/ cancelQuestion(caller, id)
  BY DEF SettleCall
<1> DEFINE q == questions[id]
<1>2. /\ IsOpen(id) /\ usdc' = usdc
      /\ q.asker \in Holders /\ q.answerer \in Holders /\ q.amount \in Nat
  <2>1. IsOpen(id) /\ usdc' = usdc
    BY <1>1 DEF reclaimQuestion, answerQuestion, declineQuestion, cancelQuestion,
                Settle, token
  <2>2. q \in Question /\ q.status = "Open"
    BY <2>1 DEF BooksInv, TypeOK, IsOpen
  <2>. QED  BY <2>1, <2>2, QuestionFields
<1>3. /\ answerFeeBps \in 0..BPS_DENOMINATOR /\ cancelFeeBps \in 0..BPS_DENOMINATOR
  BY EscrowAssumption DEF BooksInv, TypeOK
<1>4. /\ FeeOf(q.amount, answerFeeBps) \in 0..q.amount
      /\ FeeOf(q.amount, cancelFeeBps) \in 0..q.amount
      /\ 0 \in 0..q.amount
  <2> HIDE DEF q
  <2>. QED  BY <1>2, <1>3, FeeBound
<1>5. PICK terminal \in Statuses \ {"None", "Open"}, payee \in Holders, fee \in 0..q.amount :
        Settle(id, terminal, payee, fee)
  <2>1. CASE reclaimQuestion(id)
    BY <2>1, <1>2, <1>4 DEF reclaimQuestion, Statuses
  <2>2. ASSUME NEW caller \in Accounts, answerQuestion(caller, id)
        PROVE  \E terminal \in Statuses \ {"None", "Open"}, payee \in Holders,
                  fee \in 0..q.amount : Settle(id, terminal, payee, fee)
    BY <2>2, <1>2, <1>4 DEF answerQuestion, Statuses
  <2>3. ASSUME NEW caller \in Accounts, declineQuestion(caller, id)
        PROVE  \E terminal \in Statuses \ {"None", "Open"}, payee \in Holders,
                  fee \in 0..q.amount : Settle(id, terminal, payee, fee)
    BY <2>3, <1>2, <1>4 DEF declineQuestion, Statuses
  <2>4. ASSUME NEW caller \in Accounts, cancelQuestion(caller, id)
        PROVE  \E terminal \in Statuses \ {"None", "Open"}, payee \in Holders,
                  fee \in 0..q.amount : Settle(id, terminal, payee, fee)
    BY <2>4, <1>2, <1>4 DEF cancelQuestion, Statuses
  <2>. QED  BY <1>1, <2>1, <2>2, <2>3, <2>4
<1>6. TypeOK' /\ Unasked' /\ Obligations' = Obligations
  BY <1>2, <1>5, SettleEffect DEF BooksInv
<1>. QED  BY <1>2, <1>6 DEF BooksInv, Solvent, Surplus

\* Owner calls change parameters within their caps and move nothing.
LEMMA AdminStep ==
  ASSUME BooksInv, NEW caller \in Accounts, Admin(caller)
  PROVE  BooksInv' /\ Surplus' = Surplus
<1>1. /\ UNCHANGED <<usdc, allowance, asked, questions, withdrawable, now>>
      /\ usdc[EscrowAddress] \in Nat
  BY DEF Admin, setAnswerFee, setCancelFee, setAnswerWindow, setFeeAddress, pause,
         unpause, transferOwnership, acceptOwnership, renounceOwnership,
         adminUnchanged, token, asked, BooksInv, TypeOK, Holders
<1>2. /\ owner' \in Accounts \cup {ZeroAddress}
      /\ pendingOwner' \in Holders \cup {ZeroAddress}
      /\ paused' \in BOOLEAN
  BY EscrowAssumption
     DEF Admin, setAnswerFee, setCancelFee, setAnswerWindow, setFeeAddress, pause,
         unpause, transferOwnership, acceptOwnership, renounceOwnership,
         control, BooksInv, TypeOK
<1>3. /\ feeAddress' \in Holders
      /\ answerWindow' \in 1..MAX_ANSWER_WINDOW
      /\ answerFeeBps' \in 0..MAX_ANSWER_FEE_BPS
      /\ cancelFeeBps' \in 0..MAX_CANCEL_FEE_BPS
  BY EscrowAssumption
     DEF Admin, setAnswerFee, setCancelFee, setAnswerWindow, setFeeAddress, pause,
         unpause, transferOwnership, acceptOwnership, renounceOwnership,
         params, BooksInv, TypeOK
<1>4. TypeOK'
  BY <1>1, <1>2, <1>3 DEF BooksInv, TypeOK, asked
<1>. QED  BY <1>1, <1>4, BookUnchanged DEF asked, Surplus

\* A direct transfer only adds to the balance; an approval moves nothing.
LEMMA TokenStep ==
  ASSUME BooksInv, NEW caller \in Accounts, TokenCall(caller)
  PROVE  /\ BooksInv'
         /\ \/ Surplus' = Surplus
            \/ \E amount \in Amounts :
                 DirectTransfer(caller, amount) /\ Surplus' = Surplus + amount
<1>1. UNCHANGED <<control, params, asked, questions, withdrawable, now>>
  BY DEF TokenCall, Approve, DirectTransfer
<1>2. allowance' \in [Accounts -> Nat]
  BY EscrowAssumption DEF TokenCall, Approve, DirectTransfer, BooksInv, TypeOK
<1>3. usdc \in [Holders -> Nat] /\ EscrowAddress \in Holders
  BY DEF BooksInv, TypeOK, Holders
<1>4. \/ usdc' = usdc
      \/ \E amount \in Amounts : /\ DirectTransfer(caller, amount)
                                 /\ usdc' \in [Holders -> Nat] /\ amount \in Nat
                                 /\ usdc'[EscrowAddress] = usdc[EscrowAddress] + amount
  <2>1. ASSUME NEW amount \in Amounts, DirectTransfer(caller, amount)
        PROVE  /\ usdc' \in [Holders -> Nat] /\ amount \in Nat
               /\ usdc'[EscrowAddress] = usdc[EscrowAddress] + amount
    BY <1>3, <2>1, EscrowAssumption DEF DirectTransfer, Holders
  <2>. QED  BY <2>1 DEF TokenCall, Approve
<1>5. usdc' \in [Holders -> Nat] /\ usdc'[EscrowAddress] >= usdc[EscrowAddress]
  BY <1>3, <1>4
<1>6. TypeOK'
  BY <1>1, <1>2, <1>5 DEF BooksInv, TypeOK, control, params, asked
<1>7. BooksInv' /\ Obligations' = Obligations
  BY <1>1, <1>5, <1>6, BookUnchanged DEF asked
<1>8. Obligations \in Nat
  BY ObligationsNat DEF BooksInv
<1>. QED  BY <1>3, <1>4, <1>7, <1>8 DEF Surplus

\* Every step of the contract preserves the invariant.
LEMMA StepInv == BooksInv /\ [Next]_vars => BooksInv'
<1> SUFFICES ASSUME BooksInv, [Next]_vars PROVE BooksInv'
  OBVIOUS
<1>1. CASE Tick
  <2>1. TypeOK'
    BY <1>1, EscrowAssumption
       DEF BooksInv, TypeOK, Tick, token, control, params, asked
  <2>. QED  BY <1>1, <2>1, BookUnchanged DEF Tick, token, asked, BooksInv, TypeOK, Holders
<1>2. CASE \E id \in Ids : reclaimQuestion(id)
  BY <1>2, SettleStep
<1>3. ASSUME NEW caller \in Accounts, Ask(caller) PROVE BooksInv'
  BY <1>3, AskStep
<1>4. CASE \E caller \in Accounts : SettleCall(caller)
  BY <1>4, SettleStep
<1>5. ASSUME NEW caller \in Accounts, withdraw(caller) PROVE BooksInv'
  <2>1. /\ TypeOK' /\ Unasked'
        /\ Obligations' = Obligations - withdrawable[caller]
        /\ usdc'[EscrowAddress] = usdc[EscrowAddress] - withdrawable[caller]
    BY <1>5, WithdrawEffect DEF BooksInv
  <2>2. Total(Locked) \in Nat /\ Total(withdrawable) \in Nat
    BY LockedNat, FiniteIndex, TotalNat DEF BooksInv, TypeOK
  <2>3. /\ Obligations \in Nat /\ usdc[EscrowAddress] \in Nat
        /\ withdrawable[caller] \in Nat
    BY <2>2 DEF BooksInv, TypeOK, Holders, Obligations
  <2>. QED  BY <2>1, <2>3 DEF BooksInv, Solvent
<1>6. ASSUME NEW caller \in Accounts, Admin(caller) PROVE BooksInv'
  BY <1>6, AdminStep
<1>7. ASSUME NEW caller \in Accounts, TokenCall(caller) PROVE BooksInv'
  BY <1>7, TokenStep
<1>8. CASE UNCHANGED vars
  <2>1. TypeOK'
    BY <1>8 DEF vars, BooksInv, TypeOK, token, control, params, asked
  <2>. QED
    BY <1>8, <2>1, BookUnchanged DEF vars, token, asked, BooksInv, TypeOK, Holders
<1>. QED  BY <1>1, <1>2, <1>3, <1>4, <1>5, <1>6, <1>7, <1>8 DEF Next

-----------------------------------------------------------------------------
(* The events. *)

\* A step touches what the contract has recorded and told of the questions in
\* two ways only, and tells what it does to the record in either.
LEMMA RecordSteps ==
  ASSUME BooksInv, [Next]_vars
  PROVE  \/ UNCHANGED <<nextId, questions, questionRef, events>>
         \/ \E caller \in Accounts, ref \in Refs, answerer \in Recipients, amount \in Amounts :
              createQuestion(caller, ref, answerer, amount)
         \/ \E id \in Ids, terminal \in Closed :
              /\ IsOpen(id)
              /\ questions' = [questions EXCEPT ![id].status = terminal]
              /\ emit(SettledEvent[terminal], id, questionRef[id])
              /\ UNCHANGED <<nextId, questionRef>>
<1>1. CASE Tick \/ UNCHANGED vars
  BY <1>1 DEF Tick, vars, asked
<1>2. ASSUME NEW caller \in Accounts, Ask(caller)
      PROVE  \E ref \in Refs, answerer \in Recipients, amount \in Amounts :
               createQuestion(caller, ref, answerer, amount)
  BY <1>2 DEF Ask, askQuestion, askQuestionWithPermit
<1>3. ASSUME NEW id \in Ids,
             \/ reclaimQuestion(id)
             \/ \E caller \in Accounts : \/ answerQuestion(caller, id)
                                         \/ declineQuestion(caller, id)
                                         \/ cancelQuestion(caller, id)
      PROVE  /\ IsOpen(id)
             /\ \E terminal \in Closed : \E payee, fee : Settle(id, terminal, payee, fee)
  <2>1. Closed = {"Answered", "Declined", "Cancelled", "Reclaimed"}
    BY DEF Closed, SettledEvent
  <2>. QED
    BY <1>3, <2>1 DEF reclaimQuestion, answerQuestion, declineQuestion, cancelQuestion
<1>4. ASSUME NEW id \in Ids, NEW terminal \in Closed, NEW payee, NEW fee,
             Settle(id, terminal, payee, fee)
      PROVE  /\ questions' = [questions EXCEPT ![id].status = terminal]
             /\ emit(SettledEvent[terminal], id, questionRef[id])
             /\ UNCHANGED <<nextId, questionRef>>
  BY <1>4 DEF Settle
<1>5. ASSUME NEW caller \in Accounts,
             withdraw(caller) \/ Admin(caller) \/ TokenCall(caller)
      PROVE  UNCHANGED <<asked, questions>>
  BY <1>5 DEF withdraw, TokenCall, Approve, DirectTransfer, Admin, adminUnchanged,
     setAnswerFee, setCancelFee, setAnswerWindow, setFeeAddress, transferOwnership,
     pause, unpause, acceptOwnership, renounceOwnership
<1>6. CASE \E id \in Ids : reclaimQuestion(id)
  BY <1>3, <1>4, <1>6
<1>7. CASE \E caller \in Accounts : SettleCall(caller)
  BY <1>3, <1>4, <1>7 DEF SettleCall
<1>. QED  BY <1>1, <1>2, <1>5, <1>6, <1>7 DEF Next, asked

\* The positions at which a question is told to be asked.
AskedEvents == {i \in DOMAIN events : events[i].name = "QuestionAsked"}

\* The log so far is finite, of events of given-out ids.
LEMMA LogFacts ==
  ASSUME TypeOK
  PROVE  /\ Len(events) \in Nat /\ DOMAIN events = 1..Len(events)
         /\ \A i \in DOMAIN events : events[i] \in QuestionEvent
         /\ IsFiniteSet(DOMAIN events)
         /\ IsFiniteSet(AskedEvents) /\ Cardinality(AskedEvents) \in Nat
<1>1. /\ Len(events) \in Nat /\ DOMAIN events = 1..Len(events)
      /\ \A i \in DOMAIN events : events[i] \in QuestionEvent
  BY DEF TypeOK, EventLog
<1>2. IsFiniteSet(DOMAIN events)
  BY <1>1, FS_Interval
<1>3. IsFiniteSet(AskedEvents)
  BY <1>2, FS_Subset DEF AskedEvents
<1>. QED  BY <1>1, <1>2, <1>3, FS_CardinalityType

\* Appending adds one place to a sequence and leaves the others alone.
LEMMA AppendPlaces ==
  ASSUME NEW S, NEW s \in Seq(S), NEW e
  PROVE  /\ DOMAIN Append(s, e) = DOMAIN s \cup {Len(s) + 1} /\ Len(s) + 1 \notin DOMAIN s
         /\ \A i \in DOMAIN s : Append(s, e)[i] = s[i]
         /\ Append(s, e)[Len(s) + 1] = e
<1>1. Len(s) \in Nat /\ DOMAIN s = 1..Len(s)
  OBVIOUS
<1>2. /\ DOMAIN Append(s, e) = 1..(Len(s) + 1)
      /\ \A i \in 1..Len(s) : Append(s, e)[i] = s[i]
      /\ Append(s, e)[Len(s) + 1] = e
  BY <1>1
<1>. QED  BY <1>1, <1>2

\* An event counts as one more ask if it tells of one, and not at all otherwise.
LEMMA EmitCounts ==
  ASSUME TypeOK, NEW name, NEW id, NEW ref, emit(name, id, ref)
  PROVE  /\ name = "QuestionAsked" => Cardinality(AskedEvents') = Cardinality(AskedEvents) + 1
         /\ name # "QuestionAsked" => AskedEvents' = AskedEvents
<1> DEFINE n == Len(events) + 1
<1>1. /\ DOMAIN events' = DOMAIN events \cup {n} /\ n \notin DOMAIN events
      /\ \A i \in DOMAIN events : events'[i] = events[i]
      /\ events'[n].name = name
  <2>1. events \in Seq(QuestionEvent)
    BY DEF TypeOK, EventLog
  <2>2. events' = Append(events, [name |-> name, id |-> id, ref |-> ref])
    BY DEF emit
  <2>. QED  BY <2>1, <2>2, AppendPlaces
<1> HIDE DEF n
<1>2. AskedEvents' = IF name = "QuestionAsked" THEN AskedEvents \cup {n} ELSE AskedEvents
  BY <1>1 DEF AskedEvents
<1>3. n \notin AskedEvents
  BY <1>1 DEF AskedEvents
<1>4. ASSUME name = "QuestionAsked"
      PROVE  Cardinality(AskedEvents') = Cardinality(AskedEvents) + 1
  BY <1>2, <1>3, <1>4, LogFacts, FS_AddElement
<1>. QED  BY <1>2, <1>4

\* A closed question is not an open one, nor is an ask told as a settlement.
LEMMA ClosedFacts ==
  /\ Closed = {"Answered", "Declined", "Cancelled", "Reclaimed"}
  /\ \A s \in Closed : SettledEvent[s] # "QuestionAsked"
BY DEF Closed, SettledEvent

\* At the start nothing is asked and nothing told.
LEMMA ToldInit == Init => Told
<1> SUFFICES ASSUME Init PROVE Told
  OBVIOUS
<1>1. DOMAIN events = {} /\ nextId = 1
  BY DEF Init
<1>2. {i \in DOMAIN events : events[i].name = "QuestionAsked"} = {}
  BY <1>1
<1>3. Cardinality({i \in DOMAIN events : events[i].name = "QuestionAsked"}) = nextId - 1
  <2>1. Cardinality({i \in DOMAIN events : events[i].name = "QuestionAsked"}) = 0
    BY <1>2, FS_EmptySet
  <2>. QED  BY <2>1, <1>1
<1>4. \A id \in Ids : ~(id < nextId)
  BY <1>1 DEF Ids
<1>. QED  BY <1>1, <1>3, <1>4 DEF Told

\* The ask gives out the next id, and is told as the next ask.
LEMMA ToldAsk ==
  ASSUME BooksInv, Told, NEW caller \in Accounts, NEW ref \in Refs,
         NEW answerer \in Recipients, NEW amount \in Amounts,
         createQuestion(caller, ref, answerer, amount)
  PROVE  Told'
<1> DEFINE n == Len(events) + 1
<1>1. /\ nextId \in Ids /\ nextId' = nextId + 1 /\ nextId \in Nat
      /\ questions'[nextId].status = "Open" /\ questionRef'[nextId] = ref
      /\ \A id \in Ids : id # nextId => /\ questions'[id] = questions[id]
                                        /\ questionRef'[id] = questionRef[id]
      /\ emit("QuestionAsked", nextId, ref)
  <2>1. nextId \in Ids /\ nextId' = nextId + 1 /\ nextId \in Nat
    BY EscrowAssumption DEF createQuestion, BooksInv, TypeOK, Ids
  <2>. QED  BY <2>1 DEF createQuestion, BooksInv, TypeOK
<1>2. /\ DOMAIN events' = DOMAIN events \cup {n}
      /\ \A i \in DOMAIN events : events'[i] = events[i] /\ events[i] \in QuestionEvent
      /\ events'[n].name = "QuestionAsked" /\ events'[n].id = nextId /\ events'[n].ref = ref
      /\ Cardinality(AskedEvents') = Cardinality(AskedEvents) + 1
  <2>1. TypeOK
    BY DEF BooksInv
  <2>2. /\ DOMAIN events' = DOMAIN events \cup {n}
        /\ \A i \in DOMAIN events : events'[i] = events[i]
        /\ events'[n] = [name |-> "QuestionAsked", id |-> nextId, ref |-> ref]
    <3>1. events \in Seq(QuestionEvent)
      BY <2>1 DEF TypeOK, EventLog
    <3>2. events' = Append(events, [name |-> "QuestionAsked", id |-> nextId, ref |-> ref])
      BY <1>1 DEF emit
    <3>. QED  BY <3>1, <3>2, AppendPlaces
  <2>3. Cardinality(AskedEvents') = Cardinality(AskedEvents) + 1
    BY <1>1, <2>1, EmitCounts
  <2> HIDE DEF n
  <2>. QED  BY <2>1, <2>2, <2>3, LogFacts
<1> HIDE DEF n
<1>3. Cardinality(AskedEvents') = nextId' - 1
  BY <1>1, <1>2 DEF Told, AskedEvents
<1>4. ASSUME NEW i \in DOMAIN events'
      PROVE  LET e == events'[i] IN
             /\ e.id < nextId' /\ e.ref = questionRef'[e.id]
             /\ e.name # "QuestionAsked" =>
                  /\ questions'[e.id].status \in Closed
                  /\ e.name = SettledEvent[questions'[e.id].status]
  <2>1. CASE i = n
    BY <2>1, <1>1, <1>2
  <2>2. CASE i # n
    <3> DEFINE e == events[i]
    <3>1. i \in DOMAIN events /\ events'[i] = e
      BY <2>2, <1>2
    <3>2. e.id \in Ids /\ e.id < nextId /\ e.ref = questionRef[e.id]
      BY <3>1, <1>2 DEF Told, QuestionEvent
    <3>3. e.name # "QuestionAsked" =>
            questions[e.id].status \in Closed /\ e.name = SettledEvent[questions[e.id].status]
      BY <3>1 DEF Told
    <3>4. e.id # nextId /\ e.id < nextId'
      BY <3>2, <1>1 DEF Ids
    <3> HIDE DEF e
    <3>. QED  BY <3>1, <3>2, <3>3, <3>4, <1>1
  <2>. QED  BY <2>1, <2>2
<1>5. ASSUME NEW id \in Ids, id < nextId'
      PROVE  /\ questions'[id].status # "None"
             /\ \E i \in DOMAIN events' : events'[i].id = id
             /\ questions'[id].status \in Closed =>
                  \E i \in DOMAIN events' :
                    /\ events'[i].id = id
                    /\ events'[i].name = SettledEvent[questions'[id].status]
  <2>1. CASE id = nextId
    BY <2>1, <1>1, <1>2, ClosedFacts
  <2>2. CASE id # nextId
    <3>1. id < nextId /\ questions'[id] = questions[id]
      BY <2>2, <1>1, <1>5 DEF Ids
    <3>. QED  BY <3>1, <1>2 DEF Told
  <2>. QED  BY <2>1, <2>2
<1>. QED  BY <1>3, <1>4, <1>5 DEF Told, AskedEvents

\* A settlement closes an open question, and is the first to be told of it.
LEMMA ToldSettle ==
  ASSUME BooksInv, Told, NEW id \in Ids, NEW terminal \in Closed, IsOpen(id),
         questions' = [questions EXCEPT ![id].status = terminal],
         emit(SettledEvent[terminal], id, questionRef[id]),
         UNCHANGED <<nextId, questionRef>>
  PROVE  Told'
<1> DEFINE n == Len(events) + 1
<1>1. /\ questions[id].status = "Open" /\ questions'[id].status = terminal
      /\ \A j \in Ids : j # id => questions'[j] = questions[j]
      /\ id < nextId
  <2>1. questions[id] \in Question /\ questions[id] # NoQuestion
    BY DEF BooksInv, TypeOK, IsOpen, NoQuestion
  <2>2. id < nextId
    BY <2>1 DEF BooksInv, Unasked, TypeOK, Ids
  <2>3. [questions[id] EXCEPT !.status = terminal].status = terminal
    BY <2>1 DEF Question, NoQuestion
  <2>. QED  BY <2>2, <2>3 DEF BooksInv, TypeOK, IsOpen
<1>2. /\ DOMAIN events' = DOMAIN events \cup {n}
      /\ \A i \in DOMAIN events : events'[i] = events[i] /\ events[i] \in QuestionEvent
      /\ events'[n].name = SettledEvent[terminal]
      /\ events'[n].id = id /\ events'[n].ref = questionRef[id]
      /\ Cardinality(AskedEvents') = Cardinality(AskedEvents)
  <2>1. TypeOK /\ SettledEvent[terminal] # "QuestionAsked"
    BY ClosedFacts DEF BooksInv
  <2>2. /\ DOMAIN events' = DOMAIN events \cup {n}
        /\ \A i \in DOMAIN events : events'[i] = events[i]
        /\ events'[n] = [name |-> SettledEvent[terminal], id |-> id, ref |-> questionRef[id]]
    <3>1. events \in Seq(QuestionEvent)
      BY <2>1 DEF TypeOK, EventLog
    <3>2. events' = Append(events, [name |-> SettledEvent[terminal], id |-> id, ref |-> questionRef[id]])
      BY DEF emit
    <3>. QED  BY <3>1, <3>2, AppendPlaces
  <2>3. AskedEvents' = AskedEvents
    BY <2>1, EmitCounts
  <2> HIDE DEF n
  <2>. QED  BY <2>1, <2>2, <2>3, LogFacts
<1> HIDE DEF n
<1>3. Cardinality(AskedEvents') = nextId' - 1
  BY <1>2 DEF Told, AskedEvents
<1>4. ASSUME NEW i \in DOMAIN events'
      PROVE  LET e == events'[i] IN
             /\ e.id < nextId' /\ e.ref = questionRef'[e.id]
             /\ e.name # "QuestionAsked" =>
                  /\ questions'[e.id].status \in Closed
                  /\ e.name = SettledEvent[questions'[e.id].status]
  <2>1. CASE i = n
    BY <2>1, <1>1, <1>2
  <2>2. CASE i # n
    <3> DEFINE e == events[i]
    <3>1. i \in DOMAIN events /\ events'[i] = e
      BY <2>2, <1>2
    <3>2. e.id \in Ids /\ e.id < nextId /\ e.ref = questionRef[e.id]
      BY <3>1, <1>2 DEF Told, QuestionEvent
    <3>3. e.name # "QuestionAsked" =>
            questions[e.id].status \in Closed /\ e.name = SettledEvent[questions[e.id].status]
      BY <3>1 DEF Told
    <3>4. e.name # "QuestionAsked" => e.id # id
      BY <3>3, <1>1, ClosedFacts
    <3> HIDE DEF e
    <3>. QED  BY <3>1, <3>2, <3>3, <3>4, <1>1
  <2>. QED  BY <2>1, <2>2
<1>5. ASSUME NEW j \in Ids, j < nextId'
      PROVE  /\ questions'[j].status # "None"
             /\ \E i \in DOMAIN events' : events'[i].id = j
             /\ questions'[j].status \in Closed =>
                  \E i \in DOMAIN events' :
                    /\ events'[i].id = j
                    /\ events'[i].name = SettledEvent[questions'[j].status]
  <2>1. CASE j = id
    <3>1. questions'[j].status # "None"
      BY <2>1, <1>1, ClosedFacts
    <3>2. \E i \in DOMAIN events' :
            /\ events'[i].id = j
            /\ events'[i].name = SettledEvent[questions'[j].status]
      BY <2>1, <1>1, <1>2
    <3>. QED  BY <3>1, <3>2
  <2>2. CASE j # id
    <3>1. j < nextId /\ questions'[j] = questions[j]
      BY <2>2, <1>1, <1>5
    <3>2. questions[j].status # "None"
      BY <3>1 DEF Told
    <3>3. /\ \E i \in DOMAIN events' : events'[i].id = j
          /\ questions[j].status \in Closed =>
               \E i \in DOMAIN events' :
                 events'[i].id = j /\ events'[i].name = SettledEvent[questions[j].status]
      BY <3>1, <1>2 DEF Told
    <3>. QED  BY <3>1, <3>2, <3>3
  <2>. QED  BY <2>1, <2>2
<1>. QED  BY <1>3, <1>4, <1>5 DEF Told, AskedEvents

\* The events keep telling what the record holds.
LEMMA ToldStep == BooksInv /\ Told /\ [Next]_vars => Told'
<1> SUFFICES ASSUME BooksInv, Told, [Next]_vars PROVE Told'
  OBVIOUS
<1>1. CASE UNCHANGED <<nextId, questions, questionRef, events>>
  BY <1>1 DEF Told
<1>. QED  BY <1>1, RecordSteps, ToldAsk, ToldSettle

-----------------------------------------------------------------------------
\* The invariant holds in every reachable state.
THEOREM EscrowInvariant == Spec => []EscrowInv
<1>1. Init => EscrowInv
  BY InitInv, ToldInit DEF EscrowInv
<1>2. EscrowInv /\ [Next]_vars => EscrowInv'
  BY StepInv, ToldStep DEF EscrowInv
<1>. QED  BY <1>1, <1>2, PTL DEF Spec

\* Whoever calls what in whatever order, the contract's own functions never change
\* what it holds beyond what it owes: every unit that comes in with an ask, stays
\* through a settlement or leaves with a withdrawal is one that is owed.  Only a
\* transfer nobody asked for adds to it, and what it adds nothing takes out again.
\* (settle functions:177-241, withdraw:246-256; no function sweeps the balance)
SurplusKept ==
  [][\/ Surplus' = Surplus
     \/ \E caller \in Accounts, amount \in Amounts :
          DirectTransfer(caller, amount) /\ Surplus' = Surplus + amount]_vars

\* The accounts balance to the unit, a stronger statement than solvency.
THEOREM EscrowSurplus == Spec => SurplusKept
<1> DEFINE Kept == \/ Surplus' = Surplus
                   \/ \E caller \in Accounts, amount \in Amounts :
                        DirectTransfer(caller, amount) /\ Surplus' = Surplus + amount
<1>1. ASSUME BooksInv, [Next]_vars PROVE [Kept]_vars
  <2>1. CASE Tick
    BY <2>1 DEF Tick, token, Surplus, Obligations, Locked, IsOpen
  <2>2. ASSUME NEW caller \in Accounts, withdraw(caller) PROVE Kept
    <3>1. /\ Obligations' = Obligations - withdrawable[caller]
          /\ usdc'[EscrowAddress] = usdc[EscrowAddress] - withdrawable[caller]
      BY <1>1, <2>2, WithdrawEffect DEF BooksInv
    <3>2. /\ Obligations \in Nat /\ usdc[EscrowAddress] \in Nat
          /\ withdrawable[caller] \in Nat
      BY <1>1, ObligationsNat DEF BooksInv, TypeOK, Holders
    <3>. QED  BY <3>1, <3>2 DEF Surplus
  <2>. QED  BY <1>1, <2>1, <2>2, AskStep, SettleStep, AdminStep, TokenStep DEF Next
<1>2. EscrowInv => BooksInv
  BY DEF EscrowInv
<1>. QED  BY <1>1, <1>2, EscrowInvariant, PTL DEF Spec, SurplusKept

\* What is told of a question is what the record holds of it.
THEOREM EscrowTold == Spec => []Told
<1>1. EscrowInv => Told
  BY DEF EscrowInv
<1>. QED  BY <1>1, EscrowInvariant, PTL

\* State stays within its types: fees and window under their caps, ids in
\* range, every asked question with an account as asker.
THEOREM EscrowTypes == Spec => []TypeOK
<1>1. EscrowInv => TypeOK
  BY DEF EscrowInv, BooksInv
<1>. QED  BY <1>1, EscrowInvariant, PTL

\* The contract can always pay what it owes (BuyAnAnswerEscrow.sol:24-26).
THEOREM EscrowSolvent == Spec => []Solvent
<1>1. EscrowInv => Solvent
  BY DEF EscrowInv, BooksInv
<1>. QED  BY <1>1, EscrowInvariant, PTL

\* What stands between a holder and its credit besides owning one: the
\* transfer of it out of the contract, the one call withdraw() makes that can
\* revert (:253), and the subtraction of the fee in every settlement (:184,
\* :217), which must not underflow.  Neither asks who owns the contract or
\* whether it is paused.
Payable ==
  /\ \A h \in Holders : withdrawable[h] <= usdc[EscrowAddress]
  /\ \A id \in Ids, bps \in {answerFeeBps, cancelFeeBps} :
       FeeOf(questions[id].amount, bps) \in 0..questions[id].amount

\* A credit can be paid out in every reachable state, and a fee charged: the
\* part of WithdrawNeverBlocked that does not follow from the guards alone.
THEOREM EscrowPayable == Spec => []Payable
<1>1. ASSUME EscrowInv PROVE Payable
  <2>1. TypeOK /\ Solvent
    BY <1>1 DEF EscrowInv, BooksInv
  <2>2. withdrawable \in [Holders -> Nat] /\ usdc[EscrowAddress] \in Nat
    BY <2>1 DEF TypeOK, Holders
  <2>3. Total(Locked) \in Nat /\ Total(withdrawable) \in Nat
    BY <2>1, <2>2, LockedNat, FiniteIndex, TotalNat
  <2>4. Total(withdrawable) <= usdc[EscrowAddress]
    BY <2>1, <2>2, <2>3 DEF Solvent, Obligations
  <2>5. ASSUME NEW h \in Holders PROVE withdrawable[h] <= usdc[EscrowAddress]
    <3>1. withdrawable[h] <= Total(withdrawable) /\ withdrawable[h] \in Nat
      BY <2>2, FiniteIndex, EntryWithinTotal
    <3>. QED  BY <2>2, <2>3, <2>4, <3>1
  <2>6. \A id \in Ids : questions[id].amount \in Nat
    BY <2>1, QuestionFields DEF TypeOK
  <2>7. answerFeeBps \in 0..BPS_DENOMINATOR /\ cancelFeeBps \in 0..BPS_DENOMINATOR
    BY <2>1, EscrowAssumption DEF TypeOK
  <2>8. \A id \in Ids, bps \in {answerFeeBps, cancelFeeBps} :
          FeeOf(questions[id].amount, bps) \in 0..questions[id].amount
    BY <2>6, <2>7, FeeBound
  <2>. QED  BY <2>5, <2>8 DEF Payable
<1>. QED  BY <1>1, EscrowInvariant, PTL
=============================================================================
