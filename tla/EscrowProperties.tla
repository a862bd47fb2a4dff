-------------------------- MODULE EscrowProperties --------------------------
(* The correctness properties of the escrow contract. *)
EXTENDS Escrow

\* The amounts of the open questions, by id.
Locked == [id \in Ids |-> IF IsOpen(id) THEN questions[id].amount ELSE 0]

Obligations == Total(Locked) + Total(withdrawable)

\* The contract never owes more USDC than it holds: whatever order asks,
\* settlements, fee changes and withdrawals come in, and whoever plays several
\* roles at once, the open amounts and the credited balances are covered.
\* (BuyAnAnswerEscrow.sol:24-26, invariant test :42-59)
Solvent == Obligations <= usdc[EscrowAddress]

\* Ids from nextId on are unused, so no ask can overwrite an escrowed amount.
\* With the types and solvency this is inductive (module EscrowProofs).
\* (nextId:68, _createQuestion:157-166)
Unasked == \A id \in Ids : id >= nextId => questions[id] = NoQuestion

BooksInv == TypeOK /\ Unasked /\ Solvent

\* What the events tell of a question is what the contract holds of it: ids are told
\* of in the order they were given out, with the ref they were asked with, a question
\* is settled by its event exactly when its record is closed, and closed as told.
\* (emits:169, 193, 205, 225, 238; questionRef:74 exists for them alone)
Told ==
  /\ Cardinality({i \in DOMAIN events : events[i].name = "QuestionAsked"}) = nextId - 1
  /\ \A i \in DOMAIN events :
       LET e == events[i] IN
       /\ e.id < nextId /\ e.ref = questionRef[e.id]
       /\ e.name # "QuestionAsked" =>
            questions[e.id].status \in Closed /\ e.name = SettledEvent[questions[e.id].status]
  /\ \A id \in Ids : id < nextId =>
       /\ questions[id].status # "None"
       /\ \E i \in DOMAIN events : events[i].id = id
       /\ questions[id].status \in Closed =>
            \E i \in DOMAIN events :
              events[i].id = id /\ events[i].name = SettledEvent[questions[id].status]

EscrowInv == BooksInv /\ Told

\* A credited balance can always be withdrawn, by its holder, at once: paused
\* or not, owned or not, after any history of fees. The token transfer inside
\* withdraw() would revert if the contract had been drained.
\* (BuyAnAnswerEscrow.sol:246-256)
WithdrawNeverBlocked ==
  \A a \in Accounts : withdrawable[a] > 0 => ENABLED withdraw(a)

\* While the contract runs, the asker of an open question has exactly one way
\* out at every moment: cancel before the deadline, reclaim from the deadline
\* on, with no gap and no overlap. (cancelQuestion:213, reclaimQuestion:232)
RefundPathsPartition ==
  \A id \in Ids : (IsOpen(id) /\ ~paused) =>
    (ENABLED cancelQuestion(questions[id].asker, id) <=> ~ENABLED reclaimQuestion(id))

\* The contract implements the promise made to its users: each question is
\* asked once and settled once on the terms it was asked on, its whole amount
\* is divided among claims, the favoured party keeps its share whatever the
\* owner set the fees to, and no other call moves anything.
\* (contracts/src/IBuyAnAnswerEscrow.sol:13-15, ARCHITECTURE.md:87-93)
Promise == INSTANCE EscrowPromise WITH
  deal <- questions,
  claim <- withdrawable,
  wallet <- [a \in Accounts |-> usdc[a]],
  NoDeal <- NoQuestion

PromiseKept == Promise!Spec

\* The chain as the indexer's module has it, its events those of the contract, all of
\* them in the block in the making.  Every ref paid for has been minted, and the bounds
\* on payments are the contract's; the rest of that module stands still.
Chain == INSTANCE IndexerProperties WITH
  log <- [i \in DOMAIN events |-> [name |-> events[i].name, id |-> events[i].id,
                                  ref |-> events[i].ref, block |-> 1]],
  head <- 0,
  row <- [r \in Refs |-> [status |-> "pending_payment"]],
  Outcomes <- {SettledEvent[s] : s \in Closed},
  MaxPays <- MaxQuestions, MaxAsks <- MaxQuestions,
  Foreign <- {}, Passes <- {}, MaxHead <- 0, MaxReorg <- 0, MaxLag <- 0, MaxAborts <- 0,
  confirmations <- 0, getLogsRange <- 1, maxBlocksPerRun <- 1, sweepLimit <- 0,
  answer <- << >>, cursor <- 0, pass <- << >>, candidates <- {}, aborts <- 0

\* The database's name of each of the contract's statuses; None has no row.
CONTRACT_STATUS_TO_QUESTION_STATUS ==
  [None |-> "pending_payment", Open |-> "open", Answered |-> "answered",
   Declined |-> "declined", Cancelled |-> "cancelled", Reclaimed |-> "reclaimed"]

\* The contract is a chain as the indexer takes it to be (Indexer, ChainNext): whatever
\* the order of its calls and of the reverts among them, its events count the questions
\* asked and settle each at most once, under the ref it was asked with; and what the
\* indexer makes of the events of an id is the status the contract has for it.
\* (emits:169-238; events.ts:6-8, reconcile.ts:12-13 rely on it)
ChainKept ==
  /\ events = << >>
  /\ [][events' # events => Chain!ChainNext]_events
  /\ [](\A id \in Ids : Chain!ContractStatus(id) =
                          CONTRACT_STATUS_TO_QUESTION_STATUS[questions[id].status])

\* An open question is settled in the end, the asker refunded at the latest
\* when its deadline has passed, unless the contract was paused and left
\* without an owner that could unpause it.
\* (ARCHITECTURE.md:96-97 with pause():291 and the inherited renounceOwnership)
RefundNotTrapped ==
  \A id \in Ids : IsOpen(id) ~> (~IsOpen(id) \/ (paused /\ owner = ZeroAddress))

=============================================================================
