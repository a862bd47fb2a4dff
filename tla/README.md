# Buy an Answer: specification and verification

TLA+ specifications of the paid-question system in this repository: a fan pays
USDC into an escrow contract on Base, the creator answers, an indexer mirrors
the contract's events into a database, and an API serves the answer behind a
paywall. The browser pays, settles and withdraws through a wallet and signs in
with it. The modules are translated from the source; `PROJECT.json` maps each
definition to the lines it stands for, together about 31% of the implementation.
TLC checks small instances of them; the TLA+ proof system proves the central facts
of the escrow, the indexer, the API and the browser's flows for every instance.

Paths below are relative to the repository's root.

## The system

| Part | State | Operations | Talks to |
|---|---|---|---|
| Escrow contract (`contracts/src`) | questions and refs by id, credited balances, fees, window, owner, pause | ask (allowance or permit), answer, decline, cancel, reclaim, withdraw, setters, pause, ownership | USDC token; emits the events the indexer reads |
| Indexer Worker (`workers/indexer/src`) | `indexer_cursor`, status and on-chain id of `questions`, `answers.revealed_at` | reconcile pass (cron, `POST /reconcile`), hourly sweep of abandoned drafts | reads logs from an RPC endpoint, writes the database |
| API Worker (`workers/api/src`) | drafts, answer bodies, `is_public`, creators; nonces and sessions in KV; avatars in R2 | compose, save answer, publish, read, sign in, profile, nudge | database, KV, R2, the indexer over a binding |
| worker-kit (`packages/worker-kit/src`) | idempotency records and rate windows in KV | `withIdempotency`, `rateLimit` | wraps the API's and the indexer's handlers |
| shared, sdk (`packages`) | none; schema, ref codec, call encoders | | used by all |
| Web app (`apps/web/app`) | phases of checkout, settlement, withdrawal, sign-in | `useAskAndPay`, `useSettleAction`, `useWithdraw`, `useSignIn` | wallet and contract, API; polls the mirror |

What is hard about it:

- *Money.* Accounts play several roles at once, fees change while questions are
  open, divisions round, the owner can pause and walk away.
- *Overlap.* Cron ticks and nudges start reconcile passes that run at once
  without a lock or a transaction. Their only defence is a compare-and-set on
  the status and a monotone cursor.
- *Failure.* A pass may end between any two statements. The RPC endpoint is
  behind a load balancer, so a call may be answered by a node that lags. Blocks
  are reorganised.
- *Check, then act.* The API's handlers read a row in one statement and write in
  another, with the indexer in between.
- *KV.* Nonces, sessions, idempotency records and rate windows are read and
  written in separate calls of an eventually consistent store.
- *Retries.* The checkout pays the same ref again after an error.
- *Wallets.* A transaction may be replaced by another one of its nonce, and a wallet
  may fail after it has sent.
- *Attempts that live on.* A hook's async function is not stopped by a reset, a
  retry or an unmount: it looks at its token after some awaits and not after
  others, and a transaction it has sent is mined whatever the page shows.
- *Three judges.* Every field has a rule in the form, one in the API's schema and
  one in a CHECK of the database, which count its length differently.

`PROJECT.json` lists these as hazards, each at its line, with the properties
that cover it or a note why none does.

What makes each part correct: the **escrow** can always pay what it owes, divides
every amount exactly once on the terms it was asked on, and leaves everybody a way
out; the **indexer** makes the database a snapshot of the final chain, never goes
back, and catches up; the **API** shows an answer only once the chain has answered
its question; the **KV layer** hands out a nonce once and does an idempotent request
once, as far as it claims to; the **web app** pays once and says of a transaction what
came of it. Where the code falls short of these, or keeps them with exceptions, is
said under "What the violations say".

## Modules

| Module | What it is |
|---|---|
| `Totals` | totals of a book of account, as the number of its base units, so that no recursion is needed |
| `Escrow` | the contract, one action per external function, with the token and OpenZeppelin's ownership and pause |
| `EscrowPromise` | what the contract promises its users: deals struck, concluded and collected, without fees, owner or token |
| `EscrowProperties` | the escrow's properties, its refinement of `EscrowPromise`, and its events as the chain of `Indexer` |
| `TotalsProofs`, `EscrowProofs` | laws of totals; the inductive invariant of the escrow and of its events, and that what it owes can be paid out |
| `EscrowPromiseProofs` | every step of the escrow is a step of `EscrowPromise`, and every event one of `Indexer`'s chain |
| `Indexer` | the chain as a log of events, reconcile passes statement by statement, the sweep |
| `IndexerProperties` | the indexer's properties |
| `IndexerProofs` | the indexer's types, what is final on the chain and in the rows, that nothing is undone, that the rows are a snapshot of the log, and that nothing appears behind the cursor |
| `Paywall` | the API's question and answer handlers, composed with `Indexer` over one database, and their properties |
| `PaywallProofs` | the inductive invariant of the paywall; the indexer's guarantees beside the API |
| `Checkout` | the browser's ask-and-pay flow, await by await, against wallet, nodes, API and indexer |
| `MCCheckout` | the order its run takes independent steps in |
| `CheckoutProofs` | the three inductive invariants of the checkout: what is shown is true, a question is paid for once, and types with their bounds |
| `Settlement` | the browser's answer, decline, cancel, reclaim and withdraw flows, with the panels that start them |
| `SettlementProofs` | the inductive invariant of the settlement flows |
| `Limiter` | the fixed-window rate limiter over KV |
| `Sessions` | SIWE sign-in, sessions and log-out over KV, with the browser's side |
| `Drafts` | minting a draft behind `withIdempotency` over KV |
| `Accounts` | handle claims, profile updates and avatar uploads |
| `Forms` | what a user types, judged by the form and by the schemas and CHECKs behind it |
| `Gateway` | the five modules above it in this table, side by side |
| `GatewayProofs` | the inductive invariants of the five parts |

Operators whose names hold an underscore (`Settle_leavesOpen`) are no part of any
next-state relation. Each is a plausible slip in the operator that follows it;
`PROJECT.json` pairs it with the property that fails when it takes that
operator's place.

### Escrow

A transaction that reverts changes nothing, so its guard is simply false; one that
succeeds is one step. The token has no transfer hooks, so `nonReentrant` never
fires and is left out. A permit that fails leaves the allowance alone and the ask
goes on. The three fee and refund paths share `Settle`, which closes the record
and credits payee and fee address in that order, so that one account may be both.
`renounceOwnership` is inherited and is in the generated ABI, hence modelled.
Amounts are natural numbers: the token's supply keeps them far below `uint128`,
and fees multiply in `uint256`. `block.timestamp` is `now`, in units in which the
answer window is a small number.

`events` is what the contract has emitted about questions, of each event the name,
id and ref by which the indexer matches it. `Told` says that the events and the
record agree. `Indexer` has a chain of its own, in which events may also be taken
back; `ChainKept` shows that it is this contract's: every event it emits is one
`Indexer!ChainNext` allows, and the status `IndexerProperties!ContractStatus` makes of
the events of an id is the one the record holds. So what `MirrorNeverAhead` says of
`ContractStatus` it says of the contract. The mapping puts all events in one block,
since blocks and their replacement are the chain's doing and not the contract's: each
fork is a behaviour of the contract of its own.

### Indexer

`log` holds the events in (block, log index) order. Events join the block in the
making, number `head + 1`, and `Mine` seals it. A pass remembers the range it has
left, the chunk it has fetched and the events of that chunk still to apply:

| Action | Code (`reconcile.ts`, `chain.ts`) |
|---|---|
| `loadCursorBlock` | the pass starts and reads the cursor |
| `getFinalizedHead` | the head of some node less the confirmations; nothing to do, or a range capped by `maxBlocksPerRun` |
| `getLogs` | the next chunk's events, as some node knows them, sorted |
| `applyEvent` | one UPDATE guarded by the prior status (`Fold`) |
| `reveal` | the second UPDATE of a `QuestionAnswered` |
| `saveCursorBlock` | the maximum of cursor and chunk end; next chunk or end |
| `Abort` | an exception or eviction after any statement |

The sweep is `selectCandidates` and `deleteOrphans`, and a row's age is a flag that
turns true at any time. Unminted and swept stand for absent rows. A violated
unique index throws, so it disables `applyEvent` and leaves `Abort`.

A reorganisation replaces the latest blocks by as many others and drops the events
in them, up to `MaxReorg` blocks; chains choose the longest fork, so the head does
not go back. The log is ordered by block, so what a reorganisation leaves is a
prefix of it and what a chunk covers is a stretch of it. A node lags by at most
`MaxLag`. The code's assumption is that
`confirmations` is at least both, and the runs of the properties that need it
respect that; the slip `getFinalizedHead_latest` shows it is needed.

### Paywall

Adds the handlers that save and publish an answer and the two that show it, each
as two steps around its await. `PaywallAssumption` is that of the deployment: no
reorganisation is deeper than `confirmations`. Only requests that pass the wallet checks are
modelled. A body is its version number; `seen` is the latest version shown to
somebody other than its author.

`PaywallHolds` says that the chain has a `QuestionAnswered` of the question's ref, for
good. It does not say that the answerer was paid his price. `applyEvent` finds the row
by the ref and never compares the event's answerer or amount with what was composed
(`reconcile.ts:109-153`), so any on-chain question of that ref opens and closes the
row, on whatever terms it was asked. The terms are `Escrow`'s and the composed question
is the API's; nothing in the source relates them, and so no property does.

### Checkout

`useAskAndPay` with the form around it. Each attempt is a record with a program
counter, its question, whether its token is still the current one, its permit
nonce and its transaction; `Begin` takes the token from the others, as the hook's
`runTokenRef` does.

| Action | Code (`useAskAndPay.ts`, `allowance.ts`) |
|---|---|
| `pressSubmit`, `retry`, `reset`, `leave` | the form, `AskStatus`'s controls, unmounting |
| `create` | `POST /questions`: data, an answer lost after the insert, or a refusal |
| `check` | balance and allowance, read from one node or two |
| `signPermit`, `permitSimulates`, `sendPlainAsk` | the permit's nonce and signature; the two simulations, each at a node that may lag |
| `writeContract` | the wallet's prompt, which may fail after it has sent; an abandoned attempt stops only after it |
| `confirmApproval`, `waitForAllowance` | the approval's receipt; a read that covers the amount, or the deadline |
| `afterSend` | a receipt that succeeds or not, or none within the time-out |
| `indexLoop` | the poll that finds the question open |
| `replaceInWallet` | the asker replaces a transaction by another of its nonce, in the wallet |
| `sweep` | the indexer's sweep deletes a draft, paid for or not |

The hooks wait for a receipt by the transaction's hash with viem, whose
`waitForTransactionReceipt` follows a replacement: it resolves with the receipt of the
transaction that took the nonce, and the code looks at its status and nothing else.
`replaceInWallet` is such a replacement that is mined and succeeds; one that is the
same call at a higher price has the effect of `mine`, and one that reverts the effect
of a revert. A replacement moves none of the asker's USDC. So a payment the asker
cancels in the wallet is shown as "Payment confirmed on-chain", which `ShownIsPaid` has
as its exception. "You're all set" has no exception, as it comes from the database.

A poll that changes nothing is no step, which folds the sleep, the wake-up and
the button that checks again. `lastInput` is the form's own content and is left
out. The branches for a missing wallet, network or address cannot be reached
behind `AskGate`. The session is not renewed while a form is open. A draft may be
swept at any time, `Indexer` having the ages and the guard; the poll of a swept one
answers 404, which is taken for a passing failure. All amounts are the one price; `stale` is the
account as the slowest node has it. `index` stands for the indexer, whose modules
establish that it opens paid drafts only. Two attempts overlap only because one
was abandoned: the controls are disabled otherwise, which is `BusyHasRun`.

### Settlement

`useSettleAction` four times, `useWithdraw`, and the components that decide what
can be pressed: a `ConfirmButton` is armed and then confirmed, and the panel
chooses the asker's action by the browser's clock when it is rendered. `run` holds
attempts as in `Checkout`, and keeps an abandoned one's transaction until it is
mined. The contract is reduced to who may settle when, the indexer to copying the
outcome; the other party, and whoever reclaims in the asker's place, settle
without warning. `ConfirmButton` drops `disabled` once it is armed, so both
actions of a panel can be started, and two transactions can be in flight.
`PublishPanel` is one call of `Paywall`'s publish handler.

A transaction may be replaced in the wallet as in `Checkout`. The hook's phase then
carries `replaced`, a mark no page sees, by which `SettledIsMine` names its exception:
the page polls, and in the end confirms whatever settled the question, or says
"Withdrawn". The status it shows is the question's true one even then.

### Gateway and its parts

`Accounts`, `Drafts`, `Limiter`, `Sessions` and `Forms` share no state: the first
four have keys or rows of their own in the same stores, the last has none. So every
interleaving of them looks, to any
one of them, like a behaviour in which only it moves, and `Gateway` explores those:
`part` is chosen in the initial state.

- *`Limiter`*: `consume` reads the counter, `charge` writes it back and decides;
  `nextWindow` turns to a fresh key, which a request in flight does not notice.
  Every count above the limit does the same, so they are one. KV answers one
  address from one place, which sees its own writes. Both 429 and the 503 of a
  failing store are `refused`, since neither lets the request through. A request
  takes less than a window.
- *`Sessions`*: a key of KV has its last value and the one a place that lags still
  answers with. `deliver` reads the nonce, `deleteNonce` deletes it, `verifySiwe`
  checks the message, `createSession` writes the session and sets the cookie;
  between any two of them a worker may stop, and the network may deliver the
  message once more. A message records the address it claims and the account that
  signed it, which differ when the wallet's account was switched. Its host, chain
  and times are one nondeterministic verdict.
- *`Drafts`*: `post` reads the record, `mint` inserts, `remember` writes the
  record, with and without an `Idempotency-Key`. The web app sends no key; the
  header is the API's offer to other clients.
- *`Accounts`*: a request comes in together with its first read, which decides
  whether it goes on; then its writes, one step each. `displayName` and
  `minPriceUsdc` stand for all the editable columns. A wallet that claims twice
  violates the primary key and is told the handle is taken, which
  `TakenMeansTaken` allows for. Reads show rows as they stand.
- *`Forms`*: each action is one field with any input on either side of its limits;
  `judged` is what the form and what the API say of it, until `clearField`. A
  text is its length, the blanks around it and whether it is made of surrogate pairs; a
  price is its units, decimals and leading zeros, and `MaxAmount` the largest of 39
  digits. The composer bounds an amount by the balance, which is within 39 digits, since
  no token balance is longer; while the balance is not read it bounds it by nothing
  (`amountUnread`), and the API refuses 40 digits and more. The reserved
  names of the form and of the API are the same list, so one flag.

Requests that are refused before their first write change nothing and are guards.

## Runs

| Run | Bounds | Shows |
|---|---|---|
| `escrow_money` | 2 questions, amounts 9 and 20 at 5% (a fee of zero and of one), 2 accounts | solvency, the inductive invariant with what the events tell, and that the contract is the chain `Indexer` takes it to be |
| `escrow_roles` | 1 question, every setter at and past its cap, recipients that alias the asker, the contract or zero | types, withdrawals enabled whenever a balance is positive, cancel and reclaim partition time, the promise, and settlement in the end |
| `indexer_passes` | 2 refs and a foreign one, 2 payments of any of them, 2 passes, 2 blocks, chunks of 1 | the rows are jointly a prefix of the log that reaches the cursor, and never regress |
| `indexer_chain` | 5 blocks, of which a run scans 2 one by one, 2 passes, 1 confirmation, lag and reorganisation of 1 block, 1 failure; no sweep | nothing is mirrored that the chain takes back, and the cursor catches up |
| `indexer_double_pay` | the ref of one draft paid twice | **violation**, see below |
| `indexer_swept_paid` | one draft | **violation** |
| `paywall` | 1 question, 2 versions of its answer, reorganisations, 1 failing pass | bodies are shown only once the chain has a final answer of the ref, cards are public only when answered, reveals stay |
| `paywall_locked`, `paywall_reveal` | 1 question | **violations** |
| `checkout` | 2 attempts, 2 questions, 2 transactions, balance of at most 1 price | the form is disabled exactly while one attempt holds the token, shows as paid what the chain accepted unless the payment was replaced, pays once unless a receipt or a hash was lost, and is free again in the end, with three exceptions |
| `settlement` | 1 question, 2 attempts or unmined transactions, either role | what a page confirms is its own transaction's doing unless it was replaced, an answer has a body, one action shows, and an asker's money gets out |
| `gateway` | 2 requests of each kind, 2 wallets, handles, drafts, session tokens; 1 nonce; 3 accounts, one a contract's; limit 3; lengths on both sides of every limit | `LimiterBound` and `LimiterRecovers`; a nonce is gone once answered for, a session is the signer's, a log-out holds; one draft per key with three exceptions, replays are the sender's own; a taken handle is taken, columns change by name only, avatars exist; no form lets through what the API refuses |

Why the bounds are enough: two questions let amounts mix in one balance and one
settle while the other is open; two passes are what a race needs, and a pass that
stalls for ever stands for a crash; two blocks and chunks of one make a pass save
a cursor it has not finished behind. In `indexer_chain` five blocks, a confirmation and
a lag leave three that the cursor has to reach, one more than a run may scan, so the
second run must begin where the first ended, and the passes may overlap in it; one of
the latest blocks can be replaced after a node has shown it. The cursor does not look
at rows, so a question and no sweep suffice for it; sweeps, foreign refs and several
questions are in the other two passing runs of the indexer's module, `indexer_passes`
and `paywall`. Passes run the same code, hence the symmetry in `indexer_passes`, which
checks no liveness. In the browser's modules two
attempts are one that holds the token and one that was abandoned; a third would
be abandoned too, and abandoned attempts do not read each other. Two transactions
are an approval and a payment, or a payment and its retry, or a payment that was
replaced and its retry. `MCCheckout` constrains the steps of `checkout` to one order
where the order makes no difference: the first question is minted first, the session
expires when an attempt is about to use it, and a draft is swept when its payment could
be indexed, since until then its row is read as unpaid either way. Mining, indexing and
every step of an attempt but the choice of the id that is minted are left as they are,
so fairness asks for nothing that the constraint withholds. In `gateway` two
requests are what a check-then-act race needs; one nonce may be delivered any
number of times, and two tokens are what using it twice could yield. A limit of 3
is the least at which a slow request can put the counter back more than once.
Every bound is a constant whose comment begins with "bound".

### What the violations say

- `indexer_double_pay`: settle events are matched to a row by ref and status, not
  by the recorded on-chain id. Two payments of one ref, which the checkout's retry
  can make, let the second question's settlement close the row of the first.
- `indexer_swept_paid`: the sweep's guard asks whether a payment was *indexed*. One
  that is mined but younger than the confirmations does not spare the draft.
- `paywall_locked`: the save's status check and its upsert are two statements, so a
  save under way while the answer is indexed replaces a revealed body.
- `paywall_reveal`: the reveal runs only if the status update changed a row. A pass
  that ends between the two leaves `revealed_at` null, and rescans skip it.

Some sentences of the documentation and of comments are weaker in the code than
they read, and the properties say what does hold:

- The balance is *at least* the obligations (`Solvent`), not equal to them as
  `ARCHITECTURE.md:89` has it: anyone may transfer USDC to the contract.
- Refunds *can* be trapped (`ARCHITECTURE.md:96`) in just one way, by a pause that
  is never lifted, which `RefundNotTrapped` narrows to a paused contract whose
  ownership was renounced.
- A nonce is not consumed "atomically" (`auth/session.ts:29`) but read and then
  deleted. Two requests can both find it; once one has been answered it is gone
  from where it was written (`AnsweredNonceIsGone`). What a session needs, that its
  account signed, holds regardless (`SessionIsTheSigners`).
- Concurrent hits can exceed the rate limit by more than "a hair": with two
  requests in flight a window lets through up to `Limit * (Limit + 3) / 2`
  (`LimiterBound`), because a slow one puts the counter back.
- `idempotency.ts:6-10` names simultaneous requests as the case in which a key may
  mint two drafts, and a client that sends again as "fully covered". A worker that
  stops between the insert and the record, and a place the record has not reached,
  are two cases that are not (`OneDraftPerKey`).
- "The tx already succeeded", says the comment on the checkout's poll, "the money is
  safely escrowed on-chain" (`useAskAndPay.ts:154-155`), and likewise that on the
  settlement's (`useSettleAction.ts:128-129`). What succeeded may be another transaction
  with which the wallet replaced it (`ShownIsPaid` and `SettledIsMine` have it as their
  exception): the form then says "Payment confirmed on-chain" of a question nobody paid
  and polls for good, and the withdrawal's page says "Withdrawn" likewise
  (`useWithdraw.ts:96`).
- A retry after a receipt that could not be fetched, or after a wallet that failed
  when it had sent, pays again (`OnePaymentUnlessLost`); what that does downstream is
  `indexer_double_pay`.
- Three things keep the checkout's last poll waiting for good: an expired session and
  a swept draft, as a 401 and a 404 are taken for passing failures, and a payment that
  was replaced (`NeverStuck` has them as its exceptions). The draft may have been swept
  although it was paid for, which is `indexer_swept_paid`.
- The composer lets an amount of 40 digits and more through to an API that refuses it,
  before it has read the balance (`FormNeverRefused` has it as its exception).
- What the paywall waits for is an answer to a question of the ref, not a payment of
  the composed question's price to its answerer (`PaywallHolds`).
- `AnswerPanel.tsx:97` has one action disable the other; an armed confirmation
  stays pressable. `OneActionShown` and `SettledIsMine` hold all the same.
- `OnlyNamedColumns` is about the API. The editor sends every field it shows
  (`ProfileEditor.tsx:69`), so a form loaded earlier does put an older value back.

### Fairness

- `Escrow!FairSpec`: time passes; somebody who wants an overdue question reclaimed
  keeps trying (strong fairness, because a pause may disable the call again and
  again); an owner who pauses unpauses in the end. The last is an assumption about
  a person, not about the code.
- `Indexer!FairSpec`: the cron keeps starting passes (`workers/indexer/wrangler.jsonc`, and
  `index.ts:51-62`), and a pass that is not cut off goes on. Failures are bounded
  by `MaxAborts`, since a pass that always fails never catches up. `CatchesUp` is
  claimed for blocks confirmed on the most lagging node.
- `Paywall!PaywallFairSpec`, of the violation `paywall_reveal`: the same; nothing is
  assumed of users.
- `Checkout!FairSpec`: attempts go on (the asker answers the wallet), transactions
  are mined, the indexer catches up. A lagging node need not, which is why the
  deadline of `waitForAllowance` matters to `NeverStuck`.
  Nobody need replace a transaction, so mining is weakly fair.
- `Settlement!FairSpec`: the same, and time passes on both clocks. An asker comes
  back to an open question and presses what is offered, then withdraws, and loads a
  page anew that does nothing but poll, as it does for a transaction that was replaced:
  that is an assumption about a person. The fairness of pressing, simulating, sending
  and mining is strong, because a failure, a page change or a replacement disables
  each of them again and again; it says that a wallet or node does not fail every time,
  and that the asker does not replace every transaction.
- `Gateway!FairSpec`: requests keep coming and the limiter's store is not down for
  good (strong, because a window in between or a failure disables a step); time
  passes; KV catches up. Nothing is assumed of users.

## Proofs

`TotalsProofs` proves that a total is a natural number and that changing one entry
changes it by the difference (`TotalUpdate`). `Total` counts the base units of a
book, so these are facts about the cardinality of finite sets and need no
induction. `EntryWithinTotal` adds that no entry exceeds the total.

`EscrowProofs` proves `EscrowInv` inductive (`EscrowInvariant`). It is `BooksInv`, that
is `TypeOK /\ Unasked /\ Solvent`, with `Told`, and yields `EscrowTypes`,
`EscrowSolvent`, `EscrowPayable` and `EscrowTold`. `EscrowPayable` is what
`WithdrawNeverBlocked` comes to without `ENABLED`: no credit exceeds what the contract
holds, so the transfer inside `withdraw` cannot fail, and no fee the amount it is taken
from, so a settlement does not underflow. Solvency alone is not inductive: an ask
overwriting an open question would lose that question's amount from the sum without
losing the debt, so `Unasked` says that ids from `nextId` on are free; and a fee above
the amount would make a credit negative, so `TypeOK` carries the caps. Each kind of step
has a lemma for its effect on the totals (`PullEffect`, `CreateEffect`, `SettleEffect`,
`WithdrawEffect`) and one that it preserves `BooksInv` (`AskStep`, `SettleStep`,
`AdminStep`, `TokenStep`). The assumptions are those of `EscrowAssumption`: finitely many
accounts, none of them the contract, caps of at most the denominator, initial
parameters within their caps.

`EscrowSurplus` is the exact law behind `Solvent`: what the contract holds beyond what it
owes changes with no function of its own, so no fee is rounded into it or out of it, and
grows by just what is transferred to the contract unasked.

`Told` rests on `BooksInv`: an ask is told under an id that `Unasked` says is free, a
settlement is the first of its id because the record was open (`ToldAsk`, `ToldSettle`),
and no other call emits anything of a question (`RecordSteps`). That a record given out
is never `None` again, and a closed one has the event that closed it, is what makes the
events of an id determine its status.

`EscrowPromiseProofs` proves `Spec => PromiseKept` (`EscrowKeepsPromise`) from that
invariant: the deployment is an initial state of the promise, an ask strikes the
deal of `nextId`, which `Unasked` says is free (`AskStrikes`), each settle function
concludes one (`SettleConcludes`), a withdrawal collects, a transfer to the contract
is a gift, and no call of the owner is seen at all. The favoured party's share is
`SettleDivides`, which holds for payees that are the fee address too, with
`ShareKept`, which bounds the rounded fee by the cap.

The same module proves `Spec => ChainKept` (`EscrowFeedsIndexer`) from `Told`: an ask is
the chain's ask, because the id is the number of asks so far and one (`AskIsChainAsk`);
a settlement is the chain's, of an id with an event and none that settles it
(`SettleIsChainSettle`); and the status of an id is the one its events tell
(`StatusTold`). With it, what `IndexerProofs` assumes of the chain is discharged from
the contract's code up to what no contract decides, the forks.

`IndexerProofs` proves the types and `NeverRegress` with no assumption on chain or
nodes: the updates' guards on the prior status suffice (`RowsProgress`). That
nothing is mirrored which the chain takes back needs what is final.
`Confirmed` is the set of events no reorganisation can remove, which only grows
(`FinalStays`), and `FinalInv` follows such events from the log into a pass and
from there into a row. It is inductive when `MaxReorg <= confirmations`
(`IndexerFinality`). `MirrorNeverAhead` follows with `LogInv`, by which an id is
settled once and a ref asked with once; the latter is the premise `MaxPays <= 1`,
and `indexer_double_pay` shows what happens without it. A node may lag by any
amount in all of these.

`IndexerSnapshot` proves `MirrorIsASnapshot` when neither a reorganisation nor a lag
exceeds the confirmations, for any number of payments per ref. `SnapshotInv` finds
one number `k` such that the rows are what the first `k` events leave behind, all of
them final (`FinalTo`), and that serves the cursor and every pass at once: a pass that
scans begins within the `k` events (`Covers`), and one that applies a chunk holds a
stretch of the log that begins within them or right after them (`Within`). When a
pass applies an event, either it is among the `k`, and the guard on the prior status
makes the update a no-op (`FoldAgain`), or it is number `k + 1`, and `k` moves on
(`FoldNext`). A stalled pass is then one more that holds an old stretch. A chain that
replaces blocks carries `k` along (`Carries`). A node that lags by more than the
confirmations could answer with a range that is not its own, hence the assumption.
What a prefix leaves in a row is stated by the first event that asks and the first that
settles (`Reflects`), so no induction over the log is needed.

`IndexerMissesNothing` draws from the same `k` what `reconcile.ts:11-13` says of downtime:
the cursor never moves back (`CursorForward`), and the events up to it are among the
first `k`, to which no step of the chain adds and from which none takes (`BehindStays`).
TLC has confirmed its property on the constants of `indexer_chain`; no run lists it.

`PaywallProofs` proves `PaywallInv` inductive (`PaywallInvariant`) over `FinalInv`, and
derives the run's four safety properties. An answered row stays answered
(`AnsweredStays`) and is answered on the final chain (`AnsweredIsFinal`), so what a
handler saw before its await still holds after it. `PaywallMirror` carries the
indexer's promises into the composition: with the handlers writing to the same
database between the statements of a pass, the rows stay a snapshot and never regress.

`GatewayProofs` proves `GatewayInv` inductive (`GatewayInvariant`), part by part
(`DraftsStep`, `SessionsStep`, `AccountsStep`, `LimiterStep`, `FormsStep`), and derives
all the safety properties of the run `gateway`, with its types (`GatewayTypes`). Few are
inductive, because they speak of the
state between two calls of a store that many requests use. `GatewayReplayIsMine` needs
that every draft a record of KV names, now or as a lagging place has it, and every
draft a request has produced belongs to the request's sender and key.
`GatewayAnsweredNonceIsGone` and `GatewaySessionIsTheSigners` need what a request
past each await has checked and deleted. `GatewayAvatarExists` needs that an avatar
about to be named is stored. `GatewayOneDraftPerKey` needs `Single` over the rest: a
key without an excuse has one unanswered request at most, no draft until that one
mints, and then a draft that is remembered or about to be. `GatewayOnlyNamedColumns`
and `GatewayTakenMeansTaken` rest on what any step may do to the rows (`RowsChange`,
`RowsKept`). The assumptions, `DraftsAssumption`,
`SessionsAssumption` and `AccountsAssumption`, say that the values for "none" are
no ids, keys, nonces or columns; `LimitAssumption` and `FormsAssumption`, that the
limit and the least price are positive, that lengths, prices and amounts are numbers,
and that the highest price has no more than 39 digits.

`GatewayLimiterBound` holds for every limit and for two calls, its hypothesis. The bound
`Limit * (Limit + 3) / 2` is the sum of what a window lets through when the slow request
puts the counter back from the limit each time, so the invariant `Spare` is a
polynomial: twice what was let through, and `Left`, twice what can still be, stay below
`Limit * (Limit + 3)`, whichever count the slow request has read. `Twice` falls by at
least two at each step of the counter (`TwiceFalls`). With three requests in flight two
can be slow at different counts, and the bound is another.

`GatewayFormNeverRefused` needs no earlier step, as the forms keep no state, but one
lemma for each rule that the form, the schema and the CHECK state in their own way.
It is for any lengths, amounts and prices; the limits themselves are the code's. Of an
amount it needs the balance, or that it has no more than 39 digits.

`CheckoutProofs` proves `CheckoutInv` inductive (`CheckoutInvariant`) and derives
`CheckoutBusyHasRun` and `CheckoutShownIsPaid`. That the form says "paid" of a paid
question only is not inductive: `Following` adds that an attempt waits for a payment
of its own question and polls only once that was accepted or replaced, `Token` that one attempt
at most may show anything, `AllMinted` that what is paid for was minted. `Typed` is
`CheckoutTypeOK` without its bounds, so these theorems hold for a wallet that sends
any number of transactions. Only `NoIdAssumption` is used. The proof goes by what
the world may do to an attempt that does not move (`StillFits`) and by the four
things an attempt may do (`Begins`, `Goes`, `Ends`, `Abandons`).

`CheckoutPaysOnce` needs a second invariant over the first, `Once`. Two payments of a
question can only come of an attempt that pays for what another has paid for, or is
about to, so `Once` says that attempts have different questions, that an abandoned
one does not have the pending question, and that the question of an attempt that has
not paid is `Free`: no payment of it can count, or a receipt or a hash was lost. A retry keeps
this because it is offered only where the form has failed, and a form that failed
with its receipt known has seen its payment revert (`OnceReceipt`, `OncePress`).

`CheckoutTypes` proves the bounds that `Typed` leaves out, from `BoundsAssumption`, that
they are numbers. The permit nonce must not pass the transactions sent, which is true
only because they are mined in order: `Bounded` counts the nonce against the last one
mined, and knows of an attempt that its transaction exists and of a balance that what is
taken from it was there.

`SettlementProofs` proves `SettleInv` inductive (`SettlementInvariant`), with no
assumption and for any number of attempts, and derives `SettlementTypes`,
`SettlementAnswerHasBody`, `SettlementIsMine` and `SettlementOneAction`. The poll ends
at any terminal status, so that a page tells the truth about its own transaction rests
on what came before: `Sound` has an attempt poll only after its own transaction
succeeded or was replaced, and the contract lets one of them succeed; `ToldHolds` has
the mark `replaced` follow the transaction into the phase. `OnScreen` ties the attempt with
the token to a phase in view. The steps are of five kinds (`Begins`, `Moves`, `Mined`,
`Abandons`, `BrowserRests`).

Every safety property that a passing run checks is stated by a theorem, but for two.
`WithdrawNeverBlocked` and `RefundPathsPartition` speak of `ENABLED`, which the prover does
not handle: of the first `EscrowPayable` proves what does not follow from the guard alone;
the second compares the deadlines of two guards. Only model-checked besides are the
properties that need fairness, which is out of the prover's reach: `RefundNotTrapped`,
`CatchesUp`, `NeverStuck`, `MoneyGetsOut`, `LoggedOutEventually` and `LimiterRecovers`.

## Order of the work

Most important first:

1. `Escrow`, its promise and its invariant proof. *Done.*
2. `Indexer` and `Paywall`, and the proofs of what they keep, the snapshot included. *Done.*
3. `Spec => Promise!Spec`, from `EscrowInv`. *Done.*
4. `Checkout` and `Settlement`, and the proofs of their safety. *Done.*
5. `Limiter`, `Sessions`, `Drafts`, and the proofs about them. *Done.*
6. `Accounts` and `Forms`, and the proofs about them. *Done.*

## Not modelled

- Generated code: the contract's ABI, which is its largest file, and the migrations.
- Presentation: the landing page, theme, wording, layout, the mini-app shell and the
  server that renders and proxies. They keep no protocol state. Dirty flags,
  previews and toasts of the forms are left out of `Forms` and `Accounts` likewise.
- Logging, analytics and the shape of errors (`logger.ts`, `errors.ts`), and what the
  nudge reports when the indexer is down or not configured.
- CORS, the bearer token and HTTP errors that end a request before any state is
  touched.
- Reads that change nothing and promise nothing: `GET /board`, and the inbox lists,
  which page by offset, so that a row swept or minted meanwhile shifts the pages.
- Records in KV that only a foreign writer could have left corrupt.
- The amounts and deadlines the indexer copies into a row, which no later step
  reads back, nor compares with what was composed; the
  encoding of calls, signatures and refs. Of `ref.ts` what matters to
  the protocol is kept: a ref that is no minted question's changes no row.
- `contracts/script`.
