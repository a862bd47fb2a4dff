------------------------- MODULE IndexerProperties -------------------------
(***************************************************************************)
(* What the indexer must keep true of the database, for Indexer.tla.       *)
(***************************************************************************)
EXTENDS Indexer, TLC

Present(r) == row[r].status \notin {"unminted", "swept"}

\* Where the first k events of a log pay for a ref, and settle one of its questions.
AskedAt(l, r, k) == {i \in 1..k : l[i].name = "QuestionAsked" /\ l[i].ref = r}
SettledAt(l, r, k) == {i \in 1..k : l[i].name \in Settled /\ l[i].ref = r}

FirstOf(S, i) == i \in S /\ \A j \in S : i <= j

\* The row that folding the first k events of a log in order makes of a draft: it
\* takes its id from the first payment and its status from the first settlement.
Reflects(q, r, l, k) ==
  LET asked == AskedAt(l, r, k)
      settled == SettledAt(l, r, k)
  IN /\ asked = {} => q.status = "pending_payment" /\ q.onchainId = NoId
     /\ asked # {} => /\ \E i \in asked : FirstOf(asked, i) /\ q.onchainId = l[i].id
                      /\ settled = {} => q.status = "open"
     /\ settled # {} => \E i \in settled : FirstOf(settled, i)
                                           /\ q.status = statusForEvent[l[i].name]

EventsUpTo(block) == Cardinality({i \in DOMAIN log : log[i].block <= block})

\* The database is a snapshot of the chain: at every moment, whatever passes are
\* under way, overlap, fail and rescan, the rows that exist are together what some
\* prefix of the log leaves behind, and that prefix holds every event up to the
\* cursor (reconcile.ts:5-13, the whole idempotency mechanism).
MirrorIsASnapshot ==
  \E k \in EventsUpTo(cursor)..Len(log) :
    \A r \in Refs : Present(r) => Reflects(row[r], r, log, k)

\* No step, be it a replayed event, an overlapping pass or the sweep, undoes what
\* was recorded: a row leaves pending_payment only for open or the sweep, open
\* only for a terminal status, a terminal status never, and an on-chain id that
\* was written is final (reconcile.ts:5, never regress; sweep.ts:9-11).
Progresses(before, after) ==
  /\ CASE before.status = "unminted" -> after.status \in {"unminted", "pending_payment"}
       [] before.status = "pending_payment" ->
            after.status \in {"pending_payment", "open", "swept"}
       [] before.status = "open" -> after.status \in {"open"} \cup Terminal
       [] OTHER -> after.status = before.status
  /\ before.onchainId # NoId => after.onchainId = before.onchainId

NeverRegress == [][\A r \in Refs : Progresses(row[r], row'[r])]_row

\* What the contract says of an on-chain id, in the words of the database
\* (CONTRACT_STATUS_TO_QUESTION_STATUS).
ContractStatus(id) ==
  LET settled == {i \in EventsOf(id) : log[i].name \in Settled}
  IN IF EventsOf(id) = {} THEN "pending_payment"
     ELSE IF settled = {} THEN "open"
     ELSE statusForEvent[log[CHOOSE i \in settled : TRUE].name]

\* The database only mirrors what the chain already decided: a row's terminal
\* status is the contract's status of the very question the row carries the id
\* of, whatever the chain does to the blocks that are not final yet.
MirrorNeverAhead ==
  \A r \in Refs :
    row[r].onchainId # NoId =>
      /\ EventsOf(row[r].onchainId) # {}
      /\ row[r].status \in Terminal => row[r].status = ContractStatus(row[r].onchainId)

\* The cursor reaches every block that is confirmed on every node, in as many runs
\* as the cap makes it, however the passes overlap and fail (reconcile.ts:12-13,
\* downtime is caught up; maxBlocksPerRun).  Later blocks are not confirmed within
\* the bound MaxHead.
CatchesUp ==
  \A b \in 1..(MaxHead - confirmations - MaxLag) :
    head >= b + confirmations + MaxLag ~> cursor >= b

\* workers/indexer/test/sweep.test.ts:11-12: the sweep can never delete paid-for work.  What it deletes
\* is never a draft that has an on-chain question.
PaidDraftNeverSwept ==
  [][\A r \in Refs : row'[r].status = "swept" /\ row[r].status # "swept" => AskedRef(r) = {}]_row
\* Passes run the same code, so the runs may take them for interchangeable.
PassSymmetry == Permutations(Passes)
=============================================================================
