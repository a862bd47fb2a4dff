------------------------------ MODULE Indexer ------------------------------
(***************************************************************************)
(* The indexer Worker workers/indexer/src: reconcile passes that fold the  *)
(* escrow's confirmed events into the database, and the sweep that prunes  *)
(* abandoned drafts.                                                       *)
(*                                                                         *)
(* A pass is started by the cron or by POST /reconcile, so several run at  *)
(* once; every await of theirs is a point where the others, the chain and  *)
(* the API may move.  There is no transaction: each database statement is  *)
(* an action, and a pass may end after any of them.                        *)
(*                                                                         *)
(* The chain is a log of events and the number of its latest block, the    *)
(* events of the block in the making carrying the next number.  The RPC    *)
(* endpoint answers each call from some node at most MaxLag blocks behind. *)
(*                                                                         *)
(* An operator with an underscore in its name is a plausible slip in the   *)
(* operator that follows it, and no part of Next.                          *)
(***************************************************************************)
EXTENDS Naturals, Sequences, FiniteSets

CONSTANTS
  Refs,           \* questions the API can mint, the UUID that is also the bytes32 ref
  Foreign,        \* refs on-chain questions carry that no question was minted for
  Passes,         \* reconcile passes that may run at the same time
  confirmations, getLogsRange, maxBlocksPerRun,
  sweepLimit,     \* drafts pruned by one sweep
  MaxLag,         \* blocks an RPC node may be behind
  MaxReorg,       \* bound: blocks a reorganisation may replace
  MaxPays,        \* bound: on-chain questions one ref is given
  MaxAsks,        \* bound: on-chain questions
  Outcomes,       \* bound: the events on-chain questions settle with
  MaxHead,        \* bound: blocks ever mined
  MaxAborts       \* bound: passes that fail midway

ASSUME IndexerAssumption ==
  /\ IsFiniteSet(Refs) /\ Refs \cap Foreign = {} /\ "none" \notin Refs
  /\ confirmations \in Nat
  /\ getLogsRange \in Nat \ {0} /\ maxBlocksPerRun \in Nat \ {0}
  /\ sweepLimit \in Nat
  /\ MaxLag \in Nat /\ MaxReorg \in Nat /\ MaxPays \in Nat /\ MaxAsks \in Nat
  /\ MaxHead \in Nat /\ MaxAborts \in Nat
  /\ Outcomes \subseteq {"QuestionAnswered", "QuestionDeclined",
                         "QuestionCancelled", "QuestionReclaimed"}

VARIABLES
  log,            \* chain: the escrow's events, in (block, logIndex) order
  head,           \* chain: number of the latest block
  row,            \* database: questions, by id
  answer,         \* database: answers, by question id; body 0 is no row
  cursor,         \* database: indexer_cursor.last_block
  pass,           \* what each reconcile pass has read and where it is
  candidates,     \* what the running sweep has selected, {} between sweeps
  aborts          \* passes that failed so far

chain == <<log, head>>
worker == <<pass, candidates, aborts>>
vars == <<chain, row, answer, cursor, worker>>

Settled == {"QuestionAnswered", "QuestionDeclined", "QuestionCancelled", "QuestionReclaimed"}
EventNames == {"QuestionAsked"} \cup Settled
Terminal == {"answered", "declined", "cancelled", "reclaimed"}

\* "unminted" and "swept" stand for the ids that have no row yet or any more.
Statuses == {"unminted", "pending_payment", "open", "swept"} \cup Terminal
NoId == 0

Event == [name : EventNames, id : Nat \ {NoId}, ref : Refs \cup Foreign, block : Nat]

\* One reconcile pass: lo..end is the range left to scan, lo..hi the chunk whose
\* events are being applied.
Pass == [at : {"idle", "head", "fetch", "apply", "reveal"},
         lo : Nat, end : Nat, hi : Nat, ref : Refs \cup {"none"}, events : Seq(Event)]

Idle == [at |-> "idle", lo |-> 0, end |-> 0, hi |-> 0, ref |-> "none", events |-> << >>]

TypeOK ==
  /\ log \in Seq(Event)
  /\ head \in 0..MaxHead
  /\ row \in [Refs -> [status : Statuses, onchainId : Nat, aged : BOOLEAN]]
  /\ answer \in [Refs -> [body : Nat, revealed : BOOLEAN]]
  /\ cursor \in Nat
  /\ pass \in [Passes -> Pass]
  /\ candidates \subseteq Refs
  /\ aborts \in 0..MaxAborts

\* The cursor is seeded with the block the escrow was deployed in, here block 0.
Init ==
  /\ log = << >>
  /\ head = 0
  /\ row = [r \in Refs |-> [status |-> "unminted", onchainId |-> NoId, aged |-> FALSE]]
  /\ answer = [r \in Refs |-> [body |-> 0, revealed |-> FALSE]]
  /\ cursor = 0
  /\ pass = [p \in Passes |-> Idle]
  /\ candidates = {}
  /\ aborts = 0

-----------------------------------------------------------------------------
(* The chain.  The contract of Escrow.tla, reduced to what its events tell. *)

EventsOf(id) == {i \in DOMAIN log : log[i].id = id}
AskedRef(r) == {i \in DOMAIN log : log[i].name = "QuestionAsked" /\ log[i].ref = r}
AskedCount == Cardinality({i \in DOMAIN log : log[i].name = "QuestionAsked"})

Emit(name, id, r) ==
  /\ log' = Append(log, [name |-> name, id |-> id, ref |-> r, block |-> head + 1])
  /\ UNCHANGED <<head, row, answer, cursor, worker>>

\* A wallet pays for a question.  The web app has the ref from POST /questions
\* by then; nothing on-chain keeps a ref from being paid for twice.
Ask(r) ==
  /\ r \in Refs => row[r].status # "unminted"
  /\ Cardinality(AskedRef(r)) < MaxPays /\ AskedCount < MaxAsks
  /\ Emit("QuestionAsked", AskedCount + 1, r)

SettleOnChain(id, name) ==
  /\ \E i \in EventsOf(id) :
       /\ \A j \in EventsOf(id) : log[j].name \notin Settled
       /\ Emit(name, id, log[i].ref)

Mine ==
  /\ head < MaxHead
  /\ head' = head + 1
  /\ UNCHANGED <<log, row, answer, cursor, worker>>

\* A reorganisation replaces the latest blocks by as many others; what was in
\* them, and in the block in the making, is gone until it is sent again.  The log
\* is in block order, so what stays is a prefix of it.
Reorg(depth) ==
  /\ depth <= head
  /\ \E n \in 0..Len(log) :
       /\ \A i \in DOMAIN log : i <= n <=> log[i].block <= head - depth
       /\ log' = SubSeq(log, 1, n)
  /\ UNCHANGED <<head, row, answer, cursor, worker>>

-----------------------------------------------------------------------------
(* The API's insert of a draft, and the wall clock that ages it. *)

createQuestion(r) ==
  /\ row[r].status = "unminted"
  /\ row' = [row EXCEPT ![r].status = "pending_payment"]
  /\ UNCHANGED <<chain, answer, cursor, worker>>

\* The draft's created_at falls behind the sweep's cutoff.
Age(r) ==
  /\ row[r].status = "pending_payment" /\ ~row[r].aged
  /\ row' = [row EXCEPT ![r].aged = TRUE]
  /\ UNCHANGED <<chain, answer, cursor, worker>>

-----------------------------------------------------------------------------
(* reconcile *)

bigMin(a, b) == IF a < b THEN a ELSE b

\* The head of whichever node answers an RPC call.
Views == (IF head > MaxLag THEN head - MaxLag ELSE 0)..head

loadCursorBlock(p) ==
  /\ pass[p].at = "idle"
  /\ pass' = [pass EXCEPT ![p] = [Idle EXCEPT !.at = "head", !.lo = cursor + 1]]
  /\ UNCHANGED <<chain, row, answer, cursor, candidates, aborts>>

FinalizedHead(h) == IF h > confirmations THEN h - confirmations ELSE 0

Plan_absoluteCap(p, finalized) ==
  pass' = [pass EXCEPT ![p] =
    IF pass[p].lo > finalized THEN Idle
    ELSE [@ EXCEPT !.at = "fetch", !.end = bigMin(finalized, maxBlocksPerRun)]]

\* The pass has learnt the finalized head: nothing to do, or a range to scan.
Plan(p, finalized) ==
  pass' = [pass EXCEPT ![p] =
    IF pass[p].lo > finalized THEN Idle
    ELSE [@ EXCEPT !.at = "fetch",
                   !.end = bigMin(finalized, pass[p].lo + maxBlocksPerRun - 1)]]

getFinalizedHead_latest(p) ==
  /\ pass[p].at = "head"
  /\ \E h \in Views : Plan(p, h)
  /\ UNCHANGED <<chain, row, answer, cursor, candidates, aborts>>

getFinalizedHead(p) ==
  /\ pass[p].at = "head"
  /\ \E h \in Views : Plan(p, FinalizedHead(h))
  /\ UNCHANGED <<chain, row, answer, cursor, candidates, aborts>>

\* A node answers with mined logs only, and a log it has not mined is dropped.
normalizeLog(e, h) == e.block <= h

\* The events of the next chunk, sorted into (block, logIndex) order, which makes
\* them a stretch of the log.  A node that has not reached the end of the chunk
\* answers with what it has.
getLogs(p) ==
  /\ pass[p].at = "fetch"
  /\ \E h \in Views, m \in 0..Len(log) : \E n \in m..Len(log) :
       LET hi == bigMin(pass[p].end, pass[p].lo + getLogsRange - 1)
           Found(e) == e.block \in pass[p].lo..hi /\ normalizeLog(e, h)
       IN /\ \A i \in DOMAIN log : i \in (m + 1)..n <=> Found(log[i])
          /\ pass' = [pass EXCEPT ![p] =
               [@ EXCEPT !.at = "apply", !.hi = hi, !.events = SubSeq(log, m + 1, n)]]
  /\ UNCHANGED <<chain, row, answer, cursor, candidates, aborts>>

statusForEvent == [QuestionAnswered |-> "answered", QuestionDeclined |-> "declined",
                   QuestionCancelled |-> "cancelled", QuestionReclaimed |-> "reclaimed"]

Fold_unguarded(q, e) ==
  IF q.status \in {"unminted", "swept"} THEN q
  ELSE IF e.name = "QuestionAsked" THEN [q EXCEPT !.status = "open", !.onchainId = e.id]
  ELSE [q EXCEPT !.status = statusForEvent[e.name]]

Fold_eventName(q, e) ==
  IF e.name = "QuestionAsked" /\ q.status = "pending_payment"
  THEN [q EXCEPT !.status = "open", !.onchainId = e.id]
  ELSE IF e.name \in Settled /\ q.status = "open"
  THEN [q EXCEPT !.status = e.name]
  ELSE q

\* The row an event leaves behind: a compare-and-set on the prior status.
Fold(q, e) ==
  IF e.name = "QuestionAsked" /\ q.status = "pending_payment"
  THEN [q EXCEPT !.status = "open", !.onchainId = e.id]
  ELSE IF e.name \in Settled /\ q.status = "open"
  THEN [q EXCEPT !.status = statusForEvent[e.name]]
  ELSE q

\* questions_chain_onchain_unique: no two rows carry one on-chain id.
UniqueOnchain(rows) ==
  \A r, s \in Refs : r # s /\ rows[r].onchainId = rows[s].onchainId => rows[r].onchainId = NoId

\* A bytes32 that is no left-padded UUID names no question.  One that is, but
\* was never minted, changes no row either.
tryRefToUuid(ref) == IF ref \in Refs THEN ref ELSE "none"

\* One UPDATE.  An unknown ref is skipped; a violated index throws, which leaves
\* only Abort.
applyEvent(p) ==
  /\ pass[p].at = "apply" /\ pass[p].events # << >>
  /\ LET e == Head(pass[p].events)
         uuid == tryRefToUuid(e.ref)
         changed == uuid # "none" /\ Fold(row[uuid], e) # row[uuid]
         rest == [pass[p] EXCEPT !.events = Tail(pass[p].events)]
     IN /\ row' = IF uuid = "none" THEN row ELSE [row EXCEPT ![uuid] = Fold(row[uuid], e)]
        /\ UniqueOnchain(row')
        /\ pass' = [pass EXCEPT ![p] =
             IF changed /\ e.name = "QuestionAnswered"
             THEN [rest EXCEPT !.at = "reveal", !.ref = uuid] ELSE rest]
  /\ UNCHANGED <<chain, answer, cursor, candidates, aborts>>

\* The second UPDATE of a QuestionAnswered, of a hidden answer if there is one.
reveal(p) ==
  /\ pass[p].at = "reveal"
  /\ answer' = [answer EXCEPT ![pass[p].ref].revealed = @ \/ answer[pass[p].ref].body # 0]
  /\ pass' = [pass EXCEPT ![p] = [@ EXCEPT !.at = "apply", !.ref = "none"]]
  /\ UNCHANGED <<chain, row, cursor, candidates, aborts>>

\* The chunk is done: the cursor moves, never back, and the pass goes on to the
\* next chunk or ends.
ChunkDone(p) ==
  pass' = [pass EXCEPT ![p] =
    IF pass[p].hi < pass[p].end THEN [@ EXCEPT !.at = "fetch", !.lo = pass[p].hi + 1]
    ELSE Idle]

saveCursorBlock_runEnd(p) ==
  /\ pass[p].at = "apply" /\ pass[p].events = << >>
  /\ cursor' = IF cursor < pass[p].end THEN pass[p].end ELSE cursor
  /\ ChunkDone(p)
  /\ UNCHANGED <<chain, row, answer, candidates, aborts>>

saveCursorBlock(p) ==
  /\ pass[p].at = "apply" /\ pass[p].events = << >>
  /\ cursor' = IF cursor < pass[p].hi THEN pass[p].hi ELSE cursor
  /\ ChunkDone(p)
  /\ UNCHANGED <<chain, row, answer, candidates, aborts>>

\* An RPC call or a statement throws, or the Worker is evicted: what was written
\* stays, what was read is gone, the next tick starts over.
Abort(p) ==
  /\ pass[p].at # "idle"
  /\ aborts < MaxAborts
  /\ pass' = [pass EXCEPT ![p] = Idle]
  /\ aborts' = aborts + 1
  /\ UNCHANGED <<chain, row, answer, cursor, candidates>>

-----------------------------------------------------------------------------
(* sweepOrphanedPendingPayments *)

orphaned(r) == row[r].status = "pending_payment" /\ row[r].onchainId = NoId /\ row[r].aged

selectCandidates ==
  /\ candidates = {}
  /\ LET orphans == {r \in Refs : orphaned(r)}
     IN \E chosen \in SUBSET orphans :
          /\ chosen # {}
          /\ Cardinality(chosen) = bigMin(Cardinality(orphans), sweepLimit)
          /\ candidates' = chosen
  /\ UNCHANGED <<chain, row, answer, cursor, pass, aborts>>

\* A deleted question takes its answer along (the foreign key cascades).
Delete(refs) ==
  /\ row' = [r \in Refs |-> IF r \in refs THEN [row[r] EXCEPT !.status = "swept"] ELSE row[r]]
  /\ answer' = [r \in Refs |-> IF r \in refs THEN [body |-> 0, revealed |-> FALSE] ELSE answer[r]]
  /\ candidates' = {}
  /\ UNCHANGED <<chain, cursor, pass, aborts>>

deleteOrphans_unguarded ==
  /\ candidates # {}
  /\ Delete(candidates)

deleteOrphans ==
  /\ candidates # {}
  /\ Delete({r \in candidates : orphaned(r)})

\* The sweep throws between its two statements.
abandonSweep ==
  /\ candidates # {}
  /\ candidates' = {}
  /\ UNCHANGED <<chain, row, answer, cursor, pass, aborts>>

-----------------------------------------------------------------------------
ChainNext ==
  \/ \E r \in Refs \cup Foreign : Ask(r)
  \/ \E i \in DOMAIN log, name \in Outcomes : SettleOnChain(log[i].id, name)
  \/ Mine
  \/ \E depth \in 1..MaxReorg : Reorg(depth)

DraftNext == \E r \in Refs : createQuestion(r) \/ Age(r)

PassStep(p) ==
  getFinalizedHead(p) \/ getLogs(p) \/ applyEvent(p) \/ reveal(p) \/ saveCursorBlock(p)

SweepNext == selectCandidates \/ deleteOrphans \/ abandonSweep

Next ==
  \/ ChainNext
  \/ DraftNext
  \/ \E p \in Passes : loadCursorBlock(p) \/ PassStep(p) \/ Abort(p)
  \/ SweepNext

Spec == Init /\ [][Next]_vars

\* The cron keeps starting passes, and a pass that is not cut off goes on.
FairSpec == Spec /\ \A p \in Passes : WF_vars(loadCursorBlock(p)) /\ WF_vars(PassStep(p))
=============================================================================
