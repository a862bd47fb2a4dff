---------------------------- MODULE IndexerProofs ----------------------------
(***************************************************************************)
(* Proofs about the Indexer, for any number of refs and passes, any chunk  *)
(* and run sizes, lag, and depth of reorganisations.                       *)
(*                                                                         *)
(* Types and NeverRegress need no assumption about the chain.  That the    *)
(* database never says what the chain takes back needs that blocks older   *)
(* than the confirmations stay (MaxReorg <= confirmations).  FinalInv then *)
(* follows an event from the log into a pass and from there into a row:    *)
(* what a pass is about to apply, and what every row was made from, is an  *)
(* event no reorganisation can remove.  With one payment per ref, LogInv   *)
(* ties the row's id to its settlement, which gives MirrorNeverAhead; the  *)
(* assumption on payments is the one that IndexerDoublePay.cfg drops.      *)
(*                                                                         *)
(* That the rows are a snapshot needs no such assumption, but that no node *)
(* lags by more than the confirmations.  SnapshotInv finds the k events    *)
(* the rows reflect, and says where every pass is relative to them: a pass *)
(* that scans begins within them, and one that applies holds a stretch of  *)
(* the log that begins within them too, so that the next event it folds    *)
(* was folded before and misses its guard, or is the event after them.     *)
(***************************************************************************)
EXTENDS IndexerProperties, FiniteSetTheorems, SequenceTheorems, TLAPS

-----------------------------------------------------------------------------
(* Types *)

\* One field of a pass changed leaves a pass.
LEMMA PassFields ==
  ASSUME NEW q \in Pass
  PROVE  /\ \A a \in {"idle", "head", "fetch", "apply", "reveal"} : [q EXCEPT !.at = a] \in Pass
         /\ \A n \in Nat : [q EXCEPT !.lo = n] \in Pass
         /\ \A n \in Nat : [q EXCEPT !.end = n] \in Pass
         /\ \A n \in Nat : [q EXCEPT !.hi = n] \in Pass
         /\ \A r \in Refs \cup {"none"} : [q EXCEPT !.ref = r] \in Pass
         /\ \A s \in Seq(Event) : [q EXCEPT !.events = s] \in Pass
BY DEF Pass

\* So does starting afresh.
LEMMA IdleHolds == Idle \in Pass
BY DEF Idle, Pass

\* Two fields changed at once are two changes.
LEMMA PassTwice ==
  ASSUME NEW q \in Pass, NEW n, NEW a
  PROVE  /\ [q EXCEPT !.at = a, !.lo = n] = [[q EXCEPT !.at = a] EXCEPT !.lo = n]
         /\ [q EXCEPT !.at = a, !.end = n] = [[q EXCEPT !.at = a] EXCEPT !.end = n]
         /\ [q EXCEPT !.at = a, !.ref = n] = [[q EXCEPT !.at = a] EXCEPT !.ref = n]
OBVIOUS

\* A pass with its next chunk.
LEMMA Fetched ==
  ASSUME NEW q \in Pass, NEW n \in Nat, NEW s \in Seq(Event)
  PROVE  [q EXCEPT !.at = "apply", !.hi = n, !.events = s] \in Pass
<1>1. [[[q EXCEPT !.at = "apply"] EXCEPT !.hi = n] EXCEPT !.events = s] \in Pass
  BY PassFields
<1>2. [[[q EXCEPT !.at = "apply"] EXCEPT !.hi = n] EXCEPT !.events = s] =
      [q EXCEPT !.at = "apply", !.hi = n, !.events = s]
  OBVIOUS
<1> QED BY <1>1, <1>2

\* Folding an event into a row leaves a row (reconcile.ts:112-153).
LEMMA FoldHolds ==
  ASSUME NEW q \in [status : Statuses, onchainId : Nat, aged : BOOLEAN], NEW e \in Event
  PROVE  Fold(q, e) \in [status : Statuses, onchainId : Nat, aged : BOOLEAN]
<1> DEFINE Row == [status : Statuses, onchainId : Nat, aged : BOOLEAN]
<1>1. ASSUME NEW n \in Nat PROVE [q EXCEPT !.status = "open", !.onchainId = n] \in Row
  <2>1. [[q EXCEPT !.status = "open"] EXCEPT !.onchainId = n] \in Row
    BY DEF Statuses
  <2>2. [[q EXCEPT !.status = "open"] EXCEPT !.onchainId = n] = [q EXCEPT !.status = "open", !.onchainId = n]
    OBVIOUS
  <2> QED BY <2>1, <2>2
<1>2. e.name \in Settled => statusForEvent[e.name] \in Statuses
  BY DEF Settled, statusForEvent, Statuses, Terminal
<1>3. ASSUME NEW s \in Statuses PROVE [q EXCEPT !.status = s] \in Row
  OBVIOUS
<1> QED BY <1>1, <1>2, <1>3 DEF Fold, Event

\* The lesser of two numbers.
LEMMA Smaller == ASSUME NEW a \in Nat, NEW b \in Nat PROVE bigMin(a, b) \in Nat /\ bigMin(a, b) <= a /\ bigMin(a, b) <= b
BY DEF bigMin

\* A block below one that is deep enough is deep enough.
LEMMA Deeper ==
  ASSUME NEW a \in Nat, NEW b \in Nat, NEW c \in Nat, NEW d \in Nat, NEW h \in Nat,
         a <= b, d <= c, b + c <= h
  PROVE  a + d <= h
OBVIOUS

\* Sets of places in the log can be counted.
LEMMA Counted == ASSUME TypeOK, NEW S \in SUBSET DOMAIN log PROVE IsFiniteSet(S) /\ Cardinality(S) \in Nat
<1>1. DOMAIN log = 1..Len(log) /\ Len(log) \in Nat
  BY DEF TypeOK
<1>2. IsFiniteSet(1..Len(log))
  BY <1>1, FS_Interval
<1> QED BY <1>1, <1>2, FS_Subset, FS_CardinalityType

\* The contract, mining and reorganisations keep the types.
LEMMA ChainTypes == TypeOK /\ ChainNext => TypeOK'
<1> SUFFICES ASSUME TypeOK, ChainNext PROVE TypeOK'
  OBVIOUS
<1>1. ASSUME NEW name \in EventNames, NEW id \in Nat \ {NoId}, NEW r \in Refs \cup Foreign, Emit(name, id, r)
      PROVE  TypeOK'
  <2>1. [name |-> name, id |-> id, ref |-> r, block |-> head + 1] \in Event
    BY IndexerAssumption DEF TypeOK, Event
  <2>2. log' \in Seq(Event)
    BY <1>1, <2>1 DEF Emit, TypeOK
  <2> QED BY <1>1, <2>2 DEF Emit, TypeOK, worker
<1>2. ASSUME NEW r \in Refs \cup Foreign, Ask(r) PROVE TypeOK'
  <2>1. AskedCount \in Nat
    BY Counted DEF AskedCount
  <2>2. AskedCount + 1 \in Nat \ {NoId}
    BY <2>1 DEF NoId
  <2> QED BY <1>1, <1>2, <2>2 DEF Ask, EventNames
<1>3. ASSUME NEW i \in DOMAIN log, NEW name \in Outcomes, SettleOnChain(log[i].id, name) PROVE TypeOK'
  <2>1. PICK j \in EventsOf(log[i].id) : Emit(name, log[i].id, log[j].ref)
    BY <1>3 DEF SettleOnChain
  <2>2. log[i] \in Event /\ log[j] \in Event
    BY <2>1 DEF TypeOK, EventsOf
  <2>3. name \in EventNames
    BY IndexerAssumption DEF EventNames, Settled
  <2> QED BY <1>1, <2>1, <2>2, <2>3 DEF Event
<1>4. ASSUME Mine PROVE TypeOK'
  BY <1>4, IndexerAssumption DEF Mine, TypeOK, worker
<1>5. ASSUME NEW depth \in 1..MaxReorg, Reorg(depth) PROVE TypeOK'
  <2>1. PICK n \in 0..Len(log) : log' = SubSeq(log, 1, n)
    BY <1>5 DEF Reorg
  <2>2. log' \in Seq(Event)
    BY <2>1, SubSeqProperties DEF TypeOK
  <2> QED BY <1>5, <2>2 DEF Reorg, TypeOK, worker
<1> QED BY <1>2, <1>3, <1>4, <1>5 DEF ChainNext

\* Minting and ageing a draft keep the types.
LEMMA DraftTypes == TypeOK /\ DraftNext => TypeOK'
<1> SUFFICES ASSUME TypeOK, DraftNext PROVE TypeOK'
  OBVIOUS
<1> DEFINE Row == [status : Statuses, onchainId : Nat, aged : BOOLEAN]
<1>1. PICK r \in Refs : createQuestion(r) \/ Age(r)
  BY DEF DraftNext
<1>2. [row[r] EXCEPT !.status = "pending_payment"] \in Row /\ [row[r] EXCEPT !.aged = TRUE] \in Row
  BY DEF TypeOK, Statuses
<1>3. row' \in [Refs -> Row]
  BY <1>1, <1>2 DEF TypeOK, createQuestion, Age
<1> QED BY <1>1, <1>3 DEF TypeOK, createQuestion, Age, chain, worker

\* The sweep keeps the types.
LEMMA SweepTypes == TypeOK /\ SweepNext => TypeOK'
<1> SUFFICES ASSUME TypeOK, SweepNext PROVE TypeOK'
  OBVIOUS
<1> DEFINE Row == [status : Statuses, onchainId : Nat, aged : BOOLEAN]
<1>1. ASSUME selectCandidates PROVE TypeOK'
  BY <1>1 DEF selectCandidates, TypeOK, chain
<1>2. ASSUME deleteOrphans PROVE TypeOK'
  <2>1. \A r \in Refs : [row[r] EXCEPT !.status = "swept"] \in Row
    BY DEF TypeOK, Statuses
  <2>2. row' \in [Refs -> Row]
    BY <1>2, <2>1 DEF deleteOrphans, Delete, TypeOK
  <2>3. answer' \in [Refs -> [body : Nat, revealed : BOOLEAN]]
    BY <1>2 DEF deleteOrphans, Delete, TypeOK
  <2> QED BY <1>2, <2>2, <2>3 DEF deleteOrphans, Delete, TypeOK, chain
<1>3. ASSUME abandonSweep PROVE TypeOK'
  BY <1>3 DEF abandonSweep, TypeOK, chain
<1> QED BY <1>1, <1>2, <1>3 DEF SweepNext

\* Every statement of a pass keeps the types.
LEMMA PassTypes ==
  ASSUME TypeOK, NEW p \in Passes, loadCursorBlock(p) \/ PassStep(p) \/ Abort(p)
  PROVE  TypeOK'
<1>0. pass[p] \in Pass
  BY DEF TypeOK
<1>a. ASSUME NEW q \in Pass, pass' = [pass EXCEPT ![p] = q] PROVE pass' \in [Passes -> Pass]
  BY <1>a DEF TypeOK
<1>1. ASSUME loadCursorBlock(p) PROVE TypeOK'
  <2>0. cursor + 1 \in Nat
    BY DEF TypeOK
  <2>1. [[Idle EXCEPT !.at = "head"] EXCEPT !.lo = cursor + 1] \in Pass
    BY <2>0, IdleHolds, PassFields
  <2>2. [Idle EXCEPT !.at = "head", !.lo = cursor + 1] \in Pass
    BY <2>1, IdleHolds, PassTwice
  <2> QED BY <1>a, <1>1, <2>2 DEF loadCursorBlock, TypeOK, chain
<1>2. ASSUME getFinalizedHead(p) PROVE TypeOK'
  <2>1. PICK h \in Views : Plan(p, FinalizedHead(h))
    BY <1>2 DEF getFinalizedHead
  <2>2. h \in Nat
    BY IndexerAssumption DEF TypeOK, Views
  <2>3. FinalizedHead(h) \in Nat
    BY <2>2, IndexerAssumption DEF FinalizedHead
  <2> DEFINE n == bigMin(FinalizedHead(h), pass[p].lo + maxBlocksPerRun - 1)
  <2>4. n \in Nat
    <3>1. pass[p].lo + maxBlocksPerRun - 1 \in Nat
      BY <1>0, IndexerAssumption DEF Pass
    <3> QED BY <2>3, <3>1, Smaller
  <2>5. [[pass[p] EXCEPT !.at = "fetch"] EXCEPT !.end = n] \in Pass
    BY <1>0, <2>4, PassFields
  <2>6. [pass[p] EXCEPT !.at = "fetch", !.end = n] \in Pass
    BY <1>0, <2>5, PassTwice
  <2>7. pass' \in [Passes -> Pass]
    BY <2>1, <2>6, IdleHolds DEF Plan, TypeOK
  <2> QED BY <1>2, <2>7 DEF getFinalizedHead, TypeOK, chain
<1>3. ASSUME getLogs(p) PROVE TypeOK'
  <2> DEFINE hi == bigMin(pass[p].end, pass[p].lo + getLogsRange - 1)
  <2>1. PICK m \in 0..Len(log) : \E n \in m..Len(log) :
          pass' = [pass EXCEPT ![p] = [@ EXCEPT !.at = "apply", !.hi = hi, !.events = SubSeq(log, m + 1, n)]]
    BY <1>3 DEF getLogs
  <2>2. PICK n \in m..Len(log) :
          pass' = [pass EXCEPT ![p] = [@ EXCEPT !.at = "apply", !.hi = hi, !.events = SubSeq(log, m + 1, n)]]
    BY <2>1
  <2>3. hi \in Nat
    <3>1. pass[p].lo + getLogsRange - 1 \in Nat /\ pass[p].end \in Nat
      BY <1>0, IndexerAssumption DEF Pass
    <3> QED BY <3>1, Smaller
  <2>4. SubSeq(log, m + 1, n) \in Seq(Event)
    BY <2>2, SubSeqProperties DEF TypeOK
  <2>5. pass' \in [Passes -> Pass]
    BY <1>0, <1>a, <2>2, <2>3, <2>4, Fetched
  <2> QED BY <1>3, <2>5 DEF getLogs, TypeOK, chain
<1>4. ASSUME applyEvent(p) PROVE TypeOK'
  <2> DEFINE e == Head(pass[p].events)
             uuid == tryRefToUuid(e.ref)
             rest == [pass[p] EXCEPT !.events = Tail(pass[p].events)]
  <2>1. /\ pass[p].events \in Seq(Event) /\ pass[p].events # << >>
        /\ row' = IF uuid = "none" THEN row ELSE [row EXCEPT ![uuid] = Fold(row[uuid], e)]
        /\ \/ pass' = [pass EXCEPT ![p] = rest]
           \/ pass' = [pass EXCEPT ![p] = [rest EXCEPT !.at = "reveal", !.ref = uuid]]
    BY <1>0, <1>4 DEF applyEvent, Pass
  <2>2. e \in Event /\ Tail(pass[p].events) \in Seq(Event)
    BY <2>1
  <2>3. uuid \in Refs \cup {"none"}
    BY DEF tryRefToUuid
  <2>4. row' \in [Refs -> [status : Statuses, onchainId : Nat, aged : BOOLEAN]]
    <3> HIDE DEF e, uuid
    <3> QED BY <2>1, <2>2, <2>3, FoldHolds DEF TypeOK
  <2>5. pass' \in [Passes -> Pass]
    <3>1. rest \in Pass
      BY <1>0, <2>2, PassFields
    <3> HIDE DEF e, uuid, rest
    <3>2. [[rest EXCEPT !.at = "reveal"] EXCEPT !.ref = uuid] \in Pass
      BY <2>3, <3>1, PassFields
    <3>3. [rest EXCEPT !.at = "reveal", !.ref = uuid] \in Pass
      BY <3>1, <3>2, PassTwice
    <3> QED BY <1>a, <2>1, <3>1, <3>3
  <2> QED BY <1>4, <2>4, <2>5 DEF applyEvent, TypeOK, chain
<1>5. ASSUME reveal(p) PROVE TypeOK'
  <2>1. [[pass[p] EXCEPT !.at = "apply"] EXCEPT !.ref = "none"] \in Pass
    BY <1>0, PassFields
  <2>2. [pass[p] EXCEPT !.at = "apply", !.ref = "none"] \in Pass
    BY <1>0, <2>1, PassTwice
  <2>3. pass' \in [Passes -> Pass]
    BY <1>a, <1>5, <2>2 DEF reveal
  <2>4. answer' \in [Refs -> [body : Nat, revealed : BOOLEAN]]
    BY <1>5 DEF reveal, TypeOK
  <2> QED BY <1>5, <2>3, <2>4 DEF reveal, TypeOK, chain
<1>6. ASSUME saveCursorBlock(p) PROVE TypeOK'
  <2>1. pass[p].hi + 1 \in Nat /\ pass[p].hi \in Nat
    BY <1>0 DEF Pass
  <2>2. [[pass[p] EXCEPT !.at = "fetch"] EXCEPT !.lo = pass[p].hi + 1] \in Pass
    BY <1>0, <2>1, PassFields
  <2>3. [pass[p] EXCEPT !.at = "fetch", !.lo = pass[p].hi + 1] \in Pass
    BY <1>0, <2>2, PassTwice
  <2>4. pass' \in [Passes -> Pass]
    BY <1>6, <2>3, IdleHolds DEF saveCursorBlock, ChunkDone, TypeOK
  <2> QED BY <1>6, <2>1, <2>4 DEF saveCursorBlock, TypeOK, chain
<1>7. ASSUME Abort(p) PROVE TypeOK'
  BY <1>7, <1>a, IdleHolds, IndexerAssumption DEF Abort, TypeOK, chain
<1> QED BY <1>1, <1>2, <1>3, <1>4, <1>5, <1>6, <1>7 DEF PassStep

\* The types hold to begin with, and after every step.
LEMMA TypeStart == Init => TypeOK
<1> SUFFICES ASSUME Init PROVE TypeOK
  OBVIOUS
<1>1. pass \in [Passes -> Pass]
  BY IdleHolds DEF Init
<1>2. << >> \in Seq(Event) /\ "unminted" \in Statuses /\ NoId \in Nat
  BY DEF Statuses, NoId
<1> QED BY <1>1, <1>2, IndexerAssumption DEF Init, TypeOK

LEMMA TypeStep == TypeOK /\ [Next]_vars => TypeOK'
<1>1. TypeOK /\ UNCHANGED vars => TypeOK'
  BY DEF vars, chain, worker, TypeOK
<1> QED BY <1>1, ChainTypes, DraftTypes, SweepTypes, PassTypes DEF Next

\* The indexer's types (TypeOK): every row, cursor and pass is well formed.
THEOREM IndexerTypes == Spec => []TypeOK
BY TypeStart, TypeStep, PTL DEF Spec

-----------------------------------------------------------------------------
(* How rows move *)

\* All that can happen to a row in one step: it is minted, aged, swept while an
\* unpaid orphan, or has the next event of a pass folded into it.
LEMMA RowMoves ==
  ASSUME TypeOK, [Next]_vars, NEW r \in Refs
  PROVE  \/ row'[r] = row[r]
         \/ row[r].status = "unminted" /\ row'[r] = [row[r] EXCEPT !.status = "pending_payment"]
         \/ row[r].status = "pending_payment" /\ row'[r] = [row[r] EXCEPT !.aged = TRUE]
         \/ orphaned(r) /\ row'[r] = [row[r] EXCEPT !.status = "swept"]
         \/ \E p \in Passes :
              /\ pass[p].at = "apply" /\ pass[p].events # << >>
              /\ Head(pass[p].events).ref = r
              /\ row'[r] = Fold(row[r], Head(pass[p].events))
<1>1. CASE UNCHANGED vars
  BY <1>1 DEF vars
<1>2. CASE ChainNext
  BY <1>2 DEF ChainNext, Ask, SettleOnChain, Emit, Mine, Reorg
<1>3. CASE DraftNext
  BY <1>3 DEF DraftNext, createQuestion, Age, TypeOK
<1>4. CASE SweepNext
  BY <1>4 DEF SweepNext, selectCandidates, deleteOrphans, abandonSweep, Delete
<1>5. ASSUME NEW p \in Passes, loadCursorBlock(p) \/ Abort(p) \/ PassStep(p), ~applyEvent(p)
      PROVE  row' = row
  BY <1>5 DEF loadCursorBlock, Abort, PassStep, getFinalizedHead, getLogs, reveal, saveCursorBlock
<1>6. ASSUME NEW p \in Passes, applyEvent(p)
      PROVE  row'[r] = row[r] \/
             (/\ pass[p].at = "apply" /\ pass[p].events # << >>
              /\ Head(pass[p].events).ref = r
              /\ row'[r] = Fold(row[r], Head(pass[p].events)))
  BY <1>6 DEF applyEvent, tryRefToUuid, TypeOK
<1> QED BY <1>1, <1>2, <1>3, <1>4, <1>5, <1>6 DEF Next

\* The event a pass applies next.
LEMMA HeadIsEvent ==
  ASSUME TypeOK, NEW p \in Passes, pass[p].events # << >>
  PROVE  /\ Head(pass[p].events) \in Event
         /\ 1 \in DOMAIN pass[p].events /\ Head(pass[p].events) = pass[p].events[1]
BY DEF TypeOK, Pass

\* A draft that was not paid for has no on-chain id.
Unpaid == \A r \in Refs : row[r].status \in {"unminted", "pending_payment"} => row[r].onchainId = NoId

\* Folding an event only ever moves a row forward.
LEMMA FoldProgresses ==
  ASSUME NEW q \in [status : Statuses, onchainId : Nat, aged : BOOLEAN], NEW e \in Event,
         q.status \in {"unminted", "pending_payment"} => q.onchainId = NoId
  PROVE  /\ Progresses(q, Fold(q, e))
         /\ Fold(q, e).status \in {"unminted", "pending_payment"} => Fold(q, e) = q
<1>1. CASE e.name = "QuestionAsked" /\ q.status = "pending_payment"
  BY <1>1 DEF Fold, Progresses
<1>2. CASE e.name \in Settled /\ q.status = "open"
  BY <1>2 DEF Fold, Progresses, Settled, statusForEvent, Terminal
<1>3. CASE Fold(q, e) = q
  BY <1>3 DEF Progresses, Statuses
<1> QED BY <1>1, <1>2, <1>3 DEF Fold

\* A QuestionAnswered that changes a row makes it answered.
LEMMA FoldAnswers ==
  ASSUME NEW q \in [status : Statuses, onchainId : Nat, aged : BOOLEAN], NEW e,
         e.name = "QuestionAnswered", Fold(q, e) # q
  PROVE  Fold(q, e).status = "answered"
<1>1. statusForEvent["QuestionAnswered"] = "answered" /\ "QuestionAnswered" \in Settled
  BY DEF statusForEvent, Settled
<1>2. Fold(q, e) = [q EXCEPT !.status = statusForEvent[e.name]]
  BY DEF Fold
<1> QED BY <1>1, <1>2

\* Every step moves every row forward or not at all.
LEMMA RowsProgress ==
  ASSUME TypeOK, Unpaid, [Next]_vars, NEW r \in Refs
  PROVE  /\ Progresses(row[r], row'[r])
         /\ row'[r].status \in {"unminted", "pending_payment"} => row'[r].onchainId = NoId
<1>0. row[r] \in [status : Statuses, onchainId : Nat, aged : BOOLEAN]
  BY DEF TypeOK
<1>1. CASE row'[r] = row[r]
  BY <1>0, <1>1 DEF Unpaid, Progresses, Statuses
<1>2. CASE row[r].status = "unminted" /\ row'[r] = [row[r] EXCEPT !.status = "pending_payment"]
  BY <1>0, <1>2 DEF Unpaid, Progresses
<1>3. CASE row[r].status = "pending_payment" /\ row'[r] = [row[r] EXCEPT !.aged = TRUE]
  BY <1>0, <1>3 DEF Unpaid, Progresses
<1>4. CASE orphaned(r) /\ row'[r] = [row[r] EXCEPT !.status = "swept"]
  BY <1>0, <1>4 DEF orphaned, Progresses
<1>5. CASE \E p \in Passes : /\ pass[p].at = "apply" /\ pass[p].events # << >>
                             /\ Head(pass[p].events).ref = r
                             /\ row'[r] = Fold(row[r], Head(pass[p].events))
  BY <1>0, <1>5, HeadIsEvent, FoldProgresses DEF Unpaid
<1> QED BY <1>1, <1>2, <1>3, <1>4, <1>5, RowMoves

\* No status and no on-chain id the indexer has recorded is ever undone (NeverRegress,
\* reconcile.ts:5), for any number of passes that overlap, fail and rescan.
THEOREM IndexerNeverRegress == Spec => NeverRegress
<1>1. Init => Unpaid
  BY DEF Init, Unpaid
<1>2. TypeOK /\ Unpaid /\ [Next]_vars => Unpaid'
  BY RowsProgress DEF Unpaid
<1>3. TypeOK /\ Unpaid /\ [Next]_vars => [\A r \in Refs : Progresses(row[r], row'[r])]_row
  BY RowsProgress
<1> QED BY <1>1, <1>2, <1>3, IndexerTypes, PTL DEF Spec, NeverRegress

-----------------------------------------------------------------------------
(* What is final *)

\* The events no reorganisation can remove.
Confirmed == {log[i] : i \in {j \in DOMAIN log : log[j].block + MaxReorg <= head}}

\* A pass scans confirmed blocks only, holds confirmed events only, and reveals the
\* answer of a question that is answered.
Scanned(q) ==
  /\ q.at # "idle" => q.lo >= 1
  /\ q.at \in {"fetch", "apply", "reveal"} => q.end + confirmations <= head
  /\ \A j \in DOMAIN q.events : q.events[j] \in Confirmed
  /\ q.at = "reveal" => q.ref \in Refs /\ row[q.ref].status = "answered"

\* A row's id and status were taken from confirmed events of its own ref.
Mirrored(r) ==
  /\ row[r].status \in {"unminted", "pending_payment", "swept"} => row[r].onchainId = NoId
  /\ row[r].status \in {"open"} \cup Terminal =>
       \E e \in Confirmed : e.name = "QuestionAsked" /\ e.ref = r /\ e.id = row[r].onchainId
  /\ row[r].status \in Terminal =>
       \E e \in Confirmed : /\ e.name \in Settled /\ e.ref = r
                            /\ statusForEvent[e.name] = row[r].status

FinalInv == (\A p \in Passes : Scanned(pass[p])) /\ (\A r \in Refs : Mirrored(r))

\* All that can happen to the chain in one step.
LEMMA ChainMoves ==
  ASSUME [Next]_vars
  PROVE  \/ UNCHANGED chain
         \/ head' = head + 1 /\ log' = log
         \/ head' = head /\ \E e : log' = Append(log, e)
         \/ \E depth \in 1..MaxReorg : Reorg(depth)
<1>1. CASE ChainNext
  BY <1>1 DEF ChainNext, Ask, SettleOnChain, Emit, Mine
<1>2. CASE UNCHANGED vars
  BY <1>2 DEF vars
<1>3. CASE DraftNext
  BY <1>3 DEF DraftNext, createQuestion, Age
<1>4. CASE SweepNext
  BY <1>4 DEF SweepNext, selectCandidates, deleteOrphans, abandonSweep, Delete
<1>5. ASSUME NEW p \in Passes, loadCursorBlock(p) \/ Abort(p) \/ PassStep(p)
      PROVE  UNCHANGED chain
  BY <1>5 DEF loadCursorBlock, Abort, PassStep, getFinalizedHead, getLogs, applyEvent, reveal, saveCursorBlock
<1> QED BY <1>1, <1>2, <1>3, <1>4, <1>5 DEF Next

\* What is confirmed stays confirmed.
LEMMA FinalStays ==
  ASSUME TypeOK, [Next]_vars
  PROVE  head <= head' /\ Confirmed \subseteq Confirmed'
<1>0. log \in Seq(Event) /\ head \in Nat /\ MaxReorg \in Nat
  BY IndexerAssumption DEF TypeOK
<1>a. \A i \in DOMAIN log : log[i] \in Event
  BY <1>0
<1>b. \A i \in DOMAIN log : log[i].block \in Nat
  BY <1>a DEF Event
<1>1. CASE UNCHANGED chain
  BY <1>0, <1>1 DEF chain, Confirmed
<1>2. CASE head' = head + 1 /\ log' = log
  BY <1>0, <1>b, <1>2 DEF Confirmed
<1>3. CASE head' = head /\ \E e : log' = Append(log, e)
  BY <1>0, <1>3 DEF Confirmed
<1>4. ASSUME NEW depth \in 1..MaxReorg, Reorg(depth) PROVE head' = head /\ Confirmed \subseteq Confirmed'
  <2>1. PICK n \in 0..Len(log) : /\ \A i \in DOMAIN log : i <= n <=> log[i].block <= head - depth
                                /\ log' = SubSeq(log, 1, n)
    BY <1>4 DEF Reorg
  <2>2. head' = head
    BY <1>4 DEF Reorg
  <2>3. ASSUME NEW i \in DOMAIN log, log[i].block + MaxReorg <= head
        PROVE  i \in DOMAIN log' /\ log'[i] = log[i]
    <3>1. log[i].block \in Nat
      BY <1>b, <2>3
    <3>2. i <= n
      BY <1>0, <2>1, <2>3, <3>1
    <3>3. i \in 1..n
      BY <1>0, <3>2
    <3>4. Len(log') = n /\ log' \in Seq(Event) /\ log'[i] = log[i]
      BY <1>0, <2>1, <3>3, SubSeqProperties
    <3> QED BY <3>3, <3>4
  <2> QED BY <2>2, <2>3 DEF Confirmed
<1> QED BY <1>0, <1>1, <1>2, <1>3, <1>4, ChainMoves DEF chain

\* Scanned in the next state, of a pass that may be another one.
ScannedNext(q) ==
  /\ q.at # "idle" => q.lo >= 1
  /\ q.at \in {"fetch", "apply", "reveal"} => q.end + confirmations <= head'
  /\ \A j \in DOMAIN q.events : q.events[j] \in Confirmed'
  /\ q.at = "reveal" => q.ref \in Refs /\ row'[q.ref].status = "answered"

\* A pass that does not move stays sound.
LEMMA ScannedStays ==
  ASSUME TypeOK, FinalInv, [Next]_vars, NEW q \in Pass, Scanned(q)
  PROVE  ScannedNext(q)
<1>1. q.at = "reveal" => row'[q.ref].status = "answered"
  <2> SUFFICES ASSUME q.ref \in Refs, row[q.ref].status = "answered" PROVE row'[q.ref].status = "answered"
    BY DEF Scanned
  <2>1. Progresses(row[q.ref], row'[q.ref])
    BY RowsProgress DEF FinalInv, Mirrored, Unpaid
  <2> QED BY <2>1 DEF Progresses
<1>2. q.at \in {"fetch", "apply", "reveal"} => q.end + confirmations <= head'
  <2>1. q.end \in Nat /\ head \in Nat /\ confirmations \in Nat
    BY IndexerAssumption DEF Pass, TypeOK
  <2>2. head' \in Nat
    BY <2>1, ChainMoves DEF chain, Reorg
  <2> QED BY <2>1, <2>2, FinalStays DEF Scanned
<1> QED BY <1>1, <1>2, FinalStays DEF Scanned, ScannedNext

\* A pass that holds nothing is sound.
LEMMA IdleIsScanned == ScannedNext(Idle)
BY DEF ScannedNext, Idle

\* If the one pass that moves is sound, all are.
LEMMA OnePassMoves ==
  ASSUME TypeOK, FinalInv, [Next]_vars, NEW p \in Passes, NEW q \in Pass,
         pass' = [pass EXCEPT ![p] = q], ScannedNext(q)
  PROVE  \A o \in Passes : Scanned(pass[o])'
<1> SUFFICES ASSUME NEW o \in Passes PROVE ScannedNext(pass'[o])
  BY DEF Scanned, ScannedNext
<1>1. pass[o] \in Pass /\ Scanned(pass[o])
  BY DEF TypeOK, FinalInv
<1>2. ScannedNext(pass[o])
  BY <1>1, ScannedStays
<1>3. pass'[o] = IF o = p THEN q ELSE pass[o]
  BY DEF TypeOK
<1> QED BY <1>2, <1>3

\* If no pass moves, all stay sound.
LEMMA NoPassMoves ==
  ASSUME TypeOK, FinalInv, [Next]_vars, pass' = pass
  PROVE  \A o \in Passes : Scanned(pass[o])'
<1> SUFFICES ASSUME NEW o \in Passes PROVE ScannedNext(pass'[o])
  BY DEF Scanned, ScannedNext
<1>1. pass[o] \in Pass /\ Scanned(pass[o])
  BY DEF TypeOK, FinalInv
<1> QED BY <1>1, ScannedStays

\* Every statement of a pass leaves it sound: the range is cut at the finalized head,
\* so whatever the node's view was, what it returned is confirmed (chain.ts:39-43).
LEMMA PassesScan ==
  ASSUME TypeOK, FinalInv, MaxReorg <= confirmations, [Next]_vars, NEW p \in Passes,
         loadCursorBlock(p) \/ PassStep(p) \/ Abort(p)
  PROVE  \A o \in Passes : Scanned(pass[o])'
<1>0. pass[p] \in Pass /\ Scanned(pass[p]) /\ ScannedNext(pass[p])
  BY ScannedStays DEF TypeOK, FinalInv
<1>1. ASSUME loadCursorBlock(p) PROVE \A o \in Passes : Scanned(pass[o])'
  <2>1. PICK q : q = [Idle EXCEPT !.at = "head", !.lo = cursor + 1]
    OBVIOUS
  <2>2. q.at = "head" /\ q.lo = cursor + 1 /\ q.events = << >>
    BY <2>1 DEF Idle
  <2>3. q = [[Idle EXCEPT !.at = "head"] EXCEPT !.lo = cursor + 1]
    BY <2>1, IdleHolds, PassTwice
  <2>4. cursor + 1 \in Nat /\ cursor + 1 >= 1
    BY DEF TypeOK
  <2>5. q \in Pass
    BY <2>3, <2>4, IdleHolds, PassFields
  <2>6. ScannedNext(q)
    BY <2>2, <2>4 DEF ScannedNext
  <2> QED BY <1>1, <2>1, <2>5, <2>6, OnePassMoves DEF loadCursorBlock
<1>2. ASSUME getFinalizedHead(p) PROVE \A o \in Passes : Scanned(pass[o])'
  <2>1. PICK h \in Views : Plan(p, FinalizedHead(h))
    BY <1>2 DEF getFinalizedHead
  <2>2. h \in Nat /\ h <= head /\ head \in Nat
    BY IndexerAssumption DEF TypeOK, Views
  <2>3. FinalizedHead(h) \in Nat
    BY <2>2, IndexerAssumption DEF FinalizedHead
  <2> DEFINE n == bigMin(FinalizedHead(h), pass[p].lo + maxBlocksPerRun - 1)
  <2>4. n \in Nat /\ n <= FinalizedHead(h)
    <3>1. pass[p].lo + maxBlocksPerRun - 1 \in Nat
      BY <1>0, IndexerAssumption DEF Pass
    <3> QED BY <2>3, <3>1, Smaller
  <2>5. CASE pass[p].lo > FinalizedHead(h)
    BY <2>1, <2>5, IdleHolds, IdleIsScanned, OnePassMoves DEF Plan
  <2>6. CASE ~(pass[p].lo > FinalizedHead(h))
    <3>1. PICK q : q = [pass[p] EXCEPT !.at = "fetch", !.end = n]
      OBVIOUS
    <3>2. q = [[pass[p] EXCEPT !.at = "fetch"] EXCEPT !.end = n]
      BY <1>0, <3>1, PassTwice
    <3>3. q \in Pass
      BY <1>0, <2>4, <3>2, PassFields
    <3>4. q.at = "fetch" /\ q.lo = pass[p].lo /\ q.end = n /\ q.events = pass[p].events
      BY <1>0, <3>1 DEF Pass
    <3>5. pass[p].lo >= 1 /\ pass[p].lo \in Nat
      BY <1>0, <1>2 DEF Scanned, getFinalizedHead, Pass
    <3>6. n + confirmations <= head
      BY <2>2, <2>3, <2>4, <2>6, <3>5, IndexerAssumption DEF FinalizedHead
    <3>7. head' = head
      BY <1>2 DEF getFinalizedHead, chain
    <3>8. ScannedNext(q)
      BY <1>0, <3>4, <3>5, <3>6, <3>7 DEF ScannedNext
    <3>9. pass' = [pass EXCEPT ![p] = q]
      BY <2>1, <2>6, <3>1 DEF Plan
    <3> QED BY <3>3, <3>8, <3>9, OnePassMoves
  <2> QED BY <2>5, <2>6
<1>3. ASSUME getLogs(p) PROVE \A o \in Passes : Scanned(pass[o])'
  <2> DEFINE hi == bigMin(pass[p].end, pass[p].lo + getLogsRange - 1)
  <2>1. PICK m \in 0..Len(log) : \E n \in m..Len(log) :
          /\ \A i \in DOMAIN log : i \in (m + 1)..n => log[i].block \in pass[p].lo..hi
          /\ pass' = [pass EXCEPT ![p] = [pass[p] EXCEPT !.at = "apply", !.hi = hi, !.events = SubSeq(log, m + 1, n)]]
    BY <1>3 DEF getLogs
  <2>2. PICK n \in m..Len(log) :
          /\ \A i \in DOMAIN log : i \in (m + 1)..n => log[i].block \in pass[p].lo..hi
          /\ pass' = [pass EXCEPT ![p] = [pass[p] EXCEPT !.at = "apply", !.hi = hi, !.events = SubSeq(log, m + 1, n)]]
    BY <2>1
  <2>3. hi \in Nat /\ hi <= pass[p].end /\ pass[p].end \in Nat
    <3>1. pass[p].lo + getLogsRange - 1 \in Nat /\ pass[p].end \in Nat
      BY <1>0, IndexerAssumption DEF Pass
    <3> QED BY <3>1, Smaller
  <2>4. PICK s : s = SubSeq(log, m + 1, n)
    OBVIOUS
  <2>5. /\ s \in Seq(Event) /\ Len(s) = IF m + 1 <= n THEN n - m ELSE 0
        /\ \A i \in 1 .. (n - m) : s[i] = log[m + i]
    <3>1. log \in Seq(Event) /\ Len(log) \in Nat /\ DOMAIN log = 1..Len(log)
      BY DEF TypeOK
    <3>2. m \in Nat /\ n \in Nat /\ m <= n /\ n <= Len(log)
      BY <3>1, <2>2
    <3>3. m + 1 \in Int /\ n \in Int /\ \A i \in (m + 1)..n : log[i] \in Event
      BY <3>1, <3>2
    <3>4. /\ s \in Seq(Event) /\ Len(s) = IF m + 1 <= n THEN n - (m + 1) + 1 ELSE 0
          /\ \A i \in 1 .. (n - (m + 1) + 1) : s[i] = log[(m + 1) + i - 1]
      BY <2>4, <3>3, SubSeqProperties
    <3>5. n - (m + 1) + 1 = n - m /\ \A i \in Int : (m + 1) + i - 1 = m + i
      BY <3>2
    <3> QED BY <3>4, <3>5
  <2>6. \A j \in DOMAIN s : s[j] \in Confirmed'
    <3> SUFFICES ASSUME NEW j \in DOMAIN s PROVE s[j] \in Confirmed
      BY <1>3 DEF getLogs, chain, Confirmed
    <3>1. j \in 1..(n - m) /\ m + j \in (m + 1)..n /\ m + j \in DOMAIN log
      BY <2>2, <2>5 DEF TypeOK
    <3>2. log[m + j] \in Event
      BY <3>1 DEF TypeOK
    <3>3. log[m + j].block \in Nat
      BY <3>2 DEF Event
    <3>4. log[m + j].block <= hi
      BY <1>0, <2>2, <2>3, <3>1, <3>3 DEF Pass
    <3>5. pass[p].end + confirmations <= head /\ head \in Nat
      BY <1>0, <1>3 DEF Scanned, getLogs, TypeOK
    <3>6. log[m + j].block + MaxReorg <= head
      <4>1. MaxReorg \in Nat /\ confirmations \in Nat /\ MaxReorg <= confirmations
        BY IndexerAssumption
      <4>2. hi + confirmations <= head
        BY <2>3, <3>5, <4>1
      <4> QED BY <2>3, <3>3, <3>4, <3>5, <4>1, <4>2, Deeper
    <3> QED BY <2>5, <3>1, <3>6 DEF Confirmed
  <2>7. PICK q : q = [pass[p] EXCEPT !.at = "apply", !.hi = hi, !.events = s]
    OBVIOUS
  <2>8. q \in Pass
    BY <1>0, <2>3, <2>5, <2>7, Fetched
  <2>9. q.at = "apply" /\ q.lo = pass[p].lo /\ q.end = pass[p].end /\ q.events = s
    BY <1>0, <2>7 DEF Pass
  <2>10. ScannedNext(q)
    BY <1>0, <1>3, <2>6, <2>9 DEF ScannedNext, getLogs
  <2> QED BY <2>2, <2>4, <2>7, <2>8, <2>10, OnePassMoves
<1>4. ASSUME applyEvent(p) PROVE \A o \in Passes : Scanned(pass[o])'
  <2> DEFINE e == Head(pass[p].events)
             uuid == tryRefToUuid(e.ref)
             rest == [pass[p] EXCEPT !.events = Tail(pass[p].events)]
  <2>1. /\ pass[p].events \in Seq(Event) /\ pass[p].events # << >> /\ pass[p].at = "apply"
        /\ row' = IF uuid = "none" THEN row ELSE [row EXCEPT ![uuid] = Fold(row[uuid], e)]
        /\ \/ pass' = [pass EXCEPT ![p] = rest]
           \/ /\ pass' = [pass EXCEPT ![p] = [rest EXCEPT !.at = "reveal", !.ref = uuid]]
              /\ uuid # "none" /\ Fold(row[uuid], e) # row[uuid] /\ e.name = "QuestionAnswered"
    BY <1>0, <1>4 DEF applyEvent, Pass
  <2>2. Tail(pass[p].events) \in Seq(Event)
    BY <2>1
  <2>3. rest \in Pass
    BY <1>0, <2>2, PassFields
  <2>4. /\ rest.at = "apply" /\ rest.lo = pass[p].lo /\ rest.end = pass[p].end
        /\ rest.events = Tail(pass[p].events)
    BY <1>0, <2>1 DEF Pass
  <2>5. \A j \in DOMAIN rest.events : rest.events[j] \in Confirmed'
    <3>1. \A j \in DOMAIN Tail(pass[p].events) :
            j + 1 \in DOMAIN pass[p].events /\ Tail(pass[p].events)[j] = pass[p].events[j + 1]
      BY <2>1
    <3> QED BY <1>0, <2>4, <3>1 DEF ScannedNext
  <2>6. ScannedNext(rest)
    BY <1>0, <2>1, <2>4, <2>5 DEF ScannedNext
  <2>7. CASE pass' = [pass EXCEPT ![p] = rest]
    <3> HIDE DEF rest
    <3> QED BY <2>3, <2>6, <2>7, OnePassMoves
  <2>8. CASE /\ pass' = [pass EXCEPT ![p] = [rest EXCEPT !.at = "reveal", !.ref = uuid]]
             /\ uuid # "none" /\ Fold(row[uuid], e) # row[uuid] /\ e.name = "QuestionAnswered"
    <3>1. uuid \in Refs
      BY <2>8 DEF tryRefToUuid
    <3>2. row'[uuid].status = "answered"
      <4>0. row[uuid] \in [status : Statuses, onchainId : Nat, aged : BOOLEAN]
        BY <3>1 DEF TypeOK
      <4>1. row'[uuid] = Fold(row[uuid], e)
        BY <2>1, <2>8, <3>1 DEF TypeOK
      <4>2. Fold(row[uuid], e) # row[uuid] /\ e.name = "QuestionAnswered"
        BY <2>8
      <4> HIDE DEF e, uuid
      <4> QED BY <4>0, <4>1, <4>2, FoldAnswers
    <3> HIDE DEF e, uuid, rest
    <3>3. PICK q : q = [rest EXCEPT !.at = "reveal", !.ref = uuid]
      OBVIOUS
    <3>4. q = [[rest EXCEPT !.at = "reveal"] EXCEPT !.ref = uuid]
      BY <2>3, <3>3, PassTwice
    <3>5. q \in Pass
      BY <2>3, <3>1, <3>4, PassFields
    <3>6. /\ q.at = "reveal" /\ q.lo = rest.lo /\ q.end = rest.end
          /\ q.events = rest.events /\ q.ref = uuid
      BY <2>3, <3>3 DEF Pass
    <3>7. ScannedNext(q)
      BY <2>4, <2>6, <3>1, <3>2, <3>6 DEF ScannedNext
    <3> QED BY <2>8, <3>3, <3>5, <3>7, OnePassMoves
  <2> QED BY <2>1, <2>7, <2>8
<1>5. ASSUME reveal(p) PROVE \A o \in Passes : Scanned(pass[o])'
  <2>1. PICK q : q = [pass[p] EXCEPT !.at = "apply", !.ref = "none"]
    OBVIOUS
  <2>2. q = [[pass[p] EXCEPT !.at = "apply"] EXCEPT !.ref = "none"]
    BY <1>0, <2>1, PassTwice
  <2>3. q \in Pass
    BY <1>0, <2>2, PassFields
  <2>4. q.at = "apply" /\ q.lo = pass[p].lo /\ q.end = pass[p].end /\ q.events = pass[p].events
    BY <1>0, <2>1 DEF Pass
  <2>5. ScannedNext(q)
    BY <1>0, <1>5, <2>4 DEF ScannedNext, reveal
  <2> QED BY <1>5, <2>1, <2>3, <2>5, OnePassMoves DEF reveal
<1>6. ASSUME saveCursorBlock(p) PROVE \A o \in Passes : Scanned(pass[o])'
  <2>1. PICK q : q = [pass[p] EXCEPT !.at = "fetch", !.lo = pass[p].hi + 1]
    OBVIOUS
  <2>2. pass[p].hi + 1 \in Nat /\ pass[p].hi + 1 >= 1
    BY <1>0 DEF Pass
  <2>3. q = [[pass[p] EXCEPT !.at = "fetch"] EXCEPT !.lo = pass[p].hi + 1]
    BY <1>0, <2>1, PassTwice
  <2>4. q \in Pass
    BY <1>0, <2>2, <2>3, PassFields
  <2>5. q.at = "fetch" /\ q.lo = pass[p].hi + 1 /\ q.end = pass[p].end /\ q.events = pass[p].events
    BY <1>0, <2>1 DEF Pass
  <2>6. ScannedNext(q)
    BY <1>0, <1>6, <2>2, <2>5 DEF ScannedNext, saveCursorBlock
  <2>7. pass' = [pass EXCEPT ![p] = q] \/ pass' = [pass EXCEPT ![p] = Idle]
    BY <1>6, <2>1 DEF saveCursorBlock, ChunkDone
  <2> QED BY <2>4, <2>6, <2>7, IdleHolds, IdleIsScanned, OnePassMoves
<1>7. ASSUME Abort(p) PROVE \A o \in Passes : Scanned(pass[o])'
  BY <1>7, IdleHolds, IdleIsScanned, OnePassMoves DEF Abort
<1> QED BY <1>1, <1>2, <1>3, <1>4, <1>5, <1>6, <1>7 DEF PassStep

\* Every step leaves every row made from confirmed events.
LEMMA RowsMirror ==
  ASSUME TypeOK, FinalInv, [Next]_vars, NEW r \in Refs
  PROVE  Mirrored(r)'
<1>0. row[r] \in [status : Statuses, onchainId : Nat, aged : BOOLEAN] /\ Mirrored(r)
  BY DEF TypeOK, FinalInv
<1>1. Confirmed \subseteq Confirmed'
  BY FinalStays
<1>a. ASSUME row'[r].status = row[r].status, row'[r].onchainId = row[r].onchainId PROVE Mirrored(r)'
  <2>1. CASE row[r].status \in {"open"} \cup Terminal
    BY <1>0, <1>1, <1>a, <2>1 DEF Mirrored
  <2>2. CASE row[r].status \notin {"open"} \cup Terminal
    BY <1>0, <1>1, <1>a, <2>2 DEF Mirrored, Terminal
  <2> QED BY <2>1, <2>2
<1>b. ASSUME row'[r].status \in {"pending_payment", "swept"}, row'[r].onchainId = NoId PROVE Mirrored(r)'
  BY <1>b DEF Mirrored, Terminal
<1>2. CASE row[r].status = "unminted" /\ row'[r] = [row[r] EXCEPT !.status = "pending_payment"]
  BY <1>0, <1>b, <1>2 DEF Mirrored
<1>3. CASE row[r].status = "pending_payment" /\ row'[r] = [row[r] EXCEPT !.aged = TRUE]
  BY <1>0, <1>a, <1>3
<1>4. CASE orphaned(r) /\ row'[r] = [row[r] EXCEPT !.status = "swept"]
  BY <1>0, <1>b, <1>4 DEF orphaned
<1>5. ASSUME NEW p \in Passes, pass[p].events # << >>, Head(pass[p].events).ref = r,
             row'[r] = Fold(row[r], Head(pass[p].events))
      PROVE  Mirrored(r)'
  <2> DEFINE e == Head(pass[p].events)
  <2>1. e \in Event /\ e \in Confirmed' /\ e.ref = r
    BY <1>1, <1>5, HeadIsEvent DEF FinalInv, Scanned
  <2> HIDE DEF e
  <2>2. CASE e.name = "QuestionAsked" /\ row[r].status = "pending_payment"
    <3>1. row'[r] = [row[r] EXCEPT !.status = "open", !.onchainId = e.id]
      BY <1>5, <2>2 DEF Fold, e
    <3>2. row'[r].status = "open" /\ row'[r].onchainId = e.id
      BY <1>0, <3>1
    <3> QED BY <2>1, <2>2, <3>2 DEF Mirrored, Terminal
  <2>3. CASE e.name \in Settled /\ row[r].status = "open"
    <3>1. row'[r] = [row[r] EXCEPT !.status = statusForEvent[e.name]]
      BY <1>5, <2>3 DEF Fold, Settled, e
    <3>2. row'[r].status = statusForEvent[e.name] /\ row'[r].onchainId = row[r].onchainId
      BY <1>0, <3>1
    <3>3. statusForEvent[e.name] \in Terminal
      BY <2>3 DEF Settled, statusForEvent, Terminal
    <3>4. \E a \in Confirmed' : a.name = "QuestionAsked" /\ a.ref = r /\ a.id = row[r].onchainId
      BY <1>0, <1>1, <2>3 DEF Mirrored
    <3> QED BY <2>1, <2>3, <3>2, <3>3, <3>4 DEF Mirrored, Terminal
  <2>4. CASE row'[r] = row[r]
    BY <1>a, <2>4
  <2> QED BY <1>5, <2>2, <2>3, <2>4 DEF Fold, e
<1>6. CASE row'[r] = row[r]
  BY <1>a, <1>6
<1> QED BY <1>2, <1>3, <1>4, <1>5, <1>6, RowMoves

\* FinalInv is kept by every step.
LEMMA FinalStep ==
  ASSUME TypeOK, FinalInv, MaxReorg <= confirmations, [Next]_vars
  PROVE  FinalInv'
<1>1. \A o \in Passes : Scanned(pass[o])'
  <2>1. CASE pass' = pass
    BY <2>1, NoPassMoves
  <2>2. CASE \E p \in Passes : loadCursorBlock(p) \/ PassStep(p) \/ Abort(p)
    BY <2>2, PassesScan
  <2>3. ASSUME ChainNext \/ DraftNext \/ SweepNext PROVE pass' = pass
    BY <2>3 DEF ChainNext, Ask, SettleOnChain, Emit, Mine, Reorg, DraftNext, createQuestion, Age,
         SweepNext, selectCandidates, deleteOrphans, abandonSweep, Delete, worker
  <2> QED BY <2>1, <2>2, <2>3 DEF Next, vars, worker
<1> QED BY <1>1, RowsMirror DEF FinalInv

\* And holds to begin with.
LEMMA FinalStart == Init => FinalInv
<1> SUFFICES ASSUME Init PROVE FinalInv
  OBVIOUS
<1>1. \A p \in Passes : Scanned(pass[p])
  BY DEF Init, Idle, Scanned
<1>2. \A r \in Refs : Mirrored(r)
  BY DEF Init, Mirrored, Terminal
<1> QED BY <1>1, <1>2 DEF FinalInv

\* Whatever a pass holds and whatever a row says is final on the chain.
THEOREM IndexerFinality == ASSUME MaxReorg <= confirmations PROVE Spec => []FinalInv
<1>1. TypeOK /\ FinalInv /\ [Next]_vars => FinalInv'
  BY FinalStep
<1> QED BY <1>1, FinalStart, IndexerTypes, PTL DEF Spec

-----------------------------------------------------------------------------
(* The log *)

\* A settlement has its QuestionAsked before it, comes once per id, and a ref is
\* asked with once.
LogInv ==
  /\ \A i \in DOMAIN log :
       log[i].name \in Settled =>
         \E j \in 1..i : /\ log[j].name = "QuestionAsked"
                         /\ log[j].id = log[i].id /\ log[j].ref = log[i].ref
  /\ \A i, j \in DOMAIN log :
       /\ log[i].name \in Settled /\ log[j].name \in Settled /\ log[i].id = log[j].id => i = j
       /\ log[i].name = "QuestionAsked" /\ log[j].name = "QuestionAsked"
            /\ log[i].ref = log[j].ref => i = j

\* One more event keeps it, if the contract emits it.
LEMMA LogGrows ==
  ASSUME TypeOK, LogInv, NEW e, log' = Append(log, e),
         \/ /\ e.name = "QuestionAsked"
            /\ \A i \in DOMAIN log : log[i].name = "QuestionAsked" => log[i].ref # e.ref
         \/ /\ e.name \in Settled
            /\ \E i \in DOMAIN log : /\ log[i].name = "QuestionAsked"
                                     /\ log[i].id = e.id /\ log[i].ref = e.ref
            /\ \A i \in DOMAIN log : log[i].id = e.id => log[i].name \notin Settled
  PROVE  LogInv'
<1> DEFINE n == Len(log)
<1>1. n \in Nat /\ DOMAIN log = 1..n /\ DOMAIN log' = 1..(n + 1)
  BY DEF TypeOK
<1>2. log'[n + 1] = e /\ \A i \in 1..n : log'[i] = log[i]
  BY DEF TypeOK
<1>3. "QuestionAsked" \notin Settled
  BY DEF Settled
<1> HIDE DEF n
<1>4. ASSUME NEW i \in 1..(n + 1), log'[i].name \in Settled
      PROVE  \E j \in 1..i : /\ log'[j].name = "QuestionAsked"
                             /\ log'[j].id = log'[i].id /\ log'[j].ref = log'[i].ref
  <2>1. CASE i = n + 1
    <3>1. PICK j \in 1..n : log[j].name = "QuestionAsked" /\ log[j].id = e.id /\ log[j].ref = e.ref
      BY <1>1, <1>2, <1>3, <1>4, <2>1
    <3> QED BY <1>1, <1>2, <2>1, <3>1
  <2>2. CASE i \in 1..n
    <3>1. PICK j \in 1..i : log[j].name = "QuestionAsked" /\ log[j].id = log[i].id /\ log[j].ref = log[i].ref
      BY <1>1, <1>2, <1>4, <2>2 DEF LogInv
    <3> QED BY <1>1, <1>2, <2>2, <3>1
  <2> QED BY <1>1, <2>1, <2>2
<1>5. ASSUME NEW i \in 1..(n + 1), NEW j \in 1..(n + 1)
      PROVE  /\ log'[i].name \in Settled /\ log'[j].name \in Settled /\ log'[i].id = log'[j].id => i = j
             /\ log'[i].name = "QuestionAsked" /\ log'[j].name = "QuestionAsked"
                  /\ log'[i].ref = log'[j].ref => i = j
  <2>1. CASE i \in 1..n /\ j \in 1..n
    BY <1>1, <1>2, <2>1 DEF LogInv
  <2>2. CASE i = n + 1 /\ j \in 1..n
    BY <1>1, <1>2, <1>3, <2>2
  <2>3. CASE i \in 1..n /\ j = n + 1
    BY <1>1, <1>2, <1>3, <2>3
  <2> QED BY <1>1, <2>1, <2>2, <2>3
<1> QED BY <1>1, <1>4, <1>5 DEF LogInv

\* Every step keeps it, a reorganisation because what stays is a prefix.
LEMMA LogStep ==
  ASSUME TypeOK, LogInv, MaxPays <= 1, [Next]_vars
  PROVE  LogInv'
<1>1. ASSUME NEW r \in Refs \cup Foreign, Ask(r) PROVE LogInv'
  <2>1. AskedRef(r) = {}
    <3>1. IsFiniteSet(AskedRef(r)) /\ Cardinality(AskedRef(r)) \in Nat /\ Cardinality(AskedRef(r)) < MaxPays
      BY <1>1, Counted DEF Ask, AskedRef
    <3>2. Cardinality(AskedRef(r)) = 0
      BY <3>1, IndexerAssumption
    <3> QED BY <3>1, <3>2, FS_EmptySet
  <2>2. PICK e : e = [name |-> "QuestionAsked", id |-> AskedCount + 1, ref |-> r, block |-> head + 1]
    OBVIOUS
  <2>3. e.name = "QuestionAsked" /\ e.ref = r /\ log' = Append(log, e)
    BY <1>1, <2>2 DEF Ask, Emit
  <2> QED BY <2>1, <2>3, LogGrows DEF AskedRef
<1>2. ASSUME NEW k \in DOMAIN log, NEW name \in Outcomes, SettleOnChain(log[k].id, name) PROVE LogInv'
  <2>1. PICK i \in EventsOf(log[k].id) :
          /\ \A j \in EventsOf(log[k].id) : log[j].name \notin Settled
          /\ Emit(name, log[k].id, log[i].ref)
    BY <1>2 DEF SettleOnChain
  <2>2. PICK e : e = [name |-> name, id |-> log[k].id, ref |-> log[i].ref, block |-> head + 1]
    OBVIOUS
  <2>3. e.name = name /\ e.id = log[k].id /\ e.ref = log[i].ref /\ log' = Append(log, e)
    BY <2>1, <2>2 DEF Emit
  <2>4. name \in Settled
    BY IndexerAssumption DEF Settled
  <2>5. i \in DOMAIN log /\ log[i].id = e.id /\ log[i] \in Event
    BY <2>1, <2>3 DEF EventsOf, TypeOK
  <2>6. log[i].name = "QuestionAsked"
    BY <2>1, <2>5 DEF Event, EventNames
  <2>7. \A j \in DOMAIN log : log[j].id = e.id => log[j].name \notin Settled
    BY <2>1, <2>3 DEF EventsOf
  <2> QED BY <2>3, <2>4, <2>5, <2>6, <2>7, LogGrows
<1>3. ASSUME NEW depth \in 1..MaxReorg, Reorg(depth) PROVE LogInv'
  <2>1. PICK n \in 0..Len(log) : log' = SubSeq(log, 1, n)
    BY <1>3 DEF Reorg
  <2>2. /\ DOMAIN log' = 1..n /\ DOMAIN log = 1..Len(log) /\ Len(log) \in Nat
        /\ \A i \in 1..n : log'[i] = log[i]
    BY <2>1, SubSeqProperties DEF TypeOK
  <2>3. 1..n \subseteq DOMAIN log /\ \A i \in 1..n : 1..i \subseteq 1..n
    BY <2>2
  <2> QED BY <2>2, <2>3 DEF LogInv
<1>4. ASSUME UNCHANGED log PROVE LogInv'
  BY <1>4 DEF LogInv
<1>5. CASE Mine
  BY <1>4, <1>5 DEF Mine
<1>6. CASE ~ChainNext
  BY <1>4, <1>6 DEF Next, vars, chain, DraftNext, createQuestion, Age,
       SweepNext, selectCandidates, deleteOrphans, abandonSweep, Delete,
       loadCursorBlock, Abort, PassStep, getFinalizedHead, getLogs, applyEvent, reveal, saveCursorBlock
<1> QED BY <1>1, <1>2, <1>3, <1>5, <1>6 DEF ChainNext

\* The database never says what the chain takes back, and never a status that is not
\* the contract's for the id in the row (MirrorNeverAhead), as long as the
\* confirmations outlast reorganisations and no ref is paid for twice.
THEOREM IndexerMirrorNeverAhead ==
  ASSUME MaxReorg <= confirmations, MaxPays <= 1 PROVE Spec => []MirrorNeverAhead
<1>1. Init => LogInv
  BY DEF Init, LogInv
<1>2. TypeOK /\ LogInv /\ [Next]_vars => LogInv'
  BY LogStep
<1>3. TypeOK /\ FinalInv /\ LogInv => MirrorNeverAhead
  <2> SUFFICES ASSUME TypeOK, FinalInv, LogInv, NEW r \in Refs, row[r].onchainId # NoId
               PROVE  /\ EventsOf(row[r].onchainId) # {}
                      /\ row[r].status \in Terminal => row[r].status = ContractStatus(row[r].onchainId)
    BY DEF MirrorNeverAhead
  <2> DEFINE id == row[r].onchainId
  <2>1. row[r].status \in {"open"} \cup Terminal
    BY DEF FinalInv, Mirrored, TypeOK, Statuses
  <2>2. PICK i \in DOMAIN log : log[i].name = "QuestionAsked" /\ log[i].ref = r /\ log[i].id = id
    BY <2>1 DEF FinalInv, Mirrored, Confirmed
  <2>3. i \in EventsOf(id)
    BY <2>2 DEF EventsOf
  <2>4. ASSUME row[r].status \in Terminal PROVE row[r].status = ContractStatus(id)
    <3>1. PICK k \in DOMAIN log : log[k].name \in Settled /\ log[k].ref = r /\ statusForEvent[log[k].name] = row[r].status
      BY <2>4 DEF FinalInv, Mirrored, Confirmed
    <3>2. log[k].id = id
      <4>1. PICK j \in 1..k : log[j].name = "QuestionAsked" /\ log[j].id = log[k].id /\ log[j].ref = log[k].ref
        BY <3>1 DEF LogInv
      <4>2. j \in DOMAIN log
        BY <4>1 DEF TypeOK
      <4> QED BY <2>2, <3>1, <4>1, <4>2 DEF LogInv
    <3>3. {m \in EventsOf(id) : log[m].name \in Settled} = {k}
      BY <3>1, <3>2 DEF EventsOf, LogInv
    <3>4. (CHOOSE m \in {k} : TRUE) = k
      OBVIOUS
    <3> QED BY <2>3, <3>1, <3>3, <3>4 DEF ContractStatus
  <2> QED BY <2>3, <2>4
<1> QED BY <1>1, <1>2, <1>3, IndexerTypes, IndexerFinality, PTL DEF Spec

-----------------------------------------------------------------------------
(* The snapshot *)

\* What the contract and the block order make of a log l whose latest block is h: a
\* settlement comes after a payment for the same ref, however many there are.
LogShape(l, h) ==
  /\ \A i \in DOMAIN l : l[i].block <= h + 1
  /\ \A i, j \in DOMAIN l : i <= j => l[i].block <= l[j].block
  /\ \A i \in DOMAIN l :
       l[i].name \in Settled => \E j \in 1..i : l[j].name = "QuestionAsked" /\ l[j].ref = l[i].ref

\* Nobody pays for a question before the API minted it.
Minted == \A i \in DOMAIN log : log[i].ref \in Refs => row[log[i].ref].status # "unminted"

\* The first k events are confirmed, and they are all there is before block b.
FinalTo(k, l, h) == k \in 0..Len(l) /\ \A i \in 1..k : l[i].block + confirmations <= h
Covers(k, b, l) == \A i \in DOMAIN l : l[i].block < b => i <= k

\* A pass that is to scan from a block on has everything before it in the first k
\* events.  One that applies a chunk holds the rest of it, a stretch of the log that
\* begins within the first k events or right after them.
Within(q, k, l, h) ==
  /\ q.at \in {"head", "fetch"} => q.lo <= h + 1 /\ Covers(k, q.lo, l)
  /\ q.at \in {"apply", "reveal"} =>
       /\ q.hi + confirmations <= h
       /\ \E j \in 0..k, n \in 0..Len(l) :
            /\ FinalTo(n, l, h) /\ Covers(n, q.hi + 1, l)
            /\ j <= n /\ Len(q.events) = n - j
            /\ \A i \in 1..(n - j) : q.events[i] = l[j + i]

\* The rows are what the first k events leave behind, and k serves the cursor and
\* every pass.
SnapshotAt(k) ==
  /\ FinalTo(k, log, head) /\ Covers(k, cursor + 1, log)
  /\ \A r \in Refs : Present(r) => Reflects(row[r], r, log, k)
  /\ \A p \in Passes : Within(pass[p], k, log, head)

SnapshotInv ==
  /\ LogShape(log, head) /\ Minted /\ cursor <= head
  /\ \E k \in 0..Len(log) : SnapshotAt(k)

\* What a step of the chain does to a log l whose latest block is h: confirmed events
\* stay where they are, and no event appears in a block that was mined before.
Carries(l, h, m, g) ==
  /\ h <= g
  /\ \A k \in 0..Len(l) : FinalTo(k, l, h) => FinalTo(k, m, g) /\ \A i \in 1..k : m[i] = l[i]
  /\ \A k, b \in Nat : b <= h + 1 /\ Covers(k, b, l) => Covers(k, b, m)

\* A log of the right type, and what its places hold.
LEMMA Places ==
  ASSUME TypeOK
  PROVE  /\ log \in Seq(Event) /\ head \in Nat /\ cursor \in Nat
         /\ Len(log) \in Nat /\ DOMAIN log = 1..Len(log)
         /\ \A i \in DOMAIN log : log[i] \in Event /\ log[i].block \in Nat
<1>1. log \in Seq(Event) /\ head \in Nat /\ cursor \in Nat
  BY IndexerAssumption DEF TypeOK
<1>2. Len(log) \in Nat /\ DOMAIN log = 1..Len(log) /\ \A i \in DOMAIN log : log[i] \in Event
  BY <1>1
<1> QED BY <1>1, <1>2 DEF Event

\* One more event at the end, in the block in the making.
LEMMA AppendCarries ==
  ASSUME NEW l \in Seq(Event), NEW h \in Nat, NEW e \in Event, e.block = h + 1
  PROVE  Carries(l, h, Append(l, e), h)
<1> DEFINE m == Append(l, e)
<1>1. /\ Len(l) \in Nat /\ DOMAIN l = 1..Len(l) /\ DOMAIN m = 1..(Len(l) + 1) /\ Len(m) = Len(l) + 1
      /\ \A i \in 1..Len(l) : m[i] = l[i]
      /\ m[Len(l) + 1] = e
  OBVIOUS
<1> HIDE DEF m
<1>2. \A k \in 0..Len(l) : FinalTo(k, l, h) => FinalTo(k, m, h) /\ \A i \in 1..k : m[i] = l[i]
  BY <1>1 DEF FinalTo
<1>3. ASSUME NEW k \in Nat, NEW b \in Nat, b <= h + 1, Covers(k, b, l) PROVE Covers(k, b, m)
  <2> SUFFICES ASSUME NEW i \in 1..(Len(l) + 1), m[i].block < b PROVE i <= k
    BY <1>1 DEF Covers
  <2>1. i # Len(l) + 1
    BY <1>1, <1>3
  <2> QED BY <1>1, <1>3, <2>1 DEF Covers
<1> QED BY <1>2, <1>3 DEF Carries, m

\* A block is mined, or nothing happens.
LEMMA MineCarries ==
  ASSUME NEW l \in Seq(Event), NEW h \in Nat, NEW g \in Nat, h <= g
  PROVE  Carries(l, h, l, g)
<1>1. \A i \in DOMAIN l : l[i] \in Event
  OBVIOUS
<1>2. \A i \in DOMAIN l : l[i].block \in Nat
  BY <1>1 DEF Event
<1>3. Len(l) \in Nat /\ DOMAIN l = 1..Len(l)
  OBVIOUS
<1>4. ASSUME NEW k \in 0..Len(l), FinalTo(k, l, h) PROVE FinalTo(k, l, g)
  <2> SUFFICES ASSUME NEW i \in 1..k PROVE l[i].block + confirmations <= g
    BY DEF FinalTo
  <2>1. l[i].block \in Nat /\ l[i].block + confirmations <= h
    BY <1>2, <1>3, <1>4 DEF FinalTo
  <2> QED BY <2>1, IndexerAssumption
<1> QED BY <1>4 DEF Carries

\* A reorganisation no deeper than the confirmations.
LEMMA ReorgCarries ==
  ASSUME NEW l \in Seq(Event), NEW h \in Nat, NEW depth \in Nat, depth <= confirmations, depth <= h,
         NEW n \in 0..Len(l), \A i \in DOMAIN l : i <= n <=> l[i].block <= h - depth
  PROVE  Carries(l, h, SubSeq(l, 1, n), h)
<1>0. confirmations \in Nat
  BY IndexerAssumption
<1>1. PICK m : m = SubSeq(l, 1, n)
  OBVIOUS
<1>2. /\ Len(l) \in Nat /\ DOMAIN l = 1..Len(l) /\ DOMAIN m = 1..n /\ Len(m) = n
      /\ \A i \in 1..n : m[i] = l[i]
  BY <1>1, SubSeqProperties
<1>a. \A i \in DOMAIN l : l[i] \in Event
  OBVIOUS
<1>b. \A i \in DOMAIN l : l[i].block \in Nat
  BY <1>a DEF Event
<1>3. ASSUME NEW k \in 0..Len(l), FinalTo(k, l, h)
      PROVE  FinalTo(k, m, h) /\ \A i \in 1..k : m[i] = l[i]
  <2>1. k <= n
    <3> SUFFICES ASSUME k # 0 PROVE k <= n
      BY <1>2
    <3>1. k \in DOMAIN l /\ l[k].block \in Nat /\ l[k].block + confirmations <= h
      BY <1>2, <1>3, <1>b DEF FinalTo
    <3>2. l[k].block <= h - depth
      BY <1>0, <3>1
    <3> QED BY <3>1, <3>2
  <2>2. k \in 0..n /\ 1..k \subseteq 1..n
    BY <1>2, <2>1
  <2>3. \A i \in 1..k : m[i] = l[i] /\ l[i].block + confirmations <= h
    BY <1>2, <1>3, <2>2 DEF FinalTo
  <2> HIDE <1>3
  <2> QED BY <1>2, <2>2, <2>3 DEF FinalTo
<1>4. ASSUME NEW k \in Nat, NEW b \in Nat, Covers(k, b, l) PROVE Covers(k, b, m)
  BY <1>2, <1>4 DEF Covers
<1>5. Carries(l, h, m, h)
  BY <1>3, <1>4 DEF Carries
<1> QED BY <1>1, <1>5

\* So every step of the system carries what is confirmed.
LEMMA ChainCarries ==
  ASSUME TypeOK, MaxReorg <= confirmations, [Next]_vars
  PROVE  Carries(log, head, log', head') /\ head' \in Nat
<1>0. log \in Seq(Event) /\ head \in Nat
  BY Places
<1>1. CASE UNCHANGED chain
  BY <1>0, <1>1, MineCarries DEF chain
<1>2. CASE head' = head + 1 /\ log' = log
  BY <1>0, <1>2, MineCarries
<1>3. ASSUME NEW r \in Refs \cup Foreign, NEW name, NEW id, Emit(name, id, r), log' \in Seq(Event)
      PROVE  Carries(log, head, log', head') /\ head' \in Nat
  <2>1. PICK e : e = [name |-> name, id |-> id, ref |-> r, block |-> head + 1]
    OBVIOUS
  <2>2. log' = Append(log, e) /\ head' = head /\ e.block = head + 1
    BY <1>3, <2>1 DEF Emit
  <2>3. e \in Event
    <3>1. Len(log) + 1 \in DOMAIN log' /\ log'[Len(log) + 1] = e
      BY <1>0, <2>2
    <3> QED BY <1>3, <3>1
  <2> QED BY <1>0, <2>2, <2>3, AppendCarries
<1>4. log' \in Seq(Event)
  BY TypeStep DEF TypeOK
<1>5. ASSUME NEW r \in Refs \cup Foreign, Ask(r) PROVE Carries(log, head, log', head') /\ head' \in Nat
  BY <1>3, <1>4, <1>5 DEF Ask
<1>6. ASSUME NEW i \in DOMAIN log, NEW name \in Outcomes, SettleOnChain(log[i].id, name)
      PROVE  Carries(log, head, log', head') /\ head' \in Nat
  <2>1. PICK j \in EventsOf(log[i].id) : Emit(name, log[i].id, log[j].ref)
    BY <1>6 DEF SettleOnChain
  <2>2. log[j] \in Event
    BY <2>1, Places DEF EventsOf
  <2>3. log[j].ref \in Refs \cup Foreign
    BY <2>2 DEF Event
  <2> QED BY <1>3, <1>4, <2>1, <2>3
<1>7. ASSUME NEW depth \in 1..MaxReorg, Reorg(depth) PROVE Carries(log, head, log', head') /\ head' \in Nat
  <2>1. PICK n \in 0..Len(log) : /\ \A i \in DOMAIN log : i <= n <=> log[i].block <= head - depth
                                /\ log' = SubSeq(log, 1, n)
    BY <1>7 DEF Reorg
  <2>2. depth \in Nat /\ depth <= confirmations /\ depth <= head /\ head' = head
    BY <1>0, <1>7, IndexerAssumption DEF Reorg
  <2> QED BY <1>0, <2>1, <2>2, ReorgCarries
<1>8. CASE Mine
  BY <1>2, <1>8 DEF Mine
<1>9. ASSUME ~ChainNext PROVE UNCHANGED chain
  BY <1>9 DEF Next, vars, DraftNext, createQuestion, Age,
       SweepNext, selectCandidates, deleteOrphans, abandonSweep, Delete,
       loadCursorBlock, Abort, PassStep, getFinalizedHead, getLogs, applyEvent, reveal, saveCursorBlock
<1> QED BY <1>1, <1>5, <1>6, <1>7, <1>8, <1>9 DEF ChainNext

\* What a row owes to confirmed events it owes to them still.
LEMMA ReflectsCarries ==
  ASSUME NEW l, NEW m, NEW k \in Nat, \A i \in 1..k : m[i] = l[i], NEW r, NEW q, Reflects(q, r, l, k)
  PROVE  Reflects(q, r, m, k)
<1>1. AskedAt(m, r, k) = AskedAt(l, r, k) /\ SettledAt(m, r, k) = SettledAt(l, r, k)
  BY DEF AskedAt, SettledAt
<1>2. \A i \in AskedAt(l, r, k) \cup SettledAt(l, r, k) : m[i] = l[i]
  BY DEF AskedAt, SettledAt
<1> QED BY <1>1, <1>2 DEF Reflects

\* A pass stays within them.
LEMMA WithinCarries ==
  ASSUME NEW l \in Seq(Event), NEW h \in Nat, NEW m, NEW g \in Nat, Carries(l, h, m, g),
         NEW q \in Pass, NEW k \in 0..Len(l), Within(q, k, l, h)
  PROVE  Within(q, k, m, g)
<1>0. /\ q.lo \in Nat /\ q.hi \in Nat /\ q.hi + 1 \in Nat /\ Len(l) \in Nat /\ k \in Nat
      /\ h <= g /\ confirmations \in Nat
  BY IndexerAssumption DEF Pass, Carries
<1>1. ASSUME q.at \in {"head", "fetch"} PROVE q.lo <= g + 1 /\ Covers(k, q.lo, m)
  BY <1>0, <1>1 DEF Within, Carries
<1>2. ASSUME q.at \in {"apply", "reveal"}
      PROVE  /\ q.hi + confirmations <= g
             /\ \E j \in 0..k, n \in 0..Len(m) :
                  /\ FinalTo(n, m, g) /\ Covers(n, q.hi + 1, m)
                  /\ j <= n /\ Len(q.events) = n - j
                  /\ \A i \in 1..(n - j) : q.events[i] = m[j + i]
  <2>1. PICK j \in 0..k, n \in 0..Len(l) :
          /\ FinalTo(n, l, h) /\ Covers(n, q.hi + 1, l)
          /\ j <= n /\ Len(q.events) = n - j
          /\ \A i \in 1..(n - j) : q.events[i] = l[j + i]
    BY <1>2 DEF Within
  <2>2. FinalTo(n, m, g) /\ \A i \in 1..n : m[i] = l[i]
    BY <2>1 DEF Carries
  <2>3. n \in 0..Len(m) /\ n \in Nat
    BY <1>0, <2>2 DEF FinalTo
  <2>4. q.hi + confirmations <= h
    BY <1>2 DEF Within
  <2>5. Covers(n, q.hi + 1, m)
    BY <1>0, <2>1, <2>3, <2>4 DEF Carries
  <2>6. ASSUME NEW i \in 1..(n - j) PROVE q.events[i] = m[j + i]
    <3>1. j \in Nat /\ j + i \in 1..n
      BY <1>0, <2>1, <2>3
    <3> QED BY <2>1, <2>2, <3>1
  <2>7. q.hi + confirmations <= g
    BY <1>0, <2>4
  <2> QED BY <2>1, <2>2, <2>3, <2>5, <2>6, <2>7
<1> QED BY <1>1, <1>2 DEF Within

\* The next event in block order, a settlement only of a ref that was paid for.
LEMMA ShapeGrows ==
  ASSUME NEW l \in Seq(Event), NEW h \in Nat, LogShape(l, h), NEW e \in Event, e.block = h + 1,
         e.name \in Settled => \E i \in DOMAIN l : l[i].name = "QuestionAsked" /\ l[i].ref = e.ref
  PROVE  LogShape(Append(l, e), h)
<1>1. PICK m : m = Append(l, e)
  OBVIOUS
<1>2. /\ Len(l) \in Nat /\ DOMAIN l = 1..Len(l) /\ DOMAIN m = 1..(Len(l) + 1)
      /\ \A i \in 1..Len(l) : m[i] = l[i]
      /\ m[Len(l) + 1] = e
  BY <1>1
<1>3. \A i \in 1..(Len(l) + 1) : m[i].block <= h + 1
  BY <1>2 DEF LogShape
<1>4. ASSUME NEW i \in 1..(Len(l) + 1), NEW j \in 1..(Len(l) + 1), i <= j
      PROVE  m[i].block <= m[j].block
  <2>1. CASE j = Len(l) + 1
    BY <1>2, <1>3, <2>1
  <2>2. CASE j \in 1..Len(l)
    <3>1. i \in 1..Len(l)
      BY <1>2, <1>4, <2>2
    <3> QED BY <1>2, <1>4, <2>2, <3>1 DEF LogShape
  <2> QED BY <1>2, <2>1, <2>2
<1>5. ASSUME NEW i \in 1..(Len(l) + 1), m[i].name \in Settled
      PROVE  \E j \in 1..i : m[j].name = "QuestionAsked" /\ m[j].ref = m[i].ref
  <2>1. CASE i = Len(l) + 1
    <3>1. PICK j \in 1..Len(l) : l[j].name = "QuestionAsked" /\ l[j].ref = e.ref
      BY <1>2, <1>5, <2>1
    <3> QED BY <1>2, <2>1, <3>1
  <2>2. CASE i \in 1..Len(l)
    <3>1. PICK j \in 1..i : l[j].name = "QuestionAsked" /\ l[j].ref = l[i].ref
      BY <1>2, <1>5, <2>2 DEF LogShape
    <3> QED BY <1>2, <2>2, <3>1
  <2> QED BY <1>2, <2>1, <2>2
<1>6. LogShape(m, h)
  BY <1>2, <1>3, <1>4, <1>5 DEF LogShape
<1> QED BY <1>1, <1>6

\* Every step of the chain keeps the shape of the log and pays for minted refs only.
LEMMA ShapeStep ==
  ASSUME TypeOK, FinalInv, LogShape(log, head), Minted, [Next]_vars
  PROVE  LogShape(log', head') /\ Minted'
<1>0. /\ log \in Seq(Event) /\ head \in Nat /\ Len(log) \in Nat /\ DOMAIN log = 1..Len(log)
      /\ \A i \in DOMAIN log : log[i] \in Event /\ log[i].block \in Nat
  BY Places
<1>a. \A r \in Refs : row[r].status # "unminted" => row'[r].status # "unminted"
  <2> SUFFICES ASSUME NEW r \in Refs, row[r].status # "unminted" PROVE row'[r].status # "unminted"
    OBVIOUS
  <2>1. Progresses(row[r], row'[r]) /\ row[r].status \in Statuses
    BY RowsProgress DEF FinalInv, Mirrored, Unpaid, TypeOK
  <2> QED BY <2>1 DEF Progresses, Statuses, Terminal
<1>b. ASSUME NEW n \in 0..Len(log), DOMAIN log' = 1..n, \A i \in 1..n : log'[i] = log[i], NEW h \in Nat, head <= h
      PROVE  LogShape(log', h) /\ Minted'
  <2>1. 1..n \subseteq DOMAIN log /\ \A i \in 1..n : 1..i \subseteq 1..n
    BY <1>0
  <2>2. \A i \in 1..n : log'[i].block <= h + 1
    BY <1>0, <1>b, <2>1 DEF LogShape
  <2>3. \A i, j \in 1..n : i <= j => log'[i].block <= log'[j].block
    BY <1>b, <2>1 DEF LogShape
  <2>4. \A i \in 1..n : log'[i].name \in Settled =>
          \E j \in 1..i : log'[j].name = "QuestionAsked" /\ log'[j].ref = log'[i].ref
    BY <1>b, <2>1 DEF LogShape
  <2>5. Minted'
    BY <1>a, <1>b, <2>1 DEF Minted
  <2> QED BY <1>b, <2>2, <2>3, <2>4, <2>5 DEF LogShape
<1>c. ASSUME NEW e \in Event, log' = Append(log, e), head' = head, e.block = head + 1,
             e.name \in Settled => \E i \in DOMAIN log : log[i].name = "QuestionAsked" /\ log[i].ref = e.ref,
             e.ref \in Refs => row[e.ref].status # "unminted"
      PROVE  LogShape(log', head') /\ Minted'
  <2>1. LogShape(log', head')
    BY <1>0, <1>c, ShapeGrows
  <2>2. /\ DOMAIN log' = 1..(Len(log) + 1) /\ log'[Len(log) + 1] = e
        /\ \A i \in 1..Len(log) : log'[i] = log[i]
    BY <1>0, <1>c
  <2>3. ASSUME NEW i \in DOMAIN log', log'[i].ref \in Refs PROVE row'[log'[i].ref].status # "unminted"
    <3>1. CASE i = Len(log) + 1
      BY <1>a, <1>c, <2>2, <2>3, <3>1
    <3>2. CASE i \in 1..Len(log)
      BY <1>0, <1>a, <2>2, <2>3, <3>2 DEF Minted
    <3> QED BY <1>0, <2>2, <3>1, <3>2
  <2> QED BY <2>1, <2>3 DEF Minted
<1>d. log' \in Seq(Event)
  BY TypeStep DEF TypeOK
<1>1. ASSUME NEW r \in Refs \cup Foreign, Ask(r) PROVE LogShape(log', head') /\ Minted'
  <2>1. PICK e : e = [name |-> "QuestionAsked", id |-> AskedCount + 1, ref |-> r, block |-> head + 1]
    OBVIOUS
  <2>2. /\ log' = Append(log, e) /\ head' = head /\ e.block = head + 1 /\ e.name = "QuestionAsked" /\ e.ref = r
        /\ r \in Refs => row[r].status # "unminted"
    BY <1>1, <2>1 DEF Ask, Emit
  <2>3. Len(log) + 1 \in DOMAIN log' /\ log'[Len(log) + 1] = e
    BY <1>0, <2>2
  <2>4. e \in Event
    BY <1>d, <2>3
  <2> QED BY <1>c, <2>2, <2>4 DEF Settled
<1>2. ASSUME NEW k \in DOMAIN log, NEW name \in Outcomes, SettleOnChain(log[k].id, name)
      PROVE  LogShape(log', head') /\ Minted'
  <2>1. PICK i \in EventsOf(log[k].id) :
          /\ \A j \in EventsOf(log[k].id) : log[j].name \notin Settled
          /\ Emit(name, log[k].id, log[i].ref)
    BY <1>2 DEF SettleOnChain
  <2>2. PICK e : e = [name |-> name, id |-> log[k].id, ref |-> log[i].ref, block |-> head + 1]
    OBVIOUS
  <2>3. log' = Append(log, e) /\ head' = head /\ e.block = head + 1 /\ e.ref = log[i].ref
    BY <2>1, <2>2 DEF Emit
  <2>4. Len(log) + 1 \in DOMAIN log' /\ log'[Len(log) + 1] = e
    BY <1>0, <2>3
  <2>5. e \in Event
    BY <1>d, <2>4
  <2>6. i \in DOMAIN log /\ log[i].name \in EventNames /\ log[i].name \notin Settled
    BY <1>0, <2>1 DEF EventsOf, Event
  <2>7. log[i].name = "QuestionAsked"
    BY <2>6 DEF EventNames
  <2> QED BY <1>c, <2>3, <2>5, <2>6, <2>7 DEF Minted
<1>3. ASSUME NEW depth \in 1..MaxReorg, Reorg(depth) PROVE LogShape(log', head') /\ Minted'
  <2>1. PICK n \in 0..Len(log) : log' = SubSeq(log, 1, n)
    BY <1>3 DEF Reorg
  <2>2. DOMAIN log' = 1..n /\ \A i \in 1..n : log'[i] = log[i]
    BY <1>0, <2>1, SubSeqProperties
  <2> QED BY <1>0, <1>3, <1>b, <2>2 DEF Reorg
<1>4. ASSUME log' = log, head' = head \/ head' = head + 1 PROVE LogShape(log', head') /\ Minted'
  <2>1. Len(log) \in 0..Len(log) /\ head' \in Nat /\ head <= head'
    BY <1>0, <1>4
  <2> QED BY <1>0, <1>4, <1>b, <2>1
<1>5. CASE Mine
  BY <1>4, <1>5 DEF Mine
<1>6. ASSUME ~ChainNext PROVE UNCHANGED chain
  BY <1>6 DEF Next, vars, DraftNext, createQuestion, Age,
       SweepNext, selectCandidates, deleteOrphans, abandonSweep, Delete,
       loadCursorBlock, Abort, PassStep, getFinalizedHead, getLogs, applyEvent, reveal, saveCursorBlock
<1> QED BY <1>1, <1>2, <1>3, <1>4, <1>5, <1>6 DEF ChainNext, chain

\* What settles a question gives it a terminal status.
LEMMA SettledIsTerminal ==
  ASSUME NEW n \in Settled
  PROVE  statusForEvent[n] \in Terminal /\ statusForEvent[n] # "open" /\ statusForEvent[n] # "pending_payment"
BY DEF Settled, statusForEvent, Terminal

\* Only a row's status and id say what it reflects.
LEMMA ReflectsAlike ==
  ASSUME NEW q, NEW s, s.status = q.status, s.onchainId = q.onchainId,
         NEW r, NEW l, NEW k, Reflects(q, r, l, k)
  PROVE  Reflects(s, r, l, k)
BY DEF Reflects

\* An event that was applied, once or by another pass, changes nothing: the
\* compare-and-set of reconcile.ts:112-153 misses.
LEMMA FoldAgain ==
  ASSUME NEW l \in Seq(Event), NEW h \in Nat, LogShape(l, h),
         NEW k \in 0..Len(l), NEW i \in 1..k, NEW q, Reflects(q, l[i].ref, l, k)
  PROVE  Fold(q, l[i]) = q
<1> DEFINE r == l[i].ref
<1>1. i \in DOMAIN l /\ l[i] \in Event /\ 1..i \subseteq 1..k /\ 1..k \subseteq DOMAIN l
  OBVIOUS
<1>2. l[i].name \in EventNames
  BY <1>1 DEF Event
<1>3. ASSUME SettledAt(l, r, k) # {} PROVE q.status \in Terminal /\ q.status # "open" /\ q.status # "pending_payment"
  <2>1. PICK j \in SettledAt(l, r, k) : q.status = statusForEvent[l[j].name]
    BY <1>3 DEF Reflects
  <2> QED BY <2>1, SettledIsTerminal DEF SettledAt
<1>4. CASE l[i].name = "QuestionAsked"
  <2>1. i \in AskedAt(l, r, k)
    BY <1>4 DEF AskedAt
  <2>2. q.status # "pending_payment"
    BY <1>3, <2>1 DEF Reflects
  <2> QED BY <1>4, <2>2 DEF Fold, Settled
<1>5. CASE l[i].name \in Settled
  <2>1. i \in SettledAt(l, r, k)
    BY <1>5 DEF SettledAt
  <2>2. l[i].name # "QuestionAsked"
    BY <1>5 DEF Settled
  <2> QED BY <1>3, <2>1, <2>2 DEF Fold
<1> QED BY <1>2, <1>4, <1>5 DEF EventNames

\* The next event takes its own row along.
LEMMA FoldNext ==
  ASSUME NEW l \in Seq(Event), NEW h \in Nat, LogShape(l, h), NEW k \in Nat, k + 1 \in DOMAIN l,
         NEW q \in [status : Statuses, onchainId : Nat, aged : BOOLEAN],
         Reflects(q, l[k + 1].ref, l, k)
  PROVE  Reflects(Fold(q, l[k + 1]), l[k + 1].ref, l, k + 1)
<1>1. PICK e : e = l[k + 1]
  OBVIOUS
<1>2. PICK r : r = e.ref
  OBVIOUS
<1>a. e \in Event
  BY <1>1
<1>3. e.name \in EventNames /\ "QuestionAsked" \notin Settled /\ 1..(k + 1) = 1..k \cup {k + 1}
  <2>1. e.name \in EventNames
    BY <1>a DEF Event
  <2>2. "QuestionAsked" \notin Settled
    BY DEF Settled
  <2>3. 1..(k + 1) = 1..k \cup {k + 1}
    OBVIOUS
  <2> QED BY <2>1, <2>2, <2>3
<1> DEFINE A == AskedAt(l, r, k)
           S == SettledAt(l, r, k)
<1>4. A \subseteq 1..k /\ S \subseteq 1..k /\ k + 1 \notin 1..k
  BY DEF AskedAt, SettledAt
<1>5. ASSUME SettledAt(l, r, k + 1) # {} PROVE AskedAt(l, r, k + 1) # {}
  <2>1. PICK i \in 1..(k + 1) : l[i].name \in Settled /\ l[i].ref = r
    BY <1>5 DEF SettledAt
  <2>2. i \in DOMAIN l
    OBVIOUS
  <2>3. PICK j \in 1..i : l[j].name = "QuestionAsked" /\ l[j].ref = r
    BY <2>1, <2>2 DEF LogShape
  <2>4. j \in 1..(k + 1)
    OBVIOUS
  <2> QED BY <2>3, <2>4 DEF AskedAt
<1>6. Reflects(q, r, l, k)
  BY <1>1, <1>2
<1>7. CASE e.name = "QuestionAsked"
  <2>1. AskedAt(l, r, k + 1) = A \cup {k + 1} /\ SettledAt(l, r, k + 1) = S
    BY <1>1, <1>2, <1>3, <1>7 DEF AskedAt, SettledAt
  <2>2. CASE A = {}
    <3>1. S = {}
      <4> SUFFICES ASSUME NEW i \in S PROVE FALSE
        OBVIOUS
      <4>1. i \in 1..k /\ i \in DOMAIN l /\ l[i].name \in Settled /\ l[i].ref = r /\ 1..i \subseteq 1..k
        BY <1>4 DEF SettledAt
      <4>2. PICK j \in 1..i : l[j].name = "QuestionAsked" /\ l[j].ref = r
        BY <4>1 DEF LogShape
      <4> QED BY <2>2, <4>1, <4>2 DEF AskedAt
    <3>2. q.status = "pending_payment"
      BY <1>6, <2>2 DEF Reflects
    <3>3. PICK s : s = Fold(q, e)
      OBVIOUS
    <3>4. s = [q EXCEPT !.status = "open", !.onchainId = e.id]
      BY <1>7, <3>2, <3>3 DEF Fold
    <3>5. s.status = "open" /\ s.onchainId = e.id
      BY <3>4
    <3>6. AskedAt(l, r, k + 1) = {k + 1} /\ SettledAt(l, r, k + 1) = {}
      BY <2>1, <2>2, <3>1
    <3>7. Reflects(s, r, l, k + 1)
      BY <1>1, <3>5, <3>6 DEF Reflects, FirstOf
    <3> QED BY <1>1, <1>2, <3>3, <3>7
  <2>3. CASE A # {}
    <3>1. q.status # "pending_payment"
      <4>1. CASE S = {}
        BY <1>6, <2>3, <4>1 DEF Reflects
      <4>2. CASE S # {}
        <5>1. PICK j \in S : q.status = statusForEvent[l[j].name]
          BY <1>6, <4>2 DEF Reflects
        <5> QED BY <5>1, SettledIsTerminal DEF SettledAt
      <4> QED BY <4>1, <4>2
    <3>2. Fold(q, e) = q
      BY <1>3, <1>7, <3>1 DEF Fold
    <3>3. PICK i \in A : FirstOf(A, i) /\ q.onchainId = l[i].id
      BY <1>6, <2>3 DEF Reflects
    <3>4. i <= k + 1
      BY <1>4
    <3>5. FirstOf(A \cup {k + 1}, i)
      BY <3>3, <3>4 DEF FirstOf
    <3>6. Reflects(q, r, l, k + 1)
      <4> HIDE DEF A, S
      <4>1. AskedAt(l, r, k + 1) # {} /\ A = AskedAt(l, r, k) /\ S = SettledAt(l, r, k)
        BY <2>1 DEF A, S
      <4> QED BY <1>6, <2>1, <2>3, <3>3, <3>5, <4>1 DEF Reflects
    <3> QED BY <1>1, <1>2, <3>2, <3>6
  <2> QED BY <2>2, <2>3
<1>8. CASE e.name \in Settled
  <2>1. AskedAt(l, r, k + 1) = A /\ SettledAt(l, r, k + 1) = S \cup {k + 1} /\ e.name # "QuestionAsked"
    BY <1>1, <1>2, <1>3, <1>8 DEF AskedAt, SettledAt
  <2>2. A # {}
    BY <1>5, <2>1
  <2>3. CASE S = {}
    <3>1. q.status = "open"
      BY <1>6, <2>2, <2>3 DEF Reflects
    <3>2. PICK s : s = Fold(q, e)
      OBVIOUS
    <3>3. s = [q EXCEPT !.status = statusForEvent[e.name]]
      BY <1>8, <2>1, <3>1, <3>2 DEF Fold
    <3>4. s.status = statusForEvent[e.name] /\ s.onchainId = q.onchainId
      BY <3>3
    <3>5. SettledAt(l, r, k + 1) = {k + 1}
      BY <2>1, <2>3
    <3>6. PICK i \in A : FirstOf(A, i) /\ q.onchainId = l[i].id
      BY <1>6, <2>2 DEF Reflects
    <3>7. Reflects(s, r, l, k + 1)
      <4> HIDE DEF A, S
      <4>1. FirstOf({k + 1}, k + 1)
        BY DEF FirstOf
      <4> QED BY <1>1, <2>1, <2>2, <3>4, <3>5, <3>6, <4>1 DEF Reflects
    <3> QED BY <1>1, <1>2, <3>2, <3>7
  <2>4. CASE S # {}
    <3>1. PICK i \in S : FirstOf(S, i) /\ q.status = statusForEvent[l[i].name]
      BY <1>6, <2>4 DEF Reflects
    <3>2. q.status # "open"
      BY <3>1, SettledIsTerminal DEF SettledAt
    <3>3. Fold(q, e) = q
      BY <2>1, <3>2 DEF Fold
    <3>4. i <= k + 1
      BY <1>4
    <3>5. FirstOf(S \cup {k + 1}, i)
      BY <3>1, <3>4 DEF FirstOf
    <3>6. Reflects(q, r, l, k + 1)
      <4> HIDE DEF A, S
      <4>1. A = AskedAt(l, r, k) /\ SettledAt(l, r, k + 1) # {}
        BY <2>1 DEF A
      <4> QED BY <1>6, <2>1, <2>2, <3>1, <3>5, <4>1 DEF Reflects
    <3> QED BY <1>1, <1>2, <3>3, <3>6
  <2> QED BY <2>3, <2>4
<1> QED BY <1>3, <1>7, <1>8 DEF EventNames

\* And says nothing of the others.
LEMMA FoldElsewhere ==
  ASSUME NEW l, NEW k \in Nat, NEW r, l[k + 1].ref # r, NEW q, Reflects(q, r, l, k)
  PROVE  Reflects(q, r, l, k + 1)
<1>1. 1..(k + 1) = 1..k \cup {k + 1}
  OBVIOUS
<1>2. AskedAt(l, r, k + 1) = AskedAt(l, r, k) /\ SettledAt(l, r, k + 1) = SettledAt(l, r, k)
  BY <1>1 DEF AskedAt, SettledAt
<1> QED BY <1>2 DEF Reflects
\* Whatever moves but the passes: the first k events still say what the rows are.
LEMMA SnapshotRests ==
  ASSUME TypeOK, FinalInv, SnapshotInv, MaxReorg <= confirmations,
         [Next]_vars, ChainNext \/ DraftNext \/ SweepNext \/ UNCHANGED vars,
         NEW k \in 0..Len(log), SnapshotAt(k)
  PROVE  k \in 0..Len(log') /\ SnapshotAt(k)'
<1>0. /\ log \in Seq(Event) /\ head \in Nat /\ cursor \in Nat /\ Len(log) \in Nat /\ k \in Nat
      /\ cursor + 1 \in Nat /\ cursor <= head
  BY Places DEF SnapshotInv
<1>1. cursor' = cursor /\ pass' = pass
  BY DEF ChainNext, Ask, SettleOnChain, Emit, Mine, Reorg, DraftNext, createQuestion, Age,
     SweepNext, selectCandidates, deleteOrphans, abandonSweep, Delete, worker, vars
<1>2. Carries(log, head, log', head') /\ head' \in Nat
  BY ChainCarries
<1>3. FinalTo(k, log', head') /\ (\A i \in 1..k : log'[i] = log[i]) /\ Covers(k, cursor' + 1, log')
  BY <1>0, <1>1, <1>2 DEF SnapshotAt, Carries
<1>4. ASSUME NEW p \in Passes PROVE Within(pass'[p], k, log', head')
  <2>1. pass[p] \in Pass /\ Within(pass[p], k, log, head)
    BY DEF TypeOK, SnapshotAt
  <2> QED BY <1>0, <1>1, <1>2, <2>1, WithinCarries
<1>5. ASSUME NEW r \in Refs, row'[r].status \notin {"unminted", "swept"}
      PROVE  Reflects(row'[r], r, log', k)
  <2>0. row[r] \in [status : Statuses, onchainId : Nat, aged : BOOLEAN] /\ Mirrored(r)
    BY DEF TypeOK, FinalInv
  <2>1. \/ row'[r] = row[r]
        \/ row[r].status = "unminted" /\ row'[r] = [row[r] EXCEPT !.status = "pending_payment"]
        \/ row[r].status = "pending_payment" /\ row'[r] = [row[r] EXCEPT !.aged = TRUE]
        \/ row'[r] = [row[r] EXCEPT !.status = "swept"]
    <3>1. CASE ChainNext \/ UNCHANGED vars
      BY <3>1 DEF ChainNext, Ask, SettleOnChain, Emit, Mine, Reorg, vars
    <3>2. CASE DraftNext
      BY <3>2 DEF DraftNext, createQuestion, Age, TypeOK
    <3>3. CASE SweepNext
      BY <3>3 DEF SweepNext, selectCandidates, deleteOrphans, abandonSweep, Delete
    <3> QED BY <3>1, <3>2, <3>3
  <2>2. ASSUME row[r].status \notin {"unminted", "swept"},
               row'[r].status = row[r].status, row'[r].onchainId = row[r].onchainId
        PROVE  Reflects(row'[r], r, log', k)
    <3>1. Reflects(row[r], r, log, k)
      BY <2>2 DEF SnapshotAt, Present
    <3>2. Reflects(row'[r], r, log, k)
      BY <2>2, <3>1, ReflectsAlike
    <3> QED BY <1>0, <1>3, <3>2, ReflectsCarries
  <2>3. CASE row'[r] = row[r]
    BY <1>5, <2>2, <2>3
  <2>4. CASE row[r].status = "unminted" /\ row'[r] = [row[r] EXCEPT !.status = "pending_payment"]
    <3>1. row'[r].status = "pending_payment" /\ row'[r].onchainId = NoId
      BY <2>0, <2>4 DEF Mirrored
    <3>2. 1..k \subseteq DOMAIN log
      BY <1>0
    <3>3. \A i \in 1..k : log[i].ref # r
      BY <2>4, <3>2 DEF SnapshotInv, Minted
    <3>4. AskedAt(log, r, k) = {} /\ SettledAt(log, r, k) = {}
      BY <3>3 DEF AskedAt, SettledAt
    <3>5. Reflects(row'[r], r, log, k)
      BY <3>1, <3>4 DEF Reflects
    <3> QED BY <1>0, <1>3, <3>5, ReflectsCarries
  <2>5. CASE row[r].status = "pending_payment" /\ row'[r] = [row[r] EXCEPT !.aged = TRUE]
    BY <2>0, <2>2, <2>5
  <2>6. CASE row'[r] = [row[r] EXCEPT !.status = "swept"]
    BY <1>5, <2>0, <2>6
  <2> QED BY <2>1, <2>3, <2>4, <2>5, <2>6
<1>6. k \in 0..Len(log')
  BY <1>3 DEF FinalTo
<1> QED BY <1>3, <1>4, <1>5, <1>6 DEF SnapshotAt, Present

\* If the one pass that moves stays within them, all do.
LEMMA OnePassWithin ==
  ASSUME TypeOK, NEW k, \A o \in Passes : Within(pass[o], k, log, head),
         NEW p \in Passes, NEW q, pass' = [pass EXCEPT ![p] = q], Within(q, k, log, head)
  PROVE  \A o \in Passes : Within(pass'[o], k, log, head)
BY DEF TypeOK

LEMMA IdleIsWithin == ASSUME NEW k, NEW l, NEW h PROVE Within(Idle, k, l, h)
BY DEF Within, Idle

\* What it takes for a pass that applies a chunk to be within the first k events.
LEMMA ChunkIsWithin ==
  ASSUME NEW q, NEW k, NEW l, NEW h, q.at = "apply", q.hi + confirmations <= h,
         NEW j \in 0..k, NEW n \in 0..Len(l), FinalTo(n, l, h), Covers(n, q.hi + 1, l),
         j <= n, Len(q.events) = n - j, \A i \in 1..(n - j) : q.events[i] = l[j + i]
  PROVE  Within(q, k, l, h)
BY DEF Within

\* The chunk a node answers with is a stretch of the log that begins within the first
\* k events, and with it everything up to its last block is known: MaxLag blocks
\* behind, a node still has mined them (chain.ts:39-58).
LEMMA ChunkWithin ==
  ASSUME TypeOK, FinalInv, SnapshotInv, MaxLag <= confirmations,
         NEW k \in 0..Len(log), SnapshotAt(k), NEW p \in Passes, getLogs(p)
  PROVE  \E q \in Pass : pass' = [pass EXCEPT ![p] = q] /\ Within(q, k, log, head)
<1>0. /\ log \in Seq(Event) /\ head \in Nat /\ Len(log) \in Nat /\ DOMAIN log = 1..Len(log)
      /\ \A i \in DOMAIN log : log[i].block \in Nat
      /\ confirmations \in Nat /\ MaxLag \in Nat /\ k \in Nat
  BY Places, IndexerAssumption
<1>1. /\ pass[p] \in Pass /\ pass[p].at = "fetch" /\ pass[p].lo \in Nat /\ pass[p].end \in Nat
      /\ pass[p].end + confirmations <= head
      /\ Within(pass[p], k, log, head)
  BY DEF TypeOK, Pass, FinalInv, Scanned, SnapshotAt, getLogs
<1>2. PICK hi : hi = bigMin(pass[p].end, pass[p].lo + getLogsRange - 1)
  OBVIOUS
<1>3. hi \in Nat /\ hi <= pass[p].end /\ hi + confirmations <= head
  <2>0. getLogsRange \in Nat \ {0}
    BY IndexerAssumption
  <2>1. pass[p].lo + getLogsRange - 1 \in Nat
    BY <1>1, <2>0
  <2>2. hi \in Nat /\ hi <= pass[p].end
    BY <1>1, <1>2, <2>1, Smaller
  <2> QED BY <1>0, <1>1, <2>2
<1>4. PICK h \in Views, m \in 0..Len(log) : \E n \in m..Len(log) :
        /\ \A i \in DOMAIN log : i \in (m + 1)..n <=> log[i].block \in pass[p].lo..hi /\ log[i].block <= h
        /\ pass' = [pass EXCEPT ![p] = [pass[p] EXCEPT !.at = "apply", !.hi = hi, !.events = SubSeq(log, m + 1, n)]]
  BY <1>2 DEF getLogs, normalizeLog
<1>5. PICK n \in m..Len(log) :
        /\ \A i \in DOMAIN log : i \in (m + 1)..n <=> log[i].block \in pass[p].lo..hi /\ log[i].block <= h
        /\ pass' = [pass EXCEPT ![p] = [pass[p] EXCEPT !.at = "apply", !.hi = hi, !.events = SubSeq(log, m + 1, n)]]
  BY <1>4
<1>6. hi <= h /\ h \in Nat
  BY <1>0, <1>3, <1>4 DEF Views
<1>7. \A i \in DOMAIN log : i \in (m + 1)..n <=> pass[p].lo <= log[i].block /\ log[i].block <= hi
  <2> SUFFICES ASSUME NEW i \in DOMAIN log
               PROVE  i \in (m + 1)..n <=> pass[p].lo <= log[i].block /\ log[i].block <= hi
    OBVIOUS
  <2>1. i \in (m + 1)..n <=> log[i].block \in pass[p].lo..hi /\ log[i].block <= h
    BY <1>5
  <2>2. /\ log[i].block \in Nat /\ pass[p].lo \in Nat /\ hi \in Nat /\ h \in Nat /\ hi <= h
    BY <1>0, <1>1, <1>3, <1>6
  <2> QED BY <2>1, <2>2
<1>8. PICK s : s = SubSeq(log, m + 1, n)
  OBVIOUS
<1>9. s \in Seq(Event) /\ Len(s) = n - m /\ \A i \in 1..(n - m) : s[i] = log[m + i]
  <2>1. m \in Nat /\ n \in Nat /\ m <= n /\ n <= Len(log)
    BY <1>0, <1>5
  <2>2. m + 1 \in Int /\ n \in Int /\ \A i \in (m + 1)..n : log[i] \in Event
    BY <1>0, <2>1
  <2>3. /\ s \in Seq(Event) /\ Len(s) = IF m + 1 <= n THEN n - (m + 1) + 1 ELSE 0
        /\ \A i \in 1..(n - (m + 1) + 1) : s[i] = log[(m + 1) + i - 1]
    BY <1>8, <2>2, SubSeqProperties
  <2>4. /\ n - (m + 1) + 1 = n - m /\ \A i \in Int : (m + 1) + i - 1 = m + i
        /\ n - m = IF m + 1 <= n THEN n - m ELSE 0
    BY <2>1
  <2> QED BY <2>3, <2>4
<1>10. PICK q : q = [pass[p] EXCEPT !.at = "apply", !.hi = hi, !.events = s]
  OBVIOUS
<1>11. q \in Pass
  BY <1>1, <1>3, <1>9, <1>10, Fetched
<1>12. q.at = "apply" /\ q.hi = hi /\ q.events = s
  BY <1>1, <1>10 DEF Pass
<1>13. FinalTo(k, log, head) /\ \A i \in DOMAIN log : log[i].block < pass[p].lo => i <= k
  BY <1>1 DEF SnapshotAt, Within, Covers
<1>14. \A i, j \in DOMAIN log : i <= j => log[i].block <= log[j].block
  BY DEF SnapshotInv, LogShape
<1>15. CASE m = n
  <2>1. Covers(k, hi + 1, log)
    <3> SUFFICES ASSUME NEW i \in DOMAIN log, log[i].block < hi + 1 PROVE i <= k
      BY DEF Covers
    <3>1. log[i].block <= hi /\ i \notin (m + 1)..n
      BY <1>0, <1>3, <1>15
    <3> QED BY <1>0, <1>1, <1>7, <1>13, <3>1
  <2>2. k \in 0..k /\ k <= k /\ Len(q.events) = k - k /\ \A i \in 1..(k - k) : q.events[i] = log[k + i]
    BY <1>0, <1>9, <1>12, <1>15
  <2>3. Within(q, k, log, head)
    <3>1. q.hi + confirmations <= head /\ FinalTo(k, log, head) /\ Covers(k, q.hi + 1, log)
      BY <1>3, <1>12, <1>13, <2>1
    <3>2. k \in 0..Len(log)
      OBVIOUS
    <3> QED BY <1>12, <2>2, <3>1, <3>2, ChunkIsWithin
  <2> QED BY <1>5, <1>8, <1>10, <1>11, <2>3
<1>16. CASE m < n
  <2>1. m \in Nat /\ n \in Nat /\ n \in 0..Len(log) /\ m + 1 \in DOMAIN log /\ n \in DOMAIN log
    BY <1>0, <1>16
  <2>2. m + 1 \in (m + 1)..n /\ n \in (m + 1)..n
    BY <1>16, <2>1
  <2>3. /\ pass[p].lo <= log[m + 1].block /\ log[m + 1].block <= hi
        /\ pass[p].lo <= log[n].block /\ log[n].block <= hi
    BY <1>7, <2>1, <2>2
  <2>4. m \in 0..k
    <3> SUFFICES ASSUME m # 0 PROVE m <= k
      BY <1>0, <2>1
    <3>1. m \in DOMAIN log /\ m \notin (m + 1)..n /\ m <= m + 1
      BY <1>0, <2>1
    <3>2. log[m].block <= log[m + 1].block
      BY <1>14, <2>1, <3>1
    <3>3. log[m].block <= hi
      BY <1>0, <1>3, <2>1, <2>3, <3>1, <3>2
    <3>4. log[m].block < pass[p].lo
      BY <1>0, <1>1, <1>7, <3>1, <3>3
    <3> QED BY <1>13, <3>1, <3>4
  <2>5. FinalTo(n, log, head)
    <3> SUFFICES ASSUME NEW i \in 1..n PROVE log[i].block + confirmations <= head
      BY <2>1 DEF FinalTo
    <3>1. i \in DOMAIN log /\ i <= n
      BY <1>0, <2>1
    <3>2. log[i].block <= log[n].block
      BY <1>14, <2>1, <3>1
    <3>3. log[i].block \in Nat /\ log[n].block \in Nat /\ log[n].block <= hi
      BY <1>0, <2>1, <2>3, <3>1
    <3>4. hi \in Nat /\ confirmations \in Nat /\ head \in Nat /\ hi + confirmations <= head
      BY <1>0, <1>3
    <3>5. log[n].block + confirmations <= head /\ confirmations <= confirmations
      BY <3>3, <3>4, Deeper
    <3> QED BY <3>2, <3>3, <3>4, <3>5, Deeper
  <2>6. Covers(n, hi + 1, log)
    <3> SUFFICES ASSUME NEW i \in DOMAIN log, log[i].block < hi + 1, n < i PROVE FALSE
      BY <1>0, <2>1 DEF Covers
    <3>1. n <= i /\ i \notin (m + 1)..n
      BY <1>0, <2>1
    <3>2. log[n].block <= log[i].block
      BY <1>14, <2>1, <3>1
    <3>3. log[i].block \in Nat /\ log[n].block \in Nat /\ pass[p].lo \in Nat /\ hi \in Nat
      BY <1>0, <1>1, <1>3, <2>1
    <3>4. pass[p].lo <= log[i].block
      BY <2>3, <3>2, <3>3
    <3>5. log[i].block <= hi
      BY <3>3
    <3> QED BY <1>7, <3>1, <3>4, <3>5
  <2>7. Within(q, k, log, head)
    <3>1. q.hi + confirmations <= head /\ FinalTo(n, log, head) /\ Covers(n, q.hi + 1, log)
      BY <1>3, <1>12, <2>5, <2>6
    <3>2. m <= n /\ Len(q.events) = n - m /\ \A i \in 1..(n - m) : q.events[i] = log[m + i]
      BY <1>9, <1>12, <1>16, <2>1
    <3> QED BY <1>12, <2>1, <2>4, <3>1, <3>2, ChunkIsWithin
  <2> QED BY <1>5, <1>8, <1>10, <1>11, <2>7
<1>17. m = n \/ m < n
  BY <1>0
<1> QED BY <1>15, <1>16, <1>17

\* One event is applied: either it was before, and nothing changes, or the first k
\* events become k + 1.  An event of a ref nobody minted changes nothing either way.
LEMMA ApplyWithin ==
  ASSUME TypeOK, SnapshotInv, NEW k \in 0..Len(log), SnapshotAt(k), NEW p \in Passes, applyEvent(p)
  PROVE  \E n \in 0..Len(log) : SnapshotAt(n)'
<1>0. /\ log \in Seq(Event) /\ head \in Nat /\ Len(log) \in Nat /\ DOMAIN log = 1..Len(log) /\ k \in Nat
      /\ log' = log /\ head' = head /\ cursor' = cursor
  <2>1. log' = log /\ head' = head /\ cursor' = cursor
    BY DEF applyEvent, chain
  <2>2. log \in Seq(Event) /\ head \in Nat /\ Len(log) \in Nat /\ DOMAIN log = 1..Len(log)
    BY Places
  <2> QED BY <2>1, <2>2
<1>1. pass[p] \in Pass /\ pass[p].at = "apply" /\ pass[p].events \in Seq(Event) /\ pass[p].events # << >>
      /\ Within(pass[p], k, log, head)
  BY DEF TypeOK, Pass, SnapshotAt, applyEvent
<1>2. PICK j \in 0..k, n \in 0..Len(log) :
        /\ FinalTo(n, log, head) /\ Covers(n, pass[p].hi + 1, log)
        /\ j <= n /\ Len(pass[p].events) = n - j
        /\ \A i \in 1..(n - j) : pass[p].events[i] = log[j + i]
  BY <1>1 DEF Within
<1>3. PICK e : e = Head(pass[p].events)
  OBVIOUS
<1>4. PICK t : t = Tail(pass[p].events)
  OBVIOUS
<1>5. j \in Nat /\ n \in Nat /\ j + 1 <= n /\ j + 1 \in DOMAIN log
  BY <1>0, <1>1, <1>2
<1>6. e = log[j + 1] /\ e \in Event
  <2>1. e = pass[p].events[1] /\ e \in Event
    BY <1>1, <1>3
  <2>2. 1 \in 1..(n - j)
    BY <1>5
  <2> QED BY <1>2, <2>1, <2>2
<1>7. /\ t \in Seq(Event) /\ Len(t) = n - (j + 1)
      /\ \A i \in 1..(n - (j + 1)) : t[i] = log[(j + 1) + i]
  <2>1. t \in Seq(Event) /\ Len(t) = Len(pass[p].events) - 1 /\ \A i \in 1..Len(t) : t[i] = pass[p].events[i + 1]
    BY <1>1, <1>4
  <2>2. Len(t) = n - (j + 1)
    BY <1>2, <1>5, <2>1
  <2>3. ASSUME NEW i \in 1..(n - (j + 1)) PROVE t[i] = log[(j + 1) + i]
    <3>1. i + 1 \in 1..(n - j) /\ j + (i + 1) = (j + 1) + i
      BY <1>5
    <3>2. t[i] = pass[p].events[i + 1]
      BY <2>1, <2>2
    <3>3. pass[p].events[i + 1] = log[j + (i + 1)]
      BY <1>2, <3>1
    <3> QED BY <3>1, <3>2, <3>3
  <2> QED BY <2>1, <2>2, <2>3
<1>8. LogShape(log, head)
  BY DEF SnapshotInv
<1>9. \A r \in Refs : row'[r] = IF e.ref = r THEN Fold(row[r], e) ELSE row[r]
  <2>1. e.ref \in Refs => e.ref # "none"
    BY IndexerAssumption
  <2>2. "none" \notin Refs
    BY IndexerAssumption
  <2>3. row' = IF tryRefToUuid(e.ref) = "none" THEN row
               ELSE [row EXCEPT ![tryRefToUuid(e.ref)] = Fold(row[tryRefToUuid(e.ref)], e)]
    BY <1>3 DEF applyEvent
  <2> QED BY <2>1, <2>2, <2>3 DEF tryRefToUuid, TypeOK
\* The moved pass, with j + 1 for j.
<1>10. ASSUME NEW g \in 0..Len(log), k <= g, j + 1 <= g PROVE \A o \in Passes : Within(pass'[o], g, log, head)
  <2>1. \E q : /\ pass' = [pass EXCEPT ![p] = q]
               /\ q.at \in {"apply", "reveal"} /\ q.hi = pass[p].hi /\ q.events = t
    <3> DEFINE rest == [pass[p] EXCEPT !.events = Tail(pass[p].events)]
               uuid == tryRefToUuid(Head(pass[p].events).ref)
    <3>1. rest \in Pass
      BY <1>1, <1>4, <1>7, PassFields
    <3>2. rest.at = "apply" /\ rest.hi = pass[p].hi /\ rest.events = t
      BY <1>1, <1>4 DEF Pass
    <3>3. \/ pass' = [pass EXCEPT ![p] = rest]
          \/ pass' = [pass EXCEPT ![p] = [rest EXCEPT !.at = "reveal", !.ref = uuid]]
      BY DEF applyEvent
    <3> HIDE DEF rest, uuid
    <3>4. PICK q : q = [rest EXCEPT !.at = "reveal", !.ref = uuid]
      OBVIOUS
    <3>5. q.at = "reveal" /\ q.hi = rest.hi /\ q.events = rest.events
      BY <3>1, <3>4 DEF Pass
    <3> QED BY <3>2, <3>3, <3>4, <3>5
  <2>a. PICK q : /\ pass' = [pass EXCEPT ![p] = q]
                 /\ q.at \in {"apply", "reveal"} /\ q.hi = pass[p].hi /\ q.events = t
    BY <2>1
  <2>2. Within(q, g, log, head)
    <3>1. j + 1 \in 0..g /\ pass[p].hi + confirmations <= head
      BY <1>1, <1>5, <1>10 DEF Within
    <3> QED BY <1>2, <1>5, <1>7, <2>a, <3>1 DEF Within
  <2>3. ASSUME NEW o \in Passes PROVE Within(pass[o], g, log, head)
    <3>1. pass[o] \in Pass /\ Within(pass[o], k, log, head)
      BY DEF TypeOK, SnapshotAt
    <3>2. \A b : Covers(k, b, log) => Covers(g, b, log)
      BY <1>0, <1>10 DEF Covers
    <3>3. 0..k \subseteq 0..g
      BY <1>0, <1>10
    <3> QED BY <3>1, <3>2, <3>3 DEF Within
  <2> QED BY <2>a, <2>2, <2>3, OnePassWithin
<1>11. CASE j + 1 <= k
  <2>1. \A r \in Refs : Present(r)' => Present(r) /\ row'[r] = row[r]
    <3> SUFFICES ASSUME NEW r \in Refs, e.ref = r PROVE Fold(row[r], e) = row[r]
      BY <1>9 DEF Present
    <3>1. CASE Present(r)
      <4>1. j + 1 \in 1..k /\ Reflects(row[r], log[j + 1].ref, log, k)
        BY <1>0, <1>5, <1>6, <1>11, <3>1 DEF SnapshotAt
      <4> QED BY <1>0, <1>6, <1>8, <4>1, FoldAgain
    <3>2. CASE ~Present(r)
      BY <3>2 DEF Present, Fold
    <3> QED BY <3>1, <3>2
  <2>2. \A o \in Passes : Within(pass'[o], k, log, head)
    BY <1>0, <1>10, <1>11
  <2> QED BY <1>0, <2>1, <2>2 DEF SnapshotAt
<1>12. CASE ~(j + 1 <= k)
  <2>1. j = k /\ k + 1 \in 0..Len(log) /\ k + 1 \in Nat /\ k + 1 \in DOMAIN log /\ k <= k + 1
    BY <1>0, <1>2, <1>5, <1>12
  <2>2. FinalTo(k + 1, log, head)
    <3>1. 1..(k + 1) \subseteq 1..n
      BY <1>5, <2>1
    <3> QED BY <1>2, <2>1, <3>1 DEF FinalTo
  <2>3. Covers(k + 1, cursor + 1, log)
    BY <1>0, <2>1 DEF SnapshotAt, Covers
  <2>4. \A o \in Passes : Within(pass'[o], k + 1, log, head)
    BY <1>10, <2>1
  <2>5. ASSUME NEW r \in Refs, Present(r)' PROVE Reflects(row'[r], r, log, k + 1)
    <3>0. row[r] \in [status : Statuses, onchainId : Nat, aged : BOOLEAN]
      BY DEF TypeOK
    <3>1. Present(r)
      BY <1>9, <2>5 DEF Present, Fold
    <3>2. Reflects(row[r], r, log, k)
      BY <3>1 DEF SnapshotAt
    <3>3. CASE e.ref = r
      BY <1>0, <1>6, <1>8, <1>9, <2>1, <3>0, <3>2, <3>3, FoldNext
    <3>4. CASE e.ref # r
      BY <1>0, <1>6, <1>9, <2>1, <3>2, <3>4, FoldElsewhere
    <3> QED BY <3>3, <3>4
  <2> QED BY <1>0, <2>1, <2>2, <2>3, <2>4, <2>5 DEF SnapshotAt
<1> QED BY <1>11, <1>12
\* A statement of a pass that writes no row: the pass goes on within the first k
\* events, and so does the cursor when it is that which is written.
LEMMA PassWithin ==
  ASSUME TypeOK, FinalInv, SnapshotInv, MaxLag <= confirmations,
         NEW k \in 0..Len(log), SnapshotAt(k), NEW p \in Passes,
         loadCursorBlock(p) \/ PassStep(p) \/ Abort(p), ~applyEvent(p)
  PROVE  cursor' <= head' /\ SnapshotAt(k)'
<1>0. /\ log \in Seq(Event) /\ head \in Nat /\ Len(log) \in Nat /\ cursor \in Nat /\ cursor <= head
      /\ k \in Nat /\ log' = log /\ head' = head /\ row' = row
  <2>1. log' = log /\ head' = head /\ row' = row
    BY DEF loadCursorBlock, Abort, PassStep, getFinalizedHead, getLogs, reveal, saveCursorBlock, chain
  <2> QED BY <2>1, Places DEF SnapshotInv
<1>1. pass[p] \in Pass /\ Within(pass[p], k, log, head) /\ \A o \in Passes : Within(pass[o], k, log, head)
  BY DEF TypeOK, SnapshotAt
<1>a. ASSUME cursor' \in Nat, cursor' <= head, Covers(k, cursor' + 1, log),
             \A o \in Passes : Within(pass'[o], k, log, head)
      PROVE  cursor' <= head' /\ SnapshotAt(k)'
  BY <1>0, <1>a DEF SnapshotAt, Present
<1>b. ASSUME cursor' = cursor, NEW q, pass' = [pass EXCEPT ![p] = q], Within(q, k, log, head)
      PROVE  cursor' <= head' /\ SnapshotAt(k)'
  <2>1. \A o \in Passes : Within(pass'[o], k, log, head)
    BY <1>1, <1>b, OnePassWithin
  <2> QED BY <1>0, <1>a, <1>b, <2>1 DEF SnapshotAt
<1>2. CASE loadCursorBlock(p)
  <2>1. PICK q : q = [Idle EXCEPT !.at = "head", !.lo = cursor + 1]
    OBVIOUS
  <2>2. q.at = "head" /\ q.lo = cursor + 1
    BY <2>1 DEF Idle
  <2>3. Within(q, k, log, head)
    BY <1>0, <2>2 DEF Within, SnapshotAt
  <2> QED BY <1>2, <1>b, <2>1, <2>3 DEF loadCursorBlock
<1>3. CASE getFinalizedHead(p)
  <2>1. PICK h \in Views : Plan(p, FinalizedHead(h))
    BY <1>3 DEF getFinalizedHead
  <2>2. PICK q : q = [pass[p] EXCEPT !.at = "fetch",
                                     !.end = bigMin(FinalizedHead(h), pass[p].lo + maxBlocksPerRun - 1)]
    OBVIOUS
  <2>3. q.at = "fetch" /\ q.lo = pass[p].lo
    BY <1>1, <2>2 DEF Pass
  <2>4. Within(q, k, log, head)
    BY <1>1, <1>3, <2>3 DEF Within, getFinalizedHead
  <2>5. pass' = [pass EXCEPT ![p] = q] \/ pass' = [pass EXCEPT ![p] = Idle]
    BY <2>1, <2>2 DEF Plan
  <2> QED BY <1>3, <1>b, <2>4, <2>5, IdleIsWithin DEF getFinalizedHead
<1>4. CASE getLogs(p)
  <2>1. PICK q \in Pass : pass' = [pass EXCEPT ![p] = q] /\ Within(q, k, log, head)
    BY <1>4, ChunkWithin
  <2> QED BY <1>4, <1>b, <2>1 DEF getLogs
<1>5. CASE reveal(p)
  <2>1. PICK q : q = [pass[p] EXCEPT !.at = "apply", !.ref = "none"]
    OBVIOUS
  <2>2. q.at = "apply" /\ q.hi = pass[p].hi /\ q.events = pass[p].events
    BY <1>1, <2>1 DEF Pass
  <2>3. Within(q, k, log, head)
    BY <1>1, <1>5, <2>2 DEF Within, reveal
  <2> QED BY <1>5, <1>b, <2>1, <2>3 DEF reveal
<1>6. CASE saveCursorBlock(p)
  <2>1. /\ pass[p].at = "apply" /\ pass[p].events = << >> /\ pass[p].hi \in Nat
        /\ pass[p].hi + confirmations <= head
    BY <1>1, <1>6 DEF Pass, saveCursorBlock, Within
  <2>2. pass[p].hi <= head
    BY <1>0, <2>1, IndexerAssumption
  <2>3. Covers(k, pass[p].hi + 1, log)
    <3>1. PICK j \in 0..k, n \in 0..Len(log) :
            Covers(n, pass[p].hi + 1, log) /\ j <= n /\ Len(pass[p].events) = n - j
      BY <1>1, <2>1 DEF Within
    <3>2. Len(pass[p].events) = 0
      BY <2>1
    <3>3. n <= k
      BY <1>0, <3>1, <3>2
    <3> QED BY <1>0, <3>1, <3>3, Places DEF Covers
  <2>4. cursor' = cursor \/ cursor' = pass[p].hi
    BY <1>6 DEF saveCursorBlock
  <2>5. cursor' \in Nat /\ cursor' <= head /\ Covers(k, cursor' + 1, log)
    BY <1>0, <2>1, <2>2, <2>3, <2>4 DEF SnapshotAt
  <2>6. PICK q : q = [pass[p] EXCEPT !.at = "fetch", !.lo = pass[p].hi + 1]
    OBVIOUS
  <2>7. q.at = "fetch" /\ q.lo = pass[p].hi + 1
    BY <1>1, <2>6 DEF Pass
  <2>8. Within(q, k, log, head)
    BY <1>0, <2>1, <2>2, <2>3, <2>7 DEF Within
  <2>9. pass' = [pass EXCEPT ![p] = q] \/ pass' = [pass EXCEPT ![p] = Idle]
    BY <1>6, <2>6 DEF saveCursorBlock, ChunkDone
  <2>10. \A o \in Passes : Within(pass'[o], k, log, head)
    BY <1>1, <2>8, <2>9, IdleIsWithin, OnePassWithin
  <2> QED BY <1>a, <2>5, <2>10
<1>7. CASE Abort(p)
  BY <1>7, <1>b, IdleIsWithin DEF Abort
<1> QED BY <1>2, <1>3, <1>4, <1>5, <1>6, <1>7 DEF PassStep

\* SnapshotInv is kept by every step.
LEMMA SnapshotStep ==
  ASSUME TypeOK, FinalInv, SnapshotInv, MaxReorg <= confirmations, MaxLag <= confirmations, [Next]_vars
  PROVE  SnapshotInv'
<1>1. LogShape(log', head') /\ Minted'
  BY ShapeStep DEF SnapshotInv
<1>2. PICK k \in 0..Len(log) : SnapshotAt(k)
  BY DEF SnapshotInv
<1>3. CASE ChainNext \/ DraftNext \/ SweepNext \/ UNCHANGED vars
  <2>1. k \in 0..Len(log') /\ SnapshotAt(k)'
    BY <1>2, <1>3, SnapshotRests
  <2>2. cursor' = cursor
    BY <1>3 DEF ChainNext, Ask, SettleOnChain, Emit, Mine, Reorg, DraftNext, createQuestion, Age,
       SweepNext, selectCandidates, deleteOrphans, abandonSweep, Delete, vars
  <2>3. head \in Nat /\ head' \in Nat /\ cursor \in Nat /\ head <= head'
    BY ChainCarries, Places DEF Carries
  <2>4. cursor' <= head'
    BY <2>2, <2>3 DEF SnapshotInv
  <2> QED BY <1>1, <2>1, <2>4 DEF SnapshotInv
<1>4. ASSUME NEW p \in Passes, applyEvent(p) PROVE SnapshotInv'
  <2>1. log' = log /\ head' = head /\ cursor' = cursor
    BY <1>4 DEF applyEvent, chain
  <2>2. PICK n \in 0..Len(log) : SnapshotAt(n)'
    BY <1>2, <1>4, ApplyWithin
  <2> QED BY <1>1, <2>1, <2>2 DEF SnapshotInv
<1>5. ASSUME NEW p \in Passes, loadCursorBlock(p) \/ PassStep(p) \/ Abort(p), ~applyEvent(p) PROVE SnapshotInv'
  <2>1. cursor' <= head' /\ SnapshotAt(k)'
    BY <1>2, <1>5, PassWithin
  <2>2. log' = log
    BY <1>5 DEF loadCursorBlock, Abort, PassStep, getFinalizedHead, getLogs, reveal, saveCursorBlock, chain
  <2> QED BY <1>1, <1>2, <2>1, <2>2 DEF SnapshotInv
<1> QED BY <1>3, <1>4, <1>5 DEF Next, PassStep

\* And holds to begin with.
LEMMA SnapshotStart == Init => SnapshotInv
<1> SUFFICES ASSUME Init PROVE SnapshotInv
  OBVIOUS
<1>1. log = << >> /\ Len(log) = 0 /\ DOMAIN log = {} /\ head = 0 /\ cursor = 0
  BY DEF Init
<1>2. LogShape(log, head) /\ Minted /\ cursor <= head
  BY <1>1 DEF LogShape, Minted
<1>3. FinalTo(0, log, head) /\ Covers(0, cursor + 1, log)
  BY <1>1 DEF FinalTo, Covers
<1>4. \A r \in Refs : ~Present(r)
  BY DEF Init, Present
<1>5. \A p \in Passes : Within(pass[p], 0, log, head)
  BY IdleIsWithin DEF Init
<1>6. SnapshotAt(0)
  BY <1>3, <1>4, <1>5 DEF SnapshotAt
<1> QED BY <1>1, <1>2, <1>6 DEF SnapshotInv

\* If they hold all there is up to a block, they are as many.
LEMMA Reached ==
  ASSUME TypeOK, NEW k \in 0..Len(log), Covers(k, cursor + 1, log)
  PROVE  k \in EventsUpTo(cursor)..Len(log)
<1> DEFINE S == {i \in DOMAIN log : log[i].block <= cursor}
<1>0. /\ Len(log) \in Nat /\ k \in Nat /\ DOMAIN log = 1..Len(log) /\ cursor \in Nat
      /\ \A i \in DOMAIN log : log[i].block \in Nat
  BY Places
<1>1. S \subseteq 1..k
  BY <1>0 DEF Covers
<1>2. IsFiniteSet(1..k) /\ Cardinality(1..k) = k
  <2>1. Cardinality(1..k) = IF 1 > k THEN 0 ELSE k - 1 + 1
    BY <1>0, FS_Interval
  <2>2. IsFiniteSet(1..k)
    BY <1>0, FS_Interval
  <2> QED BY <1>0, <2>1, <2>2
<1>3. Cardinality(S) <= Cardinality(1..k) /\ IsFiniteSet(S)
  BY <1>1, <1>2, FS_Subset
<1>4. Cardinality(S) \in Nat
  BY <1>3, FS_CardinalityType
<1>5. EventsUpTo(cursor) = Cardinality(S)
  BY DEF EventsUpTo
<1> HIDE DEF S
<1> QED BY <1>0, <1>2, <1>3, <1>4, <1>5

\* The k of SnapshotInv is the prefix of the property.
LEMMA SnapshotShows ==
  ASSUME TypeOK, SnapshotInv PROVE MirrorIsASnapshot
<1>1. PICK k \in 0..Len(log) : SnapshotAt(k)
  BY DEF SnapshotInv
<1>2. k \in EventsUpTo(cursor)..Len(log)
  BY <1>1, Reached DEF SnapshotAt
<1> QED BY <1>1, <1>2 DEF MirrorIsASnapshot, SnapshotAt

\* At every moment the rows that exist are together what some prefix of the log leaves
\* behind, and the prefix holds every event up to the cursor (MirrorIsASnapshot,
\* reconcile.ts:5-13): for any number of overlapping, failing and rescanning passes,
\* any number of payments per ref, any chunk and run sizes, as long as neither a
\* reorganisation nor a node's lag exceeds the confirmations.
THEOREM IndexerSnapshot ==
  ASSUME MaxReorg <= confirmations, MaxLag <= confirmations PROVE Spec => []MirrorIsASnapshot
<1>1. TypeOK /\ FinalInv /\ SnapshotInv /\ [Next]_vars => SnapshotInv'
  BY SnapshotStep
<1>2. TypeOK /\ SnapshotInv => MirrorIsASnapshot
  BY SnapshotShows
<1> QED BY <1>1, <1>2, SnapshotStart, IndexerTypes, IndexerFinality, PTL DEF Spec

\* The events up to a block, each with its place in the log.
UpTo(l, b) == {<<i, l[i]>> : i \in {j \in DOMAIN l : l[j].block <= b}}

\* What the cursor has passed is settled: it never moves back, and no step, neither the
\* making of a block nor its replacement, adds, removes or changes an event up to it.
\* So a pass that starts at the cursor misses nothing.
\* (saveCursorBlock:62-81, reconcile.ts:11-13)
NothingSlipsBehind == [][cursor <= cursor' /\ UpTo(log', cursor) = UpTo(log, cursor)]_vars

\* The cursor only moves forward.
LEMMA CursorForward ==
  ASSUME TypeOK, [Next]_vars PROVE cursor <= cursor'
<1>1. cursor \in Nat
  BY Places
<1>2. ASSUME NEW p \in Passes, saveCursorBlock(p) PROVE cursor <= cursor'
  <2>1. pass[p].hi \in Nat
    BY DEF TypeOK, Pass
  <2> QED BY <1>1, <1>2, <2>1 DEF saveCursorBlock
<1>3. ASSUME ChainNext PROVE cursor' = cursor
  BY <1>3 DEF ChainNext, Ask, SettleOnChain, Emit, Mine, Reorg
<1>4. ASSUME DraftNext \/ SweepNext PROVE cursor' = cursor
  BY <1>4 DEF DraftNext, createQuestion, Age, SweepNext, selectCandidates, deleteOrphans,
     abandonSweep, Delete
<1>5. ASSUME NEW p \in Passes, loadCursorBlock(p) \/ Abort(p) \/ PassStep(p), ~saveCursorBlock(p)
      PROVE  cursor' = cursor
  <2>1. loadCursorBlock(p) \/ Abort(p) => cursor' = cursor
    BY DEF loadCursorBlock, Abort
  <2>2. getFinalizedHead(p) => cursor' = cursor
    BY DEF getFinalizedHead
  <2>3. getLogs(p) => cursor' = cursor
    BY Zenon DEF getLogs
  <2>4. applyEvent(p) \/ reveal(p) => cursor' = cursor
    BY DEF applyEvent, reveal
  <2> QED BY <1>5, <2>1, <2>2, <2>3, <2>4 DEF PassStep
<1>6. UNCHANGED vars => cursor' = cursor
  BY DEF vars
<1>7. cursor' = cursor => cursor <= cursor'
  BY <1>1
<1> QED BY <1>2, <1>3, <1>4, <1>5, <1>6, <1>7 DEF Next

\* The events up to the cursor are among the first k, which no step touches.
LEMMA BehindStays ==
  ASSUME TypeOK, SnapshotInv, MaxReorg <= confirmations, [Next]_vars
  PROVE  UpTo(log', cursor) = UpTo(log, cursor)
<1>1. PICK k \in 0..Len(log) : FinalTo(k, log, head) /\ Covers(k, cursor + 1, log)
  BY DEF SnapshotInv, SnapshotAt
<1>2. /\ Carries(log, head, log', head') /\ cursor + 1 <= head + 1
      /\ cursor \in Nat /\ cursor + 1 \in Nat /\ k \in Nat
      /\ Len(log) \in Nat /\ DOMAIN log = 1..Len(log) /\ \A i \in DOMAIN log : log[i].block \in Nat
  BY ChainCarries, Places DEF SnapshotInv
<1>3. /\ Len(log') \in Nat /\ DOMAIN log' = 1..Len(log')
      /\ \A i \in DOMAIN log' : log'[i].block \in Nat
  <2>1. TypeOK'
    BY TypeStep
  <2>2. log' \in Seq(Event)
    BY <2>1 DEF TypeOK
  <2>3. /\ Len(log') \in Nat /\ DOMAIN log' = 1..Len(log')
        /\ \A i \in DOMAIN log' : log'[i] \in Event
    BY <2>2
  <2>4. \A e \in Event : e.block \in Nat
    BY DEF Event
  <2> QED BY <2>3, <2>4
<1>4. k \in 0..Len(log') /\ \A i \in 1..k : log'[i] = log[i]
  BY <1>1, <1>2 DEF Carries, FinalTo
<1>5. Covers(k, cursor + 1, log')
  BY <1>1, <1>2 DEF Carries
<1>6. \A i \in DOMAIN log : log[i].block <= cursor => i \in 1..k
  BY <1>1, <1>2 DEF Covers
<1>7. \A i \in DOMAIN log' : log'[i].block <= cursor => i \in 1..k
  BY <1>2, <1>3, <1>5 DEF Covers
<1>8. 1..k \subseteq DOMAIN log /\ 1..k \subseteq DOMAIN log'
  BY <1>2, <1>3, <1>4
<1>9. {j \in DOMAIN log' : log'[j].block <= cursor} = {j \in DOMAIN log : log[j].block <= cursor}
  BY <1>4, <1>6, <1>7, <1>8
<1> QED BY <1>4, <1>6, <1>9 DEF UpTo

\* Downtime is caught up without a gap: whatever lies at or before the saved cursor is
\* there for good, however the passes overlap and fail, as long as neither a
\* reorganisation nor a node's lag exceeds the confirmations (reconcile.ts:11-13).
THEOREM IndexerMissesNothing ==
  ASSUME MaxReorg <= confirmations, MaxLag <= confirmations PROVE Spec => NothingSlipsBehind
<1>1. TypeOK /\ FinalInv /\ SnapshotInv /\ [Next]_vars => SnapshotInv'
  BY SnapshotStep
<1>2. TypeOK /\ SnapshotInv /\ [Next]_vars =>
        [cursor <= cursor' /\ UpTo(log', cursor) = UpTo(log, cursor)]_vars
  BY CursorForward, BehindStays
<1> QED BY <1>1, <1>2, SnapshotStart, IndexerTypes, IndexerFinality, PTL DEF Spec, NothingSlipsBehind
=============================================================================
