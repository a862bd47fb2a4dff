---------------------------- MODULE PaywallProofs ----------------------------
(***************************************************************************)
(* Proofs about the Paywall, for any number of questions, saves and passes *)
(* and any confirmations that outlast reorganisations.                     *)
(*                                                                         *)
(* PaywallHolds relates what somebody was shown to a block of the chain,   *)
(* with a status read in between that may have changed since.  The proof   *)
(* goes by three facts: a question that is answered stays so, it became so *)
(* by a confirmed event (FinalInv of IndexerProofs), and every handler     *)
(* that has passed its check saw it answered (ApiInv).                     *)
(*                                                                         *)
(* The last section puts the indexer's own facts beside the API: its rows  *)
(* stay a snapshot of the chain and never regress (PaywallMirror).         *)
(***************************************************************************)
EXTENDS Paywall, IndexerProofs

\* The chain has a QuestionAnswered of the question's ref, for good.
AnsweredOnChain(r) == \E e \in Confirmed : e.ref = r /\ e.name = "QuestionAnswered"

\* What the handlers under way, the flags and the readers' eyes owe to the status.
ApiInv ==
  \A r \in Refs :
    /\ isPublic[r] \/ publishing[r] \/ viewing[r] \/ reading[r] = "unlocked" =>
         row[r].status = "answered"
    /\ answer[r].revealed => answer[r].body # 0 /\ row[r].status = "answered"
    /\ seen[r] # 0 => AnsweredOnChain(r)
    /\ saving[r] => answer[r].body < MaxSaves

PaywallInv == PaywallTypeOK /\ FinalInv /\ ApiInv

\* Neither the indexer nor the sweep takes an answered question back.
LEMMA AnsweredStays ==
  ASSUME TypeOK, FinalInv, [Next]_vars, NEW r \in Refs, row[r].status = "answered"
  PROVE  row'[r].status = "answered"
<1>1. Progresses(row[r], row'[r])
  BY RowsProgress DEF FinalInv, Mirrored, Unpaid
<1> QED BY <1>1 DEF Progresses

\* A question is answered only when the chain has it so for good.
LEMMA AnsweredIsFinal ==
  ASSUME FinalInv, NEW r \in Refs, row[r].status = "answered"
  PROVE  AnsweredOnChain(r)
<1>1. PICK e \in Confirmed : e.name \in Settled /\ e.ref = r /\ statusForEvent[e.name] = "answered"
  BY DEF FinalInv, Mirrored, Terminal
<1>2. e.name = "QuestionAnswered"
  BY <1>1 DEF Settled, statusForEvent
<1> QED BY <1>1, <1>2 DEF AnsweredOnChain

\* All the Workers can do to an answer: cascade with a swept draft, or reveal one
\* that is answered (reconcile.ts:156-162).
LEMMA AnswerMoves ==
  ASSUME TypeOK, FinalInv, [Next]_vars, NEW r \in Refs
  PROVE  \/ answer'[r] = answer[r]
         \/ orphaned(r) /\ answer'[r] = [body |-> 0, revealed |-> FALSE]
         \/ /\ row[r].status = "answered" /\ answer'[r].body = answer[r].body
            /\ answer'[r].revealed = (answer[r].revealed \/ answer[r].body # 0)
<1>1. CASE UNCHANGED vars
  BY <1>1 DEF vars
<1>2. CASE ChainNext
  BY <1>2 DEF ChainNext, Ask, SettleOnChain, Emit, Mine, Reorg
<1>3. CASE DraftNext
  BY <1>3 DEF DraftNext, createQuestion, Age
<1>4. CASE SweepNext
  BY <1>4 DEF SweepNext, selectCandidates, deleteOrphans, abandonSweep, Delete
<1>5. ASSUME NEW p \in Passes, loadCursorBlock(p) \/ Abort(p) \/ PassStep(p), ~reveal(p)
      PROVE  answer' = answer
  BY <1>5 DEF loadCursorBlock, Abort, PassStep, getFinalizedHead, getLogs, applyEvent, saveCursorBlock
<1>6. ASSUME NEW p \in Passes, reveal(p), answer'[r] # answer[r]
      PROVE  /\ row[r].status = "answered" /\ answer'[r].body = answer[r].body
             /\ answer'[r].revealed = (answer[r].revealed \/ answer[r].body # 0)
  <2>1. pass[p].ref \in Refs /\ row[pass[p].ref].status = "answered"
    BY <1>6 DEF reveal, FinalInv, Scanned
  <2>2. answer' = [answer EXCEPT ![pass[p].ref].revealed = answer[pass[p].ref].revealed \/ answer[pass[p].ref].body # 0]
    BY <1>6 DEF reveal
  <2>3. r = pass[p].ref
    BY <1>6, <2>1, <2>2 DEF TypeOK
  <2>4. answer[r] \in [body : Nat, revealed : BOOLEAN]
    BY DEF TypeOK
  <2> QED BY <2>1, <2>2, <2>3, <2>4 DEF TypeOK
<1> QED BY <1>1, <1>2, <1>3, <1>4, <1>5, <1>6 DEF Next

\* The chain, the drafts, the passes and the sweep keep the invariant.
LEMMA WorkerKeeps ==
  ASSUME PaywallInv, [Next]_vars, UNCHANGED api
  PROVE  PaywallInv'
<1>1. TypeOK' /\ FinalInv'
  <2>1. TypeOK /\ FinalInv
    BY DEF PaywallInv, PaywallTypeOK
  <2>2. FinalInv'
    BY <2>1, FinalStep, PaywallAssumption
  <2> QED BY <2>1, <2>2, TypeStep
<1>2. ASSUME NEW r \in Refs
      PROVE  /\ row[r].status = "answered" => row'[r].status = "answered"
             /\ AnsweredOnChain(r) => AnsweredOnChain(r)'
             /\ answer'[r].body <= answer[r].body
             /\ answer'[r].revealed => answer'[r].body # 0 /\ row'[r].status = "answered"
  <2>1. row[r].status = "answered" => row'[r].status = "answered"
    BY AnsweredStays DEF PaywallInv, PaywallTypeOK
  <2>2. AnsweredOnChain(r) => AnsweredOnChain(r)'
    BY FinalStays DEF AnsweredOnChain, PaywallInv, PaywallTypeOK
  <2>3. answer[r] \in [body : Nat, revealed : BOOLEAN]
    BY DEF PaywallInv, PaywallTypeOK, TypeOK
  <2>4. CASE answer'[r] = answer[r]
    BY <2>1, <2>2, <2>3, <2>4 DEF PaywallInv, ApiInv
  <2>5. CASE orphaned(r) /\ answer'[r] = [body |-> 0, revealed |-> FALSE]
    BY <2>1, <2>2, <2>3, <2>5
  <2>6. CASE /\ row[r].status = "answered" /\ answer'[r].body = answer[r].body
             /\ answer'[r].revealed = (answer[r].revealed \/ answer[r].body # 0)
    BY <2>1, <2>2, <2>3, <2>6 DEF PaywallInv, ApiInv
  <2> QED BY <2>4, <2>5, <2>6, AnswerMoves DEF PaywallInv, PaywallTypeOK
<1>3. \A r \in Refs : answer'[r].body \in Nat /\ answer[r].body \in Nat
  BY <1>1 DEF PaywallInv, PaywallTypeOK, TypeOK
<1>4. PaywallTypeOK'
  BY <1>1, <1>2, <1>3, PaywallAssumption DEF PaywallInv, PaywallTypeOK, api, requests
<1>5. ApiInv'
  BY <1>2, <1>3, PaywallAssumption DEF PaywallInv, ApiInv, api, requests
<1> QED BY <1>1, <1>4, <1>5 DEF PaywallInv

\* Saving an answer touches its body alone (answers.ts:44-52).
LEMMA SaveAdds ==
  ASSUME TypeOK, NEW r \in Refs, saveAnswer(r), NEW q \in Refs
  PROVE  /\ answer'[q] \in [body : Nat, revealed : BOOLEAN]
         /\ answer'[q].revealed = answer[q].revealed
         /\ answer'[q].body = answer[q].body \/ (q = r /\ answer'[q].body = answer[q].body + 1)
<1>1. answer[q] \in [body : Nat, revealed : BOOLEAN] /\ answer[q].body + 1 \in Nat
  BY DEF TypeOK
<1>2. answer' = answer \/ answer' = [answer EXCEPT ![r].body = answer[r].body + 1]
  BY DEF saveAnswer
<1>3. answer'[q] = answer[q] \/ (q = r /\ answer'[q] = [answer[q] EXCEPT !.body = answer[q].body + 1])
  BY <1>2 DEF TypeOK
<1> QED BY <1>1, <1>3

\* Every handler keeps the invariant.
LEMMA ApiKeeps ==
  ASSUME PaywallInv, ApiNext
  PROVE  PaywallInv'
<1>1. PICK r \in Refs :
        \/ checkAnswerable(r) \/ saveAnswer(r)
        \/ checkPublishable(r) \/ publish(r)
        \/ readQuestion(r) \/ readAnswer(r)
        \/ viewCard(r) \/ viewAnswer(r)
  BY DEF ApiNext
<1>2. UNCHANGED <<log, head, row, pass>>
  BY <1>1 DEF checkAnswerable, saveAnswer, checkPublishable, publish, readQuestion, readAnswer,
       viewCard, viewAnswer, vars, chain, worker
<1>3. FinalInv' /\ \A q \in Refs : AnsweredOnChain(q)' <=> AnsweredOnChain(q)
  BY <1>2 DEF PaywallInv, FinalInv, Scanned, Mirrored, Confirmed, AnsweredOnChain
<1>a. ASSUME UNCHANGED vars, PaywallTypeOK /\ ApiInv => PaywallTypeOK' /\ ApiInv' PROVE PaywallInv'
  BY <1>a, <1>3 DEF PaywallInv
<1>4. \A q \in Refs : answer[q] \in [body : Nat, revealed : BOOLEAN]
  BY DEF PaywallInv, PaywallTypeOK, TypeOK
<1>5. CASE checkAnswerable(r)
  BY <1>3, <1>4, <1>5, PaywallAssumption
     DEF checkAnswerable, PaywallInv, PaywallTypeOK, TypeOK, ApiInv, vars, chain, worker
<1>6. CASE saveAnswer(r)
  <2>1. answer' = answer \/ answer' = [answer EXCEPT ![r].body = answer[r].body + 1]
    BY <1>6 DEF saveAnswer
  <2>2. \A q \in Refs : /\ answer'[q] \in [body : Nat, revealed : BOOLEAN]
                        /\ answer'[q].revealed = answer[q].revealed
                        /\ answer'[q].body = answer[q].body \/ (q = r /\ answer'[q].body = answer[q].body + 1)
    BY <1>6, SaveAdds DEF PaywallInv, PaywallTypeOK
  <2>3. answer' \in [Refs -> [body : Nat, revealed : BOOLEAN]]
    BY <2>1, <2>2 DEF PaywallInv, PaywallTypeOK, TypeOK
  <2>4. TypeOK'
    BY <1>6, <2>3 DEF saveAnswer, PaywallInv, PaywallTypeOK, TypeOK, chain, worker
  <2>5. PaywallTypeOK'
    BY <1>4, <1>6, <2>2, <2>4, PaywallAssumption DEF saveAnswer, PaywallInv, PaywallTypeOK, ApiInv
  <2>6. ApiInv'
    BY <1>3, <1>4, <1>6, <2>2, PaywallAssumption DEF saveAnswer, PaywallInv, PaywallTypeOK, ApiInv
  <2> QED BY <1>3, <2>5, <2>6 DEF PaywallInv
<1>7. CASE checkPublishable(r)
  BY <1>3, <1>7 DEF checkPublishable, PaywallInv, PaywallTypeOK, TypeOK, ApiInv, vars, chain, worker
<1>8. CASE publish(r)
  BY <1>3, <1>8 DEF publish, PaywallInv, PaywallTypeOK, TypeOK, ApiInv, vars, chain, worker
<1>9. CASE readQuestion(r)
  BY <1>3, <1>9 DEF readQuestion, PaywallInv, PaywallTypeOK, TypeOK, ApiInv, vars, chain, worker
<1>b. ASSUME NEW body \in 0..MaxSaves, Show(r, body), body # 0 => AnsweredOnChain(r),
             UNCHANGED <<vars, saving, publishing, isPublic>>,
             \/ reading' = [reading EXCEPT ![r] = "idle"] /\ viewing' = viewing
             \/ viewing' = [viewing EXCEPT ![r] = FALSE] /\ reading' = reading
      PROVE  PaywallInv'
  <2>1. seen' \in [Refs -> 0..MaxSaves] /\ \A q \in Refs : seen'[q] # 0 => AnsweredOnChain(q)
    BY <1>b DEF Show, PaywallInv, PaywallTypeOK, ApiInv
  <2> QED BY <1>3, <1>b, <2>1 DEF PaywallInv, PaywallTypeOK, TypeOK, ApiInv, vars, chain, worker
<1>c. answer[r].body \in 0..MaxSaves /\ 0 \in 0..MaxSaves
  BY <1>4, PaywallAssumption DEF PaywallInv, PaywallTypeOK
<1>10. CASE readAnswer(r)
  <2>1. presentAnswer(r, reading[r] = "unlocked") \in 0..MaxSaves
    BY <1>c DEF presentAnswer
  <2>2. presentAnswer(r, reading[r] = "unlocked") # 0 => AnsweredOnChain(r)
    BY AnsweredIsFinal DEF presentAnswer, PaywallInv, ApiInv
  <2> QED BY <1>b, <1>10, <2>1, <2>2 DEF readAnswer
<1>11. CASE viewCard(r)
  BY <1>3, <1>11 DEF viewCard, PaywallInv, PaywallTypeOK, TypeOK, ApiInv, vars, chain, worker
<1>12. CASE viewAnswer(r)
  BY <1>b, <1>c, <1>12, AnsweredIsFinal DEF viewAnswer, PaywallInv, ApiInv
<1> QED BY <1>1, <1>5, <1>6, <1>7, <1>8, <1>9, <1>10, <1>11, <1>12

\* The invariant holds in every reachable state of any Paywall.
THEOREM PaywallInvariant == PaywallSpec => []PaywallInv
<1>1. PaywallInit => PaywallInv
  <2> SUFFICES ASSUME PaywallInit PROVE PaywallInv
    OBVIOUS
  <2>1. TypeOK /\ FinalInv
    BY TypeStart, FinalStart DEF PaywallInit
  <2>2. \A r \in Refs : answer[r].body = 0 /\ ~answer[r].revealed
    BY DEF PaywallInit, Init
  <2> QED BY <2>1, <2>2, PaywallAssumption DEF PaywallInit, PaywallInv, PaywallTypeOK, ApiInv
<1>2. PaywallInv /\ [PaywallNext]_paywallVars => PaywallInv'
  BY WorkerKeeps, ApiKeeps DEF PaywallNext, paywallVars
<1> QED BY <1>1, <1>2, PTL DEF PaywallSpec

\* Types of the database and of the requests (PaywallTypeOK).
THEOREM PaywallTypes == PaywallSpec => []PaywallTypeOK
<1>1. PaywallInv => PaywallTypeOK
  BY DEF PaywallInv
<1> QED BY <1>1, PaywallInvariant, PTL

\* Nobody but its author is shown an answer before the chain has a QuestionAnswered of
\* the question's ref in a block that stays (PaywallHolds).
THEOREM PaywallUnlocks == PaywallSpec => []PaywallHolds
<1>1. PaywallInv => PaywallHolds
  BY DEF PaywallInv, ApiInv, AnsweredOnChain, Confirmed, PaywallHolds
<1> QED BY <1>1, PaywallInvariant, PTL

\* Public cards and revealed answers belong to answered questions
\* (PublishedOnlyAnswered).
THEOREM PaywallPublishes == PaywallSpec => []PublishedOnlyAnswered
<1>1. PaywallInv => PublishedOnlyAnswered
  BY DEF PaywallInv, ApiInv, PublishedOnlyAnswered
<1> QED BY <1>1, PaywallInvariant, PTL

\* A revealed answer stays revealed, whatever save was under way (RevealIsForever).
THEOREM PaywallReveals == PaywallSpec => RevealIsForever
<1>1. PaywallInv /\ [PaywallNext]_paywallVars =>
        [\A r \in Refs : answer[r].revealed => answer'[r].revealed]_answer
  <2> SUFFICES ASSUME PaywallInv, [PaywallNext]_paywallVars, NEW r \in Refs, answer[r].revealed
               PROVE  answer'[r].revealed
    OBVIOUS
  <2>1. CASE [Next]_vars
    <3>1. ~orphaned(r)
      BY DEF PaywallInv, ApiInv, orphaned
    <3> QED BY <2>1, <3>1, AnswerMoves DEF PaywallInv, PaywallTypeOK
  <2>2. CASE ApiNext
    BY <2>2, SaveAdds DEF ApiNext, checkAnswerable, checkPublishable, publish, readQuestion,
         readAnswer, viewCard, viewAnswer, vars, PaywallInv, PaywallTypeOK, TypeOK
  <2> QED BY <2>1, <2>2 DEF PaywallNext, paywallVars
<1> QED BY <1>1, PaywallInvariant, PTL DEF PaywallSpec, RevealIsForever

-----------------------------------------------------------------------------
(* The mirror, with the API at work on the same database *)

\* A handler writes bodies, flags and cards, and none of what the mirror is made of.
LEMMA ApiLeavesMirror ==
  ASSUME ApiNext PROVE UNCHANGED <<chain, row, cursor, worker>>
BY DEF ApiNext, checkAnswerable, saveAnswer, checkPublishable, publish, readQuestion, readAnswer,
       viewCard, viewAnswer, vars

\* What the indexer promises alone it keeps beside the API: the rows are a snapshot
\* of the chain at every moment and never regress (MirrorIsASnapshot, NeverRegress),
\* whatever handlers run between the statements of its passes.
THEOREM PaywallMirror ==
  ASSUME MaxLag <= confirmations PROVE PaywallSpec => []MirrorIsASnapshot /\ NeverRegress
<1>1. PaywallInit => SnapshotInv /\ Unpaid
  BY SnapshotStart DEF PaywallInit, Init, Unpaid
<1>2. PaywallInv /\ SnapshotInv /\ [PaywallNext]_paywallVars => SnapshotInv'
  <2> SUFFICES ASSUME PaywallInv, SnapshotInv, [PaywallNext]_paywallVars PROVE SnapshotInv'
    OBVIOUS
  <2>1. CASE [Next]_vars
    BY <2>1, SnapshotStep, PaywallAssumption DEF PaywallInv, PaywallTypeOK
  <2>2. CASE ApiNext
    <3>1. UNCHANGED <<log, head, row, cursor, pass>>
      BY <2>2, ApiLeavesMirror DEF chain, worker
    <3> QED BY <3>1 DEF SnapshotInv, SnapshotAt, Minted, Present
  <2> QED BY <2>1, <2>2 DEF PaywallNext, paywallVars
<1>3. PaywallInv /\ Unpaid /\ [PaywallNext]_paywallVars =>
        Unpaid' /\ [\A r \in Refs : Progresses(row[r], row'[r])]_row
  <2> SUFFICES ASSUME PaywallInv, Unpaid, [PaywallNext]_paywallVars
               PROVE  Unpaid' /\ [\A r \in Refs : Progresses(row[r], row'[r])]_row
    OBVIOUS
  <2>1. CASE [Next]_vars
    BY <2>1, RowsProgress DEF Unpaid, PaywallInv, PaywallTypeOK
  <2>2. CASE ApiNext
    BY <2>2, ApiLeavesMirror DEF Unpaid
  <2> QED BY <2>1, <2>2 DEF PaywallNext, paywallVars
<1>4. PaywallInv /\ SnapshotInv => MirrorIsASnapshot
  BY SnapshotShows DEF PaywallInv, PaywallTypeOK
<1> QED BY <1>1, <1>2, <1>3, <1>4, PaywallInvariant, PTL DEF PaywallSpec, NeverRegress
=============================================================================
