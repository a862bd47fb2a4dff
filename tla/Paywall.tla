------------------------------ MODULE Paywall ------------------------------
(***************************************************************************)
(* The API Worker's side of the paywall, workers/api/src/routes: the       *)
(* answerer saves a hidden answer, publishes the card once the question is *)
(* answered, and the asker and the public read them.  It shares the        *)
(* database with the indexer of Indexer.tla, whose steps interleave with   *)
(* every handler between its statements.                                   *)
(*                                                                         *)
(* Requests are from the participant who passes the handler's checks of    *)
(* the session wallet; the others end before any state is read or written. *)
(***************************************************************************)
EXTENDS Indexer

CONSTANT MaxSaves   \* bound: versions of one answer's body

\* The confirmations are chosen to outlast the reorganisations of the chain.
ASSUME PaywallAssumption == MaxSaves \in Nat /\ MaxReorg <= confirmations

VARIABLES
  saving,       \* POST /questions/:id/answer: has it passed its status check?
  publishing,   \* POST /questions/:id/publish: has it passed its status check?
  reading,      \* GET by the asker: what the question's status allowed it
  viewing,      \* GET /p/:id: has it passed its checks?
  isPublic,     \* database: questions.is_public
  seen          \* latest body shown to someone who is not its author, 0 if none

requests == <<saving, publishing, reading, viewing>>
api == <<requests, isPublic, seen>>
paywallVars == <<vars, api>>

PaywallTypeOK ==
  /\ TypeOK
  /\ \A r \in Refs : answer[r].body <= MaxSaves
  /\ saving \in [Refs -> BOOLEAN]
  /\ publishing \in [Refs -> BOOLEAN]
  /\ reading \in [Refs -> {"idle", "locked", "unlocked"}]
  /\ viewing \in [Refs -> BOOLEAN]
  /\ isPublic \in [Refs -> BOOLEAN]
  /\ seen \in [Refs -> 0..MaxSaves]

PaywallInit ==
  /\ Init
  /\ saving = [r \in Refs |-> FALSE]
  /\ publishing = [r \in Refs |-> FALSE]
  /\ reading = [r \in Refs |-> "idle"]
  /\ viewing = [r \in Refs |-> FALSE]
  /\ isPublic = [r \in Refs |-> FALSE]
  /\ seen = [r \in Refs |-> 0]

Exists(r) == row[r].status \notin {"unminted", "swept"}

-----------------------------------------------------------------------------
(* POST /questions/:id/answer *)

\* The question is read: 404 if it is gone, 409 once it is answered.
checkAnswerable(r) ==
  /\ ~saving[r]
  /\ Exists(r) /\ row[r].status # "answered"
  /\ answer[r].body < MaxSaves
  /\ saving' = [saving EXCEPT ![r] = TRUE]
  /\ UNCHANGED <<vars, publishing, reading, viewing, isPublic, seen>>

saveAnswer_deletesFirst(r) ==
  /\ saving[r]
  /\ saving' = [saving EXCEPT ![r] = FALSE]
  /\ answer' = IF Exists(r)
               THEN [answer EXCEPT ![r] = [body |-> @.body + 1, revealed |-> FALSE]]
               ELSE answer
  /\ UNCHANGED <<chain, row, cursor, worker, publishing, reading, viewing, isPublic, seen>>

\* The upsert: a new row is hidden, an old one keeps its revealed_at.  The
\* foreign key refuses the row of a question that was swept meanwhile.
saveAnswer(r) ==
  /\ saving[r]
  /\ saving' = [saving EXCEPT ![r] = FALSE]
  /\ answer' = IF Exists(r)
               THEN [answer EXCEPT ![r].body = @ + 1]
               ELSE answer
  /\ UNCHANGED <<chain, row, cursor, worker, publishing, reading, viewing, isPublic, seen>>

-----------------------------------------------------------------------------
(* POST /questions/:id/publish *)

checkPublishable_anyStatus(r) ==
  /\ ~publishing[r]
  /\ Exists(r)
  /\ publishing' = [publishing EXCEPT ![r] = TRUE]
  /\ UNCHANGED <<vars, saving, reading, viewing, isPublic, seen>>

checkPublishable(r) ==
  /\ ~publishing[r]
  /\ row[r].status = "answered"
  /\ publishing' = [publishing EXCEPT ![r] = TRUE]
  /\ UNCHANGED <<vars, saving, reading, viewing, isPublic, seen>>

publish(r) ==
  /\ publishing[r]
  /\ publishing' = [publishing EXCEPT ![r] = FALSE]
  /\ isPublic' = [isPublic EXCEPT ![r] = @ \/ Exists(r)]
  /\ UNCHANGED <<vars, saving, reading, viewing, seen>>

-----------------------------------------------------------------------------
(* GET /questions/:id by the asker, GET /p/:id by anyone: one SELECT of the *)
(* question decides, a second one fetches the answer.                       *)

readQuestion_open(r) ==
  /\ reading[r] = "idle"
  /\ Exists(r)
  /\ reading' = [reading EXCEPT ![r] =
       IF row[r].status \in Terminal THEN "unlocked" ELSE "locked"]
  /\ UNCHANGED <<vars, saving, publishing, viewing, isPublic, seen>>

readQuestion(r) ==
  /\ reading[r] = "idle"
  /\ Exists(r)
  /\ reading' = [reading EXCEPT ![r] =
       IF row[r].status = "answered" THEN "unlocked" ELSE "locked"]
  /\ UNCHANGED <<vars, saving, publishing, viewing, isPublic, seen>>

\* The body, withheld unless canSeeAnswerBody; 0 when there is none to show.
presentAnswer(r, canSeeBody) == IF canSeeBody THEN answer[r].body ELSE 0
Show(r, body) == seen' = IF body # 0 THEN [seen EXCEPT ![r] = body] ELSE seen

readAnswer(r) ==
  /\ reading[r] # "idle"
  /\ reading' = [reading EXCEPT ![r] = "idle"]
  /\ Show(r, presentAnswer(r, reading[r] = "unlocked"))
  /\ UNCHANGED <<vars, saving, publishing, viewing, isPublic>>

viewCard(r) ==
  /\ ~viewing[r]
  /\ isPublic[r] /\ row[r].status = "answered"
  /\ viewing' = [viewing EXCEPT ![r] = TRUE]
  /\ UNCHANGED <<vars, saving, publishing, reading, isPublic, seen>>

viewAnswer(r) ==
  /\ viewing[r]
  /\ viewing' = [viewing EXCEPT ![r] = FALSE]
  /\ Show(r, answer[r].body)
  /\ UNCHANGED <<vars, saving, publishing, reading, isPublic>>

-----------------------------------------------------------------------------
ApiNext ==
  \E r \in Refs :
    \/ checkAnswerable(r) \/ saveAnswer(r)
    \/ checkPublishable(r) \/ publish(r)
    \/ readQuestion(r) \/ readAnswer(r)
    \/ viewCard(r) \/ viewAnswer(r)

PaywallNext == (Next /\ UNCHANGED api) \/ ApiNext

PaywallSpec == PaywallInit /\ [][PaywallNext]_paywallVars

\* As for the indexer alone: passes keep being started and go on.
PaywallFairSpec ==
  PaywallSpec /\ \A p \in Passes :
    WF_paywallVars(loadCursorBlock(p) /\ UNCHANGED api) /\ WF_paywallVars(PassStep(p) /\ UNCHANGED api)

-----------------------------------------------------------------------------
(* Properties *)

\* The paywall: nobody but its author has been shown an answer, in the inbox or on
\* the public card, unless the chain has a QuestionAnswered with the question's ref,
\* in a block no reorganisation can replace (lib/question.ts:2-5,
\* routes/questions.ts:126-128).  Which on-chain question of that ref it settles, whom
\* that one pays and how much, the indexer does not compare with the row
\* (reconcile.ts:109-153), so this does not say that the answerer was paid his price.
PaywallHolds ==
  \A r \in Refs :
    seen[r] # 0 =>
      \E i \in DOMAIN log : /\ log[i].ref = r /\ log[i].name = "QuestionAnswered"
                            /\ log[i].block + MaxReorg <= head

\* A card is public only when it is answered, although the status was read before
\* the flag is written (routes/questions.ts:146-147, schema.ts:118), and what the
\* reveal marked is the answer of an answered question.
PublishedOnlyAnswered ==
  \A r \in Refs :
    /\ isPublic[r] => row[r].status = "answered"
    /\ answer[r].revealed => answer[r].body # 0 /\ row[r].status = "answered"

\* What the indexer revealed stays revealed, whatever save was under way
\* (answers.ts:7-9, this route never sets revealed_at).
RevealIsForever == [][\A r \in Refs : answer[r].revealed => answer'[r].revealed]_answer

\* answers.ts:39: once answered the body is locked.
LockedOnceAnswered ==
  [][\A r \in Refs : row[r].status = "answered" => answer'[r].body = answer[r].body]_answer

\* reconcile.ts:157: the answered event reveals the answer, if one exists, and
\* crash-safety (reconcile.ts:11-13) would have it so when the pass is cut off between
\* the two updates as well, since the next one rescans the chunk.
AnswerGetsRevealed ==
  \A r \in Refs, p \in Passes :
    pass[p].at = "reveal" /\ pass[p].ref = r /\ answer[r].body # 0 ~> answer[r].revealed
=============================================================================
