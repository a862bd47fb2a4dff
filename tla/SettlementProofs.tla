-------------------------- MODULE SettlementProofs --------------------------
(***************************************************************************)
(* What a page shows of a settlement, and what the chain has of it, for    *)
(* every number of attempts and unmined transactions.                      *)
(*                                                                         *)
(* The invariant SettleInv says of every attempt what it has saved, sent   *)
(* and seen mined (Sound), and that the one that holds the token of its    *)
(* hook is on screen (OnScreen).  The proof goes by what an attempt can do *)
(* to the rest: begin, move on, be mined, be abandoned (Begins, Moves,     *)
(* Mined, Abandons), or nothing (BrowserRests).                            *)
(***************************************************************************)
EXTENDS Settlement, TLAPS

\* The indexer copies the outcome, and nothing is owed before there is one.
Copied ==
  /\ row # "open" => row = outcome
  /\ outcome = "open" => credit = "none"

\* An attempt is the participant's own; one that has sent an answer has saved its
\* body, a transaction that was mined did what it says, and only such a one, or one
\* that was replaced, is polled for.
Sound(q) ==
  /\ q.at # "off" => q.kind \in Actions(role) \cup {"withdraw"}
  /\ q.kind = "answer" /\ q.at \notin {"off", "preflight"} => saved
  /\ q.tx # "none" => q.at \notin {"off", "preflight"}
  /\ q.tx = "success" => IF q.kind = "withdraw" THEN credit = "paid" ELSE outcome = q.kind
  /\ q.at = "indexLoop" => q.tx \in {"success", "replaced"} /\ q.kind # "withdraw"

\* The attempt that holds the token is on screen.
OnScreen(q) == q.current /\ q.at # "off" => hook[q.kind].step # "idle"

SettleInv ==
  /\ SettlementTypeOK
  /\ Copied
  /\ \A s \in Runs : Sound(run[s]) /\ OnScreen(run[s])
  /\ AnsweredHasBody
  /\ SettledIsMine
  /\ OneActionShown

\* Sound in the next state, of an attempt that need not be there in this one.
SoundNext(q) ==
  /\ q.at # "off" => q.kind \in Actions(role') \cup {"withdraw"}
  /\ q.kind = "answer" /\ q.at \notin {"off", "preflight"} => saved'
  /\ q.tx # "none" => q.at \notin {"off", "preflight"}
  /\ q.tx = "success" => IF q.kind = "withdraw" THEN credit' = "paid" ELSE outcome' = q.kind
  /\ q.at = "indexLoop" => q.tx \in {"success", "replaced"} /\ q.kind # "withdraw"

OnScreenNext(q) == q.current /\ q.at # "off" => hook'[q.kind].step # "idle"

\* What a phase shown in the next state claims of the action whose hook is in it.
Truthful(k, phase) ==
  /\ k \in SettleKind /\ phase.step \in {"indexing", "confirmed"} =>
       phase.replaced \/ outcome' = k
  /\ k \in SettleKind /\ phase.step = "confirmed" => phase.status = outcome'
  /\ k = "withdraw" /\ phase.step = "success" => phase.replaced \/ credit' = "paid"

-----------------------------------------------------------------------------
(* Types *)

\* A phase that is not a confirmation is one a hook can be in.
LEMMA PhaseHolds == ASSUME NEW step \in Phases \ {"confirmed"} PROVE Phase(step) \in Shown
BY DEF Phase, Shown

\* An attempt that changes one field is an attempt.
LEMMA AttemptFields ==
  ASSUME NEW q \in Attempt
  PROVE  /\ Off \in Attempt
         /\ \A c \in BOOLEAN : [q EXCEPT !.current = c] \in Attempt
         /\ \A at \in {"simulate", "prompt", "receipt", "indexLoop", "mining"} :
              [q EXCEPT !.at = at] \in Attempt
         /\ \A tx \in {"inflight", "success", "reverted", "replaced"} : [q EXCEPT !.tx = tx] \in Attempt
<1>1. Off \in Attempt
  BY DEF Attempt, Off, Kinds, SettleKind
<1>2. ASSUME NEW c \in BOOLEAN PROVE [q EXCEPT !.current = c] \in Attempt
  BY DEF Attempt
<1>3. ASSUME NEW at \in {"simulate", "prompt", "receipt", "indexLoop", "mining"}
      PROVE  [q EXCEPT !.at = at] \in Attempt
  BY DEF Attempt
<1>4. ASSUME NEW tx \in {"inflight", "success", "reverted", "replaced"}
      PROVE  [q EXCEPT !.tx = tx] \in Attempt
  BY DEF Attempt
<1>. QED  BY <1>1, <1>2, <1>3, <1>4

\* Abandoning keeps attempts attempts.
LEMMA AbandonHolds ==
  ASSUME SettlementTypeOK, NEW K
  PROVE  Abandon(K) \in [Runs -> Attempt]
<1>1. ASSUME NEW s \in Runs PROVE [run[s] EXCEPT !.current = @ /\ run[s].kind \notin K] \in Attempt
  <2>1. run[s] \in Attempt /\ run[s].current \in BOOLEAN
    BY DEF SettlementTypeOK, Attempt
  <2>. QED  BY <2>1, AttemptFields
<1>. QED  BY <1>1 DEF Abandon

\* Starting an attempt keeps the types.
LEMMA BeginHolds ==
  ASSUME SettlementTypeOK, NEW s \in Runs, NEW k \in Kinds, NEW resets, Begin(s, k, resets)
  PROVE  /\ run' \in [Runs -> Attempt]
         /\ hook' \in [Kinds -> Shown]
         /\ offered' \in {"cancel", "reclaim"}
<1>1. Abandon({k} \cup resets) \in [Runs -> Attempt]
  BY AbandonHolds
<1>2. [Off EXCEPT !.at = IF k = "answer" THEN "preflight" ELSE "simulate",
                  !.kind = k, !.current = TRUE] \in Attempt
  BY DEF Attempt, Off, Kinds
<1>3. run' \in [Runs -> Attempt]
  BY <1>1, <1>2 DEF Begin
<1>4. /\ Phase("idle") \in Shown
      /\ Phase(IF k = "answer" THEN "preparing" ELSE "confirming") \in Shown
  BY PhaseHolds DEF Phases, Busy
<1>5. hook' \in [Kinds -> Shown]
  BY <1>4 DEF Begin, Render, SettlementTypeOK
<1>. QED  BY <1>3, <1>5 DEF Begin, Render, askerActionFor, SettlementTypeOK

\* What is shown on the strength of a receipt is a phase.
LEMMA ToldHolds ==
  ASSUME NEW s,
         NEW step \in {"indexing", "success", "confirmed"}, NEW status,
         IF step = "confirmed" THEN status \in SettleKind ELSE status = "open"
  PROVE  /\ Told(s, step, status) \in Shown
         /\ Told(s, step, status).step = step /\ Told(s, step, status).status = status
         /\ run[s].tx = "replaced" => Told(s, step, status).replaced
<1>1. PICK r \in BOOLEAN : r = (run[s].tx = "replaced")
  OBVIOUS
<1>2. Told(s, step, status) = [step |-> step, status |-> status, replaced |-> r]
  BY <1>1 DEF Told
<1>3. [step |-> step, status |-> status, replaced |-> r] \in Shown
  BY DEF Shown, Phases, Busy
<1>4. /\ Told(s, step, status).step = step /\ Told(s, step, status).status = status
      /\ run[s].tx = "replaced" => Told(s, step, status).replaced
  BY DEF Told
<1>. QED  BY <1>2, <1>3, <1>4

\* One attempt moves on, or its transaction is mined, or replaced.
LEMMA AttemptTypes ==
  ASSUME SettlementTypeOK, NEW s \in Runs, Step(s) \/ mine(s) \/ replaceInWallet(s)
  PROVE  /\ run' \in [Runs -> Attempt]
         /\ hook' \in [Kinds -> Shown]
         /\ offered' \in {"cancel", "reclaim"}
<1>1. run[s] \in Attempt /\ run[s].kind \in Kinds
  BY DEF SettlementTypeOK, Attempt
<1>2. /\ Phase("error") \in Shown /\ Phase("confirming") \in Shown
      /\ Phase("pending") \in Shown /\ Told(s, "success", "open") \in Shown
      /\ Told(s, "indexing", "open") \in Shown
  BY PhaseHolds, ToldHolds DEF Phases, Busy
<1>3. ASSUME NEW phase \in Shown, setPhase(s, phase)
      PROVE  hook' \in [Kinds -> Shown] /\ offered' \in {"cancel", "reclaim"}
  BY <1>1, <1>3 DEF setPhase, Render, askerActionFor, SettlementTypeOK
<1>4. ASSUME NEW at \in {"simulate", "prompt", "receipt", "indexLoop", "mining"}, Goto(s, at)
      PROVE  run' \in [Runs -> Attempt]
  BY <1>1, <1>4, AttemptFields DEF Goto, SettlementTypeOK
<1>5. ASSUME run' = [run EXCEPT ![s] = Off] PROVE run' \in [Runs -> Attempt]
  BY <1>1, <1>5, AttemptFields DEF SettlementTypeOK
<1>6. Fail(s) => /\ run' \in [Runs -> Attempt] /\ hook' \in [Kinds -> Shown]
                 /\ offered' \in {"cancel", "reclaim"}
  BY <1>2, <1>3, <1>5 DEF Fail
<1>7. CASE preflight(s)
  BY <1>2, <1>3, <1>4, <1>6, <1>7 DEF preflight
<1>8. CASE simulate(s)
  BY <1>4, <1>8 DEF simulate, SettlementTypeOK
<1>9. CASE simulateFails(s) \/ walletDeclines(s)
  BY <1>6, <1>9 DEF simulateFails, walletDeclines
<1>10. CASE writeContract(s)
  <2>1. PICK at \in {"receipt", "mining"} : at = IF run[s].current THEN "receipt" ELSE "mining"
    OBVIOUS
  <2>2. [run[s] EXCEPT !.tx = "inflight"] \in Attempt
    BY <1>1, AttemptFields
  <2>3. [[run[s] EXCEPT !.tx = "inflight"] EXCEPT !.at = at] \in Attempt
    BY <2>2, AttemptFields
  <2>4. run' = [run EXCEPT ![s] = [[run[s] EXCEPT !.tx = "inflight"] EXCEPT !.at = at]]
    BY <1>10, <2>1, <1>1 DEF writeContract, SettlementTypeOK
  <2>5. run' \in [Runs -> Attempt]
    BY <2>3, <2>4 DEF SettlementTypeOK
  <2>. QED  BY <1>2, <1>3, <1>10, <2>5 DEF writeContract
<1>11. ASSUME Received(s) PROVE /\ run' \in [Runs -> Attempt] /\ hook' \in [Kinds -> Shown]
                                /\ offered' \in {"cancel", "reclaim"}
  BY <1>2, <1>3, <1>4, <1>5, <1>6, <1>11 DEF Received
<1>12. CASE receipt(s)
  <2> DEFINE q == IF run[s].tx = "inflight" THEN [run[s] EXCEPT !.at = "mining"] ELSE Off
  <2>1. CASE Received(s)
    BY <1>11, <2>1
  <2>2. CASE Fail(s)
    BY <1>6, <2>2
  <2>3. CASE run' = [run EXCEPT ![s] = q] /\ setPhase(s, Phase("error"))
    <3>1. q \in Attempt
      BY <1>1, AttemptFields
    <3> HIDE DEF q
    <3>2. run' \in [Runs -> Attempt]
      BY <2>3, <3>1 DEF SettlementTypeOK
    <3>. QED  BY <1>2, <1>3, <2>3, <3>2
  <2>. QED  BY <1>12, <2>1, <2>2, <2>3 DEF receipt
<1>13. CASE indexLoop(s)
  <2>1. run' \in [Runs -> Attempt]
    BY <1>5, <1>13 DEF indexLoop
  <2>2. CASE run[s].current
    <3>1. row \in SettleKind
      BY <1>13, <2>2 DEF indexLoop, SettlementTypeOK
    <3>2. Told(s, "confirmed", row) \in Shown
      BY <3>1, ToldHolds
    <3>. QED  BY <1>3, <1>13, <2>1, <3>2 DEF indexLoop
  <2>3. CASE ~run[s].current
    BY <1>13, <2>1, <2>3 DEF indexLoop, setPhase, Render, askerActionFor, SettlementTypeOK
  <2>. QED  BY <2>2, <2>3
<1>14. CASE mine(s)
  <2> DEFINE k == run[s].kind
             q == IF run[s].at = "mining" THEN Off
                  ELSE [run[s] EXCEPT !.tx = IF Valid(k) THEN "success" ELSE "reverted"]
  <2>1. q \in Attempt
    BY <1>1, AttemptFields
  <2>2. run' = [run EXCEPT ![s] = q]
    BY <1>14 DEF mine
  <2> HIDE DEF q
  <2>3. run' \in [Runs -> Attempt]
    BY <2>1, <2>2 DEF SettlementTypeOK
  <2>. QED  BY <1>14, <2>3 DEF mine, SettlementTypeOK
<1>15. CASE replaceInWallet(s)
  <2> DEFINE q == IF run[s].at = "mining" THEN Off ELSE [run[s] EXCEPT !.tx = "replaced"]
  <2>1. q \in Attempt
    BY <1>1, AttemptFields
  <2>2. run' = [run EXCEPT ![s] = q]
    BY <1>15 DEF replaceInWallet
  <2> HIDE DEF q
  <2>3. run' \in [Runs -> Attempt]
    BY <2>1, <2>2 DEF SettlementTypeOK
  <2>. QED  BY <1>15, <2>3 DEF replaceInWallet, SettlementTypeOK
<1>. QED  BY <1>7, <1>8, <1>9, <1>10, <1>12, <1>13, <1>14, <1>15 DEF Step

\* Types are kept by every step (SettlementTypeOK).
LEMMA TypeStep == SettlementTypeOK /\ [Next]_vars => SettlementTypeOK'
<1> SUFFICES ASSUME SettlementTypeOK, [Next]_vars PROVE SettlementTypeOK'
  OBVIOUS
<1>1. /\ run' \in [Runs -> Attempt]
      /\ hook' \in [Kinds -> Shown]
      /\ offered' \in {"cancel", "reclaim"}
  <2>0. Phase("idle") \in Shown
    BY PhaseHolds DEF Phases
  <2>1. CASE \E s \in Runs : Press(s)
    <3>1. PICK s \in Runs, k \in Kinds : Begin(s, k, {}) \/ Begin(s, k, Siblings(k))
      BY <2>1 DEF Press, onConfirm, retry, withdraw, Kinds
    <3>. QED  BY <3>1, BeginHolds
  <2>2. CASE \E s \in Runs : Step(s) \/ mine(s) \/ replaceInWallet(s)
    BY <2>2, AttemptTypes
  <2>3. ASSUME NEW k \in Kinds, arm(k) \/ settledElsewhere(k) PROVE <1>1!:
    BY <2>3 DEF arm, settledElsewhere, browser, SettlementTypeOK
  <2>4. ASSUME NEW k \in Kinds, reset(k) PROVE <1>1!:
    BY <2>0, <2>4, AbandonHolds DEF reset, Render, askerActionFor, SettlementTypeOK
  <2>5. CASE \E b \in armed : keepIt(b)
    BY <2>5 DEF keepIt, SettlementTypeOK
  <2>6. CASE \E p \in {"question", "balance"} : open(p)
    BY <2>0, <2>6, AbandonHolds DEF open, askerActionFor, SettlementTypeOK
  <2>7. CASE rerender \/ index \/ deadlinePasses \/ UNCHANGED vars
    BY <2>7 DEF rerender, askerActionFor, index, deadlinePasses, browser, vars, SettlementTypeOK
  <2>. QED  BY <2>1, <2>2, <2>3, <2>4, <2>5, <2>6, <2>7 DEF Next
<1>2. /\ role' = role /\ page' \in {"question", "balance"}
      /\ armed' \subseteq {Button(k) : k \in Actions(role)}
  <2>1. CASE \E s \in Runs : Press(s) \/ Step(s) \/ mine(s) \/ replaceInWallet(s)
    BY <2>1 DEF Press, onConfirm, retry, withdraw, Step, preflight, simulate, simulateFails,
       writeContract, walletDeclines, receipt, indexLoop, mine, replaceInWallet, Rest,
       SettlementTypeOK
  <2>2. ASSUME NEW k \in Kinds, arm(k) PROVE <1>2!:
    BY <2>2 DEF arm, Enabled, SettlementTypeOK
  <2>3. CASE \E k \in Kinds : reset(k) \/ settledElsewhere(k)
    BY <2>3 DEF reset, settledElsewhere, browser, SettlementTypeOK
  <2>4. CASE (\E b \in armed : keepIt(b)) \/ (\E p \in {"question", "balance"} : open(p))
    BY <2>4 DEF keepIt, open, SettlementTypeOK
  <2>5. CASE rerender \/ index \/ deadlinePasses \/ UNCHANGED vars
    BY <2>5 DEF rerender, index, deadlinePasses, browser, vars, SettlementTypeOK
  <2>. QED  BY <2>1, <2>2, <2>3, <2>4, <2>5 DEF Next
<1>3. /\ saved' \in BOOLEAN /\ {row', outcome'} \subseteq SettleKind \cup {"open"}
      /\ credit' \in {"none", "owed", "paid"} /\ late' \in BOOLEAN /\ clock' \in BOOLEAN
  <2>1. CASE \E s \in Runs : mine(s)
    <3>1. PICK s \in Runs : mine(s)
      BY <2>1
    <3>2. run[s].kind \in Kinds
      BY DEF SettlementTypeOK, Attempt
    <3>. QED  BY <3>1, <3>2 DEF mine, Execute, Kinds, SettlementTypeOK
  <2>2. CASE \E k \in Kinds : settledElsewhere(k)
    BY <2>2 DEF settledElsewhere, Execute, Kinds, SettleKind, SettlementTypeOK
  <2>3. CASE \E s \in Runs : Press(s) \/ Step(s) \/ replaceInWallet(s)
    BY <2>3 DEF Press, onConfirm, retry, withdraw, Step, preflight, simulate, simulateFails,
       writeContract, walletDeclines, receipt, indexLoop, replaceInWallet, Rest, chain,
       SettlementTypeOK
  <2>4. CASE \/ \E k \in Kinds : arm(k) \/ reset(k)
             \/ \E b \in armed : keepIt(b)
             \/ \E p \in {"question", "balance"} : open(p)
    BY <2>4 DEF arm, reset, keepIt, open, chain, SettlementTypeOK
  <2>5. CASE rerender \/ index \/ deadlinePasses \/ UNCHANGED vars
    BY <2>5 DEF rerender, index, deadlinePasses, chain, vars, SettlementTypeOK
  <2>. QED  BY <2>1, <2>2, <2>3, <2>4, <2>5 DEF Next
<1>4. role' \in {"answerer", "asker"} /\ Actions(role') = Actions(role)
  BY <1>2 DEF SettlementTypeOK
<1>. QED  BY <1>1, <1>2, <1>3, <1>4 DEF SettlementTypeOK
-----------------------------------------------------------------------------
(* What any step does to the chain, the database and the attempts at rest *)

\* The outcome is decided once, a withdrawal paid once, a body saved once.
Decided ==
  /\ outcome # "open" => outcome' = outcome
  /\ credit = "paid" => credit' = "paid"
  /\ saved => saved'
  /\ role' = role

\* So it is with every step.
LEMMA ChainDecides ==
  ASSUME SettlementTypeOK, Copied, [Next]_vars
  PROVE  Decided /\ Copied'
<1>1. CASE \E s \in Runs : mine(s)
  <2>1. PICK s \in Runs : mine(s)
    BY <1>1
  <2>2. PICK k \in Kinds : k = run[s].kind
    BY DEF SettlementTypeOK, Attempt
  <2>3. /\ (Valid(k) /\ Execute(k)) \/ UNCHANGED <<outcome, credit>>
        /\ UNCHANGED <<role, saved, row>>
    BY <2>1, <2>2 DEF mine, Execute, Valid
  <2>4. CASE UNCHANGED <<outcome, credit>>
    BY <2>3, <2>4 DEF Copied, Decided
  <2>5. CASE Valid(k) /\ Execute(k) /\ k = "withdraw"
    BY <2>3, <2>5 DEF Execute, Valid, Copied, Decided
  <2>6. CASE Valid(k) /\ Execute(k) /\ k \in SettleKind
    <3>1. outcome = "open" /\ outcome' = k /\ outcome' # "open"
      BY <2>3, <2>6 DEF Execute, Valid, SettleKind
    <3>. QED  BY <2>3, <3>1 DEF Copied, Decided
  <2>. QED  BY <2>2, <2>3, <2>4, <2>5, <2>6 DEF Kinds
<1>2. CASE \E k \in Kinds : settledElsewhere(k)
  BY <1>2 DEF settledElsewhere, Execute, Valid, browser, Kinds, SettleKind, Payee, Copied, Decided
<1>3. CASE \E s \in Runs : Press(s) \/ Step(s) \/ replaceInWallet(s)
  BY <1>3 DEF Press, onConfirm, retry, withdraw, Step, preflight, simulate, simulateFails,
     writeContract, walletDeclines, receipt, indexLoop, replaceInWallet, Rest, chain, Copied,
     Decided
<1>4. CASE \/ \E k \in Kinds : arm(k) \/ reset(k)
           \/ \E b \in armed : keepIt(b)
           \/ \E p \in {"question", "balance"} : open(p)
  <2>1. UNCHANGED <<role, saved, row, outcome, credit>>
    BY <1>4 DEF arm, reset, keepIt, open, chain
  <2>. QED  BY <2>1 DEF Copied, Decided
<1>5. CASE rerender \/ index \/ deadlinePasses \/ UNCHANGED vars
  BY <1>5 DEF rerender, index, deadlinePasses, browser, chain, vars, Copied, Decided
<1>. QED  BY <1>1, <1>2, <1>3, <1>4, <1>5 DEF Next

\* An attempt that does not move stays sound, and so it does when it is abandoned.
LEMMA SoundStays ==
  ASSUME Decided, NEW q \in Attempt, Sound(q)
  PROVE  SoundNext(q) /\ \A c \in BOOLEAN : SoundNext([q EXCEPT !.current = c])
<1>1. SoundNext(q)
  BY DEF Decided, Sound, SoundNext, Attempt, Kinds, SettleKind
<1>2. ASSUME NEW c \in BOOLEAN PROVE SoundNext([q EXCEPT !.current = c])
  <2>1. PICK p : p = [q EXCEPT !.current = c]
    OBVIOUS
  <2>2. p.at = q.at /\ p.kind = q.kind /\ p.tx = q.tx
    BY <2>1 DEF Attempt
  <2>. QED  BY <1>1, <2>1, <2>2 DEF SoundNext
<1>. QED  BY <1>1, <1>2

\* An abandoned attempt is the same one without the token.
LEMMA AbandonedStays ==
  ASSUME SettleInv, Decided, NEW K, NEW s \in Runs
  PROVE  /\ SoundNext(Abandon(K)[s])
         /\ Abandon(K)[s].current => run[s].current /\ run[s].kind \notin K
         /\ Abandon(K)[s].at = run[s].at /\ Abandon(K)[s].kind = run[s].kind
<1>1. run[s] \in Attempt /\ run[s].current \in BOOLEAN /\ Sound(run[s])
  BY DEF SettleInv, SettlementTypeOK, Attempt
<1>2. PICK c \in BOOLEAN : c = (run[s].current /\ run[s].kind \notin K)
  BY <1>1
<1>3. Abandon(K)[s] = [run[s] EXCEPT !.current = c]
  BY <1>1, <1>2 DEF Abandon, Attempt
<1>4. SoundNext([run[s] EXCEPT !.current = c])
  BY <1>1, SoundStays
<1>. QED  BY <1>1, <1>2, <1>3, <1>4 DEF Attempt

\* What a phase that does not change says stays true.
LEMMA TruthStays ==
  ASSUME SettleInv, Decided, NEW k \in Kinds
  PROVE  Truthful(k, hook[k])
<1>1. hook[k] \in Shown
  BY DEF SettleInv, SettlementTypeOK
<1>2. hook[k].step = "confirmed" => hook[k].status # "open"
  BY <1>1 DEF Shown, SettleKind
<1>. QED  BY <1>2 DEF SettleInv, SettledIsMine, Decided, Truthful, Kinds, SettleKind

\* No answer is sent before its body is saved, and nobody else can answer.
LEMMA BodyStays ==
  ASSUME SettleInv, [Next]_vars, Decided
  PROVE  AnsweredHasBody'
<1>1. CASE \E s \in Runs : mine(s)
  <2>1. PICK s \in Runs : mine(s)
    BY <1>1
  <2>2. Sound(run[s]) /\ run[s].tx = "inflight"
    BY <2>1 DEF SettleInv, mine
  <2>. QED  BY <2>1, <2>2 DEF mine, Execute, Sound, AnsweredHasBody, SettleInv, Decided
<1>2. CASE \E k \in Kinds : settledElsewhere(k)
  BY <1>2 DEF settledElsewhere, Execute, Actions, AnsweredHasBody, SettleInv, Decided
<1>3. CASE \E s \in Runs : Press(s) \/ Step(s) \/ replaceInWallet(s)
  BY <1>3 DEF Press, onConfirm, retry, withdraw, Step, preflight, simulate, simulateFails,
     writeContract, walletDeclines, receipt, indexLoop, replaceInWallet, Rest, chain,
     AnsweredHasBody, SettleInv, Decided
<1>4. CASE \/ \E k \in Kinds : arm(k) \/ reset(k)
           \/ \E b \in armed : keepIt(b)
           \/ \E p \in {"question", "balance"} : open(p)
  BY <1>4 DEF arm, reset, keepIt, open, chain, AnsweredHasBody, SettleInv, Decided
<1>5. CASE rerender \/ index \/ deadlinePasses \/ UNCHANGED vars
  BY <1>5 DEF rerender, index, deadlinePasses, browser, chain, vars, AnsweredHasBody,
     SettleInv, Decided
<1>. QED  BY <1>1, <1>2, <1>3, <1>4, <1>5 DEF Next

\* The invariant in the next state, from what is left to show of the hooks and the
\* attempts.
LEMMA InvFrom ==
  ASSUME SettleInv, [Next]_vars,
         \A s \in Runs : SoundNext(run'[s]) /\ OnScreenNext(run'[s]),
         \A k \in Kinds : Truthful(k, hook'[k]),
         \A k \in Kinds : hook'[k].step # "idle" => \A j \in Siblings(k) : hook'[j].step = "idle"
  PROVE  SettleInv'
<1>1. SettlementTypeOK'
  BY TypeStep DEF SettleInv
<1>2. Decided /\ Copied'
  BY ChainDecides DEF SettleInv
<1>3. AnsweredHasBody'
  BY <1>2, BodyStays
<1>4. (\A s \in Runs : Sound(run[s]) /\ OnScreen(run[s]))'
  BY DEF Sound, SoundNext, OnScreen, OnScreenNext
<1>5. SettledIsMine'
  BY DEF SettledIsMine, Truthful, Kinds
<1>6. OneActionShown'
  BY DEF OneActionShown
<1>. QED  BY <1>1, <1>2, <1>3, <1>4, <1>5, <1>6 DEF SettleInv
-----------------------------------------------------------------------------
(* The steps *)

\* Nothing in the browser moves.
LEMMA BrowserRests ==
  ASSUME SettleInv, [Next]_vars, UNCHANGED <<run, hook>>
  PROVE  SettleInv'
<1>1. Decided
  BY ChainDecides DEF SettleInv
<1>2. ASSUME NEW s \in Runs PROVE SoundNext(run'[s]) /\ OnScreenNext(run'[s])
  <2>1. run[s] \in Attempt /\ Sound(run[s]) /\ OnScreen(run[s])
    BY DEF SettleInv, SettlementTypeOK
  <2>. QED  BY <1>1, <2>1, SoundStays DEF OnScreen, OnScreenNext
<1>3. \A k \in Kinds : Truthful(k, hook'[k])
  BY <1>1, TruthStays
<1>4. \A k \in Kinds : hook'[k].step # "idle" => \A j \in Siblings(k) : hook'[j].step = "idle"
  BY DEF SettleInv, OneActionShown
<1>. QED  BY <1>2, <1>3, <1>4, InvFrom

\* Hooks of the kinds K go idle and their attempts lose the token.
LEMMA Abandons ==
  ASSUME SettleInv, [Next]_vars, NEW K \in SUBSET Kinds, run' = Abandon(K),
         hook' = [k \in Kinds |-> IF k \in K THEN Phase("idle") ELSE hook[k]]
  PROVE  SettleInv'
<1>1. Decided
  BY ChainDecides DEF SettleInv
<1>2. ASSUME NEW s \in Runs PROVE SoundNext(run'[s]) /\ OnScreenNext(run'[s])
  <2>1. run[s] \in Attempt /\ run[s].kind \in Kinds /\ OnScreen(run[s])
    BY DEF SettleInv, SettlementTypeOK, Attempt
  <2>2. /\ SoundNext(run'[s])
        /\ run'[s].current => run[s].current /\ run[s].kind \notin K
        /\ run'[s].at = run[s].at /\ run'[s].kind = run[s].kind
    BY <1>1, AbandonedStays
  <2>. QED  BY <2>1, <2>2 DEF OnScreen, OnScreenNext
<1>3. ASSUME NEW k \in Kinds PROVE Truthful(k, hook'[k])
  <2>1. Truthful(k, hook[k]) /\ Truthful(k, Phase("idle"))
    BY <1>1, TruthStays DEF Truthful, Phase
  <2>. QED  BY <2>1
<1>4. \A k \in Kinds : hook'[k].step # "idle" => \A j \in Siblings(k) : hook'[j].step = "idle"
  BY DEF SettleInv, OneActionShown, Siblings, Actions, Kinds, SettleKind, Phase
<1>. QED  BY <1>2, <1>3, <1>4, InvFrom

\* An attempt of kind k begins on a panel whose other action is reset, or idle.
LEMMA Begins ==
  ASSUME SettleInv, [Next]_vars, NEW s \in Runs, NEW k \in Actions(role) \cup {"withdraw"},
         NEW resets \in SUBSET Siblings(k), Begin(s, k, resets),
         \A j \in Siblings(k) \ resets : hook[j].step = "idle"
  PROVE  SettleInv'
<1>1. Decided
  BY ChainDecides DEF SettleInv
<1>2. k \in Kinds /\ Siblings(k) \subseteq Kinds /\ k \notin Siblings(k)
  BY DEF Actions, Siblings, Kinds, SettleKind
<1>3. PICK q : q = [Off EXCEPT !.at = IF k = "answer" THEN "preflight" ELSE "simulate",
                               !.kind = k, !.current = TRUE]
  OBVIOUS
<1>4. /\ q.at = IF k = "answer" THEN "preflight" ELSE "simulate"
      /\ q.kind = k /\ q.tx = "none"
  BY <1>3 DEF Off
<1>5. run' = [Abandon({k} \cup resets) EXCEPT ![s] = q]
  BY <1>3 DEF Begin
<1>6. /\ hook'[k].step \in {"preparing", "confirming"}
      /\ \A j \in resets : hook'[j].step = "idle"
      /\ \A j \in Kinds \ ({k} \cup resets) : hook'[j] = hook[j]
  BY <1>2 DEF Begin, Render, Phase
<1>7. ASSUME NEW t \in Runs PROVE SoundNext(run'[t]) /\ OnScreenNext(run'[t])
  <2>1. CASE t = s
    <3>1. run'[s] = q
      BY <1>5 DEF Abandon
    <3>2. SoundNext(q)
      BY <1>1, <1>4 DEF SoundNext, Decided
    <3>3. OnScreenNext(q)
      BY <1>4, <1>6 DEF OnScreenNext
    <3>. QED  BY <2>1, <3>1, <3>2, <3>3
  <2>2. CASE t # s
    <3>1. run'[t] = Abandon({k} \cup resets)[t]
      BY <1>5, <2>2 DEF Abandon
    <3>2. run[t].kind \in Kinds /\ OnScreen(run[t])
      BY DEF SettleInv, SettlementTypeOK, Attempt
    <3>3. /\ SoundNext(run'[t])
          /\ run'[t].current => run[t].current /\ run[t].kind \notin {k} \cup resets
          /\ run'[t].at = run[t].at /\ run'[t].kind = run[t].kind
      BY <1>1, <3>1, AbandonedStays
    <3>. QED  BY <1>6, <3>2, <3>3 DEF OnScreen, OnScreenNext
  <2>. QED  BY <2>1, <2>2
<1>8. ASSUME NEW j \in Kinds PROVE Truthful(j, hook'[j])
  <2>1. CASE j \in {k} \cup resets
    BY <1>6, <2>1 DEF Truthful
  <2>2. CASE j \notin {k} \cup resets
    BY <1>1, <1>6, <2>2, TruthStays
  <2>. QED  BY <2>1, <2>2
<1>9. \A j \in Siblings(k) : hook'[j].step = "idle"
  BY <1>2, <1>6
<1>10. ASSUME NEW i \in Kinds, hook'[i].step # "idle", NEW j \in Siblings(i)
       PROVE  hook'[j].step = "idle"
  <2>1. CASE i = k
    BY <1>9, <2>1
  <2>2. CASE j = k
    <3>1. i \in Siblings(k)
      BY <2>2 DEF Siblings, Actions, Kinds, SettleKind
    <3>. QED  BY <1>9, <1>10, <3>1
  <2>3. CASE i # k /\ j # k
    <3>1. j \in Kinds
      BY DEF Siblings, Actions, Kinds, SettleKind
    <3>2. hook[i].step # "idle"
      BY <1>6, <1>10, <2>3
    <3>3. hook[j].step = "idle"
      BY <3>2 DEF SettleInv, OneActionShown
    <3>. QED  BY <1>6, <2>3, <3>1, <3>3
  <2>. QED  BY <2>1, <2>2, <2>3
<1>. QED  BY <1>7, <1>8, <1>10, InvFrom

\* The transaction of attempt s is mined, or replaced.
LEMMA Mined ==
  ASSUME SettleInv, [Next]_vars, NEW s \in Runs, mine(s) \/ replaceInWallet(s)
  PROVE  SettleInv'
<1>1. Decided
  BY ChainDecides DEF SettleInv
<1>2. PICK tx \in {"success", "reverted", "replaced"} :
        /\ run' = [run EXCEPT ![s] = IF @.at = "mining" THEN Off ELSE [@ EXCEPT !.tx = tx]]
        /\ tx = "success" => IF run[s].kind = "withdraw" THEN credit' = "paid"
                             ELSE outcome' = run[s].kind
  <2>1. CASE replaceInWallet(s)
    BY <2>1 DEF replaceInWallet
  <2>2. CASE mine(s)
    <3>1. PICK tx \in {"success", "reverted"} :
            tx = IF Valid(run[s].kind) THEN "success" ELSE "reverted"
      OBVIOUS
    <3>2. run' = [run EXCEPT ![s] = IF @.at = "mining" THEN Off ELSE [@ EXCEPT !.tx = tx]]
      BY <2>2, <3>1 DEF mine
    <3>3. tx = "success" => IF run[s].kind = "withdraw" THEN credit' = "paid"
                            ELSE outcome' = run[s].kind
      BY <2>2, <3>1 DEF mine, Execute
    <3>. QED  BY <3>2, <3>3
  <2>. QED  BY <2>1, <2>2
<1>a. PICK q : q = IF run[s].at = "mining" THEN Off ELSE [run[s] EXCEPT !.tx = tx]
  OBVIOUS
<1>3. run' = [run EXCEPT ![s] = q] /\ run[s].tx = "inflight" /\ hook' = hook
  BY <1>2, <1>a DEF mine, replaceInWallet
<1>4. run[s] \in Attempt /\ run[s].kind \in Kinds /\ Sound(run[s]) /\ OnScreen(run[s])
  BY DEF SettleInv, SettlementTypeOK, Attempt
<1>5. SoundNext(q) /\ OnScreenNext(q)
  <2>1. CASE run[s].at = "mining"
    BY <1>a, <2>1 DEF Off, SoundNext, OnScreenNext
  <2>2. CASE run[s].at # "mining"
    <3>1. /\ q.at = run[s].at /\ q.kind = run[s].kind /\ q.current = run[s].current
          /\ q.tx = tx
      BY <1>a, <1>4, <2>2 DEF Attempt
    <3>3. SoundNext(run[s])
      BY <1>1, <1>4, SoundStays
    <3>4. run[s].at # "indexLoop"
      BY <1>3, <1>4 DEF Sound
    <3>. QED  BY <1>2, <1>3, <1>4, <3>1, <3>3, <3>4 DEF SoundNext, OnScreen, OnScreenNext
  <2>. QED  BY <2>1, <2>2
<1>6. ASSUME NEW t \in Runs PROVE SoundNext(run'[t]) /\ OnScreenNext(run'[t])
  <2>1. CASE t = s
    <3>1. run'[s] = q
      BY <1>3 DEF SettleInv, SettlementTypeOK
    <3>. QED  BY <1>5, <2>1, <3>1
  <2>2. CASE t # s
    <3>1. run'[t] = run[t] /\ run[t] \in Attempt /\ Sound(run[t]) /\ OnScreen(run[t])
      BY <1>3, <2>2 DEF SettleInv, SettlementTypeOK
    <3>. QED  BY <1>1, <1>3, <3>1, SoundStays DEF OnScreen, OnScreenNext
  <2>. QED  BY <2>1, <2>2
<1>7. \A k \in Kinds : Truthful(k, hook'[k])
  BY <1>1, <1>3, TruthStays
<1>8. \A k \in Kinds : hook'[k].step # "idle" => \A j \in Siblings(k) : hook'[j].step = "idle"
  BY <1>3 DEF SettleInv, OneActionShown
<1>. QED  BY <1>6, <1>7, <1>8, InvFrom

\* Attempt s becomes q and, if it holds the token, shows a phase that is true.
LEMMA Moves ==
  ASSUME SettleInv, [Next]_vars, NEW s \in Runs, run[s].at # "off",
         NEW q, run' = [run EXCEPT ![s] = q], SoundNext(q),
         q.at = "off" \/ (q.kind = run[s].kind /\ q.current = run[s].current),
         NEW phase, setPhase(s, phase) \/ (hook' = hook /\ phase = hook[run[s].kind]),
         run[s].current => phase.step # "idle" /\ Truthful(run[s].kind, phase)
  PROVE  SettleInv'
<1>1. Decided
  BY ChainDecides DEF SettleInv
<1>2. run[s] \in Attempt /\ run[s].kind \in Kinds /\ OnScreen(run[s])
  BY DEF SettleInv, SettlementTypeOK, Attempt
<1>3. /\ run[s].current => hook'[run[s].kind] = phase
      /\ \A k \in Kinds : k # run[s].kind \/ ~run[s].current => hook'[k] = hook[k]
  BY <1>2 DEF setPhase, Render, SettleInv, SettlementTypeOK
<1>4. \A k \in Kinds : hook[k].step # "idle" => hook'[k].step # "idle"
  BY <1>3
<1>5. ASSUME NEW t \in Runs PROVE SoundNext(run'[t]) /\ OnScreenNext(run'[t])
  <2>1. CASE t = s
    <3>1. run'[s] = q
      BY DEF SettleInv, SettlementTypeOK
    <3>2. OnScreenNext(q)
      BY <1>2, <1>3 DEF OnScreenNext
    <3>. QED  BY <2>1, <3>1, <3>2
  <2>2. CASE t # s
    <3>1. /\ run'[t] = run[t] /\ run[t] \in Attempt /\ run[t].kind \in Kinds
          /\ Sound(run[t]) /\ OnScreen(run[t])
      BY <2>2 DEF SettleInv, SettlementTypeOK, Attempt
    <3>. QED  BY <1>1, <1>4, <3>1, SoundStays DEF OnScreen, OnScreenNext
  <2>. QED  BY <2>1, <2>2
<1>6. ASSUME NEW k \in Kinds PROVE Truthful(k, hook'[k])
  <2>1. CASE run[s].current /\ k = run[s].kind
    BY <1>3, <2>1
  <2>2. CASE ~run[s].current \/ k # run[s].kind
    BY <1>1, <1>3, <2>2, TruthStays
  <2>. QED  BY <2>1, <2>2
<1>7. ASSUME NEW k \in Kinds, hook'[k].step # "idle", NEW j \in Siblings(k)
      PROVE  hook'[j].step = "idle"
  <2>1. j \in Kinds /\ k \in Siblings(j)
    BY DEF Siblings, Actions, Kinds, SettleKind
  <2>2. hook[k].step # "idle"
    BY <1>2, <1>3, <1>7 DEF OnScreen
  <2>3. hook[j].step = "idle"
    BY <2>2 DEF SettleInv, OneActionShown
  <2>4. j # run[s].kind \/ ~run[s].current
    BY <1>2, <2>3 DEF OnScreen
  <2>. QED  BY <1>3, <2>1, <2>3, <2>4
<1>. QED  BY <1>5, <1>6, <1>7, InvFrom

\* Attempt s ends on a failure.
LEMMA Fails ==
  ASSUME SettleInv, [Next]_vars, NEW s \in Runs, run[s].at # "off",
         run' = [run EXCEPT ![s] = Off], setPhase(s, Phase("error"))
  PROVE  SettleInv'
<1>1. SoundNext(Off) /\ Off.at = "off"
  BY DEF Off, SoundNext
<1>2. Phase("error").step # "idle" /\ Truthful(run[s].kind, Phase("error"))
  BY DEF Phase, Truthful
<1>. QED  BY <1>1, <1>2, Moves

\* A step of attempt s.
LEMMA StepKeeps ==
  ASSUME SettleInv, [Next]_vars, NEW s \in Runs, Step(s)
  PROVE  SettleInv'
<1>1. /\ run[s] \in Attempt /\ run[s].kind \in Kinds /\ Sound(run[s])
      /\ run \in [Runs -> Attempt]
  BY DEF SettleInv, SettlementTypeOK, Attempt
<1>2. Decided
  BY ChainDecides DEF SettleInv
<1>3. SoundNext(run[s])
  BY <1>1, <1>2, SoundStays
<1>4. ASSUME run[s].at # "off", Fail(s) PROVE SettleInv'
  BY <1>4, Fails DEF Fail
<1>5. CASE preflight(s)
  <2>1. CASE Fail(s)
    BY <1>4, <1>5, <2>1 DEF preflight
  <2>2. CASE saved' = TRUE /\ run[s].current /\ Goto(s, "simulate") /\ setPhase(s, Phase("confirming"))
    <3>1. PICK q : q = [run[s] EXCEPT !.at = "simulate"]
      OBVIOUS
    <3>2. /\ q.at = "simulate" /\ q.kind = run[s].kind
          /\ q.current = run[s].current /\ q.tx = run[s].tx
      BY <1>1, <3>1 DEF Attempt
    <3>3. SoundNext(q)
      BY <1>1, <1>3, <1>5, <2>2, <3>2 DEF SoundNext, Sound, preflight
    <3>4. Phase("confirming").step # "idle" /\ Truthful(run[s].kind, Phase("confirming"))
      BY DEF Phase, Truthful
    <3>5. run' = [run EXCEPT ![s] = q]
      BY <2>2, <3>1 DEF Goto
    <3>. QED  BY <1>5, <2>2, <3>2, <3>3, <3>4, <3>5, Moves DEF preflight
  <2>. QED  BY <1>5, <2>1, <2>2 DEF preflight
<1>6. CASE simulate(s)
  <2>1. PICK q : q = [run[s] EXCEPT !.at = "prompt"]
    OBVIOUS
  <2>2. /\ q.at = "prompt" /\ q.kind = run[s].kind
        /\ q.current = run[s].current /\ q.tx = run[s].tx
    BY <1>1, <2>1 DEF Attempt
  <2>3. SoundNext(q)
    BY <1>3, <1>6, <2>2 DEF SoundNext, simulate
  <2>4. run' = [run EXCEPT ![s] = q] /\ hook' = hook
    BY <1>6, <2>1 DEF simulate, Goto
  <2>5. PICK phase : phase = hook[run[s].kind]
    OBVIOUS
  <2>6. run[s].current => phase.step # "idle" /\ Truthful(run[s].kind, phase)
    <3>1. OnScreen(run[s])
      BY DEF SettleInv
    <3>2. PICK k \in Kinds : k = run[s].kind
      BY <1>1
    <3>. QED  BY <1>2, <1>6, <2>5, <3>1, <3>2, TruthStays DEF OnScreen, simulate
  <2>. QED  BY <1>6, <2>2, <2>3, <2>4, <2>5, <2>6, Moves DEF simulate
<1>7. CASE simulateFails(s) \/ walletDeclines(s)
  BY <1>4, <1>7 DEF simulateFails, walletDeclines
<1>8. CASE writeContract(s)
  <2>1. PICK q : q = [run[s] EXCEPT !.tx = "inflight",
                        !.at = IF run[s].current THEN "receipt" ELSE "mining"]
    OBVIOUS
  <2>2. /\ q.at = IF run[s].current THEN "receipt" ELSE "mining"
        /\ q.tx = "inflight" /\ q.kind = run[s].kind /\ q.current = run[s].current
    BY <1>1, <2>1 DEF Attempt
  <2>3. SoundNext(q)
    BY <1>1, <1>3, <1>8, <2>2 DEF SoundNext, writeContract
  <2>4. run' = [run EXCEPT ![s] = q]
    BY <1>1, <1>8, <2>1 DEF writeContract
  <2>5. Phase("pending").step # "idle" /\ Truthful(run[s].kind, Phase("pending"))
    BY DEF Phase, Truthful
  <2>. QED  BY <1>8, <2>2, <2>3, <2>4, <2>5, Moves DEF writeContract
<1>9. CASE receipt(s)
  <2>1. CASE run[s].tx \in {"success", "replaced"} /\ Received(s)
    <3>1. CASE run[s].kind = "withdraw"
      <4> DEFINE phase == Told(s, "success", "open")
      <4>1. run' = [run EXCEPT ![s] = Off] /\ setPhase(s, phase)
        BY <2>1, <3>1 DEF Received
      <4>a. phase.step = "success" /\ (run[s].tx = "replaced" => phase.replaced)
        BY ToldHolds
      <4> HIDE DEF phase
      <4>2. phase.step # "idle" /\ Truthful(run[s].kind, phase)
        BY <1>3, <2>1, <3>1, <4>a DEF Truthful, SoundNext, SettleKind
      <4>3. SoundNext(Off) /\ Off.at = "off"
        BY DEF SoundNext, Off
      <4>. QED  BY <1>9, <4>1, <4>2, <4>3, Moves DEF receipt
    <3>2. CASE run[s].kind # "withdraw" /\ run[s].current
      <4>1. PICK q : q = [run[s] EXCEPT !.at = "indexLoop"]
        OBVIOUS
      <4>2. /\ q.at = "indexLoop" /\ q.kind = run[s].kind
            /\ q.current = run[s].current /\ q.tx = run[s].tx
        BY <1>1, <4>1 DEF Attempt
      <4> DEFINE phase == Told(s, "indexing", "open")
      <4>3. run' = [run EXCEPT ![s] = q] /\ setPhase(s, phase)
        BY <2>1, <3>2, <4>1 DEF Received, Goto
      <4>a. phase.step = "indexing" /\ (run[s].tx = "replaced" => phase.replaced)
        BY ToldHolds
      <4> HIDE DEF phase
      <4>4. SoundNext(q)
        BY <1>3, <1>9, <2>1, <3>2, <4>2 DEF SoundNext, receipt
      <4>5. phase.step # "idle" /\ Truthful(run[s].kind, phase)
        BY <1>3, <2>1, <3>2, <4>a DEF Truthful, SoundNext
      <4>. QED  BY <1>9, <4>2, <4>3, <4>4, <4>5, Moves DEF receipt
    <3>3. CASE run[s].kind # "withdraw" /\ ~run[s].current
      BY <1>4, <1>9, <2>1, <3>3 DEF Received, receipt
    <3>. QED  BY <3>1, <3>2, <3>3
  <2>2. CASE Fail(s)
    BY <1>4, <1>9, <2>2 DEF receipt
  <2> DEFINE r == IF run[s].tx = "inflight" THEN [run[s] EXCEPT !.at = "mining"] ELSE Off
  <2>3. CASE run' = [run EXCEPT ![s] = r] /\ setPhase(s, Phase("error"))
    <3>1. PICK q : q = r
      OBVIOUS
    <3>2. \/ q = Off
          \/ /\ q.at = "mining" /\ q.kind = run[s].kind
             /\ q.current = run[s].current /\ q.tx = run[s].tx
      BY <1>1, <3>1 DEF Attempt
    <3>3. SoundNext(q) /\ (q.at = "off" \/ (q.kind = run[s].kind /\ q.current = run[s].current))
      BY <1>3, <1>9, <3>2 DEF SoundNext, Off, receipt
    <3>4. Phase("error").step # "idle" /\ Truthful(run[s].kind, Phase("error"))
      BY DEF Phase, Truthful
    <3>5. run' = [run EXCEPT ![s] = q]
      BY <2>3, <3>1
    <3>. QED  BY <1>9, <2>3, <3>3, <3>4, <3>5, Moves DEF receipt
  <2>4. \/ run[s].tx \in {"success", "replaced"} /\ Received(s)
        \/ Fail(s)
        \/ run' = [run EXCEPT ![s] = r] /\ setPhase(s, Phase("error"))
    BY <1>9 DEF receipt
  <2> HIDE DEF r
  <2>. QED  BY <2>1, <2>2, <2>3, <2>4
<1>10. CASE indexLoop(s)
  <2>1. SoundNext(Off) /\ Off.at = "off"
    BY DEF SoundNext, Off
  <2>2. PICK phase : phase = Told(s, "confirmed", row)
    OBVIOUS
  <2>3. run[s].current => row \in SettleKind /\ row = outcome' /\ outcome' = outcome
    BY <1>2, <1>10 DEF indexLoop, SettleInv, SettlementTypeOK, Copied, Decided
  <2>4. /\ phase.step = "confirmed"
        /\ run[s].current => /\ phase.status = row
                             /\ run[s].tx = "replaced" => phase.replaced
    <3>1. phase.step = "confirmed"
      BY <2>2 DEF Told
    <3>. QED  BY <2>2, <2>3, <3>1, ToldHolds
  <2>5. phase.step # "idle" /\ (run[s].current => Truthful(run[s].kind, phase))
    BY <1>3, <1>10, <2>3, <2>4 DEF Truthful, SoundNext, indexLoop
  <2>6. run' = [run EXCEPT ![s] = Off] /\ setPhase(s, phase) /\ run[s].at # "off"
    BY <1>10, <2>2 DEF indexLoop
  <2>. QED  BY <2>1, <2>5, <2>6, Moves
<1>. QED  BY <1>5, <1>6, <1>7, <1>8, <1>9, <1>10 DEF Step

-----------------------------------------------------------------------------
\* The page of an open question shows nothing and owes nothing yet.
LEMMA SettleStart == Init => SettleInv
<1> SUFFICES ASSUME Init PROVE SettleInv
  OBVIOUS
<1>1. SettlementTypeOK
  <2>1. Off \in Attempt /\ Phase("idle") \in Shown
    BY PhaseHolds DEF Attempt, Off, Kinds, SettleKind, Phases
  <2>. QED  BY <2>1 DEF Init, SettlementTypeOK
<1>2. \A s \in Runs : Sound(run[s]) /\ OnScreen(run[s])
  BY DEF Init, Sound, OnScreen, Off
<1>3. AnsweredHasBody /\ SettledIsMine /\ OneActionShown /\ Copied
  BY DEF Init, AnsweredHasBody, SettledIsMine, OneActionShown, Copied, Phase, Siblings,
     Actions, Kinds, SettleKind
<1>. QED  BY <1>1, <1>2, <1>3 DEF SettleInv

\* Every step keeps the invariant.
LEMMA SettleStep == SettleInv /\ [Next]_vars => SettleInv'
<1> SUFFICES ASSUME SettleInv, [Next]_vars PROVE SettleInv'
  OBVIOUS
<1>1. ASSUME NEW s \in Runs, Press(s) PROVE SettleInv'
  <2>1. CASE withdraw(s)
    <3>1. Begin(s, "withdraw", {}) /\ Siblings("withdraw") = {}
      BY <2>1 DEF withdraw, Siblings, Actions
    <3>. QED  BY <3>1, Begins
  <2>2. ASSUME NEW k \in Kinds, onConfirm(s, k) PROVE SettleInv'
    <3>1. k \in Actions(role) /\ Begin(s, k, Siblings(k))
      BY <2>2 DEF onConfirm
    <3>. QED  BY <3>1, Begins
  <2>3. ASSUME NEW k \in Kinds, retry(s, k) PROVE SettleInv'
    <3>1. k \in Actions(role) /\ hook[k].step = "error" /\ Begin(s, k, {})
      BY <2>3 DEF retry, Active
    <3>2. \A j \in Siblings(k) : hook[j].step = "idle"
      BY <3>1 DEF SettleInv, OneActionShown
    <3>. QED  BY <3>1, <3>2, Begins
  <2>. QED  BY <1>1, <2>1, <2>2, <2>3 DEF Press
<1>2. CASE \E s \in Runs : Step(s)
  BY <1>2, StepKeeps
<1>3. CASE \E s \in Runs : mine(s) \/ replaceInWallet(s)
  BY <1>3, Mined
<1>4. ASSUME NEW k \in Kinds, reset(k) PROVE SettleInv'
  <2>1. /\ run' = Abandon({k})
        /\ hook' = [j \in Kinds |-> IF j \in {k} THEN Phase("idle") ELSE hook[j]]
    BY <1>4 DEF reset, Render, SettleInv, SettlementTypeOK
  <2>. QED  BY <2>1, Abandons
<1>5. ASSUME NEW p, open(p) PROVE SettleInv'
  <2>1. /\ run' = Abandon(Kinds)
        /\ hook' = [j \in Kinds |-> IF j \in Kinds THEN Phase("idle") ELSE hook[j]]
    BY <1>5 DEF open
  <2>. QED  BY <2>1, Abandons
<1>6. CASE \/ \E k \in Kinds : arm(k) \/ settledElsewhere(k)
           \/ \E b \in armed : keepIt(b)
           \/ rerender \/ index \/ deadlinePasses \/ UNCHANGED vars
  <2>1. UNCHANGED <<run, hook>>
    BY <1>6 DEF arm, settledElsewhere, keepIt, rerender, index, deadlinePasses, browser, vars
  <2>. QED  BY <2>1, BrowserRests
<1>. QED  BY <1>1, <1>2, <1>3, <1>4, <1>5, <1>6 DEF Next

\* The invariant holds in every reachable state, for any number of attempts.
THEOREM SettlementInvariant == Spec => []SettleInv
BY SettleStart, SettleStep, PTL DEF Spec

\* Hooks, attempts, database and chain keep their types (SettlementTypeOK).
THEOREM SettlementTypes == Spec => []SettlementTypeOK
<1>1. SettleInv => SettlementTypeOK
  BY DEF SettleInv
<1>. QED  BY <1>1, SettlementInvariant, PTL

\* What is answered on-chain has a body to reveal (AnsweredHasBody).
THEOREM SettlementAnswerHasBody == Spec => []AnsweredHasBody
<1>1. SettleInv => AnsweredHasBody
  BY DEF SettleInv
<1>. QED  BY <1>1, SettlementInvariant, PTL

\* For any number of attempts and unmined transactions (SettledIsMine): a page that
\* says "confirmed on-chain" or "Withdrawn" says it of what the chain did by the
\* page's own action, unless the transaction was replaced in the wallet, and the
\* status it shows is the question's in either case (useSettleAction.ts:130-156,
\* 209-213, useWithdraw.ts:96-98).
THEOREM SettlementIsMine == Spec => []SettledIsMine
<1>1. SettleInv => SettledIsMine
  BY DEF SettleInv
<1>. QED  BY <1>1, SettlementInvariant, PTL

\* A panel shows one action at most (OneActionShown).
THEOREM SettlementOneAction == Spec => []OneActionShown
<1>1. SettleInv => OneActionShown
  BY DEF SettleInv
<1>. QED  BY <1>1, SettlementInvariant, PTL
=============================================================================
