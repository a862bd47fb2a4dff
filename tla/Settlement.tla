----------------------------- MODULE Settlement -----------------------------
(***************************************************************************)
(* How a paid question is closed from a browser, that of its answerer      *)
(* (answer, decline) or of its asker (cancel, reclaim), and how what the   *)
(* settlement paid is withdrawn.  apps/web/app: the hooks                  *)
(* useSettleAction.ts and useWithdraw.ts and the components that call them. *)
(*                                                                         *)
(* One hook per action, each with its phase; an attempt of a hook is an    *)
(* async function with its own program counter, which a later attempt, a   *)
(* reset or an unmount abandons without stopping it.  The transaction it   *)
(* has sent outlives it too, until it is mined.                            *)
(*                                                                         *)
(* One question and one of its participants; the other one, and whoever    *)
(* reclaims for the asker, settle on-chain behind the page's back.  The    *)
(* contract is reduced to who may settle when (Escrow.tla has the rest),   *)
(* the indexer to the copy it makes of the outcome (Indexer.tla).          *)
(***************************************************************************)
EXTENDS Naturals

CONSTANT Runs   \* bound: attempts and unmined transactions at once

VARIABLES
  role,      \* who sits at this browser
  page,      \* the page on screen: the question, or the balance card
  hook,      \* the phase of each hook, and the status a confirmed one shows;
             \* "replaced", which no page knows: was it another transaction's receipt?
  run,       \* the attempts
  armed,     \* the ConfirmButtons that show their confirmation
  offered,   \* what the asker's button did when it was last rendered
  saved,     \* database: does the hidden answer have a body?
  row,       \* database: questions.status
  outcome,   \* on-chain: "open", or the action that settled the question
  credit,    \* on-chain: what the settlement credited to the role, if anything
  late,      \* on-chain: has the deadline passed?
  clock      \* has it passed by the browser's clock?

browser == <<role, page, hook, run, armed, offered>>
chain == <<outcome, credit, late>>
vars == <<browser, saved, row, chain, clock>>

SettleKind == {"answer", "decline", "cancel", "reclaim"}
Kinds == SettleKind \cup {"withdraw"}
Actions(r) == IF r = "answerer" THEN {"answer", "decline"} ELSE {"cancel", "reclaim"}
Siblings(k) == CASE k \in Actions("answerer") -> Actions("answerer") \ {k}
                 [] k \in Actions("asker") -> Actions("asker") \ {k}
                 [] OTHER -> {}
\* The asker's two actions share one ConfirmButton, so one armed state.  The
\* withdrawal's cannot stay armed once it is disabled.
Button(k) == IF k \in Actions("asker") THEN "asker" ELSE k
Payee(k) == IF k = "answer" THEN "answerer" ELSE "asker"

Busy == {"preparing", "confirming", "pending", "indexing"}
Phases == Busy \cup {"idle", "confirmed", "success", "error"}
Off == [at |-> "off", kind |-> "answer", current |-> FALSE, tx |-> "none"]
Phase(step) == [step |-> step, status |-> "open", replaced |-> FALSE]

Shown == [step : Phases \ {"confirmed"}, status : {"open"}, replaced : BOOLEAN]
         \cup [step : {"confirmed"}, status : SettleKind, replaced : BOOLEAN]

Attempt == [at : {"off", "preflight", "simulate", "prompt", "receipt", "indexLoop", "mining"},
            kind : Kinds, current : BOOLEAN,
            tx : {"none", "inflight", "success", "reverted", "replaced"}]

SettlementTypeOK ==
  /\ hook \in [Kinds -> Shown]
  /\ run \in [Runs -> Attempt]
  /\ role \in {"answerer", "asker"} /\ page \in {"question", "balance"}
  /\ armed \subseteq {Button(k) : k \in Actions(role)}
  /\ offered \in {"cancel", "reclaim"}
  /\ saved \in BOOLEAN
  /\ {row, outcome} \subseteq SettleKind \cup {"open"}
  /\ credit \in {"none", "owed", "paid"}
  /\ late \in BOOLEAN /\ clock \in BOOLEAN

\* The question has been paid for and indexed; its page has just been loaded.
Init ==
  /\ role \in {"answerer", "asker"} /\ page = "question"
  /\ hook = [k \in Kinds |-> Phase("idle")]
  /\ run = [s \in Runs |-> Off]
  /\ armed = {}
  /\ offered = "cancel"
  /\ saved = FALSE
  /\ row = "open" /\ outcome = "open" /\ credit = "none"
  /\ late = FALSE /\ clock = FALSE

-----------------------------------------------------------------------------
(* The chain, the indexer and time *)

Valid(k) ==
  CASE k = "withdraw" -> credit = "owed"
    [] k = "cancel"   -> outcome = "open" /\ ~late
    [] k = "reclaim"  -> outcome = "open" /\ late
    [] OTHER          -> outcome = "open"

\* A node that lags, or has not lagged, simulates the call as it was valid once.
WasValid(k) == (k = "reclaim" => late) /\ (k = "withdraw" => credit # "none")

Execute(k) ==
  IF k = "withdraw" THEN credit' = "paid" /\ UNCHANGED outcome
  ELSE outcome' = k /\ credit' = IF Payee(k) = role THEN "owed" ELSE credit

mine(s) ==
  LET k == run[s].kind IN
  /\ run[s].tx = "inflight"
  /\ run' = [run EXCEPT ![s] =
       IF @.at = "mining" THEN Off
       ELSE [@ EXCEPT !.tx = IF Valid(k) THEN "success" ELSE "reverted"]]
  /\ IF Valid(k) THEN Execute(k) ELSE UNCHANGED <<outcome, credit>>
  /\ UNCHANGED <<role, page, hook, armed, offered, saved, row, late, clock>>

\* In the wallet the transaction is replaced by another one of the same nonce (its
\* "cancel"), which is mined and succeeds, and does nothing to the question.
replaceInWallet(s) ==
  /\ run[s].tx = "inflight"
  /\ run' = [run EXCEPT ![s] = IF @.at = "mining" THEN Off ELSE [@ EXCEPT !.tx = "replaced"]]
  /\ UNCHANGED <<role, page, hook, armed, offered, saved, row, chain, clock>>

\* The other participant settles, or somebody reclaims for the asker.
settledElsewhere(k) ==
  /\ k \in (SettleKind \ Actions(role)) \cup {"reclaim"}
  /\ Valid(k) /\ Execute(k)
  /\ UNCHANGED <<browser, saved, row, late, clock>>

index ==
  /\ row # outcome
  /\ row' = outcome
  /\ UNCHANGED <<browser, saved, chain, clock>>

\* The deadline passes on the chain and on the browser's clock, in either order;
\* only the asker's panel looks at the latter.
deadlinePasses ==
  /\ \/ ~late /\ late' = TRUE /\ UNCHANGED clock
     \/ role = "asker" /\ ~clock /\ clock' = TRUE /\ UNCHANGED late
  /\ UNCHANGED <<browser, saved, row, outcome, credit>>

-----------------------------------------------------------------------------
(* What the pages render *)

askerActionFor == IF clock THEN "reclaim" ELSE "cancel"

Render_once(h) == hook' = h /\ UNCHANGED offered

\* A change of a hook renders the panel that calls it, and the asker's panel then
\* looks at the clock.
Render(h) ==
  /\ hook' = h
  /\ offered' = IF \E k \in {"cancel", "reclaim"} : h[k] # hook[k]
                THEN askerActionFor ELSE offered

busy(k) == hook[k].step \in Busy

\* The button is rendered, and not disabled.
Enabled(k) ==
  /\ page = "question" /\ k \in Actions(role) /\ ~busy(k)
  /\ IF role = "answerer" THEN \A j \in Siblings(k) : ~busy(j) ELSE k = offered

arm(k) ==
  /\ Enabled(k) /\ Button(k) \notin armed
  /\ armed' = armed \cup {Button(k)}
  /\ UNCHANGED <<role, page, hook, run, offered, saved, row, chain, clock>>

\* Keep it; or the wallet is disconnected or on another network or account, and
\* the gate puts a prompt in the button's place.
keepIt(b) ==
  /\ b \in armed
  /\ armed' = armed \ {b}
  /\ UNCHANGED <<role, page, hook, run, offered, saved, row, chain, clock>>

rerender ==
  /\ role = "asker" /\ offered # askerActionFor
  /\ offered' = askerActionFor
  /\ UNCHANGED <<role, page, hook, run, armed, saved, row, chain, clock>>

Abandon(K) == [s \in Runs |-> [run[s] EXCEPT !.current = @ /\ run[s].kind \notin K]]

\* execute starts: the answer's draft is saved first, the rest simulates at once.
Begin(s, k, reset) ==
  /\ run[s].at = "off"
  /\ run' = [Abandon({k} \cup reset) EXCEPT ![s] =
               [Off EXCEPT !.at = IF k = "answer" THEN "preflight" ELSE "simulate",
                           !.kind = k, !.current = TRUE]]
  /\ Render([j \in Kinds |->
       CASE j = k -> Phase(IF k = "answer" THEN "preparing" ELSE "confirming")
         [] j \in reset -> Phase("idle")
         [] OTHER -> hook[j]])

onConfirm_keepsSibling(s, k) ==
  /\ k \in Actions(role) /\ Button(k) \in armed
  /\ role = "asker" => k = offered
  /\ armed' = armed \ {Button(k)}
  /\ Begin(s, k, {})
  /\ UNCHANGED <<role, page, saved, row, chain, clock>>

\* Once armed, the confirmation stays pressable, whatever has become busy since.
\* It resets the panel's other action and runs this one.
onConfirm(s, k) ==
  /\ k \in Actions(role) /\ Button(k) \in armed
  /\ role = "asker" => k = offered
  /\ armed' = armed \ {Button(k)}
  /\ Begin(s, k, Siblings(k))
  /\ UNCHANGED <<role, page, saved, row, chain, clock>>

\* SettleStatus shows the panel's active action and offers these on a failure.
Active(k) ==
  /\ k \in Actions(role)
  /\ hook[k].step = "error"
  /\ k \in {"decline", "reclaim"} => \A j \in Siblings(k) : hook[j].step = "idle"

retry(s, k) ==
  /\ Active(k)
  /\ Begin(s, k, {})
  /\ UNCHANGED <<role, page, armed, saved, row, chain, clock>>

reset(k) ==
  /\ Active(k)
  /\ run' = Abandon({k})
  /\ Render([hook EXCEPT ![k] = Phase("idle")])
  /\ UNCHANGED <<role, page, armed, saved, row, chain, clock>>

\* The balance card withdraws when it reads a balance, perhaps an old one.
withdraw(s) ==
  /\ page = "balance" /\ credit # "none" /\ ~busy("withdraw")
  /\ Begin(s, "withdraw", {})
  /\ UNCHANGED <<role, page, armed, saved, row, chain, clock>>

\* Another page is opened, or this one anew: the hooks are unmounted, and the
\* question's panel is there if the question is open.
open(p) ==
  /\ p = "question" => row = "open"
  /\ page' = p
  /\ hook' = [k \in Kinds |-> Phase("idle")]
  /\ run' = Abandon(Kinds)
  /\ armed' = {}
  /\ offered' = askerActionFor
  /\ UNCHANGED <<role, saved, row, chain, clock>>

-----------------------------------------------------------------------------
(* execute, step by step *)

setPhase(s, phase) ==
  Render(IF run[s].current THEN [hook EXCEPT ![run[s].kind] = phase] ELSE hook)

Goto(s, at) == run' = [run EXCEPT ![s].at = at]
Fail(s) == run' = [run EXCEPT ![s] = Off] /\ setPhase(s, Phase("error"))
Rest == <<role, page, armed, saved, row, chain, clock>>

preflight_unchecked(s) ==
  /\ run[s].at = "preflight"
  /\ \/ saved' = (saved \/ row # "answer")
     \/ UNCHANGED saved
  /\ IF run[s].current
     THEN Goto(s, "simulate") /\ setPhase(s, Phase("confirming"))
     ELSE Fail(s)
  /\ UNCHANGED <<role, page, armed, row, chain, clock>>

\* POST /questions/:id/answer saves the body unless the answer is already
\* indexed; it may also fail, or save it and fail to say so.
preflight(s) ==
  /\ run[s].at = "preflight"
  /\ \/ /\ row # "answer" /\ saved' = TRUE
        /\ IF run[s].current
           THEN Goto(s, "simulate") /\ setPhase(s, Phase("confirming"))
           ELSE Fail(s)
     \/ row # "answer" /\ saved' = TRUE /\ Fail(s)
     \/ UNCHANGED saved /\ Fail(s)
  /\ UNCHANGED <<role, page, armed, row, chain, clock>>

simulate(s) ==
  /\ run[s].at = "simulate"
  /\ WasValid(run[s].kind)
  /\ Goto(s, "prompt")
  /\ UNCHANGED <<hook, offered, Rest>>

\* The contract refuses, or the node cannot be reached.
simulateFails(s) == run[s].at = "simulate" /\ Fail(s) /\ UNCHANGED Rest

\* The wallet sends.  An abandoned attempt ends here, its transaction does not.
writeContract(s) ==
  /\ run[s].at = "prompt"
  /\ run' = [run EXCEPT ![s].tx = "inflight",
                        ![s].at = IF run[s].current THEN "receipt" ELSE "mining"]
  /\ setPhase(s, Phase("pending"))
  /\ UNCHANGED Rest

walletDeclines(s) ==
  /\ run[s].at = "prompt"
  /\ Fail(s)
  /\ UNCHANGED Rest

\* A phase shown on the strength of the attempt's receipt.
Told(s, step, status) ==
  [step |-> step, status |-> status, replaced |-> run[s].tx = "replaced"]

Received(s) ==
  IF run[s].kind = "withdraw"
  THEN run' = [run EXCEPT ![s] = Off] /\ setPhase(s, Told(s, "success", "open"))
  ELSE IF run[s].current
  THEN Goto(s, "indexLoop") /\ setPhase(s, Told(s, "indexing", "open"))
  ELSE Fail(s)

receipt_anyStatus(s) ==
  /\ run[s].at = "receipt"
  /\ run[s].tx \in {"success", "reverted", "replaced"}
  /\ Received(s)
  /\ UNCHANGED Rest

\* A receipt comes, for a transaction that was replaced that of its replacement,
\* and nothing but its status is looked at; or none can be fetched and the
\* transaction may still be mined, which is also what a wallet leaves behind that
\* fails after it has sent.
receipt(s) ==
  /\ run[s].at = "receipt"
  /\ \/ run[s].tx \in {"success", "replaced"} /\ Received(s)
     \/ run[s].tx = "reverted" /\ Fail(s)
     \/ /\ run' = [run EXCEPT ![s] =
                     IF run[s].tx = "inflight" THEN [run[s] EXCEPT !.at = "mining"] ELSE Off]
        /\ setPhase(s, Phase("error"))
  /\ UNCHANGED Rest

indexLoop_firstPoll(s) ==
  /\ run[s].at = "indexLoop"
  /\ run' = [run EXCEPT ![s] = Off]
  /\ setPhase(s, Told(s, "confirmed", row))
  /\ UNCHANGED Rest

\* The poll: any terminal status ends it.  A poll that fails comes back later.
indexLoop(s) ==
  /\ run[s].at = "indexLoop"
  /\ ~run[s].current \/ row # "open"
  /\ run' = [run EXCEPT ![s] = Off]
  /\ setPhase(s, Told(s, "confirmed", row))
  /\ UNCHANGED Rest

-----------------------------------------------------------------------------
Step(s) ==
  \/ preflight(s) \/ simulate(s) \/ simulateFails(s) \/ writeContract(s)
  \/ walletDeclines(s) \/ receipt(s) \/ indexLoop(s)

Press(s) == withdraw(s) \/ \E k \in Kinds : onConfirm(s, k) \/ retry(s, k)

Next ==
  \/ \E s \in Runs : Press(s) \/ Step(s) \/ mine(s) \/ replaceInWallet(s)
  \/ \E k \in Kinds : arm(k) \/ reset(k) \/ settledElsewhere(k)
  \/ \E b \in armed : keepIt(b)
  \/ \E p \in {"question", "balance"} : open(p)
  \/ rerender \/ index \/ deadlinePasses

Spec == Init /\ [][Next]_vars

\* Attempts go on, transactions are mined, time passes, the indexer catches up.
\* An asker comes back to an open question and, once it is closed, to the balance,
\* keeps pressing what is offered and loads a page anew that only polls; the wallet
\* and the nodes do not fail a reclaim or a withdrawal for ever, nor does the asker
\* for ever replace it in the wallet.
Fairness ==
  /\ \A s \in Runs : WF_vars(Step(s)) /\ WF_vars(mine(s))
  /\ WF_vars(deadlinePasses) /\ WF_vars(index)
  /\ WF_vars(role = "asker" /\ page = "balance" /\ open("question"))
  /\ WF_vars(role = "asker" /\ page = "question" /\ row # "open" /\ open("balance"))
  /\ WF_vars(/\ role = "asker" /\ page = "question"
             /\ \E k \in SettleKind : hook[k].step = "indexing"
             /\ open("question"))
  /\ SF_vars(role = "asker" /\ arm(offered) /\ \E s \in Runs : run[s].at = "off")
  /\ SF_vars(\E s \in Runs : role = "asker" /\ onConfirm(s, offered))
  /\ SF_vars(\E s \in Runs : role = "asker" /\ withdraw(s))
  /\ SF_vars(\E s \in Runs : run[s].kind \in {"reclaim", "withdraw"} /\ simulate(s))
  /\ SF_vars(\E s \in Runs : run[s].kind \in {"reclaim", "withdraw"} /\ writeContract(s))
  /\ SF_vars(\E s \in Runs : run[s].kind \in {"reclaim", "withdraw"} /\ mine(s))

FairSpec == Spec /\ Fairness

-----------------------------------------------------------------------------
(* Properties *)

\* What is answered on-chain has a body to reveal: no answer is sent before its
\* draft is saved, on any path through failures, retries, abandoned attempts and
\* answers that were sent twice (useSettleAction.ts:175-187, AnswerPanel.tsx:87-93).
AnsweredHasBody == outcome = "answer" /\ role = "answerer" => saved

\* "Confirmed on-chain" and the status that follows are the action's own: though
\* the poll ends at any terminal status and several attempts of both parties race
\* on-chain, it starts only for the transaction that settled the question
\* (useSettleAction.ts:130-156, 209-213), and "Withdrawn" means paid out
\* (useWithdraw.ts:96-98).  The one exception is a transaction that was replaced in
\* the wallet, whose replacement's receipt is taken for its own; even then the
\* status shown is the question's true one.
SettledIsMine ==
  /\ \A k \in SettleKind :
       /\ hook[k].step \in {"indexing", "confirmed"} => hook[k].replaced \/ outcome = k
       /\ hook[k].step = "confirmed" => hook[k].status = outcome
  /\ hook["withdraw"].step = "success" => hook["withdraw"].replaced \/ credit = "paid"

\* A panel shows one action: though both confirmations can be armed and stay
\* pressable while the other action runs (ConfirmButton.tsx:32-34), no phase is
\* hidden behind the other's (AnswerPanel.tsx:98, AskerActions.tsx:46).
OneActionShown ==
  \A k \in Kinds : hook[k].step # "idle" => \A j \in Siblings(k) : hook[j].step = "idle"

\* The asker gets out: at the latest when the deadline has passed and a stale offer
\* to cancel is corrected by its own failure, the question settles, and a refund is
\* withdrawn; neither is ever undone (AskerActions.tsx:28, 62-101,
\* WithdrawCard.tsx:98-106).
MoneyGetsOut ==
  role = "asker" => <>(outcome # "open" /\ (Payee(outcome) = role => credit = "paid"))
=============================================================================
