---------------------------- MODULE CheckoutProofs ----------------------------
(***************************************************************************)
(* Proofs about Checkout, for any number of attempts, questions and        *)
(* transactions and any balance.                                           *)
(*                                                                         *)
(* What the form shows is not inductive: that "indexing" means a payment   *)
(* was accepted, or replaced in the wallet, needs which transaction each   *)
(* attempt waits for, and that an abandoned attempt shows nothing needs    *)
(* that only the one attempt with the token may set the phase.             *)
(* CheckoutInv says both.                                                  *)
(*                                                                         *)
(* The proof that a step keeps it has two halves.  World: whatever moves   *)
(* outside the browser, a payment that was accepted or replaced and a      *)
(* question that is open stay so (PaidForGood, StillFits).  Client: an     *)
(* attempt begins, goes on, ends or is abandoned, one lemma for each       *)
(* (Begins, Goes, Ends, Abandons), and every action of the hook is one of  *)
(* the four.                                                               *)
(*                                                                         *)
(* That a question is paid for once needs a second invariant over the      *)
(* first, Once: an attempt that has not paid has a question nothing pays   *)
(* for yet, and so does a retry.  That the bounds of the types are never   *)
(* passed needs a third, Bounded: transactions are mined in the order they *)
(* were sent, and the permit nonce counts some of those that were.         *)
(***************************************************************************)
EXTENDS Checkout, FiniteSetTheorems, SequenceTheorems, TLAPS

-----------------------------------------------------------------------------
(* The inductive invariant *)

\* The types without the bounds of CheckoutTypeOK, which the model has for TLC.
Attempts == [at : At, id : Ids \cup {NoId}, current : BOOLEAN, tx : Nat, nonce : Nat]
Holdings == [balance : Int, allowance : 0..1, nonce : Nat]
Sendings == [fn : Payment \cup {"approve"}, id : Ids \cup {NoId}, nonce : Nat,
             status : Statuses]
Phases == [step : Busy \cup Failed \cup {"idle", "confirmed"}, id : Ids \cup {NoId}]

Typed ==
  /\ run \in [Runs -> Attempts]
  /\ phase \in Phases
  /\ pendingId \in Ids \cup {NoId}
  /\ row \in [Ids -> {"unminted", "pending_payment", "open", "swept"}]
  /\ sent \in Seq(Sendings)
  /\ account \in Holdings /\ stale \in Holdings

\* The attempts that hold the token: at most one, exactly while the form is busy,
\* and a retry would pay for its question.
Live == {s \in Runs : run[s].at # "off" /\ run[s].current}
Token ==
  /\ phase.step \in Busy <=> Live # {}
  /\ \A s, t \in Live : s = t
  /\ \A s \in Live : run[s].at # "create" => run[s].id = pendingId

\* Every question that is, or will be, paid for has been minted.
Minted(id) == id \in Ids /\ row[id] # "unminted"
AllMinted ==
  /\ pendingId # NoId => Minted(pendingId)
  /\ \A s \in Runs : run[s].at \notin {"off", "create"} => Minted(run[s].id)

\* A receipt that succeeded was one of a payment, or of what replaced it.
Receipted(id) == Paid(id) \/ Replaced(id)

\* An attempt waits for a payment of its own question, and polls only after such a
\* receipt; the indexer opens only what was paid.
Following ==
  /\ \A s \in Runs :
       /\ run[s].at = "receipt" =>
            run[s].tx \in DOMAIN sent /\ Pays(sent[run[s].tx], run[s].id)
       /\ run[s].at = "indexLoop" => Receipted(run[s].id)
  /\ phase.step \in {"indexing", "confirmed"} => phase.id \in Ids
  /\ \A id \in Ids : row[id] = "open" => Paid(id)

CheckoutInv == Typed /\ Token /\ AllMinted /\ Following /\ ShownIsPaid

\* No attempt, nothing shown, nothing sent.
LEMMA CheckoutStart == Init => CheckoutInv
<1> SUFFICES ASSUME Init PROVE CheckoutInv
  OBVIOUS
<1> USE NoIdAssumption DEF Init
<1>1. Off \in Attempts
  BY DEF Off, Attempts, At
<1>2. account \in Holdings
  BY DEF Accounts, Holdings
<1>3. Typed
  BY <1>1, <1>2 DEF Typed, Phases, Show
<1>4. Token
  BY DEF Token, Live, Off, Show, Busy
<1> QED BY <1>3, <1>4 DEF CheckoutInv, AllMinted, Following, ShownIsPaid, Off, Show

-----------------------------------------------------------------------------
(* What the world may do *)

\* What a transaction in flight comes to.
Outcomes == {"success", "reverted", "replaced"}

\* A transaction keeps what it pays for, and an accepted one stays accepted, a
\* replaced one replaced.
LEMMA PaidForGood ==
  ASSUME sent \in Seq(Sendings),
         \/ UNCHANGED sent
         \/ \E tx \in Sendings : sent' = Append(sent, tx)
         \/ \E i \in DOMAIN sent, st \in Outcomes :
              sent[i].status = "inflight" /\ sent' = [sent EXCEPT ![i].status = st]
  PROVE  /\ sent' \in Seq(Sendings)
         /\ \A i \in DOMAIN sent, id \in Ids : i \in DOMAIN sent' /\ (Pays(sent[i], id) <=> Pays(sent'[i], id))
         /\ \A id \in Ids : (Paid(id) => Paid(id)') /\ (Replaced(id) => Replaced(id)')
<1>1. CASE UNCHANGED sent
  BY <1>1 DEF Paid, Replaced
<1>2. ASSUME NEW tx \in Sendings, sent' = Append(sent, tx)
      PROVE  /\ sent' \in Seq(Sendings)
             /\ \A i \in DOMAIN sent : i \in DOMAIN sent' /\ sent'[i] = sent[i]
  BY <1>2
<1>3. ASSUME NEW i \in DOMAIN sent, NEW st \in Outcomes,
             sent[i].status = "inflight", sent' = [sent EXCEPT ![i].status = st]
      PROVE  /\ sent' \in Seq(Sendings)
             /\ DOMAIN sent' = DOMAIN sent
             /\ \A j \in DOMAIN sent : /\ sent'[j].fn = sent[j].fn /\ sent'[j].id = sent[j].id
                                       /\ sent[j].status \in {"success", "replaced"} =>
                                            sent'[j].status = sent[j].status
  <2> DEFINE tx == [sent[i] EXCEPT !.status = st]
  <2>1. sent[i] \in Sendings
    BY <1>3
  <2>2. tx \in Sendings /\ tx.fn = sent[i].fn /\ tx.id = sent[i].id
    BY <2>1 DEF Sendings, Statuses, Outcomes
  <2>3. sent' = [sent EXCEPT ![i] = tx]
    BY <1>3
  <2> HIDE DEF tx
  <2>4. sent' \in Seq(Sendings) /\ DOMAIN sent' = DOMAIN sent
    BY <1>3, <2>2, <2>3
  <2> QED BY <1>3, <2>2, <2>3, <2>4
<1> QED BY <1>1, <1>2, <1>3 DEF Pays, Paid, Replaced

\* The wallet sends one more, the chain mines one or its replacement, or neither.
SentGrows ==
  \/ UNCHANGED sent
  \/ \E tx \in Sendings : sent' = Append(sent, tx)
  \/ \E i \in DOMAIN sent, st \in Outcomes :
       sent[i].status = "inflight" /\ sent' = [sent EXCEPT ![i].status = st]
\* The database never forgets a question, and opens only a paid one.
RowsGrow ==
  /\ row' \in [Ids -> {"unminted", "pending_payment", "open", "swept"}]
  /\ \A id \in Ids : /\ row[id] # "unminted" => row'[id] # "unminted"
                     /\ row[id] = "open" => row'[id] = "open"
                     /\ row'[id] = "open" => row[id] = "open" \/ Paid(id)'
World ==
  /\ SentGrows /\ RowsGrow
  /\ account' \in Holdings /\ stale' \in Holdings
\* Minted, Paid and Receipted in the next state.
MintedNext(id) == id \in Ids /\ row'[id] # "unminted"
PaidNext(id) == \E i \in DOMAIN sent' : Pays(sent'[i], id) /\ sent'[i].status = "success"
ReceiptedNext(id) ==
  PaidNext(id) \/ \E i \in DOMAIN sent' : Pays(sent'[i], id) /\ sent'[i].status = "replaced"
\* What the invariant asks of one attempt, and what it asks of the form.
Fits(r) ==
  /\ r \in Attempts
  /\ r.at \notin {"off", "create"} => MintedNext(r.id)
  /\ r.at = "receipt" => r.tx \in DOMAIN sent' /\ Pays(sent'[r.tx], r.id)
  /\ r.at = "indexLoop" => ReceiptedNext(r.id)
ShowsTrue ==
  /\ phase' \in Phases
  /\ phase'.step \in {"indexing", "confirmed"} =>
       \/ phase' = phase
       \/ /\ phase'.id \in Ids /\ ReceiptedNext(phase'.id)
          /\ phase'.step = "confirmed" => PaidNext(phase'.id) /\ row'[phase'.id] = "open"

\* What held of an attempt that does not move, or only loses its token, still holds.
LEMMA StillFits ==
  ASSUME CheckoutInv, World, NEW s \in Runs
  PROVE  Fits(run[s]) /\ Fits([run[s] EXCEPT !.current = FALSE])
<1> USE DEF CheckoutInv
<1>1. run[s] \in Attempts
  BY DEF Typed
<1> DEFINE r == [run[s] EXCEPT !.current = FALSE]
<1>2. r \in Attempts /\ r.at = run[s].at /\ r.id = run[s].id /\ r.tx = run[s].tx
  BY <1>1 DEF Attempts
<1>3. run[s].at \notin {"off", "create"} => run[s].id \in Ids /\ MintedNext(run[s].id)
  BY DEF World, RowsGrow, AllMinted, Minted, MintedNext
<1>4. /\ run[s].at = "receipt" => /\ run[s].tx \in DOMAIN sent'
                                  /\ Pays(sent'[run[s].tx], run[s].id)
      /\ run[s].at = "indexLoop" => ReceiptedNext(run[s].id)
  BY <1>3, PaidForGood DEF World, SentGrows, Following, Typed, Paid, PaidNext, Replaced,
     Receipted, ReceiptedNext
<1> HIDE DEF r
<1> QED BY <1>1, <1>2, <1>3, <1>4 DEF Fits, r

\* Attempts that fit and a form that shows the truth make the invariant.
LEMMA InvAgain ==
  ASSUME CheckoutInv, World, ShowsTrue, Token',
         run' = [s \in Runs |-> run'[s]], \A s \in Runs : Fits(run'[s]),
         pendingId' \in Ids \cup {NoId}, pendingId' # NoId => MintedNext(pendingId')
  PROVE  CheckoutInv'
<1> USE DEF CheckoutInv
<1>1. Typed'
  BY PaidForGood DEF World, SentGrows, RowsGrow, Typed, Fits, ShowsTrue
<1>2. AllMinted'
  BY DEF AllMinted, Minted, MintedNext, Fits
<1>3. \A id \in Ids : (Paid(id) => PaidNext(id)) /\ (Receipted(id) => ReceiptedNext(id))
  BY PaidForGood DEF World, SentGrows, Typed, Paid, PaidNext, Replaced, Receipted, ReceiptedNext
<1>4. \A id \in Ids : row'[id] = "open" => PaidNext(id)
  BY <1>3 DEF Following, World, RowsGrow, Paid, PaidNext
<1>5. phase'.step \in {"indexing", "confirmed"} =>
        /\ phase'.id \in Ids /\ ReceiptedNext(phase'.id)
        /\ phase'.step = "confirmed" => PaidNext(phase'.id) /\ row'[phase'.id] = "open"
  <2>1. CASE phase' = phase
    BY <2>1, <1>3 DEF ShownIsPaid, Following, World, RowsGrow, Receipted, ReceiptedNext
  <2> QED BY <2>1 DEF ShowsTrue
<1>6. Following'
  <2>1. \A s \in Runs :
          /\ run'[s].at = "receipt" =>
               run'[s].tx \in DOMAIN sent' /\ Pays(sent'[run'[s].tx], run'[s].id)
          /\ run'[s].at = "indexLoop" => ReceiptedNext(run'[s].id)
    BY DEF Fits
  <2> QED
    BY <2>1, <1>4, <1>5 DEF Following, Pays, Paid, PaidNext, Replaced, Receipted, ReceiptedNext
<1>7. ShownIsPaid'
  BY <1>5 DEF ShownIsPaid, Paid, PaidNext, Replaced, ReceiptedNext
<1> QED BY <1>1, <1>2, <1>6, <1>7

-----------------------------------------------------------------------------
(* What an attempt may do *)

\* An attempt moves on, keeping its question and its token.
LEMMA GoesOn ==
  ASSUME CheckoutInv, World, ShowsTrue, NEW s \in Runs, NEW r, Fits(r),
         run[s].at # "off", run' = [run EXCEPT ![s] = r], r.at \notin {"off", "create"},
         run[s].at # "create", r.id = run[s].id,
         r.current = run[s].current, phase' = phase \/ (r.current /\ phase'.step \in Busy),
         pendingId' = pendingId
  PROVE  CheckoutInv'
<1>1. \A t \in Runs : run'[t] = IF t = s THEN r ELSE run[t]
  BY DEF CheckoutInv, Typed
<1>2. Live' = Live
  BY <1>1 DEF Live
<1>3. Token'
  BY <1>1, <1>2 DEF CheckoutInv, Token, Live
<1>4. \A t \in Runs : Fits(run'[t])
  BY <1>1, StillFits
<1>5. pendingId' # NoId => MintedNext(pendingId')
  BY DEF CheckoutInv, Typed, AllMinted, Minted, MintedNext, World, RowsGrow
<1> QED BY <1>3, <1>4, <1>5, InvAgain DEF CheckoutInv, Typed

\* An attempt ends: one that held the token leaves the form free, another shows nothing.
LEMMA Ends ==
  ASSUME CheckoutInv, World, ShowsTrue, NEW s \in Runs, run[s].at # "off",
         run' = [run EXCEPT ![s] = Off],
         IF run[s].current THEN phase'.step \notin Busy ELSE phase' = phase,
         pendingId' = pendingId
  PROVE  CheckoutInv'
<1>0. Off.at = "off" /\ ~Off.current /\ Off \in Attempts
  BY DEF Off, Attempts, At
<1>1. \A t \in Runs : run'[t] = IF t = s THEN Off ELSE run[t]
  BY DEF CheckoutInv, Typed
<1>2. Live' = Live \ {s}
  BY <1>0, <1>1 DEF Live
<1>3. Token'
  <2>1. CASE run[s].current
    <3>1. s \in Live
      BY <2>1 DEF Live
    <3>2. Live' = {}
      BY <3>1, <1>2 DEF CheckoutInv, Token
    <3> QED BY <2>1, <3>2 DEF Token
  <2>2. CASE ~run[s].current
    <3>1. Live' = Live
      BY <2>2, <1>2 DEF Live
    <3> QED BY <2>2, <3>1, <1>0, <1>1 DEF CheckoutInv, Token, Live
  <2> QED BY <2>1, <2>2
<1>4. \A t \in Runs : Fits(run'[t])
  BY <1>0, <1>1, StillFits DEF Fits
<1>5. pendingId' # NoId => MintedNext(pendingId')
  BY DEF CheckoutInv, Typed, AllMinted, Minted, MintedNext, World, RowsGrow
<1> QED BY <1>3, <1>4, <1>5, InvAgain DEF CheckoutInv, Typed

\* A new attempt takes the token from every earlier one.
LEMMA Begins ==
  ASSUME CheckoutInv, World, NEW s \in Runs, NEW pc \in {"create", "check"},
         NEW id \in Ids \cup {NoId}, Begin(s, pc, id),
         phase'.step \in Busy \ {"indexing"}, phase' \in Phases,
         pendingId' = id, id # NoId => MintedNext(id), pc = "check" => id # NoId
  PROVE  CheckoutInv'
<1> DEFINE r == [Off EXCEPT !.at = pc, !.id = id, !.current = TRUE]
<1>1. r.at = pc /\ r.id = id /\ r.current
  BY DEF Off
<1>2. r \in Attempts
  BY DEF Off, Attempts, At
<1> HIDE DEF r
<1>3. run' = [[t \in Runs |-> [run[t] EXCEPT !.current = FALSE]] EXCEPT ![s] = r]
  BY DEF Begin, Abandoned, r
<1>4. \A t \in Runs : run'[t] = IF t = s THEN r ELSE [run[t] EXCEPT !.current = FALSE]
  BY <1>3
<1>5. \A t \in Runs : ~[run[t] EXCEPT !.current = FALSE].current
  BY DEF CheckoutInv, Typed, Attempts
<1>a. \A t \in Runs : t # s => ~run'[t].current
  BY <1>4, <1>5
<1>b. run'[s].at # "off" /\ run'[s].current
  BY <1>1, <1>4
<1>6. Live' = {s}
  BY <1>a, <1>b DEF Live
<1>7. Token'
  BY <1>1, <1>4, <1>6 DEF Token
<1>8. Fits(r)
  BY <1>1, <1>2 DEF Fits
<1>9. ShowsTrue
  BY DEF ShowsTrue, Busy
<1> QED BY <1>3, <1>4, <1>7, <1>8, <1>9, StillFits, InvAgain

\* Leaving the form or pressing reset abandons every attempt.
LEMMA Abandons ==
  ASSUME CheckoutInv, World, run' = Abandoned, phase' = Show("idle", NoId), pendingId' = NoId
  PROVE  CheckoutInv'
<1>1. \A t \in Runs : run'[t] = [run[t] EXCEPT !.current = FALSE]
  BY DEF Abandoned
<1>2. \A t \in Runs : ~run'[t].current
  BY <1>1 DEF CheckoutInv, Typed, Attempts
<1>3. Live' = {}
  BY <1>2 DEF Live
<1>4. Token' /\ ShowsTrue
  BY <1>3 DEF Token, Show, Busy, ShowsTrue, Phases
<1> QED BY <1>1, <1>4, StillFits, InvAgain DEF Abandoned

\* An attempt ends and shows how, if it may still show anything.
LEMMA StopsWith ==
  ASSUME CheckoutInv, World, NEW s \in Runs, run[s].at # "off",
         NEW step \in Failed \cup {"confirmed"}, StopWith(s, step), pendingId' = pendingId,
         step = "confirmed" /\ run[s].current =>
           PaidNext(run[s].id) /\ row'[run[s].id] = "open" /\ run[s].id \in Ids
  PROVE  CheckoutInv'
<1>1. run' = [run EXCEPT ![s] = Off] /\ phase' = IF run[s].current THEN Show(step, run[s].id) ELSE phase
  BY DEF StopWith, Stop, setPhase
<1>2. run[s].id \in Ids \cup {NoId}
  BY DEF CheckoutInv, Typed, Attempts
<1>3. ShowsTrue
  BY <1>1, <1>2 DEF ShowsTrue, Show, Failed, Phases, CheckoutInv, Typed, ReceiptedNext
<1>4. IF run[s].current THEN phase'.step \notin Busy ELSE phase' = phase
  BY <1>1 DEF Show, Failed, Busy
<1> QED BY <1>1, <1>3, <1>4, Ends

\* A phase that does not change still shows the truth.
LEMMA Quietly ==
  ASSUME CheckoutInv, phase' = phase PROVE ShowsTrue
BY DEF CheckoutInv, Typed, ShowsTrue

\* setPhase of a busy phase shows the truth, and only the holder of the token shows.
LEMMA Shows ==
  ASSUME CheckoutInv, NEW s \in Runs, NEW step \in Busy, setPhase(s, step),
         step = "indexing" /\ run[s].current => ReceiptedNext(run[s].id) /\ run[s].id \in Ids
  PROVE  ShowsTrue /\ (phase' = phase \/ (run[s].current /\ phase'.step \in Busy))
<1>1. phase' = IF run[s].current THEN Show(step, run[s].id) ELSE phase
  BY DEF setPhase
<1>2. run[s].id \in Ids \cup {NoId}
  BY DEF CheckoutInv, Typed, Attempts
<1> QED BY <1>1, <1>2 DEF ShowsTrue, Show, Busy, Phases, CheckoutInv, Typed

\* GoesOn, with what has to be known of where the attempt goes to.
LEMMA Goes ==
  ASSUME CheckoutInv, World, ShowsTrue, NEW s \in Runs, NEW r \in Attempts,
         run[s].at # "off", run[s].at # "create", r.at \notin {"off", "create"},
         r.id = run[s].id, r.current = run[s].current, run' = [run EXCEPT ![s] = r],
         phase' = phase \/ (run[s].current /\ phase'.step \in Busy),
         pendingId' = pendingId,
         r.at = "receipt" => r.tx \in DOMAIN sent' /\ Pays(sent'[r.tx], r.id),
         r.at = "indexLoop" => ReceiptedNext(r.id)
  PROVE  CheckoutInv'
<1>1. MintedNext(run[s].id)
  BY DEF CheckoutInv, AllMinted, Minted, MintedNext, World, RowsGrow
<1>2. Fits(r)
  BY <1>1 DEF Fits
<1> QED BY <1>2, GoesOn

\* Going on with nothing but the program counter changed.
LEMMA Jumps ==
  ASSUME CheckoutInv, World, ShowsTrue, NEW s \in Runs, NEW pc \in At \ {"off", "create", "receipt"},
         run[s].at # "off", run[s].at # "create", Goto(s, pc),
         phase' = phase \/ (run[s].current /\ phase'.step \in Busy),
         pendingId' = pendingId,
         pc = "indexLoop" => ReceiptedNext(run[s].id)
  PROVE  CheckoutInv'
<1> DEFINE r == [run[s] EXCEPT !.at = pc]
<1>1. run[s] \in Attempts
  BY DEF CheckoutInv, Typed
<1>2. r \in Attempts /\ r.at = pc /\ r.id = run[s].id /\ r.current = run[s].current
  BY <1>1 DEF Attempts
<1>3. run' = [run EXCEPT ![s] = r]
  BY DEF Goto
<1> HIDE DEF r
<1> QED BY <1>2, <1>3, Goes

\* Neither the database nor the chain moves in a step of the browser alone.
LEMMA StandsStill ==
  ASSUME CheckoutInv, UNCHANGED <<row, chain>> PROVE World
BY DEF CheckoutInv, Typed, chain, World, SentGrows, RowsGrow

\* A step of the world alone disturbs nothing the browser knows.
LEMMA OnlyWorld ==
  ASSUME CheckoutInv, World, UNCHANGED client PROVE CheckoutInv'
<1>1. Token'
  BY DEF client, CheckoutInv, Token, Live
<1>2. ShowsTrue
  BY Quietly DEF client
<1>3. pendingId # NoId => MintedNext(pendingId)
  BY DEF CheckoutInv, Typed, AllMinted, Minted, MintedNext, World, RowsGrow
<1> QED BY <1>1, <1>2, <1>3, StillFits, InvAgain DEF client, CheckoutInv, Typed

-----------------------------------------------------------------------------
(* The steps *)

\* A mined transaction leaves a well-formed account.
LEMMA AfterHolds ==
  ASSUME NEW a \in Holdings, NEW tx PROVE After(a, tx) \in Holdings
<1>1. a.nonce + 1 \in Nat
  BY DEF Holdings
<1>2. ASSUME NEW n \in Nat PROVE [a EXCEPT !.allowance = 1, !.nonce = n] \in Holdings
  <2>1. [a EXCEPT !.allowance = 1] \in Holdings
    BY DEF Holdings
  <2>2. [[a EXCEPT !.allowance = 1] EXCEPT !.nonce = n] = [a EXCEPT !.allowance = 1, !.nonce = n]
    OBVIOUS
  <2> QED BY <2>1, <2>2 DEF Holdings
<1>3. Permitted(a, tx) \in Holdings
  BY <1>1, <1>2 DEF Permitted
<1>4. ASSUME NEW b \in Holdings PROVE [b EXCEPT !.balance = @ - 1, !.allowance = 0] \in Holdings
  <2>1. ASSUME NEW i \in Int PROVE [b EXCEPT !.balance = i, !.allowance = 0] \in Holdings
    <3>1. [b EXCEPT !.balance = i] \in Holdings
      BY DEF Holdings
    <3>2. [[b EXCEPT !.balance = i] EXCEPT !.allowance = 0] = [b EXCEPT !.balance = i, !.allowance = 0]
      OBVIOUS
    <3>3. ASSUME NEW c \in Holdings PROVE [c EXCEPT !.allowance = 0] \in Holdings
      BY DEF Holdings
    <3> QED BY <3>1, <3>2, <3>3
  <2>2. b.balance - 1 \in Int
    BY DEF Holdings
  <2> QED BY <2>1, <2>2
<1>5. [a EXCEPT !.allowance = 1] \in Holdings
  BY DEF Holdings
<1> QED BY <1>3, <1>4, <1>5 DEF After

\* Mining, replacing, a node catching up, the indexer, the end of the session.
LEMMA EnvironmentStep == CheckoutInv /\ Environment => CheckoutInv'
<1> SUFFICES ASSUME CheckoutInv, Environment PROVE CheckoutInv'
  OBVIOUS
<1>1. ASSUME NEW i \in DOMAIN sent, mine(i) PROVE CheckoutInv'
  <2>1. PICK st \in Outcomes :
          /\ sent' = [sent EXCEPT ![i].status = st]
          /\ account' = IF st = "success" THEN After(account, sent[i]) ELSE account
    BY <1>1 DEF mine, Outcomes
  <2>2. SentGrows
    BY <1>1, <2>1 DEF mine, IsNext, SentGrows
  <2>3. account' \in Holdings
    BY <2>1, AfterHolds DEF CheckoutInv, Typed
  <2>4. World
    BY <1>1, <2>2, <2>3 DEF mine, CheckoutInv, Typed, World, RowsGrow
  <2> QED BY <1>1, <2>4, OnlyWorld DEF mine
<1>2. ASSUME nodeCatchesUp PROVE CheckoutInv'
  <2>1. World
    BY <1>2 DEF nodeCatchesUp, CheckoutInv, Typed, World, SentGrows, RowsGrow
  <2> QED BY <1>2, <2>1, OnlyWorld DEF nodeCatchesUp
<1>3. ASSUME NEW id \in Ids, index(id) PROVE CheckoutInv'
  <2>1. RowsGrow
    BY <1>3 DEF index, chain, CheckoutInv, Typed, RowsGrow, Paid
  <2>2. World
    BY <1>3, <2>1 DEF index, chain, CheckoutInv, Typed, World, SentGrows
  <2> QED BY <1>3, <2>2, OnlyWorld DEF index
<1>4. ASSUME sessionExpires PROVE CheckoutInv'
  BY <1>4, StandsStill, OnlyWorld DEF sessionExpires
<1>5. ASSUME NEW i \in DOMAIN sent, replaceInWallet(i) PROVE CheckoutInv'
  <2>1. SentGrows
    BY <1>5 DEF replaceInWallet, IsNext, SentGrows, Outcomes
  <2>2. World
    BY <1>5, <2>1 DEF replaceInWallet, CheckoutInv, Typed, World, RowsGrow
  <2> QED BY <1>5, <2>2, OnlyWorld DEF replaceInWallet
<1>6. ASSUME NEW id \in Ids, sweep(id) PROVE CheckoutInv'
  <2>1. RowsGrow
    BY <1>6 DEF sweep, chain, CheckoutInv, Typed, RowsGrow, Paid
  <2>2. World
    BY <1>6, <2>1 DEF sweep, chain, CheckoutInv, Typed, World, SentGrows
  <2> QED BY <1>6, <2>2, OnlyWorld DEF sweep
<1> QED BY <1>1, <1>2, <1>3, <1>4, <1>5, <1>6 DEF Environment

\* Submit, retry, reset and leaving (useAskAndPay.ts:121-138, 459-479).
LEMMA PressStep ==
  ASSUME CheckoutInv, (\E s \in Runs : Press(s)) \/ reset \/ leave PROVE CheckoutInv'
<1>1. ASSUME NEW s \in Runs, submit(s), UNCHANGED <<row, chain>> PROVE CheckoutInv'
  BY <1>1, StandsStill, Begins DEF submit, Show, Busy, Phases
<1>2. ASSUME NEW s \in Runs, pendingId # NoId, startPay(s, pendingId), UNCHANGED <<row, chain>>
      PROVE  CheckoutInv'
  <2>1. MintedNext(pendingId) /\ pendingId \in Ids
    BY <1>2 DEF CheckoutInv, Typed, AllMinted, Minted, MintedNext
  <2>2. phase' \in Phases /\ phase'.step \in Busy \ {"indexing"}
    BY <1>2, <2>1 DEF startPay, Show, Busy, Phases
  <2> QED BY <1>2, <2>1, <2>2, StandsStill, Begins DEF startPay
<1>3. ASSUME NEW s \in Runs, Press(s) PROVE CheckoutInv'
  BY <1>1, <1>2, <1>3 DEF Press, pressSubmit, retry
<1>4. ASSUME reset \/ leave PROVE CheckoutInv'
  BY <1>4, StandsStill, Abandons DEF reset, leave
<1> QED BY <1>3, <1>4

\* Every await of the flow (useAskAndPay.ts:140-457).
LEMMA AttemptStep ==
  ASSUME CheckoutInv, NEW s \in Runs, Step(s) PROVE CheckoutInv'
<1>1. run[s] \in Attempts
  BY DEF CheckoutInv, Typed
<1>2. ASSUME create(s) PROVE CheckoutInv'
  <2>1. run[s].at = "create" /\ UNCHANGED chain
    BY <1>2 DEF create
  <2>2. ASSUME NEW id \in Ids, row[id] = "unminted", row' = [row EXCEPT ![id] = "pending_payment"]
        PROVE  World
    BY <2>1, <2>2 DEF chain, CheckoutInv, Typed, World, SentGrows, RowsGrow
  <2>3. World
    BY <1>2, <2>1, <2>2, StandsStill DEF create
  <2>4. CASE StopWith(s, "error") /\ UNCHANGED pendingId
    BY <2>1, <2>3, <2>4, StopsWith DEF Failed
  <2>5. CASE ~run[s].current /\ Stop(s) /\ UNCHANGED <<phase, pendingId>>
    BY <2>1, <2>3, <2>5, Quietly, Ends DEF Stop
  <2>6. ASSUME NEW id \in Ids, row'[id] # row[id], startPay(s, id) PROVE CheckoutInv'
    <3>1. MintedNext(id)
      BY <1>2, <2>6 DEF create, CheckoutInv, Typed, MintedNext
    <3>2. phase' \in Phases /\ phase'.step \in Busy \ {"indexing"}
      BY <2>6 DEF startPay, Show, Busy, Phases
    <3> QED BY <2>3, <2>6, <3>1, <3>2, NoIdAssumption, Begins DEF startPay
  <2> QED BY <1>2, <2>4, <2>5, <2>6 DEF create
<1>3. ASSUME NEW step \in Failed, run[s].at # "off", StopWith(s, step),
             UNCHANGED <<pendingId, row, chain>>
      PROVE  CheckoutInv'
  BY <1>3, StandsStill, StopsWith DEF Failed
<1>4. ASSUME ~run[s].current, run[s].at # "off", Stop(s), UNCHANGED phase,
             UNCHANGED <<pendingId, row, chain>>
      PROVE  CheckoutInv'
  BY <1>4, StandsStill, Quietly, Ends DEF Stop
<1>5. ASSUME run[s].at # "off", run[s].at # "create", NEW pc \in At \ {"off", "create", "receipt", "indexLoop"},
             Goto(s, pc), UNCHANGED phase, UNCHANGED <<pendingId, row, chain>>
      PROVE  CheckoutInv'
  BY <1>5, StandsStill, Quietly, Jumps
<1>6. ASSUME run[s].at # "off", run[s].at # "create", NEW pc \in At \ {"off", "create", "receipt", "indexLoop"},
             NEW step \in Busy \ {"indexing"}, Goto(s, pc), setPhase(s, step),
             UNCHANGED <<pendingId, row, chain>>
      PROVE  CheckoutInv'
  BY <1>6, StandsStill, Shows, Jumps
<1>7. ASSUME check(s) PROVE CheckoutInv'
  BY <1>7, <1>3, <1>4, <1>5, <1>6 DEF check, Failed, Busy, At
<1>8. ASSUME signPermit(s) PROVE CheckoutInv'
  <2>1. run[s].at = "sign" /\ UNCHANGED <<pendingId, row, chain>>
    BY <1>8 DEF signPermit
  <2>2. ASSUME NEW v \in views, UNCHANGED phase,
               run' = [run EXCEPT ![s].at = "simulatePermit", ![s].nonce = v.nonce]
        PROVE  CheckoutInv'
    <3> DEFINE r == [run[s] EXCEPT !.at = "simulatePermit", !.nonce = v.nonce]
    <3>1. v.nonce \in Nat
      BY DEF views, CheckoutInv, Typed, Holdings
    <3>2. /\ r \in Attempts /\ r.at = "simulatePermit" /\ r.id = run[s].id
          /\ r.current = run[s].current
      BY <1>1, <3>1 DEF Attempts, At
    <3>3. run' = [run EXCEPT ![s] = r]
      BY <2>2
    <3> HIDE DEF r
    <3> QED BY <2>1, <2>2, <3>2, <3>3, StandsStill, Quietly, Goes
  <2> QED BY <1>8, <1>3, <1>6, <2>1, <2>2 DEF signPermit, Failed, Busy, At
<1>9. ASSUME permitSimulates(s) PROVE CheckoutInv'
  <2>1. run[s].at = "simulatePermit" /\ UNCHANGED <<pendingId, row, chain>>
    BY <1>9 DEF permitSimulates
  <2>2. ASSUME run' = [run EXCEPT ![s].at = "approve", ![s].nonce = 0], setPhase(s, "approving")
        PROVE  CheckoutInv'
    <3> DEFINE r == [run[s] EXCEPT !.at = "approve", !.nonce = 0]
    <3>1. /\ r \in Attempts /\ r.at = "approve" /\ r.id = run[s].id
          /\ r.current = run[s].current
      BY <1>1 DEF Attempts, At
    <3>3. run' = [run EXCEPT ![s] = r]
      BY <2>2
    <3> HIDE DEF r
    <3>4. ShowsTrue /\ (phase' = phase \/ (run[s].current /\ phase'.step \in Busy))
      BY <2>2, Shows DEF Busy
    <3> QED BY <2>1, <3>1, <3>3, <3>4, StandsStill, Goes
  <2> QED BY <1>9, <1>6, <2>1, <2>2 DEF permitSimulates, Busy, At, Payment
<1>10. ASSUME sendPlainAsk(s) PROVE CheckoutInv'
  BY <1>10, <1>3, <1>6 DEF sendPlainAsk, Failed, Busy, At, Payment
<1>11. ASSUME writeContract(s) PROVE CheckoutInv'
  <2> DEFINE tx == Request(s, run[s].at)
             n == Len(sent) + 1
  <2>1. /\ run[s].at \in Payment \cup {"approve"}
        /\ UNCHANGED <<pendingId, row, account, stale>>
    BY <1>11 DEF writeContract
  <2>2. run[s].at # "off" /\ run[s].at # "create"
    BY <2>1 DEF Payment
  <2>3. CASE UNCHANGED sent /\ \E e \in Thrown : StopWith(s, IF isUserRejection(e) THEN "rejected" ELSE "error")
    BY <1>3, <2>1, <2>2, <2>3 DEF Failed, chain
  <2>4. CASE sent' = Append(sent, tx)
    <3>1. tx \in Sendings
      BY <1>1, <2>1 DEF Request, Sendings, Statuses, Attempts
    <3>2. tx.fn = run[s].at /\ tx.id = run[s].id
      BY DEF Request
    <3> HIDE DEF tx
    <3>3. World
      BY <2>1, <2>4, <3>1 DEF World, SentGrows, RowsGrow, CheckoutInv, Typed
    <3>4. n \in Nat /\ n \in DOMAIN sent' /\ sent'[n] = tx
      BY <2>4, <3>1 DEF CheckoutInv, Typed
    <3> HIDE DEF n
    <3>6. ASSUME NEW pc \in {"approved", "receipt"}, NEW r, r = [run[s] EXCEPT !.at = pc, !.tx = n]
          PROVE  /\ r \in Attempts /\ r.at = pc /\ r.id = run[s].id
                 /\ r.current = run[s].current /\ r.tx = n
      BY <1>1, <3>4, <3>6 DEF Attempts, At
    <3>7. CASE run' = [run EXCEPT ![s].at = "approved", ![s].tx = n] /\ UNCHANGED phase
      <4>1. PICK r : r = [run[s] EXCEPT !.at = "approved", !.tx = n]
        OBVIOUS
      <4>2. run' = [run EXCEPT ![s] = r]
        BY <3>7, <4>1
      <4>3. /\ r \in Attempts /\ r.at = "approved" /\ r.id = run[s].id
            /\ r.current = run[s].current /\ r.tx = n
        BY <3>6, <4>1
      <4>4. ShowsTrue
        BY <3>7, Quietly
      <4> QED BY <2>1, <2>2, <3>3, <3>7, <4>2, <4>3, <4>4, Goes
    <3>8. CASE /\ run[s].at \in Payment /\ setPhase(s, "pending")
               /\ run' = [run EXCEPT ![s].at = "receipt", ![s].tx = n]
      <4>1. Pays(sent'[n], run[s].id)
        BY <3>2, <3>4, <3>8 DEF Pays
      <4>2. ShowsTrue /\ (phase' = phase \/ (run[s].current /\ phase'.step \in Busy))
        BY <3>8, Shows DEF Busy
      <4>3. PICK r : r = [run[s] EXCEPT !.at = "receipt", !.tx = n]
        OBVIOUS
      <4>4. run' = [run EXCEPT ![s] = r]
        BY <3>8, <4>3
      <4> QED BY <2>1, <2>2, <3>3, <3>4, <3>6, <4>1, <4>2, <4>3, <4>4, Goes
    <3>9. CASE ~run[s].current /\ Stop(s) /\ UNCHANGED phase
      BY <2>1, <2>2, <3>3, <3>9, Quietly, Ends DEF Stop
    <3>10. CASE StopWith(s, "error")
      BY <2>1, <2>2, <3>3, <3>10, StopsWith DEF Failed
    <3> QED BY <1>11, <2>1, <2>4, <3>7, <3>8, <3>9, <3>10 DEF writeContract, n
  <2> QED BY <1>11, <2>3, <2>4 DEF writeContract
<1>12. ASSUME confirmApproval(s) PROVE CheckoutInv'
  BY <1>12, <1>3, <1>5 DEF confirmApproval, Failed, At
<1>13. ASSUME waitForAllowance(s) PROVE CheckoutInv'
  BY <1>13, <1>4, <1>5 DEF waitForAllowance, At
<1>14. ASSUME afterSend(s) PROVE CheckoutInv'
  <2>1. run[s].at = "receipt" /\ UNCHANGED <<pendingId, row, chain>>
    BY <1>14 DEF afterSend
  <2>2. CASE /\ ReceiptSucceeds(s) /\ setPhase(s, "indexing")
             /\ IF run[s].current THEN Goto(s, "indexLoop") ELSE Stop(s)
    <3>1. ReceiptedNext(run[s].id) /\ run[s].id \in Ids
      BY <2>1, <2>2 DEF chain, CheckoutInv, AllMinted, Minted, Following, PaidNext,
         ReceiptSucceeds, ReceiptedNext
    <3>2. ShowsTrue /\ (phase' = phase \/ (run[s].current /\ phase'.step \in Busy))
      BY <2>2, <3>1, Shows DEF Busy
    <3>3. CASE run[s].current
      BY <2>1, <2>2, <3>1, <3>2, <3>3, StandsStill, Jumps DEF At
    <3>4. CASE ~run[s].current
      BY <1>4, <2>1, <2>2, <3>4 DEF setPhase
    <3> QED BY <3>3, <3>4
  <2> QED BY <1>3, <1>14, <2>1, <2>2 DEF afterSend, Failed
<1>15. ASSUME indexLoop(s) PROVE CheckoutInv'
  <2>1. run[s].at = "indexLoop" /\ UNCHANGED <<pendingId, row, chain>>
    BY <1>15 DEF indexLoop
  <2>2. CASE row[run[s].id] = "open" /\ StopWith(s, "confirmed")
    <3>1. run[s].id \in Ids /\ PaidNext(run[s].id)
      BY <2>1, <2>2 DEF chain, CheckoutInv, AllMinted, Minted, Following, Paid, PaidNext
    <3>2. row'[run[s].id] = "open"
      BY <2>1, <2>2 DEF CheckoutInv, Typed, AllMinted, Minted
    <3> QED BY <2>1, <2>2, <3>1, <3>2, StandsStill, StopsWith
  <2> QED BY <1>4, <1>15, <2>1, <2>2 DEF indexLoop
<1> QED
  BY <1>2, <1>7, <1>8, <1>9, <1>10, <1>11, <1>12, <1>13, <1>14, <1>15 DEF Step

-----------------------------------------------------------------------------
(* One payment *)

\* A question is free to be paid for if nothing it was paid with can still count,
\* or if a payment's receipt or its hash was lost.
Free(id) == id \in lost \/ Payments(id) = {}
Active(r) == r.at \notin {"off", "create"}

\* Attempts pay for different questions, and only the one with the token for the
\* pending one; until an attempt has sent its payment its question is free, and
\* so is one that a retry would pay for.
Once ==
  /\ \A s \in Live : run[s].at = "create" => pendingId = NoId
  /\ \A s, t \in Runs : s # t /\ Active(run[s]) /\ Active(run[t]) => run[s].id # run[t].id
  /\ \A s \in Runs : Active(run[s]) =>
       /\ ~run[s].current => run[s].id # pendingId
       /\ run[s].at \notin {"receipt", "indexLoop"} => Free(run[s].id)
       /\ run[s].at = "receipt" => run[s].id \in lost \/ Payments(run[s].id) \subseteq {run[s].tx}
  /\ phase.step \in Failed /\ pendingId # NoId => Free(pendingId)
  /\ \A id \in Ids : id \in lost \/ \A i, j \in Payments(id) : i = j
  /\ \A i \in DOMAIN sent : sent[i].fn \in Payment => Minted(sent[i].id)

\* The same sets in the next state.
PaymentsNext(id) ==
  {i \in DOMAIN sent' : Pays(sent'[i], id) /\ sent'[i].status \in {"inflight", "success"}}
FreeNext(id) == id \in lost' \/ PaymentsNext(id) = {}
SentMinted == \A i \in DOMAIN sent' : sent'[i].fn \in Payment => MintedNext(sent'[i].id)

\* Nobody but the live attempt has the pending question, so none has it once the
\* form has failed.
LEMMA PendingIsMine ==
  ASSUME CheckoutInv, Once, NEW s \in Runs, Active(run[s]), run[s].id = pendingId
  PROVE  run[s].current /\ phase.step \in Busy /\ phase.step \notin Failed
BY DEF CheckoutInv, Token, Live, Once, Active, Busy, Failed

\* An active attempt has a question.
LEMMA ActiveHasId ==
  ASSUME CheckoutInv, NEW s \in Runs, Active(run[s])
  PROVE  run[s].id \in Ids /\ run[s].id # NoId
BY NoIdAssumption DEF CheckoutInv, AllMinted, Minted, Active

\* Attempt s becomes q, whose question is the same; payments of other questions
\* are not added to.
LEMMA OnceMoves ==
  ASSUME CheckoutInv, Once, NEW s \in Runs, Active(run[s]),
         NEW q, run' = [run EXCEPT ![s] = q],
         q.at = "off" \/ (Active(q) /\ q.id = run[s].id /\ q.current = run[s].current),
         pendingId' = pendingId, lost \subseteq lost', SentMinted,
         \A id \in Ids \ {run[s].id} : PaymentsNext(id) \subseteq Payments(id),
         run[s].id \in lost' \/ \A i, j \in PaymentsNext(run[s].id) : i = j,
         Active(q) /\ q.at \notin {"receipt", "indexLoop"} => FreeNext(run[s].id),
         q.at = "receipt" => run[s].id \in lost' \/ PaymentsNext(run[s].id) \subseteq {q.tx},
         \/ phase' = phase
         \/ run[s].current /\ (phase'.step \in Failed => FreeNext(run[s].id))
  PROVE  Once'
<1>1. run \in [Runs -> Attempts] /\ \A t \in Runs : t # s => run'[t] = run[t]
  BY DEF CheckoutInv, Typed
<1>2. run'[s] = q
  BY <1>1
<1>3. run[s].id \in Ids
  BY ActiveHasId
<1>4. \A t \in Runs : t # s /\ Active(run[t]) => run[t].id \in Ids \ {run[s].id}
  BY ActiveHasId DEF Once
<1>5. \A id \in Ids \ {run[s].id} : Free(id) => FreeNext(id)
  BY DEF Free, FreeNext
<1>6. \A t, u \in Runs : t # u /\ Active(run'[t]) /\ Active(run'[u]) => run'[t].id # run'[u].id
  BY <1>1, <1>2 DEF Once, Active
<1>7. ASSUME NEW t \in Runs, Active(run'[t])
      PROVE  /\ ~run'[t].current => run'[t].id # pendingId'
             /\ run'[t].at \notin {"receipt", "indexLoop"} => FreeNext(run'[t].id)
             /\ run'[t].at = "receipt" =>
                  run'[t].id \in lost' \/ PaymentsNext(run'[t].id) \subseteq {run'[t].tx}
  <2>1. CASE t = s
    BY <1>2, <1>7, <2>1 DEF Once, Active
  <2>2. CASE t # s
    BY <1>1, <1>4, <1>5, <1>7, <2>2 DEF Once
  <2>. QED  BY <2>1, <2>2
<1>8. ASSUME phase'.step \in Failed, pendingId' # NoId PROVE FreeNext(pendingId')
  <2>1. CASE pendingId = run[s].id
    BY <1>8, <2>1, PendingIsMine
  <2>2. CASE pendingId # run[s].id
    <3>1. phase' = phase
      <4>1. run[s].current => run[s].id = pendingId
        BY DEF CheckoutInv, Token, Live, Active
      <4>. QED  BY <2>2, <4>1
    <3>2. pendingId \in Ids
      BY <1>8 DEF CheckoutInv, Typed
    <3>. QED  BY <1>5, <1>8, <2>2, <3>1, <3>2 DEF Once
  <2>. QED  BY <2>1, <2>2
<1>9. \A id \in Ids : id \in lost' \/ \A i, j \in PaymentsNext(id) : i = j
  BY DEF Once
<1>10. \A t \in Live' : run'[t].at = "create" => pendingId' = NoId
  BY <1>1, <1>2 DEF Once, Live, Active
<1>. QED
  BY <1>10, <1>6, <1>7, <1>8, <1>9 DEF Once, Active, Free, FreeNext, Payments, PaymentsNext,
     SentMinted, Minted, MintedNext

\* Where neither the database nor the wallet's transactions change, neither do
\* the payments.
LEMMA SamePayments ==
  ASSUME Once, UNCHANGED <<row, sent>>
  PROVE  SentMinted /\ \A id : PaymentsNext(id) = Payments(id)
BY DEF Once, SentMinted, Minted, MintedNext, PaymentsNext, Payments

\* OnceMoves where nothing is sent: the attempt ends or goes on towards its
\* payment, or from its receipt to the poll.
LEMMA OnceRests ==
  ASSUME CheckoutInv, Once, NEW s \in Runs, Active(run[s]),
         NEW q, run' = [run EXCEPT ![s] = q],
         \/ q.at = "off"
         \/ /\ Active(q) /\ q.id = run[s].id /\ q.current = run[s].current
            /\ q.at # "receipt"
            /\ q.at # "indexLoop" => run[s].at \notin {"receipt", "indexLoop"},
         UNCHANGED <<pendingId, row, sent, lost>>,
         \/ phase' = phase
         \/ run[s].current /\ (phase'.step \in Failed => Free(run[s].id))
  PROVE  Once'
<1>1. SentMinted /\ \A id : PaymentsNext(id) = Payments(id)
  BY SamePayments
<1>2. run[s].id \in Ids
  BY ActiveHasId
<1>3. Free(run[s].id) => FreeNext(run[s].id)
  BY <1>1 DEF Free, FreeNext
<1>4. Active(q) /\ q.at \notin {"receipt", "indexLoop"} => FreeNext(run[s].id)
  BY <1>3 DEF Once, Active
<1>5. run[s].id \in lost' \/ \A i, j \in PaymentsNext(run[s].id) : i = j
  BY <1>1, <1>2 DEF Once
<1>6. q.at # "receipt"
  OBVIOUS
<1>. QED  BY <1>1, <1>3, <1>4, <1>5, <1>6, OnceMoves

\* An attempt ends, showing a failure only while its question is free.
LEMMA OnceStops ==
  ASSUME CheckoutInv, Once, NEW s \in Runs, Active(run[s]), Stop(s),
         \/ UNCHANGED phase
         \/ \E step \in Failed \cup {"confirmed", "indexing"} :
              setPhase(s, step) /\ (step \in Failed => Free(run[s].id)),
         UNCHANGED <<pendingId, row, sent, lost>>
  PROVE  Once'
<1>1. Off.at = "off"
  BY DEF Off
<1>2. phase' = phase \/ (run[s].current /\ (phase'.step \in Failed => Free(run[s].id)))
  BY DEF setPhase, Show
<1>3. run' = [run EXCEPT ![s] = Off]
  BY DEF Stop
<1>. QED  BY <1>1, <1>2, <1>3, OnceRests

\* An attempt that has not sent its payment may also fail.
LEMMA OnceFails ==
  ASSUME CheckoutInv, Once, NEW s \in Runs, Active(run[s]),
         run[s].at \notin {"receipt", "indexLoop"}, NEW step \in Failed, StopWith(s, step),
         UNCHANGED <<pendingId, row, sent, lost>>
  PROVE  Once'
<1>1. Free(run[s].id)
  BY DEF Once
<1>. QED  BY <1>1, OnceStops DEF StopWith

\* An attempt goes on, showing that it is busy.
LEMMA OnceGoes ==
  ASSUME CheckoutInv, Once, NEW s \in Runs, Active(run[s]),
         NEW pc \in At \ {"off", "create", "receipt"}, NEW n \in Nat,
         run' = [run EXCEPT ![s] = [run[s] EXCEPT !.at = pc, !.nonce = n]],
         pc # "indexLoop" => run[s].at \notin {"receipt", "indexLoop"},
         UNCHANGED phase \/ \E step \in Busy : setPhase(s, step),
         UNCHANGED <<pendingId, row, sent, lost>>
  PROVE  Once'
<1>1. PICK q : q = [run[s] EXCEPT !.at = pc, !.nonce = n]
  OBVIOUS
<1>2. run[s] \in Attempts
  BY DEF CheckoutInv, Typed
<1>3. q.at = pc /\ q.id = run[s].id /\ q.current = run[s].current
  BY <1>1, <1>2 DEF Attempts
<1>4. Active(q) /\ q.at # "receipt"
  BY <1>3 DEF Active
<1>5. phase' = phase \/ (run[s].current /\ phase'.step \in Busy)
  BY DEF setPhase, Show
<1>6. \A step \in Busy : step \notin Failed
  BY DEF Busy, Failed
<1>. QED  BY <1>1, <1>3, <1>4, <1>5, <1>6, OnceRests

\* Goto leaves the nonce alone.
LEMMA OnceJumps ==
  ASSUME CheckoutInv, Once, NEW s \in Runs, Active(run[s]),
         NEW pc \in At \ {"off", "create", "receipt"}, Goto(s, pc),
         pc # "indexLoop" => run[s].at \notin {"receipt", "indexLoop"},
         UNCHANGED phase \/ \E step \in Busy : setPhase(s, step),
         UNCHANGED <<pendingId, row, sent, lost>>
  PROVE  Once'
<1>1. run[s] \in Attempts
  BY DEF CheckoutInv, Typed
<1>2. run[s].nonce \in Nat /\ [run[s] EXCEPT !.at = pc] = [run[s] EXCEPT !.at = pc, !.nonce = run[s].nonce]
  BY <1>1 DEF Attempts
<1>3. run' = [run EXCEPT ![s] = [run[s] EXCEPT !.at = pc, !.nonce = run[s].nonce]]
  BY <1>2 DEF Goto
<1>. QED  BY <1>2, <1>3, OnceGoes

\* The tokens are withdrawn and, with a new attempt, a question is taken that is
\* free and nobody's.
LEMMA OnceAbandons ==
  ASSUME CheckoutInv, Once,
         NEW s \in Runs, NEW id \in Ids \cup {NoId},
         \/ run' = Abandoned
         \/ Begin(s, "create", NoId)
         \/ /\ Begin(s, "check", id) /\ id # NoId /\ FreeNext(id)
            /\ \A t \in Runs : Active(run[t]) => run[t].id # id,
         pendingId' = NoId \/ pendingId' = id, pendingId' # NoId => Begin(s, "check", id),
         phase'.step \notin Failed, UNCHANGED <<sent, lost>>, SentMinted
  PROVE  Once'
<1> DEFINE Old(t) == [run[t] EXCEPT !.current = FALSE]
<1>1. \A t \in Runs : /\ Old(t).at = run[t].at /\ Old(t).id = run[t].id /\ Old(t).tx = run[t].tx
                      /\ ~Old(t).current
  BY DEF CheckoutInv, Typed, Attempts
<1>2. \A t \in Runs : Abandoned[t] = Old(t)
  BY DEF Abandoned
<1> HIDE DEF Old
<1>3. \A i : PaymentsNext(i) = Payments(i) /\ (Free(i) <=> FreeNext(i))
  BY DEF PaymentsNext, Payments, Free, FreeNext
<1>4. CASE run' = Abandoned \/ Begin(s, "create", NoId)
  <2>1. \A t \in Runs : Active(run'[t]) => run'[t] = Old(t) /\ Active(run[t])
    <3>1. CASE run' = Abandoned
      BY <1>1, <1>2, <3>1 DEF Active
    <3>2. CASE Begin(s, "create", NoId)
      <4>1. \A t \in Runs : t # s => run'[t] = Old(t)
        BY <1>2, <3>2 DEF Begin, Abandoned
      <4>2. run'[s].at = "create"
        BY <3>2 DEF Begin, Abandoned, Off
      <4>. QED  BY <1>1, <4>1, <4>2 DEF Active
    <3>. QED  BY <1>4, <3>1, <3>2
  <2>2. pendingId' = NoId
    <3>1. Begin(s, "check", id) => run'[s].at = "check" /\ run'[s].current
      BY DEF Begin, Abandoned, Off
    <3>2. Begin(s, "create", NoId) => run'[s].at = "create"
      BY DEF Begin, Abandoned, Off
    <3>3. run' = Abandoned => ~run'[s].current
      BY <1>1, <1>2
    <3>. QED  BY <1>4, <3>1, <3>2, <3>3
  <2>3. \A t \in Runs : Active(run[t]) => run[t].id # NoId
    BY ActiveHasId
  <2>4. \A t, u \in Runs : t # u /\ Active(run'[t]) /\ Active(run'[u]) => run'[t].id # run'[u].id
    BY <1>1, <2>1 DEF Once, Active
  <2>5. \A t \in Runs : Active(run'[t]) =>
          /\ ~run'[t].current => run'[t].id # pendingId'
          /\ run'[t].at \notin {"receipt", "indexLoop"} => FreeNext(run'[t].id)
          /\ run'[t].at = "receipt" =>
               run'[t].id \in lost' \/ PaymentsNext(run'[t].id) \subseteq {run'[t].tx}
    BY <1>1, <1>3, <2>1, <2>2, <2>3 DEF Once, Active
  <2>. QED
    BY <1>3, <2>2, <2>4, <2>5 DEF Once, Free, FreeNext, Payments, PaymentsNext,
       SentMinted, Minted, MintedNext, Active
<1>5. CASE /\ Begin(s, "check", id) /\ id # NoId /\ FreeNext(id)
           /\ \A t \in Runs : Active(run[t]) => run[t].id # id
  <2>1. \A t \in Runs : t # s => run'[t] = Old(t)
    BY <1>2, <1>5 DEF Begin, Abandoned
  <2>2. run'[s].at = "check" /\ run'[s].id = id /\ run'[s].current
    BY <1>5 DEF Begin, Abandoned, Off
  <2>3. \A t \in Runs : Active(run[t]) => run[t].id # NoId /\ run[t].id # id
    BY <1>5, ActiveHasId
  <2>4. \A t, u \in Runs : t # u /\ Active(run'[t]) /\ Active(run'[u]) => run'[t].id # run'[u].id
    BY <1>1, <2>1, <2>2, <2>3 DEF Once, Active
  <2>5. \A t \in Runs : Active(run'[t]) =>
          /\ ~run'[t].current => run'[t].id # pendingId'
          /\ run'[t].at \notin {"receipt", "indexLoop"} => FreeNext(run'[t].id)
          /\ run'[t].at = "receipt" =>
               run'[t].id \in lost' \/ PaymentsNext(run'[t].id) \subseteq {run'[t].tx}
    BY <1>1, <1>3, <1>5, <2>1, <2>2, <2>3 DEF Once, Active
  <2>6. \A t \in Live' : run'[t].at # "create"
    BY <1>1, <2>1, <2>2 DEF Live
  <2>. QED
    BY <1>3, <2>4, <2>5, <2>6 DEF Once, Free, FreeNext, Payments, PaymentsNext,
       SentMinted, Minted, MintedNext, Active
<1>. QED  BY <1>4, <1>5

\* Nothing outside the browser adds a payment.
LEMMA OnceEnvironment == CheckoutInv /\ Once /\ Environment => Once'
<1> SUFFICES ASSUME CheckoutInv, Once, Environment PROVE Once'
  OBVIOUS
<1>1. ASSUME UNCHANGED <<client, lost>>, SentMinted, \A id : PaymentsNext(id) \subseteq Payments(id)
      PROVE  Once'
  <2>1. \A id : Free(id) => FreeNext(id)
    BY <1>1 DEF Free, FreeNext
  <2>2. UNCHANGED <<run, phase, pendingId>> /\ Live' = Live
    BY <1>1 DEF client, Live
  <2>3. \A id \in Ids : id \in lost' \/ \A i, j \in PaymentsNext(id) : i = j
    BY <1>1 DEF Once
  <2>4. \A s \in Runs : Active(run[s]) =>
          /\ run[s].at \notin {"receipt", "indexLoop"} => FreeNext(run[s].id)
          /\ run[s].at = "receipt" =>
               run[s].id \in lost' \/ PaymentsNext(run[s].id) \subseteq {run[s].tx}
    BY <1>1, <2>1 DEF Once
  <2>5. phase.step \in Failed /\ pendingId # NoId => FreeNext(pendingId)
    BY <2>1 DEF Once
  <2>. QED
    BY <1>1, <2>2, <2>3, <2>4, <2>5 DEF Once, Free, FreeNext, Payments, PaymentsNext,
       SentMinted, Minted, MintedNext
<1>2. ASSUME UNCHANGED <<client, lost, sent>>, \A id \in Ids : Minted(id) => MintedNext(id) PROVE Once'
  <2>1. SentMinted
    BY <1>2 DEF Once, SentMinted, Minted
  <2>. QED  BY <1>1, <1>2, <2>1 DEF PaymentsNext, Payments
<1>3. ASSUME NEW i \in DOMAIN sent, mine(i) \/ replaceInWallet(i) PROVE Once'
  <2>1. PICK st \in Outcomes : sent' = [sent EXCEPT ![i].status = st]
    BY <1>3 DEF mine, replaceInWallet, Outcomes
  <2>2. sent \in Seq(Sendings) /\ sent[i].status = "inflight"
    BY <1>3 DEF CheckoutInv, Typed, mine, replaceInWallet, IsNext
  <2>3. /\ DOMAIN sent' = DOMAIN sent
        /\ \A j \in DOMAIN sent : /\ sent'[j].fn = sent[j].fn /\ sent'[j].id = sent[j].id
                                  /\ sent[j].status \notin {"inflight", "success"} =>
                                       sent'[j].status = sent[j].status
    BY <2>1, <2>2 DEF Sendings
  <2>4. \A id : PaymentsNext(id) \subseteq Payments(id)
    BY <2>3 DEF PaymentsNext, Payments, Pays
  <2>5. SentMinted
    BY <1>3, <2>3 DEF mine, replaceInWallet, Once, SentMinted, Minted, MintedNext
  <2>. QED  BY <1>1, <1>3, <2>4, <2>5 DEF mine, replaceInWallet
<1>4. ASSUME nodeCatchesUp PROVE Once'
  BY <1>2, <1>4 DEF nodeCatchesUp, Minted, MintedNext
<1>5. ASSUME NEW id \in Ids, index(id) PROVE Once'
  BY <1>2, <1>5 DEF index, chain, Minted, MintedNext, CheckoutInv, Typed
<1>6. ASSUME sessionExpires PROVE Once'
  BY <1>2, <1>6 DEF sessionExpires, chain, Minted, MintedNext
<1>7. ASSUME NEW id \in Ids, sweep(id) PROVE Once'
  BY <1>2, <1>7 DEF sweep, chain, Minted, MintedNext, CheckoutInv, Typed
<1>. QED  BY <1>3, <1>4, <1>5, <1>6, <1>7 DEF Environment

\* What the asker presses: a retry finds its question free and nobody's, because
\* the form has failed.
LEMMA OncePress ==
  ASSUME CheckoutInv, Once, (\E s \in Runs : Press(s)) \/ reset \/ leave PROVE Once'
<1>1. ASSUME UNCHANGED <<row, sent>> PROVE SentMinted /\ \A id : Free(id) /\ lost' = lost => FreeNext(id)
  BY <1>1, SamePayments DEF Free, FreeNext
<1>2. ASSUME NEW s \in Runs, submit(s), UNCHANGED <<row, chain, lost>> PROVE Once'
  <2>1. phase'.step \notin Failed
    BY <1>2 DEF submit, Show, Failed
  <2>. QED  BY <1>1, <1>2, <2>1, OnceAbandons DEF submit, chain
<1>3. ASSUME NEW s \in Runs, RetryOffered, pendingId # NoId, startPay(s, pendingId),
             UNCHANGED <<row, chain, lost>>
      PROVE  Once'
  <2>1. phase'.step \notin Failed
    BY <1>3 DEF startPay, Show, Failed
  <2>2. pendingId \in Ids
    BY <1>3 DEF CheckoutInv, Typed
  <2>3. FreeNext(pendingId)
    BY <1>1, <1>3 DEF Once, RetryOffered, chain
  <2>4. \A t \in Runs : Active(run[t]) => run[t].id # pendingId
    BY <1>3, PendingIsMine DEF RetryOffered
  <2>. QED  BY <1>1, <1>3, <2>1, <2>2, <2>3, <2>4, OnceAbandons DEF startPay, chain
<1>4. ASSUME NEW s \in Runs, Press(s) PROVE Once'
  BY <1>2, <1>3, <1>4 DEF Press, pressSubmit, retry
<1>5. ASSUME reset \/ leave PROVE Once'
  <2>1. run' = Abandoned /\ pendingId' = NoId /\ UNCHANGED <<row, sent, lost>>
    BY <1>5 DEF reset, leave, chain
  <2>2. phase'.step \notin Failed
    BY <1>5 DEF reset, leave, Show, Failed
  <2>3. CASE Runs # {}
    <3>1. PICK s : s \in Runs
      BY <2>3
    <3>. QED  BY <1>1, <2>1, <2>2, <3>1, OnceAbandons
  <2>4. CASE Runs = {}
    BY <1>1, <2>1, <2>2, <2>4 DEF Once, Free, Payments, SentMinted, Minted, MintedNext
  <2>. QED  BY <2>3, <2>4
<1>. QED  BY <1>4, <1>5

\* Creating a draft: its question is new, so nobody has it and nothing paid for it.
LEMMA OnceCreates ==
  ASSUME CheckoutInv, Once, NEW s \in Runs, create(s) PROVE Once'
<1>1. run[s].at = "create" /\ ~Active(run[s]) /\ UNCHANGED <<sent, lost>>
  BY DEF create, chain, Active
<1>2. SentMinted
  <2>1. row' = row \/ \E id \in Ids : row' = [row EXCEPT ![id] = "pending_payment"]
    BY DEF create
  <2>2. \A id \in Ids : row[id] # "unminted" => row'[id] # "unminted"
    BY <2>1 DEF CheckoutInv, Typed
  <2>. QED  BY <1>1, <2>2 DEF Once, SentMinted, Minted, MintedNext
<1>3. ASSUME Stop(s), UNCHANGED pendingId,
             UNCHANGED phase \/ (run[s].current /\ pendingId = NoId)
      PROVE  Once'
  <2>1. \A t \in Runs : run'[t].at # "off" => run'[t] = run[t]
    BY <1>3 DEF Stop, Off, CheckoutInv, Typed
  <2>2. Live' \subseteq Live /\ \A t \in Live' : run'[t] = run[t]
    BY <2>1 DEF Live
  <2>3. \A t \in Runs : Active(run'[t]) => run'[t] = run[t]
    BY <2>1 DEF Active
  <2>. QED
    BY <1>1, <1>2, <1>3, <2>2, <2>3 DEF Once, Free, Payments, SentMinted, Minted, MintedNext
<1>4. ASSUME NEW id \in Ids, row'[id] # row[id], startPay(s, id) PROVE Once'
  <2>1. row[id] = "unminted"
    BY <1>4 DEF create, CheckoutInv, Typed
  <2>2. Payments(id) = {}
    BY <2>1 DEF Once, Payments, Pays, Minted
  <2>3. FreeNext(id)
    BY <1>1, <2>2 DEF FreeNext, PaymentsNext, Payments
  <2>4. \A t \in Runs : Active(run[t]) => run[t].id # id
    BY <2>1 DEF CheckoutInv, AllMinted, Minted, Active
  <2>5. phase'.step \notin Failed
    BY <1>4 DEF startPay, Show, Failed
  <2>. QED  BY <1>1, <1>2, <1>4, <2>3, <2>4, <2>5, NoIdAssumption, OnceAbandons DEF startPay
<1>5. run[s].current => pendingId = NoId
  BY <1>1 DEF Once, Live
<1>. QED  BY <1>3, <1>4, <1>5 DEF create, StopWith, setPhase

\* A payment is sent for a question that was free; an approval pays for nothing.
LEMMA OnceSends ==
  ASSUME CheckoutInv, Once, NEW s \in Runs, writeContract(s) PROVE Once'
<1> DEFINE tx == Request(s, run[s].at)
           n == Len(sent) + 1
<1>1. /\ run[s].at \in Payment \cup {"approve"} /\ Active(run[s])
      /\ run[s].at \notin {"receipt", "indexLoop"} /\ UNCHANGED <<pendingId, row>>
  BY DEF writeContract, Active, Payment
<1>2. CASE UNCHANGED <<sent, lost>> /\ \E e \in Thrown : StopWith(s, IF isUserRejection(e) THEN "rejected" ELSE "error")
  BY <1>1, <1>2, OnceFails DEF Failed
<1>3. CASE sent' = Append(sent, tx) /\ lost \subseteq lost'
  <2>1. run[s] \in Attempts /\ run[s].id \in Ids /\ Free(run[s].id) /\ Minted(run[s].id)
    BY <1>1, ActiveHasId DEF CheckoutInv, Typed, AllMinted, Once, Active
  <2>2. tx.fn = run[s].at /\ tx.id = run[s].id /\ tx.status = "inflight" /\ tx \in Sendings
    BY <1>1, <2>1 DEF Request, Attempts, Sendings, Statuses
  <2> HIDE DEF tx
  <2>3. /\ n \in Nat /\ DOMAIN sent' = DOMAIN sent \cup {n} /\ sent'[n] = tx
        /\ \A i \in DOMAIN sent : sent'[i] = sent[i]
    BY <1>3, <2>2 DEF CheckoutInv, Typed
  <2> HIDE DEF n
  <2>4. \A id \in Ids \ {run[s].id} : PaymentsNext(id) \subseteq Payments(id)
    BY <2>2, <2>3 DEF PaymentsNext, Payments, Pays
  <2>5. PaymentsNext(run[s].id) \subseteq Payments(run[s].id) \cup {n}
    BY <2>3 DEF PaymentsNext, Payments, Pays
  <2>6. run[s].id \in lost' \/ PaymentsNext(run[s].id) \subseteq {n}
    BY <1>3, <2>1, <2>5 DEF Free
  <2>7. run[s].at = "approve" => FreeNext(run[s].id)
    BY <1>3, <2>1, <2>2, <2>3 DEF Free, FreeNext, PaymentsNext, Payments, Pays, Payment
  <2>8. SentMinted
    BY <1>1, <2>1, <2>2, <2>3 DEF Once, SentMinted, Minted, MintedNext
  <2>9. ASSUME NEW pc \in {"approved", "receipt"}, NEW q, q = [run[s] EXCEPT !.at = pc, !.tx = n]
        PROVE  q.at = pc /\ q.id = run[s].id /\ q.current = run[s].current /\ q.tx = n /\ Active(q)
    BY <2>1, <2>3, <2>9 DEF Attempts, Active
  <2>10. CASE /\ run[s].at = "approve" /\ UNCHANGED phase
              /\ run' = [run EXCEPT ![s].at = "approved", ![s].tx = n]
    <3>1. PICK q : q = [run[s] EXCEPT !.at = "approved", !.tx = n]
      OBVIOUS
    <3>2. run' = [run EXCEPT ![s] = q]
      BY <2>10, <3>1
    <3>3. q.at = "approved" /\ q.id = run[s].id /\ q.current = run[s].current /\ Active(q)
      BY <2>9, <3>1
    <3>4. run[s].id \in lost' \/ \A i, j \in PaymentsNext(run[s].id) : i = j
      BY <2>6
    <3>5. lost \subseteq lost' /\ phase' = phase /\ q.at # "receipt"
      BY <1>3, <2>10, <3>3
    <3>6. FreeNext(run[s].id)
      BY <2>7, <2>10
    <3>. QED  BY <1>1, <2>4, <2>8, <3>2, <3>3, <3>4, <3>5, <3>6, OnceMoves
  <2>11. CASE /\ run' = [run EXCEPT ![s].at = "receipt", ![s].tx = n]
              /\ setPhase(s, "pending")
    <3>1. PICK q : q = [run[s] EXCEPT !.at = "receipt", !.tx = n]
      OBVIOUS
    <3>2. run' = [run EXCEPT ![s] = q]
      BY <2>11, <3>1
    <3>3. q.at = "receipt" /\ q.id = run[s].id /\ q.current = run[s].current /\ q.tx = n /\ Active(q)
      BY <2>9, <3>1
    <3>4. phase' = phase \/ (run[s].current /\ phase'.step \notin Failed)
      BY <2>11 DEF setPhase, Show, Failed
    <3>. QED  BY <1>1, <1>3, <2>4, <2>6, <2>8, <3>2, <3>3, <3>4, OnceMoves
  <2>12. CASE Stop(s) /\ UNCHANGED phase
    <3>1. Off.at = "off" /\ run' = [run EXCEPT ![s] = Off]
      BY <2>12 DEF Stop, Off
    <3>2. ~Active(Off)
      BY <3>1 DEF Active
    <3>. QED  BY <1>1, <1>3, <2>4, <2>6, <2>8, <2>12, <3>1, <3>2, OnceMoves
  <2>13. CASE /\ StopWith(s, "error")
              /\ lost' = IF run[s].at \in Payment THEN lost \cup {run[s].id} ELSE lost
    <3>1. Off.at = "off" /\ run' = [run EXCEPT ![s] = Off]
      BY <2>13 DEF StopWith, Stop, Off
    <3>2. ~Active(Off)
      BY <3>1 DEF Active
    <3>3. FreeNext(run[s].id)
      BY <1>1, <2>7, <2>13 DEF FreeNext
    <3>4. run[s].id \in lost' \/ \A i, j \in PaymentsNext(run[s].id) : i = j
      BY <2>6
    <3>5. phase' = phase \/ run[s].current
      BY <2>13 DEF StopWith, setPhase
    <3>. QED  BY <1>1, <1>3, <2>4, <2>8, <3>1, <3>2, <3>3, <3>4, <3>5, OnceMoves
  <2>. QED  BY <1>1, <1>3, <2>10, <2>11, <2>12, <2>13 DEF writeContract, n, tx
<1>. QED  BY <1>2, <1>3 DEF writeContract

\* The receipt: of a payment that reverted nothing can count any more, and one
\* that is lost leaves its mark on the question.
LEMMA OnceReceipt ==
  ASSUME CheckoutInv, Once, NEW s \in Runs, afterSend(s) PROVE Once'
<1>1. run[s].at = "receipt" /\ Active(run[s]) /\ UNCHANGED <<pendingId, row, sent>>
  BY DEF afterSend, chain, Active
<1>2. run[s].id \in Ids
  BY <1>1, ActiveHasId
<1>3. CASE /\ ReceiptSucceeds(s) /\ setPhase(s, "indexing") /\ UNCHANGED lost
           /\ IF run[s].current THEN Goto(s, "indexLoop") ELSE Stop(s)
  <2>1. CASE run[s].current
    BY <1>1, <1>3, <2>1, OnceJumps DEF At, Busy
  <2>2. CASE ~run[s].current
    BY <1>1, <1>3, <2>2, OnceStops DEF Failed
  <2>. QED  BY <2>1, <2>2
<1>4. CASE sent[run[s].tx].status = "reverted" /\ StopWith(s, "error") /\ UNCHANGED lost
  <2>1. Free(run[s].id)
    <3>1. run[s].id \in lost \/ Payments(run[s].id) \subseteq {run[s].tx}
      BY <1>1 DEF Once
    <3>2. run[s].tx \notin Payments(run[s].id)
      BY <1>4 DEF Payments
    <3>. QED  BY <3>1, <3>2 DEF Free
  <2>. QED  BY <1>1, <1>4, <2>1, OnceStops DEF StopWith, Failed
<1>5. CASE StopWith(s, "error") /\ lost' = lost \cup {run[s].id}
  <2>1. SentMinted /\ \A id : PaymentsNext(id) = Payments(id)
    BY <1>1, SamePayments
  <2>2. FreeNext(run[s].id) /\ run[s].id \in lost' /\ lost \subseteq lost'
    BY <1>5 DEF FreeNext
  <2>3. Off.at = "off" /\ run' = [run EXCEPT ![s] = Off]
    BY <1>5 DEF StopWith, Stop, Off
  <2>4. ~Active(Off)
    BY <2>3 DEF Active
  <2>5. phase' = phase \/ run[s].current
    BY <1>5 DEF StopWith, setPhase
  <2>. QED  BY <1>1, <2>1, <2>2, <2>3, <2>4, <2>5, OnceMoves
<1>. QED  BY <1>3, <1>4, <1>5 DEF afterSend

\* Every other await: nothing is sent, and a failure comes before the payment.
LEMMA OnceStep ==
  ASSUME CheckoutInv, Once, NEW s \in Runs, Step(s) PROVE Once'
<1> DEFINE Still == UNCHANGED <<pendingId, row, sent, lost>>
           Before == Active(run[s]) /\ run[s].at \notin {"receipt", "indexLoop"}
<1>1. ASSUME Before, NEW step \in Failed, StopWith(s, step), Still PROVE Once'
  BY <1>1, OnceFails
<1>2. ASSUME Active(run[s]), Stop(s), UNCHANGED phase, Still PROVE Once'
  BY <1>2, OnceStops
<1>3. ASSUME Before, NEW pc \in At \ {"off", "create", "receipt"}, Goto(s, pc), Still,
             UNCHANGED phase \/ \E step \in Busy : setPhase(s, step)
      PROVE  Once'
  BY <1>3, OnceJumps
<1>4. ASSUME Before, NEW pc \in At \ {"off", "create", "receipt"}, NEW m \in Nat,
             run' = [run EXCEPT ![s].at = pc, ![s].nonce = m], Still,
             UNCHANGED phase \/ \E step \in Busy : setPhase(s, step)
      PROVE  Once'
  <2>1. run' = [run EXCEPT ![s] = [run[s] EXCEPT !.at = pc, !.nonce = m]]
    BY <1>4
  <2>. QED  BY <1>4, <2>1, OnceGoes
<1>5. ASSUME check(s) PROVE Once'
  <2>1. Before /\ Still
    BY <1>5 DEF check, chain, Active
  <2>. QED  BY <1>5, <1>1, <1>2, <1>3, <2>1 DEF check, Failed, Busy, At
<1>6. ASSUME signPermit(s) PROVE Once'
  <2>1. Before /\ Still
    BY <1>6 DEF signPermit, chain, Active
  <2>2. \A v \in views : v.nonce \in Nat
    BY DEF views, CheckoutInv, Typed, Holdings
  <2>. QED  BY <1>6, <1>1, <1>3, <1>4, <2>1, <2>2 DEF signPermit, Failed, Busy, At
<1>7. ASSUME permitSimulates(s) PROVE Once'
  <2>1. Before /\ Still
    BY <1>7 DEF permitSimulates, chain, Active
  <2>. QED  BY <1>7, <1>3, <1>4, <2>1 DEF permitSimulates, Busy, At
<1>8. ASSUME sendPlainAsk(s) PROVE Once'
  <2>1. Before /\ Still
    BY <1>8 DEF sendPlainAsk, chain, Active
  <2>. QED  BY <1>8, <1>1, <1>3, <2>1 DEF sendPlainAsk, Failed, Busy, At
<1>9. ASSUME confirmApproval(s) PROVE Once'
  <2>1. Before /\ Still
    BY <1>9 DEF confirmApproval, chain, Active
  <2>. QED  BY <1>9, <1>1, <1>3, <2>1 DEF confirmApproval, Failed, At
<1>10. ASSUME waitForAllowance(s) PROVE Once'
  <2>1. Before /\ Still
    BY <1>10 DEF waitForAllowance, chain, Active
  <2>. QED  BY <1>10, <1>2, <1>3, <2>1 DEF waitForAllowance, At
<1>11. ASSUME indexLoop(s) PROVE Once'
  <2>1. Active(run[s]) /\ Still
    BY <1>11 DEF indexLoop, chain, Active
  <2>2. ASSUME StopWith(s, "confirmed") PROVE Once'
    BY <2>1, <2>2, OnceStops DEF StopWith, Failed
  <2>. QED  BY <1>11, <1>2, <2>1, <2>2 DEF indexLoop
<1>. QED
  BY <1>5, <1>6, <1>7, <1>8, <1>9, <1>10, <1>11, OnceCreates, OnceSends, OnceReceipt DEF Step

-----------------------------------------------------------------------------
(* The types with their bounds *)

\* An attempt has a question once it is minted, and counts nothing past the wallet's
\* transactions.
Small(r) ==
  /\ r.tx <= MaxSent /\ r.nonce <= MaxSent
  /\ r.at \in {"off", "create"} <=> r.id = NoId

\* Transactions are mined in the order they were sent, and the permit nonce counts
\* some of those that were.
Unmined(i) == sent[i].status = "inflight"
InOrder == \A i, j \in DOMAIN sent : i < j /\ Unmined(i) => Unmined(j)
Counted ==
  \A k \in 0..Len(sent) : (\A i \in DOMAIN sent : i > k => Unmined(i)) => account.nonce <= k
Bounded ==
  /\ \A s \in Runs : Small(run[s])
  /\ Len(sent) <= MaxSent /\ InOrder /\ Counted
  /\ \A i \in DOMAIN sent : sent[i].id \in Ids /\ sent[i].nonce <= MaxSent
  /\ account.balance \in 0..MaxBalance /\ stale.balance \in 0..MaxBalance
  /\ stale.nonce <= MaxSent
  /\ session \in BOOLEAN /\ lost \subseteq Ids

\* The nonce counts no more than was sent.
LEMMA NonceBound ==
  ASSUME CheckoutInv, Bounded
  PROVE  /\ account.nonce \in 0..MaxSent /\ stale.nonce \in 0..MaxSent
         /\ \A v \in views : v.nonce \in 0..MaxSent
<1>1. account.nonce \in Nat /\ stale.nonce \in Nat /\ Len(sent) \in Nat
  BY DEF CheckoutInv, Typed, Holdings
<1>2. Len(sent) \in 0..Len(sent) /\ \A i \in DOMAIN sent : ~(i > Len(sent))
  BY <1>1 DEF CheckoutInv, Typed
<1>3. account.nonce <= Len(sent)
  BY <1>2 DEF Bounded, Counted
<1>. QED  BY <1>1, <1>3, BoundsAssumption DEF Bounded, views

\* A mined transaction costs at most one price, which the wallet had, and uses at
\* most one permit nonce.
LEMMA AfterBound ==
  ASSUME NEW a \in Holdings, NEW tx, Works(a, tx), a.balance \in 0..MaxBalance
  PROVE  After(a, tx).balance \in 0..MaxBalance /\ After(a, tx).nonce <= a.nonce + 1
<1> USE BoundsAssumption
<1>0. a.nonce \in Nat /\ a.balance \in Int
  BY DEF Holdings
<1>1. /\ Permitted(a, tx) \in Holdings /\ Permitted(a, tx).balance = a.balance
      /\ Permitted(a, tx).nonce <= a.nonce + 1
  <2>1. ASSUME NEW n \in Nat, n = a.nonce + 1
        PROVE  /\ [a EXCEPT !.allowance = 1, !.nonce = n] \in Holdings
               /\ [a EXCEPT !.allowance = 1, !.nonce = n].balance = a.balance
               /\ [a EXCEPT !.allowance = 1, !.nonce = n].nonce = a.nonce + 1
    <3>1. [a EXCEPT !.allowance = 1] \in Holdings /\ [a EXCEPT !.allowance = 1].balance = a.balance
      BY DEF Holdings
    <3>2. [[a EXCEPT !.allowance = 1] EXCEPT !.nonce = n] = [a EXCEPT !.allowance = 1, !.nonce = n]
      OBVIOUS
    <3>3. ASSUME NEW b \in Holdings
          PROVE  /\ [b EXCEPT !.nonce = n] \in Holdings /\ [b EXCEPT !.nonce = n].balance = b.balance
                 /\ [b EXCEPT !.nonce = n].nonce = n
      BY DEF Holdings
    <3>. QED  BY <2>1, <3>1, <3>2, <3>3
  <2>2. PICK n \in Nat : n = a.nonce + 1
    BY <1>0
  <2>3. Permitted(a, tx) = a \/ Permitted(a, tx) = [a EXCEPT !.allowance = 1, !.nonce = n]
    BY <2>2 DEF Permitted
  <2>4. CASE Permitted(a, tx) = a
    BY <1>0, <2>4
  <2>5. CASE Permitted(a, tx) = [a EXCEPT !.allowance = 1, !.nonce = n]
    <3> DEFINE b == [a EXCEPT !.allowance = 1, !.nonce = n]
    <3>1. b \in Holdings /\ b.balance = a.balance /\ b.nonce = a.nonce + 1
      BY <2>1, <2>2
    <3> HIDE DEF b
    <3>2. Permitted(a, tx) = b
      BY <2>5 DEF b
    <3>. QED  BY <1>0, <3>1, <3>2
  <2>. QED  BY <2>3, <2>4, <2>5
<1>2. ASSUME NEW b \in Holdings
      PROVE  /\ [b EXCEPT !.balance = @ - 1, !.allowance = 0].balance = b.balance - 1
             /\ [b EXCEPT !.balance = @ - 1, !.allowance = 0].nonce = b.nonce
  BY DEF Holdings
<1>3. [a EXCEPT !.allowance = 1].balance = a.balance /\ [a EXCEPT !.allowance = 1].nonce = a.nonce
  BY DEF Holdings
<1>4. CASE tx.fn \in Payment
  <2>1. a.balance > 0
    BY <1>4 DEF Works
  <2>2. /\ After(a, tx).balance = a.balance - 1
        /\ After(a, tx).nonce = Permitted(a, tx).nonce
    BY <1>1, <1>2, <1>4 DEF After
  <2>. QED  BY <1>0, <1>1, <2>1, <2>2
<1>5. CASE tx.fn \notin Payment
  BY <1>0, <1>3, <1>5 DEF After
<1>. QED  BY <1>4, <1>5

\* The records an attempt goes through.
LEMMA SmallRecords ==
  ASSUME NEW r \in Attempts, Small(r)
  PROVE  /\ Small(Off) /\ Small([r EXCEPT !.current = FALSE])
         /\ \A id \in Ids : Small([Off EXCEPT !.at = "check", !.id = id, !.current = TRUE])
         /\ Small([Off EXCEPT !.at = "create", !.id = NoId, !.current = TRUE])
         /\ r.at \notin {"off", "create"} =>
              \A pc \in At \ {"off", "create"} :
                /\ Small([r EXCEPT !.at = pc])
                /\ \A n \in 0..MaxSent : /\ Small([r EXCEPT !.at = pc, !.nonce = n])
                                       /\ Small([r EXCEPT !.at = pc, !.tx = n])
<1> USE BoundsAssumption, NoIdAssumption
<1>1. Small(Off) /\ Small([Off EXCEPT !.at = "create", !.id = NoId, !.current = TRUE])
  BY DEF Small, Off
<1>2. \A id \in Ids : Small([Off EXCEPT !.at = "check", !.id = id, !.current = TRUE])
  BY DEF Small, Off
<1>3. Small([r EXCEPT !.current = FALSE])
  BY DEF Small, Attempts
<1>4. ASSUME r.at \notin {"off", "create"}, NEW pc \in At \ {"off", "create"}
      PROVE  Small([r EXCEPT !.at = pc])
  BY <1>4 DEF Small, Attempts
<1>5. ASSUME r.at \notin {"off", "create"}, NEW pc \in At \ {"off", "create"}, NEW n \in 0..MaxSent
      PROVE  /\ Small([r EXCEPT !.at = pc, !.nonce = n])
             /\ Small([r EXCEPT !.at = pc, !.tx = n])
  BY <1>5 DEF Small, Attempts
<1>. QED  BY <1>1, <1>2, <1>3, <1>4, <1>5

\* Every step of an attempt, and every press of the asker, leaves the attempts small.
LEMMA SmallStep ==
  ASSUME CheckoutInv, Bounded, (\E s \in Runs : Press(s) \/ Step(s)) \/ reset \/ leave
  PROVE  \A t \in Runs : Small(run'[t])
<1> USE BoundsAssumption, NoIdAssumption
<1>1. \A t \in Runs : run[t] \in Attempts /\ Small(run[t])
  BY DEF CheckoutInv, Typed, Bounded
<1>2. ASSUME NEW s \in Runs, NEW r, run' = [run EXCEPT ![s] = r], Small(r)
      PROVE  \A t \in Runs : Small(run'[t])
  BY <1>1, <1>2 DEF CheckoutInv, Typed
<1>3. ASSUME run' = Abandoned PROVE \A t \in Runs : Small(run'[t])
  BY <1>1, <1>3, SmallRecords DEF Abandoned
<1>4. ASSUME NEW s \in Runs, NEW pc \in {"create", "check"}, NEW id \in Ids \cup {NoId},
             pc = "create" <=> id = NoId, Begin(s, pc, id)
      PROVE  \A t \in Runs : Small(run'[t])
  <2> DEFINE r == [Off EXCEPT !.at = pc, !.id = id, !.current = TRUE]
  <2>1. Small(r)
    BY <1>4 DEF Small, Off
  <2> HIDE DEF r
  <2>2. \A t \in Runs : run'[t] = IF t = s THEN r ELSE [run[t] EXCEPT !.current = FALSE]
    BY <1>4 DEF Begin, Abandoned, r
  <2>. QED  BY <1>1, <2>1, <2>2, SmallRecords
<1>5. ASSUME NEW s \in Runs, submit(s) \/ (\E id \in Ids : startPay(s, id))
      PROVE  \A t \in Runs : Small(run'[t])
  BY <1>4, <1>5 DEF submit, startPay
<1>6. ASSUME NEW s \in Runs, Stop(s) PROVE \A t \in Runs : Small(run'[t])
  <2>1. Small(Off)
    BY DEF Small, Off
  <2>. QED  BY <1>2, <1>6, <2>1 DEF Stop
<1>7. ASSUME NEW s \in Runs, run[s].at \notin {"off", "create"}, NEW pc \in At \ {"off", "create"},
             Goto(s, pc)
      PROVE  \A t \in Runs : Small(run'[t])
  <2>1. Small([run[s] EXCEPT !.at = pc])
    BY <1>1, <1>7, SmallRecords
  <2>2. run' = [run EXCEPT ![s] = [run[s] EXCEPT !.at = pc]]
    BY <1>7 DEF Goto
  <2>. QED  BY <1>2, <2>1, <2>2
<1>8. ASSUME NEW s \in Runs, Press(s) PROVE \A t \in Runs : Small(run'[t])
  <2>1. pendingId \in Ids \cup {NoId}
    BY DEF CheckoutInv, Typed
  <2>. QED  BY <1>5, <1>8, <2>1 DEF Press, pressSubmit, retry
<1>9. ASSUME NEW s \in Runs, create(s) PROVE \A t \in Runs : Small(run'[t])
  BY <1>5, <1>6, <1>9 DEF create, StopWith
<1>10. ASSUME NEW s \in Runs, check(s) PROVE \A t \in Runs : Small(run'[t])
  BY <1>6, <1>7, <1>10 DEF check, StopWith, At
<1>11. ASSUME NEW s \in Runs, signPermit(s) PROVE \A t \in Runs : Small(run'[t])
  <2>1. run[s].at = "sign"
    BY <1>11 DEF signPermit
  <2>2. ASSUME NEW v \in views, run' = [run EXCEPT ![s].at = "simulatePermit", ![s].nonce = v.nonce]
        PROVE  \A t \in Runs : Small(run'[t])
    <3>1. Small([run[s] EXCEPT !.at = "simulatePermit", !.nonce = v.nonce])
      BY <1>1, <2>1, NonceBound, SmallRecords DEF At
    <3>2. run' = [run EXCEPT ![s] = [run[s] EXCEPT !.at = "simulatePermit", !.nonce = v.nonce]]
      BY <2>2
    <3>. QED  BY <1>2, <3>1, <3>2
  <2>. QED  BY <1>6, <1>7, <1>11, <2>1, <2>2 DEF signPermit, StopWith, At
<1>12. ASSUME NEW s \in Runs, permitSimulates(s) PROVE \A t \in Runs : Small(run'[t])
  <2>1. run[s].at = "simulatePermit"
    BY <1>12 DEF permitSimulates
  <2>2. ASSUME run' = [run EXCEPT ![s].at = "approve", ![s].nonce = 0]
        PROVE  \A t \in Runs : Small(run'[t])
    <3>1. Small([run[s] EXCEPT !.at = "approve", !.nonce = 0])
      <4>1. 0 \in 0..MaxSent /\ "approve" \in At \ {"off", "create"}
        BY DEF At
      <4>. QED  BY <1>1, <2>1, <4>1, SmallRecords
    <3>2. run' = [run EXCEPT ![s] = [run[s] EXCEPT !.at = "approve", !.nonce = 0]]
      BY <2>2
    <3>. QED  BY <1>2, <3>1, <3>2
  <2>. QED  BY <1>7, <1>12, <2>1, <2>2 DEF permitSimulates, At, Payment
<1>13. ASSUME NEW s \in Runs, sendPlainAsk(s) PROVE \A t \in Runs : Small(run'[t])
  BY <1>6, <1>7, <1>13 DEF sendPlainAsk, StopWith, At, Payment
<1>14. ASSUME NEW s \in Runs, writeContract(s) PROVE \A t \in Runs : Small(run'[t])
  <2>1. run[s].at \in Payment \cup {"approve"} /\ run[s].at \notin {"off", "create"}
    BY <1>14 DEF writeContract, Payment
  <2>2. ASSUME NEW pc \in {"approved", "receipt"}, Len(sent) < MaxSent,
               run' = [run EXCEPT ![s].at = pc, ![s].tx = Len(sent) + 1]
        PROVE  \A t \in Runs : Small(run'[t])
    <3>1. Len(sent) + 1 \in 0..MaxSent
      BY <2>2 DEF CheckoutInv, Typed
    <3>2. Small([run[s] EXCEPT !.at = pc, !.tx = Len(sent) + 1])
      BY <1>1, <2>1, <3>1, SmallRecords DEF At
    <3>3. run' = [run EXCEPT ![s] = [run[s] EXCEPT !.at = pc, !.tx = Len(sent) + 1]]
      BY <2>2
    <3>. QED  BY <1>2, <3>2, <3>3
  <2>. QED  BY <1>6, <1>14, <2>2 DEF writeContract, StopWith
<1>15. ASSUME NEW s \in Runs, confirmApproval(s) PROVE \A t \in Runs : Small(run'[t])
  BY <1>6, <1>7, <1>15 DEF confirmApproval, StopWith, At
<1>16. ASSUME NEW s \in Runs, waitForAllowance(s) PROVE \A t \in Runs : Small(run'[t])
  BY <1>6, <1>7, <1>16 DEF waitForAllowance, At
<1>17. ASSUME NEW s \in Runs, afterSend(s) PROVE \A t \in Runs : Small(run'[t])
  BY <1>6, <1>7, <1>17 DEF afterSend, StopWith, At
<1>18. ASSUME NEW s \in Runs, indexLoop(s) PROVE \A t \in Runs : Small(run'[t])
  BY <1>6, <1>18 DEF indexLoop, StopWith
<1>19. ASSUME reset \/ leave PROVE \A t \in Runs : Small(run'[t])
  BY <1>3, <1>19 DEF reset, leave
<1>. QED
  BY <1>8, <1>9, <1>10, <1>11, <1>12, <1>13, <1>14, <1>15, <1>16, <1>17, <1>18, <1>19 DEF Step

\* The world's half: what is mined is counted, and nothing else.
LEMMA WorldBound ==
  ASSUME CheckoutInv, Bounded, Environment
  PROVE  Bounded'
<1> USE BoundsAssumption
<1>1. ASSUME NEW i \in DOMAIN sent, mine(i) \/ replaceInWallet(i) PROVE Bounded'
  <2>1. PICK st \in Outcomes :
          /\ st = "success" => Works(account, sent[i])
          /\ sent' = [sent EXCEPT ![i].status = st]
          /\ account' = IF st = "success" THEN After(account, sent[i]) ELSE account
    BY <1>1 DEF mine, replaceInWallet, Outcomes
  <2>2. /\ Unmined(i) /\ \A j \in 1..(i - 1) : ~Unmined(j)
        /\ UNCHANGED <<run, stale, session, lost>>
    BY <1>1 DEF mine, replaceInWallet, IsNext, client, Unmined
  <2>3. /\ sent \in Seq(Sendings) /\ account \in Holdings /\ account' \in Holdings
        /\ i \in 1..Len(sent) /\ Len(sent) \in Nat /\ DOMAIN sent = 1..Len(sent)
    BY <2>1, AfterHolds DEF CheckoutInv, Typed
  <2>4. /\ Len(sent') = Len(sent) /\ DOMAIN sent' = DOMAIN sent
        /\ \A j \in DOMAIN sent : /\ sent'[j].id = sent[j].id /\ sent'[j].nonce = sent[j].nonce
                                  /\ sent'[j].status = IF j = i THEN st ELSE sent[j].status
    <3> DEFINE tx == [sent[i] EXCEPT !.status = st]
    <3>1. sent[i] \in Sendings
      BY <2>3
    <3>2. tx.id = sent[i].id /\ tx.nonce = sent[i].nonce /\ tx.status = st
      BY <3>1 DEF Sendings
    <3>3. sent' = [sent EXCEPT ![i] = tx]
      BY <2>1
    <3> HIDE DEF tx
    <3>. QED  BY <2>3, <3>2, <3>3
  <2>5. \A j \in DOMAIN sent : Unmined(j)' <=> Unmined(j) /\ j # i
    BY <2>2, <2>4 DEF Unmined, Outcomes
  <2>6. InOrder'
    BY <2>2, <2>3, <2>4, <2>5 DEF Bounded, InOrder
  <2>7. /\ account'.balance \in 0..MaxBalance
        /\ account'.nonce \in Nat /\ account.nonce \in Nat
        /\ account'.nonce <= account.nonce + 1
    <3>1. account.nonce \in Nat /\ account'.nonce \in Nat /\ account.balance \in 0..MaxBalance
      BY <2>3 DEF Holdings, Bounded
    <3>. QED  BY <2>1, <2>3, <3>1, AfterBound
  <2>8. Counted'
    <3> SUFFICES ASSUME NEW k \in 0..Len(sent), \A j \in DOMAIN sent : j > k => Unmined(j)'
                 PROVE  account'.nonce <= k
      BY <2>4 DEF Counted
    <3>1. i <= k
      BY <2>3, <2>5
    <3>2. \A j \in DOMAIN sent : j > i - 1 => Unmined(j)
      BY <2>2, <2>3 DEF Bounded, InOrder
    <3>3. i - 1 \in 0..Len(sent)
      BY <2>3
    <3>4. account.nonce <= i - 1
      BY <3>2, <3>3 DEF Bounded, Counted
    <3>. QED  BY <2>3, <2>7, <3>1, <3>4
  <2>. QED  BY <2>2, <2>4, <2>6, <2>7, <2>8 DEF Bounded, Small
<1>2. ASSUME nodeCatchesUp PROVE Bounded'
  <2>1. stale' = account /\ UNCHANGED <<run, sent, account, session, lost>>
    BY <1>2 DEF nodeCatchesUp, client
  <2>2. stale'.nonce <= MaxSent /\ stale'.balance \in 0..MaxBalance
    BY <2>1, NonceBound DEF Bounded
  <2>. QED  BY <2>1, <2>2 DEF Bounded, Small, InOrder, Counted, Unmined
<1>3. ASSUME NEW id \in Ids, index(id) PROVE Bounded'
  BY <1>3 DEF index, client, chain, Bounded, Small, InOrder, Counted, Unmined
<1>4. ASSUME sessionExpires PROVE Bounded'
  BY <1>4 DEF sessionExpires, client, chain, Bounded, Small, InOrder, Counted, Unmined
<1>5. ASSUME NEW id \in Ids, sweep(id) PROVE Bounded'
  BY <1>5 DEF sweep, client, chain, Bounded, Small, InOrder, Counted, Unmined
<1>. QED  BY <1>1, <1>2, <1>3, <1>4, <1>5 DEF Environment

\* The client's half: the wallet sends in order, at most so many.
LEMMA ClientBound ==
  ASSUME CheckoutInv, Bounded, (\E s \in Runs : Press(s) \/ Step(s)) \/ reset \/ leave
  PROVE  Bounded'
<1> USE BoundsAssumption
<1>1. \A t \in Runs : Small(run'[t])
  BY SmallStep
<1>2. ASSUME NEW s \in Runs, writeContract(s), UNCHANGED <<account, stale, session>>,
             lost' \subseteq Ids, Len(sent) < MaxSent, sent' = Append(sent, Request(s, run[s].at))
      PROVE  Bounded'
  <2> DEFINE tx == Request(s, run[s].at)
  <2>1. run[s] \in Attempts /\ Small(run[s]) /\ run[s].at \in Payment \cup {"approve"}
    BY <1>2 DEF writeContract, CheckoutInv, Typed, Bounded
  <2>2. tx.id \in Ids /\ tx.nonce <= MaxSent /\ tx.status = "inflight" /\ tx \in Sendings
    BY <2>1 DEF Request, Small, Attempts, Payment, Sendings, Statuses
  <2> HIDE DEF tx
  <2>3. /\ sent \in Seq(Sendings) /\ Len(sent) \in Nat /\ DOMAIN sent = 1..Len(sent)
        /\ account.nonce \in Nat
    BY DEF CheckoutInv, Typed, Holdings
  <2>4. /\ Len(sent') = Len(sent) + 1 /\ DOMAIN sent' = 1..(Len(sent) + 1)
        /\ \A i \in DOMAIN sent : sent'[i] = sent[i]
        /\ sent'[Len(sent) + 1] = tx
    BY <1>2, <2>2, <2>3 DEF tx
  <2>5. ASSUME NEW i \in DOMAIN sent'
        PROVE  \/ i \in DOMAIN sent /\ (Unmined(i)' <=> Unmined(i))
               \/ i = Len(sent) + 1 /\ Unmined(i)'
    <3>1. CASE i = Len(sent) + 1
      BY <2>2, <2>4, <3>1 DEF Unmined
    <3>2. CASE i \in DOMAIN sent
      BY <2>4, <3>2 DEF Unmined
    <3>. QED  BY <2>3, <2>4, <3>1, <3>2
  <2>6. InOrder'
    BY <2>3, <2>4, <2>5 DEF InOrder, Bounded
  <2>7. Counted'
    <3> SUFFICES ASSUME NEW k \in 0..(Len(sent) + 1), \A j \in DOMAIN sent' : j > k => Unmined(j)'
                 PROVE  account.nonce <= k
      BY <1>2, <2>4 DEF Counted
    <3>1. CASE k <= Len(sent)
      BY <2>3, <2>4, <2>5, <3>1 DEF Bounded, Counted
    <3>2. CASE k = Len(sent) + 1
      <4>1. account.nonce <= Len(sent)
        BY <2>3 DEF Bounded, Counted
      <4>. QED  BY <2>3, <3>2, <4>1
    <3>. QED  BY <2>3, <3>1, <3>2
  <2>8. \A i \in DOMAIN sent' : sent'[i].id \in Ids /\ sent'[i].nonce <= MaxSent
    BY <2>2, <2>3, <2>4 DEF Bounded
  <2>9. Len(sent') <= MaxSent
    BY <1>2, <2>3, <2>4
  <2>. QED  BY <1>1, <1>2, <2>6, <2>7, <2>8, <2>9 DEF Bounded
<1>3. ASSUME UNCHANGED chain, session' \in BOOLEAN, lost' \subseteq Ids PROVE Bounded'
  BY <1>1, <1>3 DEF chain, Bounded, InOrder, Counted, Unmined
<1>4. ASSUME UNCHANGED <<chain, session, lost>> PROVE Bounded'
  BY <1>3, <1>4 DEF Bounded
<1>5. ASSUME NEW s \in Runs, writeContract(s) PROVE Bounded'
  <2>1. /\ UNCHANGED <<account, stale, session>>
        /\ run[s].at \in Payment \cup {"approve"}
    BY <1>5 DEF writeContract
  <2>2. CASE UNCHANGED <<sent, lost>>
    BY <1>4, <2>1, <2>2 DEF chain
  <2>4. run[s].id \in Ids
    BY <2>1 DEF CheckoutInv, AllMinted, Minted, Payment
  <2>5. lost' \subseteq Ids
    BY <1>5, <2>4 DEF writeContract, Bounded
  <2>3. CASE Len(sent) < MaxSent /\ sent' = Append(sent, Request(s, run[s].at))
    BY <1>2, <1>5, <2>1, <2>3, <2>5
  <2>. QED  BY <1>5, <2>2, <2>3 DEF writeContract
<1>6. ASSUME NEW s \in Runs, afterSend(s) PROVE Bounded'
  <2>1. run[s].at = "receipt" /\ UNCHANGED <<chain, session>>
    BY <1>6 DEF afterSend
  <2>2. run[s].id \in Ids
    BY <2>1 DEF CheckoutInv, AllMinted, Minted
  <2>3. lost' \subseteq Ids
    BY <1>6, <2>2 DEF afterSend, Bounded
  <2>. QED  BY <1>3, <2>1, <2>3 DEF Bounded
<1>7. ASSUME NEW s \in Runs, Press(s) PROVE Bounded'
  BY <1>4, <1>7 DEF Press, pressSubmit, retry
<1>8. ASSUME reset \/ leave PROVE Bounded'
  BY <1>4, <1>8 DEF reset, leave
<1>9. ASSUME NEW s \in Runs, Step(s), ~writeContract(s), ~afterSend(s) PROVE Bounded'
  BY <1>4, <1>9 DEF Step, create, check, signPermit, permitSimulates, sendPlainAsk,
     confirmApproval, waitForAllowance, indexLoop
<1>. QED  BY <1>5, <1>6, <1>7, <1>8, <1>9

-----------------------------------------------------------------------------
(* The theorems *)

\* The invariant holds in every reachable state of any Checkout.
THEOREM CheckoutInvariant == Spec => []CheckoutInv
<1>1. CheckoutInv /\ [Next]_vars => CheckoutInv'
  <2>1. ASSUME CheckoutInv, UNCHANGED vars PROVE CheckoutInv'
    BY <2>1, StandsStill, OnlyWorld DEF vars
  <2> QED BY <2>1, AttemptStep, PressStep, EnvironmentStep DEF Next
<1> QED BY <1>1, CheckoutStart, PTL DEF Spec

\* For every number of attempts, questions, transactions and prices: every variable
\* keeps its type. The permit nonce never passes the number of transactions sent,
\* the balance is never negative, and an attempt has a question exactly from the
\* answer of POST /questions on.
THEOREM CheckoutTypes == Spec => []CheckoutTypeOK
<1>1. Init => Bounded
  <2> SUFFICES ASSUME Init PROVE Bounded
    OBVIOUS
  <2>1. \A s \in Runs : Small(run[s])
    BY BoundsAssumption DEF Init, Small, Off
  <2>2. sent = << >> /\ Len(sent) = 0 /\ DOMAIN sent = {}
    BY DEF Init
  <2>3. account.nonce = 0 /\ account.balance \in 0..MaxBalance /\ stale = account
    BY DEF Init, Accounts
  <2>. QED  BY <2>1, <2>2, <2>3, BoundsAssumption DEF Init, Bounded, InOrder, Counted
<1>2. CheckoutInv /\ Bounded /\ [Next]_vars => Bounded'
  <2> SUFFICES ASSUME CheckoutInv, Bounded, [Next]_vars PROVE Bounded'
    OBVIOUS
  <2>1. CASE UNCHANGED vars
    BY <2>1 DEF vars, client, chain, Bounded, Small, InOrder, Counted, Unmined
  <2>2. CASE Next
    BY <2>2, ClientBound, WorldBound DEF Next
  <2>. QED  BY <2>1, <2>2
<1>3. ASSUME CheckoutInv, Bounded PROVE CheckoutTypeOK
  <2>1. run \in [Runs -> [at : At, id : Ids \cup {NoId}, current : BOOLEAN,
                         tx : 0..MaxSent, nonce : 0..MaxSent]]
    <3>1. \A s \in Runs : run[s] \in Attempts /\ run[s].tx <= MaxSent /\ run[s].nonce <= MaxSent
      BY <1>3 DEF CheckoutInv, Typed, Bounded, Small
    <3>2. \A s \in Runs : run[s] \in [at : At, id : Ids \cup {NoId}, current : BOOLEAN,
                                     tx : 0..MaxSent, nonce : 0..MaxSent]
      BY <3>1, BoundsAssumption DEF Attempts
    <3>. QED  BY <1>3, <3>2 DEF CheckoutInv, Typed
  <2>2. account \in Accounts /\ stale \in Accounts
    <3>1. account \in Holdings /\ stale \in Holdings
      BY <1>3 DEF CheckoutInv, Typed
    <3>2. account.nonce \in 0..MaxSent /\ stale.nonce \in 0..MaxSent
      BY <1>3, NonceBound
    <3>. QED  BY <1>3, <3>1, <3>2 DEF Holdings, Accounts, Bounded
  <2>3. sent \in Seq(Transactions)
    <3>1. sent \in Seq(Sendings) /\ \A i \in DOMAIN sent : sent[i] \in Sendings
      BY <1>3 DEF CheckoutInv, Typed
    <3>2. \A i \in DOMAIN sent : sent[i] \in Transactions
      BY <1>3, <3>1, BoundsAssumption DEF Sendings, Transactions, Bounded
    <3>. QED  BY <3>1, <3>2
  <2>. QED  BY <1>3, <2>1, <2>2, <2>3 DEF CheckoutInv, Typed, Phases, Bounded, Small, CheckoutTypeOK
<1>. QED  BY <1>1, <1>2, <1>3, CheckoutInvariant, PTL DEF Spec

\* The form is busy exactly while one attempt holds the token (BusyHasRun): no error
\* path of any await leaves it disabled with nothing running.
THEOREM CheckoutBusyHasRun == Spec => []BusyHasRun
<1>1. ASSUME CheckoutInv PROVE BusyHasRun
  <2>1. Live = {} \/ \E s \in Live : Live = {s}
    BY <1>1 DEF CheckoutInv, Token
  <2>a. ASSUME Live = {} PROVE Cardinality(Live) <= 1
    <3>1. Cardinality(Live) = 0
      BY <2>a, FS_EmptySet
    <3> QED BY <3>1
  <2>b. ASSUME \E s \in Live : Live = {s} PROVE Cardinality(Live) <= 1
    <3>1. Cardinality(Live) = 1
      BY <2>b, FS_Singleton
    <3> QED BY <3>1
  <2>2. Cardinality(Live) <= 1
    BY <2>1, <2>a, <2>b
  <2> QED BY <1>1, <2>2 DEF CheckoutInv, Token, BusyHasRun, Live
<1> QED BY <1>1, CheckoutInvariant, PTL

\* However attempts were abandoned and retried, payments replaced in the wallet,
\* drafts swept and reads answered by a lagging node (ShownIsPaid): "You're all
\* set" is shown only for a question the chain holds a payment of and the database
\* has open, and "Payment confirmed on-chain" only for one it holds a payment of,
\* or one whose payment the wallet replaced by another transaction of its nonce,
\* of which the page reads the receipt as its own (useAskAndPay.ts:187-188).
THEOREM CheckoutShownIsPaid == Spec => []ShownIsPaid
<1>1. CheckoutInv => ShownIsPaid
  BY DEF CheckoutInv
<1> QED BY <1>1, CheckoutInvariant, PTL

\* Until the receipt of one cannot be fetched, or the wallet fails after it had sent
\* one, a question is paid for once, or about to be, whatever is abandoned,
\* retried, replaced or declined
\* (useAskAndPay.ts:196-303, 459-465).
THEOREM CheckoutPaysOnce == Spec => []OnePaymentUnlessLost
<1>1. Init => Once
  BY DEF Init, Once, Live, Active, Off, Show, Failed, Payments
<1>2. CheckoutInv /\ Once /\ [Next]_vars => Once'
  <2> SUFFICES ASSUME CheckoutInv, Once, [Next]_vars PROVE Once'
    OBVIOUS
  <2>1. CASE UNCHANGED vars
    <3>1. UNCHANGED <<run, phase, pendingId, row, sent, lost>>
      BY <2>1 DEF vars, client, chain
    <3>. QED  BY <3>1 DEF Once, Live, Active, Free, Payments, Minted
  <2>2. CASE Next
    BY <2>2, OncePress, OnceStep, OnceEnvironment DEF Next
  <2>. QED  BY <2>1, <2>2
<1>3. ASSUME CheckoutInv, Once PROVE OnePaymentUnlessLost
  <2> SUFFICES ASSUME NEW id \in Ids, id \notin lost PROVE ~(Cardinality(Payments(id)) > 1)
    BY DEF OnePaymentUnlessLost
  <2>1. CASE Payments(id) = {}
    BY <2>1, FS_EmptySet
  <2>2. CASE Payments(id) # {}
    <3>1. PICK i : i \in Payments(id)
      BY <2>2
    <3>2. Payments(id) = {i}
      BY <3>1, <1>3 DEF Once
    <3>. QED  BY <3>2, FS_Singleton
  <2>. QED  BY <2>1, <2>2
<1>. QED  BY <1>1, <1>2, <1>3, CheckoutInvariant, PTL DEF Spec
=============================================================================
