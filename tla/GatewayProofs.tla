---------------------------- MODULE GatewayProofs ----------------------------
(***************************************************************************)
(* Proofs about all five parts of the Gateway, for any number of requests, *)
(* wallets, keys, nonces, session tokens and calls: drafts, sessions,      *)
(* accounts, the limiter and the forms.                                    *)
(*                                                                         *)
(* Most of the properties are not inductive.  They need what the requests  *)
(* in flight have read or written so far: that a draft to be remembered is *)
(* the sender's and the only one (Single), that a nonce being checked has  *)
(* been deleted, that an avatar about to be named is stored.  The limiter's *)
(* bound needs how far below its own count a slow request can put a bucket *)
(* back (Spare); the forms one lemma for every rule that is stated twice.  *)
(***************************************************************************)
EXTENDS Gateway, FiniteSetTheorems, TLAPS

-----------------------------------------------------------------------------
(* Drafts *)

\* What a record of KV names, and what a request has produced, is its own.
Recorded ==
  \A k \in StoreKeys : \A i \in {record[k].now, record[k].old} :
    i # NoId => draft[i] = [asker |-> k[1], key |-> k[2]]
Produced ==
  \A s \in Sends :
    /\ send[s].at = "remember" => send[s].key # NoId
    /\ send[s].at \in {"remember", "answered"} =>
         /\ send[s].id # NoId
         /\ draft[send[s].id] = [asker |-> send[s].asker, key |-> send[s].key]
DraftsInv == DraftsTypeOK /\ Recorded /\ Produced

\* No record and no request to begin with.
LEMMA DraftsStart == DraftsInit => DraftsInv
BY DraftsAssumption DEF DraftsInit, DraftsInv, DraftsTypeOK, Recorded, Produced, NoDraft, NoRequest, Requests

\* Every step of withIdempotency keeps it: a draft never changes hands, and what is
\* remembered under a key is what its own sender has just minted for it.
LEMMA DraftsStep == DraftsInv /\ [DraftsNext]_draftVars => DraftsInv'
<1> SUFFICES ASSUME DraftsInv, [DraftsNext]_draftVars PROVE DraftsInv'
  OBVIOUS
<1> USE DraftsAssumption DEF DraftsInv
<1>1. ASSUME NEW s \in Sends, post(s) PROVE DraftsInv'
  <2>1. PICK w \in Askers, h \in Headers : 
       LET k == parseIdempotencyKey(h)
           r == record[storeKey(w, k)]
       IN IF k = NoId THEN Start(s, w, k, NoId) /\ UNCHANGED excused
          ELSE \E found \in {r.now, r.old} : Start(s, w, k, found) /\ excused' \subseteq excused \cup {<<w, k>>}
    BY <1>1 DEF post
  <2> DEFINE k == parseIdempotencyKey(h)
  <2>2. UNCHANGED <<draft, record>>
    BY <1>1 DEF post
  <2>3. k \in Keys \cup {NoId}
    BY DEF parseIdempotencyKey
  <2>4. PICK found : /\ Start(s, w, k, found)
                     /\ found \in Ids \cup {NoId}
                     /\ found # NoId => draft[found] = [asker |-> w, key |-> k]
                     /\ excused' \subseteq StoreKeys
    <3>1. CASE k = NoId
      BY <2>1, <3>1 DEF DraftsTypeOK
    <3>2. CASE k # NoId
      <4>1. <<w, k>> \in StoreKeys
        BY <2>3, <3>2 DEF StoreKeys
      <4>2. PICK found \in {record[<<w, k>>].now, record[<<w, k>>].old} :
              Start(s, w, k, found) /\ excused' \subseteq excused \cup {<<w, k>>}
        BY <2>1, <3>2 DEF storeKey
      <4> QED BY <4>1, <4>2 DEF DraftsTypeOK, Recorded
    <3> QED BY <3>1, <3>2
  <2> QED BY <2>2, <2>3, <2>4 DEF Start, DraftsTypeOK, Requests, Recorded, Produced
<1>2. ASSUME NEW s \in Sends, mint(s) PROVE DraftsInv'
  <2> DEFINE i == CHOOSE i \in Ids : draft[i] = NoDraft
             new == [asker |-> send[s].asker, key |-> send[s].key]
  <2>1. i \in Ids /\ draft[i] = NoDraft
    BY <1>2 DEF mint
  <2> HIDE DEF i
  <2>2. /\ send[s] \in Requests /\ send[s].at = "mint"
        /\ draft' = [draft EXCEPT ![i] = new]
        /\ send' = [send EXCEPT ![s].id = i,
                       ![s].at = IF send[s].key = NoId THEN "answered" ELSE "remember"]
        /\ UNCHANGED <<record, excused>>
    BY <1>2 DEF mint, DraftsTypeOK, NoRequest, i
  <2>3. DraftsTypeOK'
    BY <2>1, <2>2 DEF DraftsTypeOK, Requests
  <2>4. \A j \in Ids, w \in Askers, k \in Keys \cup {NoId} :
          draft[j] = [asker |-> w, key |-> k] => draft'[j] = draft[j]
    BY <2>1, <2>2 DEF NoDraft, DraftsTypeOK
  <2>5. Recorded'
    BY <2>2, <2>4 DEF Recorded, StoreKeys, DraftsTypeOK
  <2>6. Produced'
    <3> SUFFICES ASSUME NEW t \in Sends
                 PROVE  /\ send'[t].at = "remember" => send'[t].key # NoId
                        /\ send'[t].at \in {"remember", "answered"} =>
                             /\ send'[t].id # NoId
                             /\ draft'[send'[t].id] = [asker |-> send'[t].asker, key |-> send'[t].key]
      BY DEF Produced
    <3>1. CASE t = s
      BY <2>1, <2>2, <3>1 DEF DraftsTypeOK, Requests
    <3>2. CASE t # s /\ send[t] = NoRequest
      BY <2>2, <3>2 DEF NoRequest, DraftsTypeOK
    <3>3. CASE t # s /\ send[t] \in Requests
      <4>1. send'[t] = send[t]
        BY <2>2, <3>3 DEF DraftsTypeOK
      <4> QED BY <2>4, <3>3, <4>1 DEF Requests, Produced
    <3> QED BY <3>1, <3>2, <3>3 DEF DraftsTypeOK
  <2> QED BY <2>3, <2>5, <2>6
<1>3. ASSUME NEW s \in Sends, remember(s) PROVE DraftsInv'
  <2>a. send[s] \in Requests
    BY <1>3 DEF remember, DraftsTypeOK, NoRequest
  <2>b. send[s].key # NoId
    BY <1>3 DEF remember, Produced
  <2>1. /\ send[s] \in Requests /\ send[s].key \in Keys
        /\ <<send[s].asker, send[s].key>> \in StoreKeys
    BY <2>a, <2>b DEF Requests, StoreKeys
  <2>2. DraftsTypeOK'
    BY <1>3, <2>1 DEF remember, storeKey, DraftsTypeOK, Requests
  <2>3. Recorded'
    <3> SUFFICES ASSUME NEW k \in StoreKeys, NEW i \in {record'[k].now, record'[k].old}, i # NoId
                 PROVE  draft'[i] = [asker |-> k[1], key |-> k[2]]
      BY DEF Recorded
    <3>1. CASE k = <<send[s].asker, send[s].key>>
      BY <1>3, <2>1, <3>1 DEF remember, storeKey, DraftsTypeOK, Recorded, Produced
    <3>2. CASE k # <<send[s].asker, send[s].key>>
      BY <1>3, <2>1, <3>2 DEF remember, storeKey, DraftsTypeOK, Recorded
    <3> QED BY <3>1, <3>2
  <2>4. Produced'
    BY <1>3, <2>1 DEF remember, DraftsTypeOK, Produced, Requests
  <2> QED BY <2>2, <2>3, <2>4
<1>4. ASSUME NEW s \in Sends, sendStops(s) PROVE DraftsInv'
  <2>1. send[s] \in Requests
    BY <1>4 DEF sendStops, Sending, DraftsTypeOK, NoRequest
  <2>2. send[s].at = "remember" => Mine(s) \in StoreKeys
    BY <2>1 DEF Mine, StoreKeys, Requests, Produced
  <2>3. excused' \subseteq StoreKeys
    BY <1>4, <2>2 DEF sendStops, DraftsTypeOK
  <2> QED
    BY <1>4, <2>3 DEF sendStops, DraftsTypeOK, Recorded, Produced, NoRequest
<1>5. ASSUME catchUp PROVE DraftsInv'
  <2>1. PICK k \in StoreKeys : record' = [record EXCEPT ![k].old = record[k].now]
    BY <1>5 DEF catchUp
  <2>2. UNCHANGED <<draft, send, excused>>
    BY <1>5 DEF catchUp
  <2> QED BY <2>1, <2>2 DEF DraftsTypeOK, Recorded, Produced
<1>6. ASSUME UNCHANGED draftVars PROVE DraftsInv'
  BY <1>6 DEF draftVars, DraftsTypeOK, Recorded, Produced
<1> QED BY <1>1, <1>2, <1>3, <1>4, <1>5, <1>6 DEF DraftsNext

\* The drafts of a key, and the requests for it that have not been answered.
DraftsOf(k) == {i \in Ids : draft[i] = [asker |-> k[1], key |-> k[2]]}
Unanswered(k) == {s \in Sends : Sending(s) /\ Mine(s) = k}

\* One request at most is unanswered, there is no draft while it has not minted,
\* there is one at most afterwards, and it is remembered or about to be.
MintsOnce(k) ==
  /\ \A s, t \in Unanswered(k) : s = t
  /\ \A s \in Unanswered(k) : send[s].at = "mint" => DraftsOf(k) = {}
  /\ \A i, j \in DraftsOf(k) : i = j
  /\ DraftsOf(k) # {} => record[k].now # NoId \/ \E s \in Unanswered(k) : send[s].at = "remember"
Single == \A k \in StoreKeys \ excused : MintsOnce(k)

\* Every step of withIdempotency keeps that of every key without an excuse: a
\* request for it begins only beside no other and when nothing is remembered.
LEMMA SingleStep == DraftsInv /\ Single /\ [DraftsNext]_draftVars => Single'
<1> SUFFICES ASSUME DraftsInv, Single, [DraftsNext]_draftVars, NEW k \in StoreKeys \ excused'
             PROVE  MintsOnce(k)'
  BY DEF Single
<1> USE DraftsAssumption
<1>1. /\ DOMAIN send = Sends /\ DOMAIN draft = Ids
      /\ k[1] \in Askers /\ k[2] \in Keys /\ k[2] # NoId /\ k = <<k[1], k[2]>>
  BY DEF DraftsInv, DraftsTypeOK, StoreKeys
<1>2. \A s \in Unanswered(k) : send[s].asker = k[1] /\ send[s].key = k[2]
  BY <1>1 DEF Unanswered, Mine
\* Requests but s stand still.
<1>3. ASSUME NEW s \in Sends, \A t \in Sends \ {s} : send'[t] = send[t]
      PROVE  Unanswered(k)' \ {s} = Unanswered(k) \ {s}
  BY <1>3 DEF Unanswered, Sending, Mine
\* A request that is not one for k begins, goes on or ends.
<1>4. ASSUME NEW s \in Sends, \A t \in Sends \ {s} : send'[t] = send[t],
             s \notin Unanswered(k), s \notin Unanswered(k)', MintsOnce(k),
             DraftsOf(k)' = DraftsOf(k), record'[k].now = record[k].now
      PROVE  MintsOnce(k)'
  <2>1. Unanswered(k)' \ {s} = Unanswered(k) \ {s}
    BY <1>3, <1>4
  <2>2. Unanswered(k)' = Unanswered(k)
    BY <1>4, <2>1
  <2>3. \A t \in Unanswered(k) : send'[t] = send[t]
    BY <1>4 DEF Unanswered
  <2>. QED  BY <1>4, <2>2, <2>3 DEF MintsOnce
<1>5. ASSUME NEW s \in Sends, post(s) PROVE MintsOnce(k)'
  <2>1. PICK w \in Askers, h \in Headers :
          LET q == parseIdempotencyKey(h)
              r == record[storeKey(w, q)]
              overlaps == \E o \in Sends : Sending(o) /\ Mine(o) = <<w, q>>
          IN IF q = NoId THEN Start(s, w, q, NoId) /\ UNCHANGED excused
             ELSE \E found \in {r.now, r.old} :
               /\ Start(s, w, q, found)
               /\ excused' = IF overlaps \/ found # r.now THEN excused \cup {<<w, q>>} ELSE excused
    BY <1>5 DEF post
  <2> DEFINE q == parseIdempotencyKey(h)
  <2>2. PICK found :
          /\ Start(s, w, q, found)
          /\ excused \subseteq excused'
          /\ k = <<w, q>> => found = record[k].now /\ Unanswered(k) = {}
    <3>1. CASE q = NoId
      BY <1>1, <2>1, <3>1
    <3>2. CASE q # NoId
      BY <2>1, <3>2 DEF storeKey, Unanswered
    <3>. QED  BY <3>1, <3>2
  <2> HIDE DEF q
  <2>3. /\ \A t \in Sends \ {s} : send'[t] = send[t]
        /\ send'[s] = [at |-> IF found = NoId THEN "mint" ELSE "answered", asker |-> w, key |-> q, id |-> found]
    BY <1>1, <2>2 DEF Start
  <2>4. UNCHANGED <<draft, record>> /\ DraftsOf(k)' = DraftsOf(k) /\ ~Sending(s)
    BY <1>5 DEF post, DraftsOf
  <2>5. MintsOnce(k)
    BY <2>2 DEF Single
  <2>6. CASE k = <<w, q>> /\ found = NoId
    <3>1. Unanswered(k)' = {s} /\ send'[s].at = "mint"
      BY <1>3, <2>2, <2>3, <2>6 DEF Unanswered, Sending, Mine
    <3>2. DraftsOf(k) = {}
      BY <2>2, <2>5, <2>6 DEF MintsOnce
    <3>. QED  BY <2>4, <3>1, <3>2 DEF MintsOnce
  <2>7. CASE ~(k = <<w, q>> /\ found = NoId)
    <3>1. s \notin Unanswered(k) /\ s \notin Unanswered(k)'
      BY <2>3, <2>4, <2>7 DEF Unanswered, Sending, Mine
    <3>. QED  BY <1>4, <2>3, <2>4, <2>5, <3>1
  <2>. QED  BY <2>6, <2>7
<1>6. ASSUME NEW s \in Sends, mint(s) PROVE MintsOnce(k)'
  <2> DEFINE i == CHOOSE j \in Ids : draft[j] = NoDraft
             new == [asker |-> send[s].asker, key |-> send[s].key]
  <2>1. i \in Ids /\ draft[i] = NoDraft
    BY <1>6 DEF mint
  <2> HIDE DEF i
  <2>2. /\ send[s].at = "mint" /\ draft' = [draft EXCEPT ![i] = new]
        /\ send' = [send EXCEPT ![s].id = i,
                       ![s].at = IF send[s].key = NoId THEN "answered" ELSE "remember"]
        /\ UNCHANGED <<record, excused>>
    BY <1>6 DEF mint, i
  <2>3. \A j \in Ids : draft'[j] = IF j = i THEN new ELSE draft[j]
    BY <1>1, <2>1, <2>2
  <2>4. send[s] \in Requests
    BY <2>2 DEF DraftsInv, DraftsTypeOK, NoRequest
  <2>5. /\ \A t \in Sends \ {s} : send'[t] = send[t]
        /\ send'[s].asker = send[s].asker /\ send'[s].key = send[s].key
        /\ send[s].key # NoId => send'[s].at = "remember"
    BY <1>1, <2>2, <2>4 DEF Requests
  <2>6. MintsOnce(k)
    BY <2>2 DEF Single
  <2>7. i \notin DraftsOf(k)
    BY <1>1, <2>1 DEF DraftsOf, NoDraft
  <2>8. CASE Mine(s) = k
    <3>1. s \in Unanswered(k) /\ new = [asker |-> k[1], key |-> k[2]]
      BY <1>2, <2>2, <2>8 DEF Unanswered, Sending
    <3>2. Unanswered(k) = {s} /\ DraftsOf(k) = {}
      BY <2>2, <2>6, <3>1 DEF MintsOnce
    <3>3. DraftsOf(k)' = {i}
      BY <2>1, <2>3, <3>1, <3>2 DEF DraftsOf
    <3>4. send'[s].at = "remember" /\ s \in Unanswered(k)'
      BY <1>1, <1>2, <2>5, <3>1 DEF Unanswered, Sending, Mine
    <3>5. Unanswered(k)' = {s}
      BY <1>3, <2>5, <3>2, <3>4
    <3>. QED  BY <3>3, <3>4, <3>5 DEF MintsOnce
  <2>9. CASE Mine(s) # k
    <3>1. s \notin Unanswered(k) /\ s \notin Unanswered(k)'
      BY <2>5, <2>9 DEF Unanswered, Mine
    <3>2. new # [asker |-> k[1], key |-> k[2]]
      BY <1>1, <2>9 DEF Mine
    <3>3. DraftsOf(k)' = DraftsOf(k)
      BY <2>3, <2>7, <3>2 DEF DraftsOf
    <3>. QED  BY <1>4, <2>2, <2>5, <2>6, <3>1, <3>3
  <2>. QED  BY <2>8, <2>9
<1>7. ASSUME NEW s \in Sends, remember(s) PROVE MintsOnce(k)'
  <2>1. /\ record' = [record EXCEPT ![Mine(s)].now = send[s].id]
        /\ send' = [send EXCEPT ![s].at = "answered"] /\ UNCHANGED <<draft, excused>>
    BY <1>7 DEF remember, storeKey, Mine
  <2>2. send[s].id # NoId
    BY <1>7 DEF remember, DraftsInv, Produced
  <2>3. k \in DOMAIN record
    BY DEF DraftsInv, DraftsTypeOK
  <2>4. /\ \A t \in Sends \ {s} : send'[t] = send[t]
        /\ s \notin Unanswered(k)'
        /\ DraftsOf(k)' = DraftsOf(k) /\ MintsOnce(k)
    BY <1>1, <2>1 DEF Unanswered, Sending, DraftsOf, Single
  <2>5. CASE Mine(s) = k
    <3>1. record'[k].now # NoId
      BY <2>1, <2>2, <2>3, <2>5 DEF DraftsInv, DraftsTypeOK
    <3>2. s \in Unanswered(k)
      BY <1>7, <2>5 DEF remember, Unanswered, Sending
    <3>3. Unanswered(k)' = {}
      BY <1>3, <2>4, <3>2 DEF MintsOnce
    <3>. QED  BY <2>4, <3>1, <3>3 DEF MintsOnce
  <2>6. CASE Mine(s) # k
    BY <1>4, <2>1, <2>3, <2>4, <2>6 DEF Unanswered, DraftsInv, DraftsTypeOK
  <2>. QED  BY <2>5, <2>6
<1>8. ASSUME NEW s \in Sends, sendStops(s) PROVE MintsOnce(k)'
  <2>1. /\ send' = [send EXCEPT ![s] = NoRequest] /\ UNCHANGED <<draft, record>>
        /\ excused \subseteq excused'
        /\ send[s].at = "remember" => Mine(s) # k
    BY <1>8 DEF sendStops
  <2>2. /\ \A t \in Sends \ {s} : send'[t] = send[t]
        /\ s \notin Unanswered(k)'
        /\ DraftsOf(k)' = DraftsOf(k) /\ MintsOnce(k)
    BY <1>1, <2>1 DEF Unanswered, Sending, NoRequest, DraftsOf, Single
  <2>3. Unanswered(k)' = Unanswered(k) \ {s}
    BY <1>3, <2>2
  <2>4. s \in Unanswered(k) => DraftsOf(k) = {}
    BY <2>1, <2>2 DEF MintsOnce, Unanswered, Sending
  <2>5. CASE s \in Unanswered(k)
    BY <2>1, <2>2, <2>3, <2>4, <2>5 DEF MintsOnce
  <2>6. CASE s \notin Unanswered(k)
    BY <1>4, <2>1, <2>2, <2>6
  <2>. QED  BY <2>5, <2>6
<1>9. ASSUME UNCHANGED <<draft, send, excused>>, record'[k].now = record[k].now PROVE MintsOnce(k)'
  BY <1>9 DEF Single, MintsOnce, DraftsOf, Unanswered, Sending, Mine
<1>10. ASSUME catchUp PROVE MintsOnce(k)'
  <2>1. PICK q \in StoreKeys : record' = [record EXCEPT ![q].old = record[q].now]
    BY <1>10 DEF catchUp
  <2>2. record'[k].now = record[k].now
    BY <2>1 DEF DraftsInv, DraftsTypeOK
  <2>. QED  BY <1>9, <1>10, <2>2 DEF catchUp
<1>. QED
  BY <1>5, <1>6, <1>7, <1>8, <1>9, <1>10 DEF DraftsNext, draftVars

-----------------------------------------------------------------------------
(* Sessions *)

\* Every nonce that was handed out, signed or answered for was drawn; one that a
\* verify request has deleted is gone; a session is about to be opened only for
\* an account that signed.
Drawn ==
  /\ signing.nonce # None => signing.nonce \in issued
  /\ \A m \in signed : m.nonce \in issued
  /\ answered \subseteq issued
Verifying ==
  \A p \in Posts : verify[p].at # "off" =>
    /\ verify[p].msg \in signed
    /\ verify[p].at \in {"verifySiwe", "open"} => ~nonces[verify[p].msg.nonce].now
    /\ verify[p].at = "open" => verify[p].msg.by = verify[p].msg.claims
Past == answered \subseteq Nonces
SessionsInv ==
  SessionsTypeOK /\ Past /\ Drawn /\ Verifying /\ AnsweredNonceIsGone /\ SessionIsTheSigners

\* A nonce or token that is drawn has not been drawn before.
LEMMA FreshIsFresh ==
  ASSUME NEW S, S \ issued # {}
  PROVE  Fresh(S) \in S \ issued
BY DEF Fresh

\* Nothing is drawn, signed or answered to begin with.
LEMMA SessionsStart == SessionsInit => SessionsInv
BY SessionsAssumption
   DEF SessionsInit, SessionsInv, SessionsTypeOK, Past, Drawn, Verifying, Idle, NoPost,
       AnsweredNonceIsGone, SessionIsTheSigners, Copies

\* Every step of sign-in and log-out, in the browser, the worker or KV, keeps it: a
\* nonce is written once, when it is drawn, and deleted before a request goes on.
LEMMA SessionsStep == SessionsInv /\ [SessionsNext]_sessionVars => SessionsInv'
<1> SUFFICES ASSUME SessionsInv, [SessionsNext]_sessionVars PROVE SessionsInv'
  OBVIOUS
<1> USE SessionsAssumption DEF SessionsInv, client, kv, past
<1>1. ASSUME signIn PROVE SessionsInv'
  BY <1>1 DEF signIn, Idle, SessionsTypeOK, Past, Drawn, Verifying, AnsweredNonceIsGone, SessionIsTheSigners
<1>2. ASSUME issueNonce PROVE SessionsInv'
  <2> DEFINE n == Fresh(Nonces)
  <2>1. n \in Nonces \ issued
    BY <1>2, FreshIsFresh DEF issueNonce
  <2> HIDE DEF n
  <2>2. /\ nonces' = [nonces EXCEPT ![n] = Write(@, TRUE)]
        /\ issued' = issued \cup {n}
        /\ signing' \in {[signing EXCEPT !.step = "signature", !.nonce = n], Idle}
        /\ UNCHANGED <<cookie, me, signed, verify, sessions, past>>
    BY <1>2 DEF issueNonce, n
  <2>3. \/ signing' = Idle
        \/ signing'.step = "signature" /\ signing'.nonce = n
           /\ signing' \in [step : {"idle", "nonce", "signature", "verifying"}, nonce : Nonces \cup {None}]
    BY <2>1, <2>2 DEF SessionsTypeOK
  <2>4. nonces' \in [Nonces -> [now : BOOLEAN, old : BOOLEAN]]
    <3>1. nonces \in [Nonces -> [now : BOOLEAN, old : BOOLEAN]]
      BY DEF SessionsTypeOK
    <3>2. Write(nonces[n], TRUE) \in [now : BOOLEAN, old : BOOLEAN]
      BY <2>1, <3>1 DEF Write
    <3> QED BY <2>2, <3>1, <3>2
  <2>a. /\ signing' \in [step : {"idle", "nonce", "signature", "verifying"}, nonce : Nonces \cup {None}]
        /\ signing'.nonce = None <=> signing'.step \in {"idle", "nonce"}
    BY <2>1, <2>3 DEF Idle
  <2>5. SessionsTypeOK'
    BY <2>2, <2>4, <2>a DEF SessionsTypeOK
  <2>6. Drawn'
    BY <2>1, <2>2, <2>3 DEF Drawn, Idle
  <2>7. \A x \in issued \cap Nonces : nonces'[x] = nonces[x]
    BY <2>1, <2>2 DEF SessionsTypeOK
  <2>8. Verifying'
    BY <2>2, <2>7 DEF Drawn, Verifying, SessionsTypeOK, Messages
  <2>9. AnsweredNonceIsGone'
    BY <2>2, <2>7 DEF Drawn, Past, AnsweredNonceIsGone
  <2>10. SessionIsTheSigners' /\ Past'
    BY <2>2 DEF SessionIsTheSigners, Past
  <2> QED BY <2>5, <2>6, <2>8, <2>9, <2>10
<1>3. ASSUME sign PROVE SessionsInv'
  <2>a. signing.nonce \in Nonces
    BY <1>3 DEF sign, SessionsTypeOK
  <2>b. PICK address \in Accounts, account \in Accounts :
          signed' = signed \cup {[claims |-> address, by |-> account, nonce |-> signing.nonce]}
    BY <1>3 DEF sign
  <2> DEFINE m == [claims |-> address, by |-> account, nonce |-> signing.nonce]
  <2>1. m \in Messages /\ signed' = signed \cup {m} /\ m.nonce = signing.nonce
    BY <2>a, <2>b DEF Messages
  <2> HIDE DEF m
  <2>2. signing' = [signing EXCEPT !.step = "verifying"] /\ signing.step = "signature"
    BY <1>3 DEF sign
  <2>3. UNCHANGED <<cookie, me, verify, kv, past>>
    BY <1>3 DEF sign
  <2>4. SessionsTypeOK'
    BY <2>1, <2>2, <2>3 DEF SessionsTypeOK
  <2>5. Drawn'
    BY <2>1, <2>2, <2>3 DEF SessionsTypeOK, Drawn
  <2> QED BY <2>1, <2>3, <2>4, <2>5 DEF Past, Verifying, AnsweredNonceIsGone, SessionIsTheSigners
<1>4. ASSUME giveUp PROVE SessionsInv'
  BY <1>4 DEF giveUp, Idle, SessionsTypeOK, Past, Drawn, Verifying, AnsweredNonceIsGone, SessionIsTheSigners
<1>5. ASSUME getMe PROVE SessionsInv'
  BY <1>5 DEF getMe, requireAuth, readSession, Copies, SessionsTypeOK, Past, Drawn, Verifying,
              AnsweredNonceIsGone, SessionIsTheSigners
<1>6. ASSUME signOut PROVE SessionsInv'
  <2>1. /\ cookie \in Tokens
        /\ sessions' = [sessions EXCEPT ![cookie] = Write(@, None)]
        /\ cookie' \in {cookie, None}
        /\ UNCHANGED <<signing, me, signed, verify, nonces, issued, answered>>
    BY <1>6 DEF signOut, logout, destroySession, SessionsTypeOK
  <2>2. SessionsTypeOK'
    BY <2>1 DEF SessionsTypeOK, Write
  <2>3. SessionIsTheSigners'
    <3>1. \A t \in Tokens : Copies(sessions'[t]) \subseteq Copies(sessions[t]) \cup {None}
      BY <2>1 DEF SessionsTypeOK, Write, Copies
    <3> QED BY <2>1, <3>1 DEF SessionIsTheSigners
  <2> QED BY <2>1, <2>2, <2>3 DEF Past, Drawn, Verifying, AnsweredNonceIsGone
<1>7. ASSUME NEW p \in Posts, deliver(p) PROVE SessionsInv'
  <2>1. PICK m \in signed : verify' = [verify EXCEPT ![p] = [at |-> "delete", msg |-> m]]
    BY <1>7 DEF deliver
  <2>2. UNCHANGED <<client, kv, past>>
    BY <1>7 DEF deliver
  <2>3. SessionsTypeOK'
    BY <2>1, <2>2 DEF SessionsTypeOK
  <2>4. Verifying'
    BY <2>1, <2>2 DEF SessionsTypeOK, Verifying
  <2> QED BY <2>2, <2>3, <2>4 DEF Past, Drawn, AnsweredNonceIsGone, SessionIsTheSigners
<1>8. ASSUME NEW p \in Posts, deleteNonce(p) PROVE SessionsInv'
  <2> DEFINE n == verify[p].msg.nonce
  <2>1. /\ verify[p].at = "delete"
        /\ nonces' = [nonces EXCEPT ![n] = Write(@, FALSE)]
        /\ verify' = [verify EXCEPT ![p].at = "verifySiwe"]
        /\ UNCHANGED <<client, sessions, issued, past>>
    BY <1>8 DEF deleteNonce, Move
  <2>2. n \in Nonces /\ verify[p].msg \in signed
    BY <2>1 DEF Verifying, SessionsTypeOK, Messages
  <2>3. SessionsTypeOK'
    <3>1. /\ nonces \in [Nonces -> [now : BOOLEAN, old : BOOLEAN]]
          /\ verify \in [Posts -> [at : {"off", "delete", "verifySiwe", "open"},
                                   msg : Messages \cup {None}]]
      BY DEF SessionsTypeOK
    <3>2. nonces' \in [Nonces -> [now : BOOLEAN, old : BOOLEAN]]
      <4>1. n \in Nonces
        BY <2>2
      <4> HIDE DEF n
      <4>2. nonces[n] \in [now : BOOLEAN, old : BOOLEAN]
        BY <3>1, <4>1
      <4>3. Write(nonces[n], FALSE) \in [now : BOOLEAN, old : BOOLEAN]
        BY <4>2 DEF Write
      <4> QED BY <2>1, <3>1, <4>1, <4>3
    <3>3. verify' \in [Posts -> [at : {"off", "delete", "verifySiwe", "open"},
                                msg : Messages \cup {None}]]
      BY <2>1, <3>1
    <3> QED BY <2>1, <3>2, <3>3 DEF SessionsTypeOK
  <2>4. \A x \in Nonces : nonces'[x].now => nonces[x].now /\ x # n
    BY <2>1, <2>2 DEF SessionsTypeOK, Write
  <2>5. Verifying'
    <3> SUFFICES ASSUME NEW q \in Posts, verify'[q].at # "off"
                 PROVE  /\ verify'[q].msg \in signed'
                        /\ verify'[q].at \in {"verifySiwe", "open"} => ~nonces'[verify'[q].msg.nonce].now
                        /\ verify'[q].at = "open" => verify'[q].msg.by = verify'[q].msg.claims
      BY DEF Verifying
    <3>1. CASE q = p
      <4>1. verify'[q].msg = verify[p].msg /\ verify'[q].at = "verifySiwe"
        BY <2>1, <3>1 DEF SessionsTypeOK
      <4>2. ~nonces'[n].now
        BY <2>2, <2>4
      <4>3. signed' = signed
        BY <2>1
      <4> QED BY <2>2, <4>1, <4>2, <4>3
    <3>2. CASE q # p
      <4>1. verify'[q] = verify[q]
        BY <2>1, <3>2 DEF SessionsTypeOK
      <4>2. verify[q].msg.nonce \in Nonces
        BY <4>1 DEF Verifying, SessionsTypeOK, Messages
      <4>3. nonces'[verify[q].msg.nonce].now => nonces[verify[q].msg.nonce].now
        BY <2>4, <4>2
      <4>4. signed' = signed
        BY <2>1
      <4> QED BY <4>1, <4>3, <4>4 DEF Verifying
    <3> QED BY <3>1, <3>2
  <2>6. AnsweredNonceIsGone'
    BY <2>1, <2>4 DEF Past, AnsweredNonceIsGone
  <2> QED BY <2>1, <2>3, <2>5, <2>6 DEF Past, Drawn, SessionIsTheSigners
<1>9. ASSUME NEW p \in Posts, verifySiwe(p) PROVE SessionsInv'
  <2> DEFINE m == verify[p].msg
  <2>1. verify[p].at = "verifySiwe" /\ m \in signed /\ ~nonces[m.nonce].now
    BY <1>9 DEF verifySiwe, Verifying
  <2>2. UNCHANGED <<client, kv>>
    BY <1>9 DEF verifySiwe
  <2>3. CASE Move(p, "open") /\ UNCHANGED past /\ m.by = m.claims
    <3>1. SessionsTypeOK'
      BY <2>2, <2>3 DEF SessionsTypeOK, Move
    <3>2. Verifying'
      BY <2>1, <2>2, <2>3 DEF SessionsTypeOK, Move, Verifying
    <3> QED BY <2>2, <2>3, <3>1, <3>2 DEF Past, Drawn, AnsweredNonceIsGone, SessionIsTheSigners
  <2>4. CASE Answer(p)
    <3>1. SessionsTypeOK'
      BY <2>2, <2>4 DEF SessionsTypeOK, Answer, NoPost
    <3>2. Verifying'
      BY <2>2, <2>4 DEF SessionsTypeOK, Answer, NoPost, Verifying
    <3>3. Drawn' /\ Past' /\ AnsweredNonceIsGone'
      BY <2>1, <2>2, <2>4 DEF SessionsTypeOK, Messages, Answer, Drawn, Past, AnsweredNonceIsGone
    <3> QED BY <2>2, <3>1, <3>2, <3>3 DEF SessionIsTheSigners
  <2> QED
    BY <1>9, <2>3, <2>4 DEF verifySiwe, Recovers, ContractSays
<1>10. ASSUME NEW p \in Posts, createSession(p) PROVE SessionsInv'
  <2> DEFINE m == verify[p].msg
             t == Fresh(Tokens)
  <2>1. t \in Tokens
    BY <1>10, FreshIsFresh DEF createSession
  <2> HIDE DEF t
  <2>2. /\ sessions' = [sessions EXCEPT ![t] = Write(@, m.claims)]
        /\ issued' = issued \cup {t}
        /\ Answer(p)
        /\ cookie' \in {cookie, t}
        /\ signing' \in {signing, Idle}
        /\ UNCHANGED <<me, signed, nonces, loggedOut>>
    BY <1>10 DEF createSession, t
  <2>3. /\ m \in signed /\ m \in Messages /\ m.by = m.claims /\ ~nonces[m.nonce].now
    BY <1>10 DEF createSession, Verifying, SessionsTypeOK
  <2>4. SessionsTypeOK'
    <3>1. /\ sessions \in [Tokens -> [now : Accounts \cup {None}, old : Accounts \cup {None}]]
          /\ verify \in [Posts -> [at : {"off", "delete", "verifySiwe", "open"},
                                   msg : Messages \cup {None}]]
          /\ m.claims \in Accounts
      BY <2>3 DEF SessionsTypeOK, Messages
    <3>2. Write(sessions[t], m.claims) \in [now : Accounts \cup {None}, old : Accounts \cup {None}]
      BY <2>1, <3>1 DEF Write
    <3>3. sessions' \in [Tokens -> [now : Accounts \cup {None}, old : Accounts \cup {None}]]
      <4> HIDE DEF m
      <4> QED BY <2>2, <3>1, <3>2
    <3>4. verify' \in [Posts -> [at : {"off", "delete", "verifySiwe", "open"},
                                msg : Messages \cup {None}]]
      BY <2>2, <3>1 DEF Answer, NoPost
    <3>5. /\ signing' \in [step : {"idle", "nonce", "signature", "verifying"},
                           nonce : Nonces \cup {None}]
          /\ signing'.nonce = None <=> signing'.step \in {"idle", "nonce"}
      BY <2>2 DEF SessionsTypeOK, Idle
    <3>6. cookie' \in Tokens \cup {None} /\ me' \in Accounts \cup {None} /\ signed' \subseteq Messages
          /\ nonces' \in [Nonces -> [now : BOOLEAN, old : BOOLEAN]]
      BY <2>1, <2>2 DEF SessionsTypeOK
    <3> QED BY <3>3, <3>4, <3>5, <3>6 DEF SessionsTypeOK
  <2>5. Verifying'
    BY <2>2 DEF SessionsTypeOK, Answer, NoPost, Verifying
  <2>6. Drawn' /\ Past' /\ AnsweredNonceIsGone'
    BY <2>2, <2>3 DEF SessionsTypeOK, Messages, Answer, Idle, Drawn, Past, AnsweredNonceIsGone
  <2>7. SessionIsTheSigners'
    <3>1. \A x \in Tokens : Copies(sessions'[x]) \subseteq Copies(sessions[x]) \cup {m.claims}
      BY <2>1, <2>2 DEF SessionsTypeOK, Write, Copies
    <3> HIDE DEF m
    <3> QED BY <2>2, <2>3, <3>1 DEF SessionIsTheSigners
  <2> QED BY <2>4, <2>5, <2>6, <2>7
<1>11. ASSUME NEW p \in Posts, verifyStops(p) PROVE SessionsInv'
  BY <1>11 DEF verifyStops, NoPost, SessionsTypeOK, Past, Drawn, Verifying, AnsweredNonceIsGone, SessionIsTheSigners
<1>12. ASSUME NEW n \in Nonces, NEW v, UNCHANGED <<client, verify, issued, past, sessions>>,
              v \in [now : BOOLEAN, old : BOOLEAN], nonces' = [nonces EXCEPT ![n] = v],
              v.now => nonces[n].now
       PROVE  SessionsInv'
  <2>1. SessionsTypeOK'
    BY <1>12 DEF SessionsTypeOK
  <2>2. \A x \in Nonces : nonces'[x].now => nonces[x].now
    BY <1>12 DEF SessionsTypeOK
  <2>3. Verifying'
    BY <1>12, <2>2 DEF Verifying, SessionsTypeOK, Messages
  <2>4. AnsweredNonceIsGone'
    BY <1>12, <2>2 DEF Past, AnsweredNonceIsGone
  <2> QED BY <1>12, <2>1, <2>3, <2>4 DEF Past, Drawn, SessionIsTheSigners
<1>13. ASSUME NEW t \in Tokens, NEW v, UNCHANGED <<client, verify, issued, past, nonces>>,
              sessions' = [sessions EXCEPT ![t] = v],
              v \in [now : Accounts \cup {None}, old : Accounts \cup {None}],
              Copies(v) \subseteq Copies(sessions[t]) \cup {None}
       PROVE  SessionsInv'
  <2>1. SessionsTypeOK'
    BY <1>13 DEF SessionsTypeOK
  <2>2. SessionIsTheSigners'
    <3>1. \A x \in Tokens : Copies(sessions'[x]) \subseteq Copies(sessions[x]) \cup {None}
      BY <1>13 DEF SessionsTypeOK
    <3> QED BY <1>13, <3>1 DEF SessionIsTheSigners
  <2> QED BY <1>13, <2>1, <2>2 DEF Past, Drawn, Verifying, AnsweredNonceIsGone
<1>14. ASSUME propagate PROVE SessionsInv'
  <2>1. UNCHANGED <<client, verify, issued, past>>
    BY <1>14 DEF propagate
  <2>2. CASE \E n \in Nonces : nonces' = [nonces EXCEPT ![n].old = nonces[n].now] /\ UNCHANGED sessions
    <3>1. PICK n \in Nonces : nonces' = [nonces EXCEPT ![n].old = nonces[n].now] /\ UNCHANGED sessions
      BY <2>2
    <3> DEFINE v == [nonces[n] EXCEPT !.old = nonces[n].now]
    <3>2. v \in [now : BOOLEAN, old : BOOLEAN] /\ (v.now => nonces[n].now)
      BY DEF SessionsTypeOK
    <3>3. nonces' = [nonces EXCEPT ![n] = v]
      BY <3>1 DEF SessionsTypeOK
    <3> HIDE DEF v
    <3> QED BY <1>12, <2>1, <3>1, <3>2, <3>3
  <2>3. CASE \E t \in Tokens : sessions' = [sessions EXCEPT ![t].old = sessions[t].now] /\ UNCHANGED nonces
    <3>1. PICK t \in Tokens : sessions' = [sessions EXCEPT ![t].old = sessions[t].now] /\ UNCHANGED nonces
      BY <2>3
    <3> DEFINE v == [sessions[t] EXCEPT !.old = sessions[t].now]
    <3>2. /\ v \in [now : Accounts \cup {None}, old : Accounts \cup {None}]
          /\ Copies(v) \subseteq Copies(sessions[t]) \cup {None}
      BY DEF SessionsTypeOK, Copies
    <3>3. sessions' = [sessions EXCEPT ![t] = v]
      BY <3>1 DEF SessionsTypeOK
    <3> HIDE DEF v
    <3> QED BY <1>13, <2>1, <3>1, <3>2, <3>3
  <2> QED BY <1>14, <2>2, <2>3 DEF propagate
<1>15. ASSUME expire PROVE SessionsInv'
  <2>1. UNCHANGED <<client, verify, issued, past>>
    BY <1>15 DEF expire
  <2>2. ASSUME NEW n \in Nonces, nonces' = [nonces EXCEPT ![n] = [now |-> FALSE, old |-> FALSE]],
               UNCHANGED sessions
        PROVE  SessionsInv'
    BY <1>12, <2>1, <2>2
  <2>3. ASSUME NEW t \in Tokens, sessions' = [sessions EXCEPT ![t] = [now |-> None, old |-> None]],
               UNCHANGED nonces
        PROVE  SessionsInv'
    BY <1>13, <2>1, <2>3 DEF Copies
  <2> QED BY <1>15, <2>2, <2>3 DEF expire
<1>16. ASSUME UNCHANGED sessionVars PROVE SessionsInv'
  BY <1>16 DEF sessionVars, SessionsTypeOK, Past, Drawn, Verifying, AnsweredNonceIsGone, SessionIsTheSigners
<1> QED
  BY <1>1, <1>2, <1>3, <1>4, <1>5, <1>6, <1>7, <1>8, <1>9, <1>10, <1>11, <1>14, <1>15, <1>16
     DEF SessionsNext
-----------------------------------------------------------------------------
(* Accounts *)

\* Who changes a profile has one, and an avatar is stored before a row names it.
Editing ==
  /\ edit = [e \in Edits |-> edit[e]]
  /\ \A e \in Edits :
       /\ edit[e].at = "insert" => edit[e].body \in [claim : Handles]
       /\ edit[e].at = "put" => edit[e].body \in [avatar : Objects]
       /\ edit[e].at = "update" =>
            \/ edit[e].body \in [profile : Patches]
            \/ edit[e].body \in [avatar : avatars]
       /\ edit[e].at \in {"put", "update"} => creators[edit[e].wallet] # Null
AccountsInv == AccountsTypeOK /\ Editing /\ AvatarExists

\* An update leaves a well-formed profile, whose avatar changes only by an upload's.
LEMMA Assigned ==
  ASSUME NEW row \in Creator, NEW set,
         set \in [avatarUrl : Objects] \/ set \in Patches
  PROVE  /\ Assign(row, set) \in Creator
         /\ Assign(row, set).avatarUrl = IF set \in Patches THEN row.avatarUrl ELSE set.avatarUrl
<1> DEFINE new == Assign(row, set)
<1>1. DOMAIN row = {"handle", "displayName", "minPriceUsdc", "avatarUrl"}
  BY DEF Creator
<1>2. CASE set \in [avatarUrl : Objects]
  <2>1. DOMAIN set = {"avatarUrl"}
    BY <1>2
  <2>2. set \notin Patches
    BY <2>1 DEF Patches, Columns
  <2>3. new = [handle |-> row.handle, displayName |-> row.displayName,
               minPriceUsdc |-> row.minPriceUsdc, avatarUrl |-> set.avatarUrl]
    BY <1>1, <2>1 DEF Assign
  <2> QED BY <1>2, <2>2, <2>3 DEF Creator
<1>3. CASE set \in Patches
  <2>1. PICK fields \in SUBSET Columns : set \in [fields -> Values]
    BY <1>3 DEF Patches
  <2>2. new = [handle |-> row.handle,
               displayName |-> new["displayName"],
               minPriceUsdc |-> new["minPriceUsdc"], avatarUrl |-> row.avatarUrl]
    BY <1>1, <2>1 DEF Assign, Columns
  <2>3. new["displayName"] \in Values \cup {Null} /\ new["minPriceUsdc"] \in Values \cup {Null}
    BY <1>1, <2>1 DEF Assign, Creator
  <2> QED BY <1>3, <2>2, <2>3 DEF Creator
<1> QED BY <1>2, <1>3

\* No profile and no request to begin with.
LEMMA AccountsStart == AccountsInit => AccountsInv
BY DEF AccountsInit, AccountsInv, AccountsTypeOK, Editing, AvatarExists, NoEdit

\* Every step of claim, profile update and upload keeps it: the object is stored
\* before the row names it, profiles and objects are never deleted.
LEMMA AccountsStep == AccountsInv /\ [AccountsNext]_accountVars => AccountsInv'
<1> SUFFICES ASSUME AccountsInv, [AccountsNext]_accountVars PROVE AccountsInv'
  OBVIOUS
<1> USE AccountsAssumption DEF AccountsInv
<1> DEFINE Shape(r) ==
      \/ r = NoEdit
      \/ /\ r.at = "handle_taken" /\ r.wallet \in Wallets /\ r.body \in Bodies
      \/ /\ r.at = "insert" /\ r.wallet \in Wallets /\ r.body \in [claim : Handles]
      \/ /\ r.at = "put" /\ r.wallet \in Wallets /\ r.body \in [avatar : Objects]
         /\ creators[r.wallet] # Null
      \/ /\ r.at = "update" /\ r.wallet \in Wallets /\ creators[r.wallet] # Null
         /\ r.body \in [profile : Patches] \/ r.body \in [avatar : avatars]
<1>1. ASSUME NEW e \in Edits, NEW r, edit' = [edit EXCEPT ![e] = r], Shape(r),
             UNCHANGED <<creators, avatars>>
      PROVE  AccountsInv'
  <2>1. AccountsTypeOK'
    BY <1>1 DEF AccountsTypeOK, Editing, Running, Bodies
  <2>2. Editing'
    BY <1>1 DEF AccountsTypeOK, Editing, NoEdit
  <2> QED BY <1>1, <2>1, <2>2 DEF AvatarExists
<1>2. ASSUME NEW e \in Edits, claim(e) \/ profile(e) \/ avatar(e) PROVE AccountsInv'
  BY <1>1, <1>2 DEF claim, profile, avatar, Arrive
<1>3. ASSUME NEW e \in Edits, edit[e].at # "off" PROVE edit[e].wallet \in Wallets /\ edit[e].body \in Bodies
  BY <1>3 DEF AccountsTypeOK, NoEdit
<1>4. ASSUME NEW e \in Edits, edit[e].at # "off", HandleTaken(e), UNCHANGED <<creators, avatars>>
      PROVE  AccountsInv'
  <2> DEFINE r == [edit[e] EXCEPT !.at = "handle_taken"]
  <2>1. edit' = [edit EXCEPT ![e] = r]
    BY <1>4 DEF HandleTaken, Editing
  <2>2. r.at = "handle_taken" /\ r.wallet = edit[e].wallet /\ r.body = edit[e].body
    OBVIOUS
  <2> HIDE DEF r
  <2> QED BY <1>1, <1>3, <1>4, <2>1, <2>2
<1>5. ASSUME NEW e \in Edits, Done(e), UNCHANGED <<creators, avatars>> PROVE AccountsInv'
  BY <1>1, <1>5 DEF Done
<1>6. ASSUME NEW e \in Edits, NEW w \in Wallets, NEW row \in Creator, Done(e), UNCHANGED avatars,
             creators' = [creators EXCEPT ![w] = row], row.avatarUrl \in avatars \cup {Null}
      PROVE  AccountsInv'
  <2>1. \A o \in Wallets : creators'[o] = IF o = w THEN row ELSE creators[o]
    BY <1>6 DEF AccountsTypeOK
  <2>2. \A o \in Wallets : creators[o] # Null => creators'[o] # Null
    BY <2>1
  <2>3. AccountsTypeOK'
    BY <1>6 DEF AccountsTypeOK, Editing, Done, Running, NoEdit
  <2>4. Editing'
    BY <1>6, <2>2 DEF AccountsTypeOK, Editing, Done, NoEdit
  <2>5. AvatarExists'
    BY <1>6, <2>1 DEF AvatarExists
  <2> QED BY <2>3, <2>4, <2>5
<1>7. ASSUME NEW e \in Edits, insert(e) PROVE AccountsInv'
  <2> DEFINE w == edit[e].wallet
             h == edit[e].body.claim
  <2>1. edit[e].at = "insert" /\ UNCHANGED avatars
    BY <1>7 DEF insert
  <2>2. w \in Wallets /\ h \in Handles
    BY <1>3, <2>1 DEF Editing
  <2>3. NewCreator(h) \in Creator /\ NewCreator(h).avatarUrl = Null
    BY <2>2 DEF NewCreator, Creator
  <2>4. CASE HandleTaken(e) /\ UNCHANGED creators
    BY <1>4, <2>1, <2>4
  <2>5. CASE Done(e) /\ UNCHANGED creators
    BY <1>5, <2>1, <2>5
  <2>6. CASE Done(e) /\ creators' = [creators EXCEPT ![w] = NewCreator(h)]
    BY <1>6, <2>1, <2>2, <2>3, <2>6
  <2> QED BY <1>7, <2>4, <2>5, <2>6 DEF insert
<1>8. ASSUME NEW e \in Edits, put(e) PROVE AccountsInv'
  <2> DEFINE o == edit[e].body.avatar
  <2>1. /\ edit[e].at = "put" /\ edit[e].body \in [avatar : Objects]
        /\ edit' = [edit EXCEPT ![e].at = "update"]
        /\ avatars' = avatars \cup {o} /\ UNCHANGED creators
    BY <1>8 DEF put, Proceed, Editing
  <2> DEFINE r == [edit[e] EXCEPT !.at = "update"]
  <2>r. r.at = "update" /\ r.wallet = edit[e].wallet /\ r.body = edit[e].body
    BY <1>3, <2>1 DEF AccountsTypeOK, Editing
  <2>e. edit' = [edit EXCEPT ![e] = r]
    BY <2>1 DEF Editing
  <2> HIDE DEF r
  <2>2. /\ edit'[e].at = "update" /\ edit'[e].wallet = edit[e].wallet
        /\ edit'[e].body = edit[e].body
        /\ \A f \in Edits \ {e} : edit'[f] = edit[f]
        /\ edit' = [f \in Edits |-> edit'[f]]
    BY <2>r, <2>e DEF Editing
  <2>3. AccountsTypeOK'
    BY <1>3, <2>1, <2>2 DEF AccountsTypeOK, Running, Bodies
  <2>4. edit'[e].body \in [avatar : avatars']
    BY <2>1, <2>2
  <2>5. Editing'
    BY <2>1, <2>2, <2>4 DEF Editing
  <2>6. AvatarExists'
    BY <2>1 DEF AvatarExists
  <2> QED BY <2>3, <2>5, <2>6
<1>9. ASSUME NEW e \in Edits, update(e) PROVE AccountsInv'
  <2> DEFINE w == edit[e].wallet
             row == Assign(creators[w], Set(e))
  <2>1. /\ edit[e].at = "update" /\ Done(e) /\ UNCHANGED avatars
        /\ creators' = [creators EXCEPT ![w] = row]
    BY <1>9 DEF update, patch
  <2>2. w \in Wallets /\ creators[w] \in Creator
    BY <1>3, <2>1 DEF Editing, AccountsTypeOK
  <2>3. \/ Set(e) \in Patches
        \/ Set(e) \in [avatarUrl : Objects] /\ Set(e).avatarUrl \in avatars
    <3>1. CASE edit[e].body \in [profile : Patches]
      <4>1. Kind(e) = "profile"
        BY <3>1 DEF Kind
      <4> QED BY <3>1, <4>1 DEF Set
    <3>2. CASE edit[e].body \in [avatar : avatars]
      <4>1. Kind(e) = "avatar"
        BY <3>2 DEF Kind
      <4> QED BY <3>2, <4>1 DEF Set, AccountsTypeOK
    <3> QED BY <2>1, <3>1, <3>2 DEF Editing
  <2>4. row \in Creator /\ row.avatarUrl \in avatars \cup {Null}
    <3>1. creators[w].avatarUrl \in avatars \cup {Null}
      BY <2>1, <2>2 DEF AvatarExists
    <3> QED BY <2>2, <2>3, <3>1, Assigned
  <2> HIDE DEF row
  <2> QED BY <1>6, <2>1, <2>2, <2>4
<1>10. ASSUME UNCHANGED accountVars PROVE AccountsInv'
  BY <1>10 DEF accountVars, AccountsTypeOK, Editing, AvatarExists, Running
<1> QED
  BY <1>2, <1>5, <1>7, <1>8, <1>9, <1>10 DEF AccountsNext, editStops

\* What a step of an account may do to the rows: add one, or assign what a request
\* that is about to update names, to its owner's.
RowsChange ==
  \/ UNCHANGED creators
  \/ \E w \in Wallets, h \in Handles :
       creators[w] = Null /\ creators' = [creators EXCEPT ![w] = NewCreator(h)]
  \/ \E e \in Edits :
       LET w == edit[e].wallet
           row == Assign(creators[w], Set(e))
       IN /\ edit[e].at = "update" /\ w \in Wallets
          /\ creators[w] \in Creator /\ row \in Creator /\ "handle" \notin DOMAIN Set(e)
          /\ creators' = [creators EXCEPT ![w] = row]

\* Only a claim's insert and the two updates write rows.
LEMMA StepChangesRows ==
  ASSUME AccountsInv, [AccountsNext]_accountVars PROVE RowsChange
<1> USE DEF AccountsInv
<1>1. ASSUME NEW e \in Edits, insert(e) PROVE RowsChange
  <2>0. edit[e].at = "insert"
    BY <1>1 DEF insert
  <2>1. edit[e].wallet \in Wallets /\ edit[e].body \in [claim : Handles]
    BY <2>0 DEF AccountsTypeOK, Editing, NoEdit
  <2>2. \/ UNCHANGED creators
        \/ /\ creators[edit[e].wallet] = Null
           /\ creators' = [creators EXCEPT ![edit[e].wallet] = NewCreator(edit[e].body.claim)]
    BY <1>1 DEF insert, Clash
  <2>. QED  BY <2>1, <2>2 DEF RowsChange
<1>2. ASSUME NEW e \in Edits, update(e) PROVE RowsChange
  <2>1. edit[e].at = "update" /\ edit[e].wallet \in Wallets /\ creators[edit[e].wallet] \in Creator
    BY <1>2, AccountsAssumption DEF update, AccountsTypeOK, Editing, NoEdit
  <2>2. Set(e) \in Patches \/ Set(e) \in [avatarUrl : Objects]
    <3>1. CASE edit[e].body \in [profile : Patches]
      <4>1. Kind(e) = "profile"
        BY <3>1 DEF Kind
      <4>. QED  BY <3>1, <4>1 DEF Set
    <3>2. CASE edit[e].body \in [avatar : avatars]
      <4>1. Kind(e) = "avatar"
        BY <3>2 DEF Kind
      <4>. QED  BY <3>2, <4>1 DEF Set, AccountsTypeOK
    <3>. QED  BY <2>1, <3>1, <3>2 DEF Editing
  <2>3. "handle" \notin DOMAIN Set(e)
    BY <2>2 DEF Patches, Columns
  <2>4. Assign(creators[edit[e].wallet], Set(e)) \in Creator
    BY <2>1, <2>2, Assigned
  <2>5. creators' = [creators EXCEPT ![edit[e].wallet] = Assign(creators[edit[e].wallet], Set(e))]
    BY <1>2 DEF update, patch
  <2>. QED  BY <2>1, <2>3, <2>4, <2>5 DEF RowsChange
<1>3. ASSUME NEW e \in Edits, claim(e) \/ profile(e) \/ avatar(e) \/ put(e) \/ editStops(e) PROVE RowsChange
  BY <1>3 DEF claim, profile, avatar, Arrive, put, editStops, RowsChange
<1>. QED  BY <1>1, <1>2, <1>3 DEF AccountsNext, accountVars, RowsChange

\* A row that is there stays, and each column of it that changes is one that the
\* owner's update names.
LEMMA RowsKept ==
  ASSUME AccountsInv, RowsChange, NEW w \in Wallets, creators[w] # Null
  PROVE  /\ creators'[w] \in Creator /\ creators'[w].handle = creators[w].handle
         /\ \A c \in DOMAIN creators[w] : creators'[w][c] # creators[w][c] =>
              \E e \in Edits : /\ edit[e].at = "update" /\ edit[e].wallet = w
                               /\ c \in DOMAIN Set(e) /\ creators'[w][c] = Set(e)[c]
<1>1. creators \in [Wallets -> Creator \cup {Null}] /\ creators[w] \in Creator
  BY DEF AccountsInv, AccountsTypeOK
<1>2. CASE creators'[w] = creators[w]
  BY <1>1, <1>2
<1>3. ASSUME NEW e \in Edits, edit[e].at = "update", edit[e].wallet = w,
             Assign(creators[w], Set(e)) \in Creator, "handle" \notin DOMAIN Set(e),
             creators'[w] = Assign(creators[w], Set(e))
      PROVE  /\ creators'[w] \in Creator /\ creators'[w].handle = creators[w].handle
             /\ \A c \in DOMAIN creators[w] : creators'[w][c] # creators[w][c] =>
                  c \in DOMAIN Set(e) /\ creators'[w][c] = Set(e)[c]
  <2>1. \A c \in DOMAIN creators[w] :
          creators'[w][c] = IF c \in DOMAIN Set(e) THEN Set(e)[c] ELSE creators[w][c]
    BY <1>3 DEF Assign
  <2>2. "handle" \in DOMAIN creators[w]
    BY <1>1 DEF Creator
  <2>. QED  BY <1>3, <2>1, <2>2
<1>4. \/ creators'[w] = creators[w]
      \/ \E e \in Edits :
           /\ edit[e].at = "update" /\ edit[e].wallet = w
           /\ Assign(creators[w], Set(e)) \in Creator /\ "handle" \notin DOMAIN Set(e)
           /\ creators'[w] = Assign(creators[w], Set(e))
  BY <1>1 DEF RowsChange
<1>. QED  BY <1>2, <1>3, <1>4

\* A refusal shown stays true: what clashed with a claim clashes for good.
LEMMA TakenStep ==
  AccountsInv /\ TakenMeansTaken /\ [AccountsNext]_accountVars => TakenMeansTaken'
<1> SUFFICES ASSUME AccountsInv, TakenMeansTaken, [AccountsNext]_accountVars,
                    NEW e \in Edits, edit'[e].at = "handle_taken"
             PROVE  Clash(edit[e].wallet, edit[e].body.claim)'
  BY DEF TakenMeansTaken
<1> DEFINE Refused ==
             /\ Clash(edit[e].wallet, edit[e].body.claim)
             /\ edit[e].at # "off"
             /\ edit'[e].wallet = edit[e].wallet /\ edit'[e].body = edit[e].body
<1>1. edit = [f \in Edits |-> edit[f]]
  BY DEF AccountsInv, Editing
<1>2. ASSUME edit'[e] = edit[e] PROVE Refused
  BY <1>2 DEF TakenMeansTaken
<1>3. ASSUME NEW f \in Edits, NEW r, edit' = [edit EXCEPT ![f] = r], r.at # "handle_taken"
      PROVE  Refused
  <2>1. f # e
    BY <1>1, <1>3
  <2>. QED  BY <1>1, <1>2, <1>3, <2>1
<1>d. ASSUME NEW f \in Edits, Done(f) PROVE Refused
  <2>1. NoEdit.at # "handle_taken"
    BY DEF NoEdit
  <2> HIDE DEF Refused
  <2>. QED  BY <1>3, <1>d, <2>1 DEF Done
<1>4. ASSUME NEW f \in Edits, insert(f) PROVE Refused
  <2>1. CASE Done(f)
    BY <1>d, <2>1
  <2>2. CASE HandleTaken(f) /\ Clash(edit[f].wallet, edit[f].body.claim)
    <3>1. CASE f = e
      <4>1. edit[e].at = "insert"
        BY <1>4, <3>1 DEF insert
      <4>2. edit'[e] = [edit[e] EXCEPT !.at = "handle_taken"]
        BY <1>1, <2>2, <3>1 DEF HandleTaken
      <4>. QED  BY <2>2, <3>1, <4>1, <4>2
    <3>2. CASE f # e
      BY <1>1, <1>2, <2>2, <3>2 DEF HandleTaken
    <3>. QED  BY <3>1, <3>2
  <2>. QED  BY <1>4, <2>1, <2>2 DEF insert, isUniqueViolation
<1>a. ASSUME NEW f \in Edits, NEW w, NEW at \in {"insert", "update", "put"}, NEW body,
             Arrive(f, w, at, body)
      PROVE  Refused
  <2>1. PICK r : r = [at |-> at, wallet |-> w, body |-> body]
    OBVIOUS
  <2>2. edit' = [edit EXCEPT ![f] = r] /\ r.at # "handle_taken"
    BY <1>a, <2>1 DEF Arrive
  <2> HIDE DEF Refused
  <2>. QED  BY <1>3, <2>2
<1>5. ASSUME NEW f \in Edits, claim(f) \/ profile(f) \/ avatar(f) PROVE Refused
  <2> HIDE DEF Refused
  <2>1. CASE claim(f)
    BY <1>a, <2>1 DEF claim
  <2>2. CASE profile(f)
    BY <1>a, <2>2 DEF profile
  <2>3. CASE avatar(f)
    BY <1>a, <2>3 DEF avatar
  <2>. QED  BY <1>5, <2>1, <2>2, <2>3
<1>6. ASSUME NEW f \in Edits, put(f) PROVE Refused
  <2>1. edit' = [edit EXCEPT ![f] = [edit[f] EXCEPT !.at = "update"]]
    BY <1>6 DEF put, Proceed
  <2>2. [edit[f] EXCEPT !.at = "update"].at # "handle_taken"
    OBVIOUS
  <2>. QED  BY <1>3, <2>1, <2>2
<1>7. ASSUME NEW f \in Edits, update(f) \/ editStops(f) PROVE Refused
  BY <1>d, <1>7 DEF update, editStops
<1>8. Refused
  BY <1>2, <1>4, <1>5, <1>6, <1>7 DEF AccountsNext, accountVars
<1>9. edit[e].wallet \in Wallets
  BY <1>8 DEF AccountsInv, AccountsTypeOK, NoEdit
<1>10. \A w \in Wallets : creators[w] # Null =>
         creators'[w] # Null /\ creators'[w].handle = creators[w].handle
  BY StepChangesRows, RowsKept, AccountsAssumption
<1>. QED  BY <1>8, <1>9, <1>10 DEF Clash

-----------------------------------------------------------------------------
(* The limiter *)

\* The requests that have read a window's counter and not written it back.
Slow(w) == {c \in Calls : call[c].at = "put" /\ call[c].window = w}
\* Twice what a window can let through from a counter at k on.
Twice(k) == (Limit - k) * (Limit - k + 3)
UpTo(n) == IF n > Limit THEN Limit ELSE n
\* Twice what it can let through from a counter at n, if a request that read m
\* puts it back to m + 1 once it is at the limit.
Left(n, m) == 2 * (Limit - UpTo(n) + 1) + Twice(UpTo(m) + 1)

\* What was let through and what can still be stay below the bound, whichever
\* request is slow; of two slow ones, one has read what the counter says.
Spare(w) ==
  \A m \in {count[w]} \cup {call[c].read : c \in Slow(w)} :
    2 * admitted[w] + Left(count[w], m) <= Limit * (Limit + 3)
LastReader(w) ==
  \A a, b \in Slow(w) : a # b => count[w] \in {call[a].read, call[b].read}
LimiterInv ==
  /\ LimiterTypeOK
  /\ \A w \in Windows : Spare(w) /\ LastReader(w)

\* The polynomial falls by at least two at every step up to the limit.
LEMMA TwiceFalls ==
  ASSUME NEW j \in 0 .. Limit + 1, NEW k \in 0 .. Limit + 1, j <= k
  PROVE  Twice(j) \in Int /\ Twice(k) \in Int /\ Twice(j) >= Twice(k) + 2 * (k - j)
<1> Limit \in Nat
  BY LimitAssumption
<1>1. Twice(j) \in Int /\ Twice(k) \in Int
  BY DEF Twice
<1>2. CASE j = k
  BY <1>1, <1>2
<1>3. CASE j < k
  <2> DEFINE d == k - j
             e == 2 * Limit - j - k + 1
  <2>1. d \in Nat /\ e \in Nat
    BY <1>3
  <2>2. d * e \in Nat
    <3> HIDE DEF d, e
    <3>. QED  BY <2>1
  <2>3. Twice(j) - Twice(k) = d * e + 2 * d
    BY DEF Twice
  <2>. QED  BY <1>1, <2>1, <2>2, <2>3
<1>. QED  BY <1>2, <1>3

\* What is left, at a counter that no slow request will put back.
LEMMA LeftAtOnce ==
  ASSUME NEW n \in 0 .. Limit + 1
  PROVE  /\ Left(n, n) = Twice(UpTo(n)) /\ Twice(UpTo(n)) \in Nat
         /\ Twice(0) = Limit * (Limit + 3)
         /\ UpTo(n) \in 0 .. Limit
<1> Limit \in Nat
  BY LimitAssumption
<1>1. UpTo(n) \in 0 .. Limit
  BY DEF UpTo
<1>2. \A k \in 0 .. Limit : Twice(k) = 2 * (Limit - k + 1) + Twice(k + 1)
  BY DEF Twice
<1>3. \A k \in 0 .. Limit : Twice(k) \in Nat
  BY DEF Twice
<1>4. Twice(0) = Limit * (Limit + 3)
  BY DEF Twice
<1>. QED  BY <1>1, <1>2, <1>3, <1>4 DEF Left

\* The counter is zero, nothing was let through and nobody is slow.
LEMMA Untouched ==
  0 + Left(0, 0) <= Limit * (Limit + 3)
<1>1. 0 \in 0 .. Limit + 1 /\ UpTo(0) = 0
  BY LimitAssumption DEF UpTo
<1>2. Left(0, 0) = Limit * (Limit + 3) /\ Left(0, 0) \in Nat
  BY <1>1, LeftAtOnce
<1>. QED  BY <1>2

\* A request that read x writes x + 1 over a counter at n and is let through, while
\* one that read y is slow too.
LEMMA WriteOver ==
  ASSUME NEW n \in 0 .. Limit + 1, NEW x \in 0 .. Limit - 1, NEW y \in 0 .. Limit + 1,
         n \in {x, y}, NEW a \in Nat, NEW bound \in Int,
         2 * a + Left(n, n) <= bound, 2 * a + Left(n, x) <= bound, 2 * a + Left(n, y) <= bound
  PROVE  2 * (a + 1) + Left(x + 1, y) <= bound
<1> Limit \in Nat
  BY LimitAssumption
<1> DEFINE h == UpTo(y)
<1>1. h \in 0 .. Limit /\ UpTo(x) = x /\ UpTo(x + 1) = x + 1
  BY DEF UpTo
<1> HIDE DEF h
<1>2. Twice(h + 1) \in Int /\ Twice(x + 1) \in Int
  BY <1>1, TwiceFalls
<1>3. Left(x + 1, y) = 2 * (Limit - x) + Twice(h + 1)
  BY <1>1 DEF Left, h
<1>4. CASE n = x
  BY <1>1, <1>2, <1>3, <1>4 DEF Left, h
<1>5. CASE n = y
  <2>1. Left(n, n) = 2 * (Limit - h + 1) + Twice(h + 1)
    BY <1>5 DEF Left, h
  <2>2. Left(n, x) = 2 * (Limit - h + 1) + Twice(x + 1)
    BY <1>1, <1>5 DEF Left, h
  <2>3. CASE x >= h
    BY <1>1, <1>2, <1>3, <2>1, <2>3
  <2>4. CASE x < h
    <3>1. Twice(x + 1) >= Twice(h + 1) + 2 * (h - x)
      <4>1. x + 1 \in 0 .. Limit + 1 /\ h + 1 \in 0 .. Limit + 1 /\ x + 1 <= h + 1
        BY <1>1, <2>4
      <4>2. Twice(x + 1) >= Twice(h + 1) + 2 * ((h + 1) - (x + 1))
        BY <4>1, TwiceFalls
      <4>. QED  BY <1>1, <1>2, <4>2
    <3>. QED  BY <1>1, <1>2, <1>3, <2>2, <3>1
  <2>. QED  BY <1>1, <2>3, <2>4
<1>. QED  BY <1>4, <1>5

\* The same when nobody else is slow.
LEMMA WriteAlone ==
  ASSUME NEW n \in 0 .. Limit + 1, NEW x \in 0 .. Limit - 1,
         NEW a \in Nat, NEW bound \in Int, 2 * a + Left(n, x) <= bound
  PROVE  2 * (a + 1) + Left(x + 1, x + 1) <= bound
<1> Limit \in Nat
  BY LimitAssumption
<1>1. UpTo(n) \in 0 .. Limit /\ UpTo(x) = x /\ UpTo(x + 1) = x + 1
  BY DEF UpTo
<1>2. Twice(x + 1) \in Int
  BY TwiceFalls
<1>3. Left(x + 1, x + 1) = Twice(x + 1)
  BY <1>1, LeftAtOnce
<1>4. Left(n, x) = 2 * (Limit - UpTo(n) + 1) + Twice(x + 1)
  BY <1>1 DEF Left
<1>. QED  BY <1>1, <1>2, <1>3, <1>4

\* A request over the limit drives the counter past it and lets nothing through.
LEMMA WritePast ==
  ASSUME NEW n \in 0 .. Limit + 1, NEW y \in 0 .. Limit + 1,
         NEW a \in Nat, NEW bound \in Int,
         2 * a + Left(n, n) <= bound, 2 * a + Left(n, y) <= bound
  PROVE  /\ 2 * a + Left(Limit + 1, Limit + 1) <= bound
         /\ 2 * a + Left(Limit + 1, y) <= bound
<1> Limit \in Nat
  BY LimitAssumption
<1>1. UpTo(n) \in 0 .. Limit /\ UpTo(y) \in 0 .. Limit /\ UpTo(Limit + 1) = Limit
  BY DEF UpTo
<1>2. Left(n, n) \in Nat
  BY LeftAtOnce
<1>3. Left(Limit + 1, Limit + 1) = 0
  BY <1>1 DEF Left, Twice
<1>4. Twice(UpTo(y) + 1) \in Int
  BY <1>1, TwiceFalls
<1>5. Left(Limit + 1, y) = 2 + Twice(UpTo(y) + 1)
  BY <1>1, <1>4 DEF Left
<1>6. Left(n, y) = 2 * (Limit - UpTo(n) + 1) + Twice(UpTo(y) + 1)
  BY DEF Left
<1>. QED  BY <1>1, <1>2, <1>3, <1>4, <1>5, <1>6

\* What the invariant says of one window, for a step that knows what its slow
\* requests and its two counters become.
LEMMA WindowHolds ==
  ASSUME NEW w \in Windows, NEW n \in 0 .. Limit + 1, NEW a \in Nat,
         count'[w] = n, admitted'[w] = a,
         2 * a + Left(n, n) <= Limit * (Limit + 3),
         \A c \in Slow(w)' : 2 * a + Left(n, call'[c].read) <= Limit * (Limit + 3),
         \A c, d \in Slow(w)' : c # d => n \in {call'[c].read, call'[d].read}
  PROVE  Spare(w)' /\ LastReader(w)'
<1>1. Spare(w)'
  BY DEF Spare
<1>2. LastReader(w)'
  BY DEF LastReader
<1>. QED  BY <1>1, <1>2

TwoCalls == IsFiniteSet(Calls) /\ Cardinality(Calls) <= 2

\* Of three requests two are the same.
LEMMA NoThird ==
  ASSUME TwoCalls, NEW a \in Calls, NEW b \in Calls, NEW c \in Calls
  PROVE  a = b \/ b = c \/ a = c
<1> SUFFICES ASSUME a # b, b # c, a # c PROVE FALSE
  OBVIOUS
<1>1. IsFiniteSet({a}) /\ Cardinality({a}) = 1
  BY FS_Singleton
<1>2. IsFiniteSet({a} \cup {b}) /\ Cardinality({a} \cup {b}) = 2
  BY <1>1, FS_AddElement
<1>3. IsFiniteSet({a, b} \cup {c}) /\ Cardinality({a, b} \cup {c}) = 3
  <2>1. {a, b} = {a} \cup {b}
    OBVIOUS
  <2>. QED  BY <1>2, <2>1, FS_AddElement
<1>4. {a, b} \cup {c} \subseteq Calls
  OBVIOUS
<1>5. Cardinality({a, b} \cup {c}) <= Cardinality(Calls)
  BY <1>4, FS_Subset DEF TwoCalls
<1>6. Cardinality(Calls) \in Nat
  BY FS_CardinalityType DEF TwoCalls
<1>. QED  BY <1>3, <1>5, <1>6 DEF TwoCalls

\* No counter, no request and nothing let through.
LEMMA LimiterStart == LimiterInit => LimiterInv
<1> SUFFICES ASSUME LimiterInit PROVE LimiterInv
  OBVIOUS
<1>1. LimiterTypeOK
  BY LimitAssumption DEF LimiterInit, LimiterTypeOK, Request, Answered, Windows
<1>2. \A w \in Windows : Slow(w) = {}
  BY DEF LimiterInit, Slow, Request
<1>3. \A w \in Windows : Spare(w)
  BY <1>2, Untouched DEF LimiterInit, Spare
<1>4. \A w \in Windows : LastReader(w)
  BY <1>2 DEF LastReader
<1>. QED  BY <1>1, <1>3, <1>4 DEF LimiterInv

\* The types, for any number of requests.
LEMMA LimiterTypes == LimiterTypeOK /\ [LimiterNext]_limiterVars => LimiterTypeOK'
<1> SUFFICES ASSUME LimiterTypeOK, [LimiterNext]_limiterVars PROVE LimiterTypeOK'
  OBVIOUS
<1> USE LimitAssumption
<1> DEFINE Fields == [at : Answered \cup {"put"}, read : 0 .. Limit + 1, window : Windows]
<1>1. \A at \in Answered \cup {"put"} : Request(at) \in Fields
  BY DEF Request, Windows
<1>2. ASSUME NEW c \in Calls, consume(c) PROVE LimiterTypeOK'
  <2>1. [Request("put") EXCEPT !.read = count["now"]] \in Fields
    BY <1>1 DEF LimiterTypeOK, Windows, Request
  <2>. QED  BY <1>2, <2>1 DEF consume, LimiterTypeOK
<1>3. ASSUME NEW c \in Calls, charge(c) PROVE LimiterTypeOK'
  <2>1. call[c].read \in 0 .. Limit + 1 /\ call[c].window \in Windows
    BY DEF LimiterTypeOK
  <2>2. Capped(call[c].read + 1) \in 0 .. Limit + 1
    BY <2>1 DEF Capped
  <2>3. PICK at \in {"next", "refused"} : call' = [call EXCEPT ![c] = Request(at)]
    BY <1>3 DEF charge, Reply
  <2>4. call' \in [Calls -> Fields]
    BY <1>1, <2>3 DEF LimiterTypeOK, Answered
  <2>5. count' \in [Windows -> 0 .. Limit + 1]
    BY <1>3, <2>1, <2>2 DEF charge, LimiterTypeOK
  <2>6. admitted' \in [Windows -> Nat]
    BY <1>3, <2>1 DEF charge, LimiterTypeOK
  <2>. QED  BY <2>4, <2>5, <2>6 DEF LimiterTypeOK
<1>4. ASSUME NEW c \in Calls, storeFails(c) PROVE LimiterTypeOK'
  BY <1>1, <1>4 DEF storeFails, Reply, LimiterTypeOK, Answered
<1>5. ASSUME nextWindow PROVE LimiterTypeOK'
  <2>1. \A c \in Calls : [call[c] EXCEPT !.window = "before"] \in Fields
    BY DEF LimiterTypeOK, Windows
  <2>2. call' \in [Calls -> Fields]
    BY <1>5, <2>1 DEF nextWindow, LimiterTypeOK
  <2>3. /\ count' \in [Windows -> 0 .. Limit + 1]
        /\ admitted' \in [Windows -> Nat]
    BY <1>5 DEF nextWindow, ShiftWindow, LimiterTypeOK, Windows
  <2>. QED  BY <2>2, <2>3 DEF LimiterTypeOK
<1>6. ASSUME UNCHANGED limiterVars PROVE LimiterTypeOK'
  BY <1>6 DEF limiterVars, LimiterTypeOK
<1>. QED  BY <1>2, <1>3, <1>4, <1>5, <1>6 DEF LimiterNext

\* With two requests in flight at most, every step leaves each window its spare
\* room: a request that puts the counter back lets through one, and has kept the
\* place of all those it lets through again.
LEMMA LimiterStep ==
  ASSUME TwoCalls, LimiterInv, [LimiterNext]_limiterVars PROVE LimiterInv'
<1> USE LimitAssumption
<1> DEFINE Bound == Limit * (Limit + 3)
<1>0. /\ LimiterTypeOK /\ LimiterTypeOK'
      /\ \A w \in Windows : Spare(w) /\ LastReader(w)
      /\ Bound \in Int
  BY LimiterTypes DEF LimiterInv
<1> HIDE DEF Bound
<1>t. /\ \A w \in Windows : count[w] \in 0 .. Limit + 1 /\ admitted[w] \in Nat
      /\ \A c \in Calls : call[c].read \in 0 .. Limit + 1
  BY <1>0 DEF LimiterTypeOK
<1>b. \A w \in Windows : 
        /\ 2 * admitted[w] + Left(count[w], count[w]) <= Bound
        /\ \A c \in Slow(w) : 2 * admitted[w] + Left(count[w], call[c].read) <= Bound
  BY <1>0 DEF Spare, Bound
<1>1. ASSUME NEW c \in Calls, consume(c) PROVE \A w \in Windows : Spare(w)' /\ LastReader(w)'
  <2>1. /\ call'[c] = [at |-> "put", read |-> count["now"], window |-> "now"]
        /\ \A d \in Calls \ {c} : call'[d] = call[d]
    BY <1>0, <1>1 DEF consume, Request, LimiterTypeOK
  <2>2. count' = count /\ admitted' = admitted
    BY <1>1 DEF consume
  <2> SUFFICES ASSUME NEW w \in Windows PROVE Spare(w)' /\ LastReader(w)'
    OBVIOUS
  <2>3. \A d \in Slow(w)' : d # c => d \in Slow(w) /\ call'[d].read = call[d].read
    BY <2>1 DEF Slow
  <2>4. \A d \in Slow(w)' : d = c => w = "now" /\ call'[d].read = count[w]
    BY <2>1 DEF Slow
  <2>5. \A d \in Slow(w)' : 2 * admitted[w] + Left(count[w], call'[d].read) <= Bound
    BY <1>b, <2>3, <2>4
  <2>6. \A d, e \in Slow(w)' : d # e => count[w] \in {call'[d].read, call'[e].read}
    <3>1. \A d, e \in Slow(w)' : d # e => d = c \/ e = c
      BY NoThird DEF Slow
    <3>. QED  BY <3>1, <2>4
  <2>. QED  BY <1>t, <1>b, <2>2, <2>5, <2>6, WindowHolds DEF Bound
<1>2. ASSUME NEW c \in Calls, charge(c) PROVE \A w \in Windows : Spare(w)' /\ LastReader(w)'
  <2> DEFINE x == call[c].read
             v == call[c].window
             n == Capped(x + 1)
  <2>1. /\ v \in Windows /\ x \in 0 .. Limit + 1 /\ c \in Slow(v)
        /\ \A w \in Windows \ {v} : count'[w] = count[w] /\ admitted'[w] = admitted[w]
        /\ call'[c].at # "put" /\ \A d \in Calls \ {c} : call'[d] = call[d]
        /\ count'[v] = n
        /\ admitted'[v] = admitted[v] + (IF n <= Limit THEN 1 ELSE 0)
    BY <1>0, <1>2 DEF charge, Reply, Request, allowed, Slow, LimiterTypeOK
  <2>2. \A w \in Windows : \A d \in Slow(w)' : 
          d \in Slow(w) /\ d # c /\ d \in Calls /\ call'[d].read = call[d].read
    BY <2>1 DEF Slow
  <2> SUFFICES ASSUME NEW w \in Windows PROVE Spare(w)' /\ LastReader(w)'
    OBVIOUS
  <2>3. CASE w # v
    <3>1. \A d, e \in Slow(w)' : d # e => count[w] \in {call'[d].read, call'[e].read}
      BY <1>0, <2>2 DEF LastReader
    <3>. QED  BY <1>t, <1>b, <2>1, <2>2, <2>3, <3>1, WindowHolds DEF Bound
  <2>4. CASE w = v
    <3>1. \A d, e \in Slow(w)' : d = e
      BY <2>1, <2>2, NoThird DEF Slow
    <3>2. /\ 2 * admitted[w] + Left(count[w], count[w]) <= Bound
          /\ 2 * admitted[w] + Left(count[w], x) <= Bound
          /\ count[w] \in 0 .. Limit + 1 /\ admitted[w] \in Nat
      BY <1>b, <1>t, <2>1, <2>4
    <3>3. \A d \in Slow(w)' : /\ call[d].read \in 0 .. Limit + 1
                             /\ 2 * admitted[w] + Left(count[w], call[d].read) <= Bound
                             /\ count[w] \in {x, call[d].read}
      BY <1>0, <1>b, <1>t, <2>1, <2>2, <2>4 DEF LastReader
    <3> HIDE DEF x, v
    <3>4. CASE x < Limit
      <4>1. x \in 0 .. Limit - 1 /\ n = x + 1 /\ n \in 0 .. Limit + 1 /\ n <= Limit
        BY <2>1, <3>4 DEF Capped
      <4>2. admitted'[w] = admitted[w] + 1 /\ count'[w] = x + 1
        BY <2>1, <2>4, <4>1
      <4>3. 2 * (admitted[w] + 1) + Left(x + 1, x + 1) <= Bound
        BY <1>0, <3>2, <4>1, WriteAlone
      <4>4. \A d \in Slow(w)' : 2 * (admitted[w] + 1) + Left(x + 1, call'[d].read) <= Bound
        BY <1>0, <2>2, <3>2, <3>3, <4>1, WriteOver
      <4>5. admitted[w] + 1 \in Nat /\ x + 1 \in 0 .. Limit + 1
        BY <3>2, <4>1
      <4>. QED  BY <3>1, <4>2, <4>3, <4>4, <4>5, WindowHolds DEF Bound
    <3>5. CASE x >= Limit
      <4>1. n = Limit + 1 /\ ~(n <= Limit)
        BY <2>1, <3>5 DEF Capped
      <4>2. admitted'[w] = admitted[w] /\ count'[w] = Limit + 1
        BY <2>1, <2>4, <3>2, <4>1
      <4>3. 2 * admitted[w] + Left(Limit + 1, Limit + 1) <= Bound
        BY <1>0, <3>2, WritePast
      <4>4. \A d \in Slow(w)' : 2 * admitted[w] + Left(Limit + 1, call'[d].read) <= Bound
        BY <1>0, <2>2, <3>2, <3>3, WritePast
      <4>5. Limit + 1 \in 0 .. Limit + 1
        OBVIOUS
      <4>. QED  BY <3>1, <3>2, <4>2, <4>3, <4>4, <4>5, WindowHolds DEF Bound
    <3>. QED  BY <2>1, <3>4, <3>5
  <2>. QED  BY <2>3, <2>4
<1>3. ASSUME NEW c \in Calls, storeFails(c) PROVE \A w \in Windows : Spare(w)' /\ LastReader(w)'
  <2>1. \A w \in Windows : \A d \in Slow(w)' : d \in Slow(w) /\ call'[d].read = call[d].read
    BY <1>0, <1>3 DEF storeFails, Reply, Request, Slow, LimiterTypeOK
  <2>2. count' = count /\ admitted' = admitted
    BY <1>3 DEF storeFails
  <2> SUFFICES ASSUME NEW w \in Windows PROVE Spare(w)' /\ LastReader(w)'
    OBVIOUS
  <2>3. \A d, e \in Slow(w)' : d # e => count[w] \in {call'[d].read, call'[e].read}
    BY <1>0, <2>1 DEF LastReader
  <2>. QED  BY <1>t, <1>b, <2>1, <2>2, <2>3, WindowHolds DEF Bound
<1>4. ASSUME nextWindow PROVE \A w \in Windows : Spare(w)' /\ LastReader(w)'
  <2>1. \A d \in Calls : /\ call'[d].at = call[d].at /\ call'[d].read = call[d].read
                         /\ call'[d].at = "put" => call'[d].window = "before"
                         /\ call[d].window = "now"
    BY <1>0, <1>4 DEF nextWindow, LimiterTypeOK
  <2>2. Slow("now")' = {} /\ Slow("before")' = Slow("now")
    BY <2>1 DEF Slow
  <2>3. count'["now"] = 0 /\ admitted'["now"] = 0
    BY <1>4 DEF nextWindow, ShiftWindow
  <2>4. Spare("now")' /\ LastReader("now")'
    BY <2>2, <2>3, Untouched, WindowHolds DEF Windows
  <2>5. CASE \E c \in Calls : call[c].at = "put"
    <3>1. count'["before"] = count["now"] /\ admitted'["before"] = admitted["now"]
      BY <1>4, <2>5 DEF nextWindow, ShiftWindow
    <3>2. \A d, e \in Slow("before")' : d # e => count["now"] \in {call'[d].read, call'[e].read}
      BY <1>0, <2>1, <2>2 DEF LastReader, Windows, Slow
    <3>3. \A d \in Slow("before")' : 
            2 * admitted["now"] + Left(count["now"], call'[d].read) <= Bound
      BY <1>b, <2>1, <2>2 DEF Windows, Slow
    <3>. QED  BY <1>t, <1>b, <2>4, <3>1, <3>2, <3>3, WindowHolds DEF Windows, Bound
  <2>6. CASE ~\E c \in Calls : call[c].at = "put"
    <3>1. count'["before"] = 0 /\ admitted'["before"] = 0
      BY <1>4, <2>6 DEF nextWindow, ShiftWindow
    <3>2. Slow("before")' = {}
      BY <2>2, <2>6 DEF Slow
    <3>. QED  BY <2>4, <3>1, <3>2, Untouched, WindowHolds DEF Windows
  <2>. QED  BY <2>5, <2>6
<1>5. ASSUME UNCHANGED limiterVars PROVE \A w \in Windows : Spare(w)' /\ LastReader(w)'
  BY <1>0, <1>5 DEF limiterVars, Spare, LastReader, Slow
<1>6. \A w \in Windows : Spare(w)' /\ LastReader(w)'
  BY <1>1, <1>2, <1>3, <1>4, <1>5 DEF LimiterNext
<1>. QED  BY <1>0, <1>6 DEF LimiterInv

-----------------------------------------------------------------------------
(* The forms *)

\* A text the schema takes has a length the CHECK takes too: the database counts
\* surrogate pairs by two, and that does not empty a text that is not empty.
LEMMA TextFits ==
  ASSUME NEW t \in Texts, NEW min \in {0, 1}, NEW max \in Nat, Schema(t, min, max)
  PROVE  Check(t, min, max)
<1>1. t.len \in Nat /\ t.len >= min /\ t.len <= max
  BY FormsAssumption DEF Texts, Schema
<1>2. (t.len + 1) \div 2 \in Nat /\ (t.len + 1) \div 2 <= t.len /\ (t.len >= 1 => (t.len + 1) \div 2 >= 1)
  BY <1>1
<1>. QED  BY <1>1, <1>2 DEF Check, DbLength

\* What a field of at most n units holds has at most n once trimmed.
LEMMA TypedFits ==
  ASSUME NEW max \in Nat, NEW t \in Typed(max)
  PROVE  t \in Texts /\ t.len \in Nat /\ t.len <= max
<1>1. t \in Texts /\ t.len \in Lengths /\ t.pad \in {0, 1} /\ t.len + t.pad <= max
  BY DEF Typed, Texts, RawLength
<1>2. t.len \in Nat
  BY <1>1, FormsAssumption
<1>. QED  BY <1>1, <1>2

\* A handle the form's rule takes has the characters and the length of the regular
\* expression behind the API, once both have put it in lower case.
LEMMA HandleFits ==
  ASSUME NEW h \in HandleTexts, validateHandle(h)
  PROVE  claimAccepts(h) /\ handleFits(normalizeHandle(h))
<1>1. /\ h.len \in Nat /\ normalizeHandle(h).len = h.len /\ normalizeHandle(h).pad = 0
      /\ normalizeHandle(h).reserved = h.reserved
  BY FormsAssumption DEF HandleTexts, normalizeHandle
<1>. QED  BY <1>1 DEF validateHandle, claimAccepts, handleFits, HANDLE_REGEX

\* A row of links the form takes passes the schema of one.
LEMMA LinkFits ==
  ASSUME NEW r \in LinkRows, NEW n \in 1 .. 11, validateLinks(r, n)
  PROVE  linksAccept(r, n)
<1>1. CASE Blank(r)
  BY <1>1 DEF linksAccept
<1>2. CASE ~Blank(r)
  <2>1. r.label \in Typed(30)
    BY DEF LinkRows
  <2>2. r.label.len \in Nat
    BY <2>1, TypedFits
  <2>3. Schema(r.label, 1, 30)
    BY <1>2, <2>2 DEF validateLinks, Schema
  <2>. QED  BY <1>2, <2>3 DEF validateLinks, isValidUrl, linksAccept, linkSchema
<1>. QED  BY <1>1, <1>2

FormsInv == FormsTypeOK /\ FormNeverRefused

\* Whatever is typed into whichever form.
LEMMA FormsStep == FormsInv /\ [FormsNext]_judged => FormsInv'
<1> SUFFICES ASSUME FormsInv, [FormsNext]_judged PROVE FormsInv'
  OBVIOUS
<1> DEFINE Fields == {"handle", "claimName", "displayName", "headline", "bio", "price", "links",
                      "question", "amount", "answer", "avatar"}
           Holds(form, lets, takes) ==
             /\ form \in Fields /\ lets \in BOOLEAN /\ takes \in BOOLEAN
             /\ IF form = "avatar" THEN takes => lets ELSE lets => takes
<1>1. ASSUME NEW form, NEW lets, NEW takes, Judge(form, lets, takes), Holds(form, lets, takes)
      PROVE  FormsInv'
  <2>1. judged' = [form |-> form, lets |-> lets, takes |-> takes, long |-> FALSE]
    BY <1>1 DEF Judge
  <2>2. judged'.form = form /\ judged'.lets = lets /\ judged'.takes = takes
    BY <2>1
  <2>3. form \in Fields /\ form # "amountUnread" /\ lets \in BOOLEAN /\ takes \in BOOLEAN
    BY <1>1 DEF Holds
  <2>4. FormsTypeOK'
    BY <2>1, <2>3 DEF FormsTypeOK
  <2>5. FormNeverRefused'
    <3>1. CASE form = "avatar"
      BY <1>1, <2>2, <3>1 DEF Holds, FormNeverRefused
    <3>2. CASE form # "avatar"
      BY <1>1, <2>2, <2>3, <3>2 DEF Holds, FormNeverRefused
    <3>. QED  BY <3>1, <3>2
  <2>. QED  BY <2>4, <2>5 DEF FormsInv
<1> HIDE DEF Holds
<1>2. ASSUME claimForm PROVE FormsInv'
  <2>1. PICK h \in HandleTexts :
          Judge("handle", validateHandle(h), claimAccepts(h) /\ handleFits(normalizeHandle(h)))
    BY <1>2 DEF claimForm
  <2>2. validateHandle(h) => claimAccepts(h) /\ handleFits(normalizeHandle(h))
    BY HandleFits
  <2>. QED  BY <1>1, <2>1, <2>2 DEF Holds, validateHandle, claimAccepts, handleFits, HANDLE_REGEX
<1>3. ASSUME claimName PROVE FormsInv'
  <2>1. PICK t \in Typed(50) : Judge("claimName", TRUE, t.len = 0 \/ (Schema(t, 1, 50) /\ Check(t, 1, 50)))
    BY <1>3 DEF claimName
  <2>2. TRUE => t.len = 0 \/ (Schema(t, 1, 50) /\ Check(t, 1, 50))
    BY TypedFits, TextFits DEF Schema
  <2>3. (TRUE) \in BOOLEAN /\ (t.len = 0 \/ (Schema(t, 1, 50) /\ Check(t, 1, 50))) \in BOOLEAN
    BY DEF Schema, Check
  <2>4. Holds("claimName", TRUE, t.len = 0 \/ (Schema(t, 1, 50) /\ Check(t, 1, 50)))
    BY <2>2, <2>3 DEF Holds
  <2>. QED  BY <1>1, <2>1, <2>4
<1>4. ASSUME displayName PROVE FormsInv'
  <2>1. PICK t \in Typed(50) : Judge("displayName", t.len > 0 /\ t.len <= 50, Schema(t, 1, 50) /\ Check(t, 1, 50))
    BY <1>4 DEF displayName
  <2>2. t.len > 0 /\ t.len <= 50 => Schema(t, 1, 50) /\ Check(t, 1, 50)
    BY TypedFits, TextFits DEF Schema
  <2>3. (t.len > 0 /\ t.len <= 50) \in BOOLEAN /\ (Schema(t, 1, 50) /\ Check(t, 1, 50)) \in BOOLEAN
    BY DEF Schema, Check
  <2>4. Holds("displayName", t.len > 0 /\ t.len <= 50, Schema(t, 1, 50) /\ Check(t, 1, 50))
    BY <2>2, <2>3 DEF Holds
  <2>. QED  BY <1>1, <2>1, <2>4
<1>5. ASSUME headline PROVE FormsInv'
  <2>1. PICK t \in Typed(80) : Judge("headline", TRUE, t.len = 0 \/ (Schema(t, 0, 80) /\ Check(t, 0, 80)))
    BY <1>5 DEF headline
  <2>2. TRUE => t.len = 0 \/ (Schema(t, 0, 80) /\ Check(t, 0, 80))
    BY TypedFits, TextFits DEF Schema
  <2>3. (TRUE) \in BOOLEAN /\ (t.len = 0 \/ (Schema(t, 0, 80) /\ Check(t, 0, 80))) \in BOOLEAN
    BY DEF Schema, Check
  <2>4. Holds("headline", TRUE, t.len = 0 \/ (Schema(t, 0, 80) /\ Check(t, 0, 80)))
    BY <2>2, <2>3 DEF Holds
  <2>. QED  BY <1>1, <2>1, <2>4
<1>6. ASSUME bio PROVE FormsInv'
  <2>1. PICK t \in Typed(500) : Judge("bio", TRUE, t.len = 0 \/ (Schema(t, 0, 500) /\ Check(t, 0, 500)))
    BY <1>6 DEF bio
  <2>2. TRUE => t.len = 0 \/ (Schema(t, 0, 500) /\ Check(t, 0, 500))
    BY TypedFits, TextFits DEF Schema
  <2>3. (TRUE) \in BOOLEAN /\ (t.len = 0 \/ (Schema(t, 0, 500) /\ Check(t, 0, 500))) \in BOOLEAN
    BY DEF Schema, Check
  <2>4. Holds("bio", TRUE, t.len = 0 \/ (Schema(t, 0, 500) /\ Check(t, 0, 500)))
    BY <2>2, <2>3 DEF Holds
  <2>. QED  BY <1>1, <2>1, <2>4
<1>7. ASSUME question PROVE FormsInv'
  <2>1. PICK t \in Typed(2000) : Judge("question", t.len > 0 /\ RawLength(t) <= 2000, Schema(t, 1, 2000) /\ Check(t, 1, 2000))
    BY <1>7 DEF question
  <2>2. t.len > 0 /\ RawLength(t) <= 2000 => Schema(t, 1, 2000) /\ Check(t, 1, 2000)
    BY TypedFits, TextFits DEF Schema
  <2>3. (t.len > 0 /\ RawLength(t) <= 2000) \in BOOLEAN /\ (Schema(t, 1, 2000) /\ Check(t, 1, 2000)) \in BOOLEAN
    BY DEF Schema, Check
  <2>4. Holds("question", t.len > 0 /\ RawLength(t) <= 2000, Schema(t, 1, 2000) /\ Check(t, 1, 2000))
    BY <2>2, <2>3 DEF Holds
  <2>. QED  BY <1>1, <2>1, <2>4
<1>8. ASSUME answer PROVE FormsInv'
  <2>1. PICK t \in Typed(5000) : Judge("answer", t.len > 0 /\ RawLength(t) <= 5000, Schema(t, 1, 5000) /\ Check(t, 1, 5000))
    BY <1>8 DEF answer
  <2>2. t.len > 0 /\ RawLength(t) <= 5000 => Schema(t, 1, 5000) /\ Check(t, 1, 5000)
    BY TypedFits, TextFits DEF Schema
  <2>3. (t.len > 0 /\ RawLength(t) <= 5000) \in BOOLEAN /\ (Schema(t, 1, 5000) /\ Check(t, 1, 5000)) \in BOOLEAN
    BY DEF Schema, Check
  <2>4. Holds("answer", t.len > 0 /\ RawLength(t) <= 5000, Schema(t, 1, 5000) /\ Check(t, 1, 5000))
    BY <2>2, <2>3 DEF Holds
  <2>. QED  BY <1>1, <2>1, <2>4
<1>9. ASSUME price PROVE FormsInv'
  <2>1. PICK d \in Displays :
          Judge("price", validatePrice(d), minPriceSchema(parseUsdc(d)) /\ minPriceFits(parseUsdc(d)))
    BY <1>9 DEF price
  <2>2. validatePrice(d) => minPriceSchema(parseUsdc(d)) /\ minPriceFits(parseUsdc(d))
    <3>1. parseUsdc(d).units = d.units /\ parseUsdc(d).zeros = 0
      BY DEF parseUsdc, BaseText
    <3>2. d.units \in Nat /\ MaxPrice \in Nat /\ MaxAmount \in Nat /\ MaxPrice <= MaxAmount
      BY FormsAssumption DEF Displays
    <3>3. validatePrice(d) => d.units >= MinPrice /\ d.units <= MaxPrice
      BY <3>1 DEF validatePrice
    <3>4. d.units <= MaxPrice => AtMost39Digits(parseUsdc(d))
      BY <3>1, <3>2 DEF AtMost39Digits
    <3>. QED  BY <3>1, <3>3, <3>4 DEF minPriceSchema, minPriceFits, isBaseUnits
  <2>. QED  BY <1>1, <2>1, <2>2 DEF Holds, validatePrice, minPriceSchema, minPriceFits, isBaseUnits,
                                    AtMost39Digits
<1>. DEFINE In(d, min) == parses(d) /\ parseUsdc(d).units >= min
<1>15. ASSUME NEW d \in Displays, NEW min \in MinPrice .. MaxPrice,
              In(d, min), ~(parseUsdc(d).units > MaxAmount)
       PROVE  amountAccepts(d, min)
  <2>1. parseUsdc(d).units = d.units /\ parseUsdc(d).zeros = 0
    BY DEF parseUsdc, BaseText
  <2>2. d.units \in Nat /\ MinPrice \in Nat /\ MinPrice > 0 /\ MaxPrice \in Nat /\ MaxAmount \in Nat
    <3>1. d.units \in Amounts
      BY DEF Displays
    <3>2. MinPrice \in Nat /\ MinPrice > 0 /\ MaxPrice \in Nat
      BY FormsAssumption
    <3>. QED  BY <3>1, <3>2, FormsAssumption
  <2>3. d.units >= min /\ d.units <= MaxAmount /\ d.units > 0
    BY <1>15, <2>1, <2>2
  <2>. QED  BY <2>1, <2>3 DEF amountAccepts, amountUsdcSchema, AtMost39Digits, priceGate
<1>16. ASSUME NEW d, NEW min PROVE In(d, min) \in BOOLEAN /\ amountAccepts(d, min) \in BOOLEAN
  BY DEF parses, amountAccepts, amountUsdcSchema, AtMost39Digits, priceGate
<1>10. ASSUME amount PROVE FormsInv'
  <2>1. PICK d \in Displays, min \in MinPrice .. MaxPrice, balance \in {n \in Amounts : n <= MaxAmount} :
          Judge("amount", parses(d) /\ parseUsdc(d).units >= min /\ parseUsdc(d).units <= balance,
                amountAccepts(d, min))
    BY <1>10 DEF amount
  <2>2. parseUsdc(d).units <= balance => ~(parseUsdc(d).units > MaxAmount)
    <3>1. parseUsdc(d).units = d.units
      BY DEF parseUsdc, BaseText
    <3>2. d.units \in Nat /\ balance \in Nat /\ balance <= MaxAmount /\ MaxAmount \in Nat
      BY FormsAssumption DEF Displays
    <3>. QED  BY <3>1, <3>2
  <2>3. Holds("amount", parses(d) /\ parseUsdc(d).units >= min /\ parseUsdc(d).units <= balance,
              amountAccepts(d, min))
    BY <1>15, <1>16, <2>2 DEF Holds
  <2>. QED  BY <1>1, <2>1, <2>3
<1>17. ASSUME amountUnread PROVE FormsInv'
  <2>1. PICK d \in Displays, min \in MinPrice .. MaxPrice :
          judged' = [form |-> "amountUnread", lets |-> In(d, min), takes |-> amountAccepts(d, min),
                     long |-> parseUsdc(d).units > MaxAmount]
    BY <1>17 DEF amountUnread
  <2>2. judged'.form = "amountUnread" /\ judged'.lets = In(d, min)
        /\ judged'.takes = amountAccepts(d, min) /\ judged'.long = (parseUsdc(d).units > MaxAmount)
    BY <2>1
  <2>3. FormsTypeOK'
    BY <1>16, <2>1 DEF FormsTypeOK
  <2>4. FormNeverRefused'
    BY <1>15, <2>2 DEF FormNeverRefused
  <2>. QED  BY <2>3, <2>4 DEF FormsInv
<1>11. ASSUME links PROVE FormsInv'
  <2>1. PICK r \in LinkRows, n \in 1 .. 11 : Judge("links", validateLinks(r, n), linksAccept(r, n))
    BY <1>11 DEF links
  <2>. QED  BY <1>1, <2>1, LinkFits DEF Holds, validateLinks, linksAccept, linkSchema, Schema, Blank
<1>12. ASSUME picker PROVE FormsInv'
  <2>1. PICK f \in Files : Judge("avatar", onPick(f), avatarAccepts(f))
    BY <1>12 DEF picker
  <2>2. avatarAccepts(f) => onPick(f)
    BY DEF avatarAccepts, onPick
  <2>3. Holds("avatar", onPick(f), avatarAccepts(f))
    BY <2>2 DEF Holds, avatarAccepts, onPick
  <2>. QED  BY <1>1, <2>1, <2>3
<1>13. ASSUME clearField PROVE FormsInv'
  BY <1>13 DEF clearField, Unjudged, FormsInv, FormsTypeOK, FormNeverRefused
<1>14. ASSUME UNCHANGED judged PROVE FormsInv'
  BY <1>14 DEF FormsInv, FormsTypeOK, FormNeverRefused
<1>. QED
  BY <1>2, <1>3, <1>4, <1>5, <1>6, <1>7, <1>8, <1>9, <1>10, <1>11, <1>12, <1>13, <1>14, <1>17
     DEF FormsNext

-----------------------------------------------------------------------------
(* The Gateway *)

\* Steps of the Gateway are steps, or none, of each of its parts.
LEMMA PartsStep ==
  [Next]_gatewayVars =>
    /\ [AccountsNext]_accountVars /\ [DraftsNext]_draftVars /\ [FormsNext]_judged
    /\ [LimiterNext]_limiterVars /\ [SessionsNext]_sessionVars
BY DEF Next, gatewayVars

GatewayInv == AccountsInv /\ DraftsInv /\ FormsInv /\ LimiterTypeOK /\ SessionsInv

\* The parts' invariants hold of every behaviour of the Gateway, whichever
\* part it works in, for any number of requests, wallets, keys, nonces and tokens.
THEOREM GatewayInvariant == Spec => []GatewayInv
<1>1. Init => GatewayInv
  <2>1. FormsInit => FormsInv
    BY DEF FormsInit, Unjudged, FormsInv, FormsTypeOK, FormNeverRefused
  <2>. QED  BY <2>1, AccountsStart, DraftsStart, LimiterStart, SessionsStart DEF Init, GatewayInv, LimiterInv
<1>2. GatewayInv /\ [Next]_gatewayVars => GatewayInv'
  <2> SUFFICES ASSUME GatewayInv, [Next]_gatewayVars PROVE GatewayInv'
    OBVIOUS
  <2> QED BY PartsStep, AccountsStep, DraftsStep, FormsStep, LimiterTypes, SessionsStep DEF GatewayInv
<1> QED BY <1>1, <1>2, PTL DEF Spec

\* Every variable of the five parts keeps its type.
THEOREM GatewayTypes == Spec => []GatewayTypeOK
<1>1. GatewayInv => GatewayTypeOK
  BY DEF GatewayInv, AccountsInv, DraftsInv, FormsInv, SessionsInv, GatewayTypeOK
<1> QED BY <1>1, GatewayInvariant, PTL

\* For every length of text, every price, every list of links and every amount within
\* the wallet's balance: what a form lets through, the API's schemas and the database's
\* CHECKs take.  An amount typed before the balance is read they take unless it has
\* more than 39 digits; of an avatar it is the other way round.
THEOREM GatewayFormNeverRefused == Spec => []FormNeverRefused
<1>1. GatewayInv => FormNeverRefused
  BY DEF GatewayInv, FormsInv
<1> QED BY <1>1, GatewayInvariant, PTL

\* For every limit: with two requests in flight, a window lets through at most half
\* of limit * (limit + 3), which one slow request per count can really reach
\* (ratelimit.ts:60-64).
THEOREM GatewayLimiterBound ==
  ASSUME TwoCalls PROVE Spec => []LimiterBound
<1>1. Init => LimiterInv
  BY LimiterStart DEF Init
<1>2. LimiterInv /\ [Next]_gatewayVars => LimiterInv'
  BY PartsStep, LimiterStep
<1>3. ASSUME LimiterInv PROVE LimiterBound
  <2> SUFFICES ASSUME NEW w \in Windows PROVE 2 * admitted[w] <= Limit * (Limit + 3)
    BY DEF LimiterBound
  <2>1. count[w] \in 0 .. Limit + 1 /\ admitted[w] \in Nat
    BY <1>3 DEF LimiterInv, LimiterTypeOK
  <2>2. 2 * admitted[w] + Left(count[w], count[w]) <= Limit * (Limit + 3)
    BY <1>3 DEF LimiterInv, Spare
  <2>3. Left(count[w], count[w]) \in Nat /\ Limit * (Limit + 3) \in Int
    BY <2>1, LeftAtOnce, LimitAssumption
  <2>. QED  BY <2>1, <2>2, <2>3
<1> QED BY <1>1, <1>2, <1>3, PTL DEF Spec

\* A request is answered with a draft of its own sender and key, replayed or not.
THEOREM GatewayReplayIsMine == Spec => []ReplayIsMine
<1>1. GatewayInv => ReplayIsMine
  BY DEF GatewayInv, DraftsInv, Produced, ReplayIsMine
<1> QED BY <1>1, GatewayInvariant, PTL

\* No nonce that a verify request was answered for is left in KV's latest state.
THEOREM GatewayAnsweredNonceIsGone == Spec => []AnsweredNonceIsGone
<1>1. GatewayInv => AnsweredNonceIsGone
  BY DEF GatewayInv, SessionsInv
<1> QED BY <1>1, GatewayInvariant, PTL

\* Every session KV answers with belongs to an account that signed a message
\* naming itself.
THEOREM GatewaySessionIsTheSigners == Spec => []SessionIsTheSigners
<1>1. GatewayInv => SessionIsTheSigners
  BY DEF GatewayInv, SessionsInv
<1> QED BY <1>1, GatewayInvariant, PTL

\* A profile never names an avatar that is not stored.
THEOREM GatewayAvatarExists == Spec => []AvatarExists
<1>1. GatewayInv => AvatarExists
  BY DEF GatewayInv, AccountsInv
<1> QED BY <1>1, GatewayInvariant, PTL

\* A key has two drafts only if its first request was still running when the second
\* came, stopped between the insert and the put, or was not yet remembered where the
\* second looked (idempotency.ts:24-43).
THEOREM GatewayOneDraftPerKey == Spec => []OneDraftPerKey
<1>1. Init => Single
  BY DraftsAssumption DEF Init, DraftsInit, Single, MintsOnce, DraftsOf, Unanswered, Sending,
     NoRequest, NoDraft, StoreKeys
<1>2. GatewayInv /\ Single /\ [Next]_gatewayVars => Single'
  BY PartsStep, SingleStep DEF GatewayInv
<1>3. ASSUME Single PROVE OneDraftPerKey
  <2> SUFFICES ASSUME NEW k \in StoreKeys \ excused PROVE ~(Cardinality(DraftsOf(k)) > 1)
    BY DEF OneDraftPerKey, DraftsOf
  <2>1. CASE DraftsOf(k) = {}
    BY <2>1, FS_EmptySet
  <2>2. CASE DraftsOf(k) # {}
    <3>1. PICK i : i \in DraftsOf(k)
      BY <2>2
    <3>2. DraftsOf(k) = {i}
      BY <3>1, <1>3 DEF Single, MintsOnce
    <3>3. Cardinality({i}) = 1
      BY FS_Singleton
    <3>. QED  BY <3>2, <3>3
  <2>. QED  BY <2>1, <2>2
<1> QED BY <1>1, <1>2, <1>3, GatewayInvariant, PTL DEF Spec

\* A claim is refused as taken only over a handle that is taken or a wallet that has
\* one, and it stays so (profile.ts:32-58).
THEOREM GatewayTakenMeansTaken == Spec => []TakenMeansTaken
<1>1. Init => TakenMeansTaken
  BY DEF Init, AccountsInit, TakenMeansTaken, NoEdit
<1>2. GatewayInv /\ TakenMeansTaken /\ [Next]_gatewayVars => TakenMeansTaken'
  BY PartsStep, TakenStep DEF GatewayInv
<1> QED BY <1>1, <1>2, GatewayInvariant, PTL DEF Spec

\* A column changes only by an update of its owner that names it, however requests
\* of several tabs interleave (profile.ts:65-82, avatar.ts:65-70).
THEOREM GatewayOnlyNamedColumns == Spec => OnlyNamedColumns
<1>1. GatewayInv /\ [Next]_gatewayVars =>
        [\A w \in Wallets : creators[w] # Null =>
           /\ creators'[w] # Null
           /\ \A c \in DOMAIN creators[w] : creators'[w][c] # creators[w][c] =>
                \E e \in Edits : /\ edit[e].at = "update" /\ edit[e].wallet = w
                                 /\ c \in DOMAIN Set(e) /\ creators'[w][c] = Set(e)[c]]_accountVars
  <2> SUFFICES ASSUME GatewayInv, [Next]_gatewayVars, NEW w \in Wallets, creators[w] # Null
               PROVE  /\ creators'[w] # Null
                      /\ \A c \in DOMAIN creators[w] : creators'[w][c] # creators[w][c] =>
                           \E e \in Edits : /\ edit[e].at = "update" /\ edit[e].wallet = w
                                            /\ c \in DOMAIN Set(e) /\ creators'[w][c] = Set(e)[c]
    OBVIOUS
  <2>1. AccountsInv /\ RowsChange
    BY PartsStep, StepChangesRows DEF GatewayInv
  <2> QED BY <2>1, RowsKept, AccountsAssumption
<1> QED BY <1>1, GatewayInvariant, PTL DEF Spec, OnlyNamedColumns
=============================================================================
