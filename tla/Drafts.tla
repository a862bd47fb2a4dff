------------------------------- MODULE Drafts -------------------------------
(***************************************************************************)
(* POST /questions with an Idempotency-Key: withIdempotency of             *)
(* packages/worker-kit over KV, and the draft the route mints              *)
(* (workers/api/src/routes/questions.ts).                                  *)
(*                                                                         *)
(* A client sends a request again when it has no answer, whether the first *)
(* one failed, was lost on the way back or is still running.  KV may       *)
(* answer with a copy that has not caught up.  A refusal of the route      *)
(* (chain, handle, price) comes before any of this and changes nothing.    *)
(***************************************************************************)
EXTENDS FiniteSets, Naturals

CONSTANTS
  Askers, Keys,
  Ids,      \* bound: drafts minted
  Sends,    \* bound: requests in flight at once
  NoId      \* no record, no draft

ASSUME DraftsAssumption == NoId \notin Ids \cup Askers \cup Keys

VARIABLES
  draft,    \* questions: whose draft each id is, and for which key
  record,   \* KV idem:*
  send,     \* the requests
  excused   \* the keys a duplicate of which the code does not promise to avoid

draftVars == <<draft, record, send, excused>>

\* The header: without a key, or with a malformed one, nothing is remembered.
Headers == Keys \cup {"malformed"}
parseIdempotencyKey(h) == IF h \in Keys THEN h ELSE NoId

StoreKeys == Askers \X Keys
NoDraft == [asker |-> NoId, key |-> NoId]
NoRequest == [at |-> "off", asker |-> NoId, key |-> NoId, id |-> NoId]
Requests == [at : {"mint", "remember", "answered"},
             asker : Askers, key : Keys \cup {NoId}, id : Ids \cup {NoId}]

DraftsTypeOK ==
  /\ draft \in [Ids -> [asker : Askers, key : Keys \cup {NoId}] \cup {NoDraft}]
  /\ record \in [StoreKeys -> [now : Ids \cup {NoId}, old : Ids \cup {NoId}]]
  /\ send \in [Sends -> Requests \cup {NoRequest}]
  /\ excused \subseteq StoreKeys

DraftsInit ==
  /\ draft = [i \in Ids |-> NoDraft]
  /\ record = [s \in StoreKeys |-> [now |-> NoId, old |-> NoId]]
  /\ send = [s \in Sends |-> NoRequest]
  /\ excused = {}

\* The key is scoped by the session's wallet.
storeKey_slip(w, k) == <<CHOOSE a \in Askers : TRUE, k>>
storeKey(w, k) == <<w, k>>
Mine(s) == <<send[s].asker, send[s].key>>
Sending(s) == send[s].at \in {"mint", "remember"}

Start(s, w, k, found) ==
  send' = [send EXCEPT ![s] = [at |-> IF found = NoId THEN "mint" ELSE "answered",
                               asker |-> w, key |-> k, id |-> found]]

\* A key is sent, the first time or again, and looked up: a record is the
\* answer; without one, and without a key, the request produces.
post(s) ==
  /\ ~Sending(s)
  /\ \E w \in Askers, h \in Headers :
       LET k == parseIdempotencyKey(h)
           r == record[storeKey(w, k)]
           overlaps == \E o \in Sends : Sending(o) /\ Mine(o) = <<w, k>>
       IN IF k = NoId THEN Start(s, w, k, NoId) /\ UNCHANGED excused
          ELSE \E found \in {r.now, r.old} :
            /\ Start(s, w, k, found)
            /\ excused' = IF overlaps \/ found # r.now THEN excused \cup {<<w, k>>} ELSE excused
  /\ UNCHANGED <<draft, record>>

mint(s) ==
  /\ send[s].at = "mint"
  /\ \E i \in Ids : draft[i] = NoDraft
  /\ LET i == CHOOSE i \in Ids : draft[i] = NoDraft IN  \* a random UUID: any fresh one
       /\ draft' = [draft EXCEPT ![i] = [asker |-> send[s].asker, key |-> send[s].key]]
       /\ send' = [send EXCEPT ![s].id = i,
                              ![s].at = IF send[s].key = NoId THEN "answered" ELSE "remember"]
  /\ UNCHANGED <<record, excused>>

\* kv.put.  The slip answers without awaiting it.
remember_slip(s) ==
  /\ send[s].at = "remember"
  /\ \/ record' = [record EXCEPT ![storeKey(send[s].asker, send[s].key)].now = send[s].id]
     \/ UNCHANGED record
  /\ send' = [send EXCEPT ![s].at = "answered"]
  /\ UNCHANGED <<draft, excused>>
remember(s) ==
  /\ send[s].at = "remember"
  /\ record' = [record EXCEPT ![storeKey(send[s].asker, send[s].key)].now = send[s].id]
  /\ send' = [send EXCEPT ![s].at = "answered"]
  /\ UNCHANGED <<draft, excused>>

\* The worker stops or the put throws, after the draft was inserted.
sendStops(s) ==
  /\ Sending(s)
  /\ send' = [send EXCEPT ![s] = NoRequest]
  /\ excused' = IF send[s].at = "remember" THEN excused \cup {Mine(s)} ELSE excused
  /\ UNCHANGED <<draft, record>>

catchUp ==
  /\ \E k \in StoreKeys : /\ record[k].old # record[k].now
                          /\ record' = [record EXCEPT ![k].old = record[k].now]
  /\ UNCHANGED <<draft, send, excused>>

DraftsNext ==
  \/ \E s \in Sends : post(s) \/ mint(s) \/ remember(s) \/ sendStops(s)
  \/ catchUp

-----------------------------------------------------------------------------
(* Properties *)

\* A repeated request mints no second draft, except when the first was still
\* running, stopped between the insert and the put, or its record has not
\* reached the place that looks (idempotency.ts:6-10 names only the first).
OneDraftPerKey ==
  \A k \in StoreKeys :
    Cardinality({i \in Ids : draft[i] = [asker |-> k[1], key |-> k[2]]}) > 1 => k \in excused

\* The id a request is answered with, produced or replayed, is that of a draft
\* of its own sender and key (idempotency.ts:27-31).
ReplayIsMine ==
  \A s \in Sends : send[s].at = "answered" =>
    draft[send[s].id] = [asker |-> send[s].asker, key |-> send[s].key]
=============================================================================
