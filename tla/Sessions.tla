------------------------------ MODULE Sessions ------------------------------
(***************************************************************************)
(* Signing in with a wallet (SIWE) and the session it opens: the API       *)
(* Worker's auth routes over KV (workers/api/src: routes/auth.ts,          *)
(* auth/session.ts, auth/siwe.ts, auth/middleware.ts) and the browser's    *)
(* side of them (apps/web/app: useSignIn.ts, useMe.ts, SignedInPanel.tsx). *)
(*                                                                         *)
(* KV is eventually consistent: a key has the value last written and the   *)
(* one that another place may still answer with, until it has caught up.   *)
(* A worker stops between any two of its steps, a message is delivered     *)
(* again or its answer is lost, and the user switches account in the       *)
(* wallet while the message waits to be signed.                            *)
(***************************************************************************)
EXTENDS Naturals

CONSTANTS
  Accounts,         \* the accounts of the user's wallet
  ContractAccounts, \* those that are smart-contract wallets (ERC-1271, ERC-6492)
  Nonces, Tokens,   \* bound: nonces and session tokens handed out
  Posts,            \* bound: POST /auth/verify requests in flight at once
  None              \* null

ASSUME SessionsAssumption == ContractAccounts \subseteq Accounts /\ None \notin Accounts \cup Tokens \cup Nonces

VARIABLES
  signing,    \* useSignIn: its step, and its nonce
  cookie,     \* ba_session
  me,         \* the cached answer of GET /me
  signed,     \* the SIWE messages signed so far
  verify,     \* the POST /auth/verify requests
  nonces,     \* KV nonce:*
  sessions,   \* KV session:*
  issued,     \* the nonces and tokens drawn so far
  answered,   \* the nonces a verify request has been answered for
  loggedOut   \* the tokens whose log-out the Worker has handled

client == <<signing, cookie, me, signed>>
kv == <<nonces, sessions, issued>>
past == <<answered, loggedOut>>
sessionVars == <<client, verify, kv, past>>

Messages == [claims : Accounts, by : Accounts, nonce : Nonces]
Idle == [step |-> "idle", nonce |-> None]
NoPost == [at |-> "off", msg |-> None]
Copies(v) == {v.now, v.old}
Write(v, value) == [v EXCEPT !.now = value]
Fresh(S) == CHOOSE x \in S \ issued : TRUE   \* random: which one does not matter

SessionsTypeOK ==
  /\ cookie \in Tokens \cup {None}
  /\ signing \in [step : {"idle", "nonce", "signature", "verifying"},
                  nonce : Nonces \cup {None}]
  /\ signing.nonce = None <=> signing.step \in {"idle", "nonce"}
  /\ me \in Accounts \cup {None}
  /\ signed \subseteq Messages
  /\ verify \in [Posts -> [at : {"off", "delete", "verifySiwe", "open"},
                           msg : Messages \cup {None}]]
  /\ nonces \in [Nonces -> [now : BOOLEAN, old : BOOLEAN]]
  /\ sessions \in [Tokens -> [now : Accounts \cup {None}, old : Accounts \cup {None}]]

SessionsInit ==
  /\ signing = Idle /\ cookie = None /\ me = None /\ signed = {}
  /\ verify = [p \in Posts |-> NoPost]
  /\ nonces = [n \in Nonces |-> [now |-> FALSE, old |-> FALSE]]
  /\ sessions = [t \in Tokens |-> [now |-> None, old |-> None]]
  /\ issued = {} /\ answered = {} /\ loggedOut = {}

-----------------------------------------------------------------------------
(* The browser *)

\* The button of SignInPanel, which is loading while a sign-in is under way.
signIn ==
  /\ signing.step = "idle" /\ me = None
  /\ signing' = [Idle EXCEPT !.step = "nonce"]
  /\ UNCHANGED <<cookie, me, signed, verify, kv, past>>

\* POST /auth/nonce; its answer may be lost.  The slip goes on without it.
issueNonce_slip ==
  /\ signing.step = "nonce" /\ Nonces \ issued # {}
  /\ LET n == Fresh(Nonces) IN
       /\ nonces' = [nonces EXCEPT ![n] = Write(@, TRUE)]
       /\ issued' = issued \cup {n}
       /\ signing' \in {[signing EXCEPT !.step = "signature", !.nonce = x] : x \in {n, None}}
  /\ UNCHANGED <<cookie, me, signed, verify, sessions, past>>
issueNonce ==
  /\ signing.step = "nonce" /\ Nonces \ issued # {}
  /\ LET n == Fresh(Nonces) IN
       /\ nonces' = [nonces EXCEPT ![n] = Write(@, TRUE)]
       /\ issued' = issued \cup {n}
       /\ signing' \in {[signing EXCEPT !.step = "signature", !.nonce = n], Idle}
  /\ UNCHANGED <<cookie, me, signed, verify, sessions, past>>

\* The wallet signs a message that names the address the callback closed over,
\* with the account selected by then.
sign ==
  /\ signing.step = "signature"
  /\ \E address, account \in Accounts :
       signed' = signed \cup {[claims |-> address, by |-> account, nonce |-> signing.nonce]}
  /\ signing' = [signing EXCEPT !.step = "verifying"]
  /\ UNCHANGED <<cookie, me, verify, kv, past>>

\* The signature is declined, or the request fails in transit.
giveUp ==
  /\ signing.step # "idle"
  /\ signing' = Idle
  /\ UNCHANGED <<cookie, me, signed, verify, kv, past>>

\* The session of the cookie, as KV answers here.
readSession(t) == Copies(sessions[t])
requireAuth == IF cookie = None THEN {None} ELSE readSession(cookie)

\* GET /me: requireAuth's 401 is a signed-out user.
getMe ==
  /\ me' \in requireAuth
  /\ UNCHANGED <<signing, cookie, signed, verify, kv, past>>

\* POST /auth/logout; a lost answer leaves the cookie.
destroySession_slip(t) == UNCHANGED sessions
destroySession(t) == sessions' = [sessions EXCEPT ![t] = Write(@, None)]
logout ==
  /\ destroySession(cookie)
  /\ loggedOut' = loggedOut \cup {cookie}
  /\ cookie' \in {cookie, None}

\* The button of SignedInPanel.
signOut ==
  /\ me # None /\ cookie # None
  /\ logout
  /\ UNCHANGED <<signing, me, signed, verify, nonces, issued, answered>>

-----------------------------------------------------------------------------
(* POST /auth/verify *)

Move(p, at) == verify' = [verify EXCEPT ![p].at = at]
Answer(p) ==
  /\ verify' = [verify EXCEPT ![p] = NoPost]
  /\ answered' = answered \cup {verify[p].msg.nonce}

\* The network delivers a signed message, the first time or again, and its nonce
\* is read.  Where none is found the answer is 401 invalid_nonce.
deliver(p) ==
  /\ verify[p].at = "off"
  /\ \E m \in signed :
       /\ TRUE \in Copies(nonces[m.nonce])
       /\ verify' = [verify EXCEPT ![p] = [at |-> "delete", msg |-> m]]
  /\ UNCHANGED <<client, kv, past>>

\* The rest of consumeNonce.  The slip leaves it to a sign-in that verifies.
deleteNonce_slip(p) ==
  /\ verify[p].at = "delete"
  /\ Move(p, "verifySiwe")
  /\ UNCHANGED <<client, kv, past>>
deleteNonce(p) ==
  /\ verify[p].at = "delete"
  /\ nonces' = [nonces EXCEPT ![verify[p].msg.nonce] = Write(@, FALSE)]
  /\ Move(p, "verifySiwe")
  /\ UNCHANGED <<client, sessions, issued, past>>

\* The message's host, chain and time may not be what the API takes.
\* The signer: recovered from the signature, or else the account contract is
\* asked.  No RPC, a failing call and "no" all reject (siwe.ts:84-110).
Recovers(m) == m.by = m.claims /\ m.by \notin ContractAccounts
ContractSays_slip(m, rpc) == ~rpc \/ (m.by = m.claims /\ m.claims \in ContractAccounts)
ContractSays(m, rpc) == rpc /\ m.by = m.claims /\ m.claims \in ContractAccounts

verifySiwe(p) ==
  LET m == verify[p].msg IN
  /\ verify[p].at = "verifySiwe"
  /\ \E fieldsValid, rpc \in BOOLEAN :
       IF fieldsValid /\ (Recovers(m) \/ ContractSays(m, rpc))
         THEN Move(p, "open") /\ UNCHANGED past
         ELSE Answer(p) /\ UNCHANGED loggedOut          \* 401 siwe_failed
  /\ UNCHANGED <<client, kv>>

\* createSession, and the answer that sets the cookie if it arrives in time.
createSession(p) ==
  LET m == verify[p].msg
      t == Fresh(Tokens)
  IN /\ verify[p].at = "open" /\ Tokens \ issued # {}
     /\ sessions' = [sessions EXCEPT ![t] = Write(@, m.claims)]
     /\ issued' = issued \cup {t}
     /\ Answer(p)
     /\ \/ UNCHANGED <<signing, cookie>>
        \/ /\ signing.step = "verifying" /\ signing.nonce = m.nonce
           /\ signing' = Idle
           /\ cookie' = t
     /\ UNCHANGED <<me, signed, nonces, loggedOut>>

\* The worker stops, or a KV call throws: 500, and nothing more is done.
verifyStops(p) ==
  /\ verify[p].at # "off"
  /\ verify' = [verify EXCEPT ![p] = NoPost]
  /\ UNCHANGED <<client, kv, past>>

-----------------------------------------------------------------------------
(* KV *)

\* A key's last write reaches every place.
propagate ==
  /\ \/ \E n \in Nonces : /\ nonces[n].old # nonces[n].now
                          /\ nonces' = [nonces EXCEPT ![n].old = nonces[n].now]
                          /\ UNCHANGED sessions
     \/ \E t \in Tokens : /\ sessions[t].old # sessions[t].now
                          /\ sessions' = [sessions EXCEPT ![t].old = sessions[t].now]
                          /\ UNCHANGED nonces
  /\ UNCHANGED <<client, verify, issued, past>>

\* A TTL runs out: ten minutes for a nonce, a week for a session.
expire ==
  /\ \/ \E n \in Nonces : /\ TRUE \in Copies(nonces[n])
                          /\ nonces' = [nonces EXCEPT ![n] = [now |-> FALSE, old |-> FALSE]]
                          /\ UNCHANGED sessions
     \/ \E t \in Tokens : /\ Copies(sessions[t]) # {None}
                          /\ sessions' = [sessions EXCEPT ![t] = [now |-> None, old |-> None]]
                          /\ UNCHANGED nonces
  /\ UNCHANGED <<client, verify, issued, past>>

SessionsNext ==
  \/ signIn \/ issueNonce \/ sign \/ giveUp \/ getMe \/ signOut
  \/ \E p \in Posts : \/ deliver(p) \/ deleteNonce(p) \/ verifySiwe(p)
                      \/ createSession(p) \/ verifyStops(p)
  \/ propagate \/ expire

-----------------------------------------------------------------------------
(* Properties *)

\* Once a verify request has been answered, with a session or with a refusal,
\* its nonce is gone from KV, so that only a request that read it before, or
\* reads a copy not yet caught up, can still use it (auth.ts:38-40).
AnsweredNonceIsGone == \A n \in answered : ~nonces[n].now

\* A session belongs to an account that signed a message naming
\* itself, whatever the RPC did and whichever account the wallet had switched
\* to (siwe.ts:49-111).
SessionIsTheSigners ==
  \A t \in Tokens : \A a \in Copies(sessions[t]) \ {None} :
    \E m \in signed : m.by = a /\ m.claims = a

\* A session that was logged out stops being found for good, everywhere, though
\* a place that has not caught up answers with it for a while (session.ts:52-66).
LoggedOutEventually ==
  \A t \in Tokens :
    t \in loggedOut ~> [](Copies(sessions[t]) = {None})
=============================================================================
