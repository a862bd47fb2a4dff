------------------------------ MODULE Gateway ------------------------------
(***************************************************************************)
(* The API Worker's parts around the questions, side by side: the limiter  *)
(* in front of its routes, sign-in and sessions, accounts, drafts with an  *)
(* Idempotency-Key, and the judges of what a form sends. They share no     *)
(* state but the stores they run on, in which each has keys or rows of its *)
(* own, so that a step of one changes nothing another reads: a behaviour   *)
(* that works in one part is as good as one that mixes them, and `part`    *)
(* picks which.                                                            *)
(***************************************************************************)
EXTENDS Accounts, Drafts, Forms, Limiter, Sessions

VARIABLE part   \* the part this behaviour works in

gatewayVars == <<part, accountVars, draftVars, judged, limiterVars, sessionVars>>

Init ==
  /\ part \in {"accounts", "drafts", "forms", "limiter", "sessions"}
  /\ AccountsInit /\ DraftsInit /\ FormsInit /\ LimiterInit /\ SessionsInit

Next ==
  /\ UNCHANGED part
  /\ \/ part = "accounts" /\ AccountsNext /\ UNCHANGED <<draftVars, judged, limiterVars, sessionVars>>
     \/ part = "drafts" /\ DraftsNext /\ UNCHANGED <<accountVars, judged, limiterVars, sessionVars>>
     \/ part = "forms" /\ FormsNext /\ UNCHANGED <<accountVars, draftVars, limiterVars, sessionVars>>
     \/ part = "limiter" /\ LimiterNext /\ UNCHANGED <<accountVars, draftVars, judged, sessionVars>>
     \/ part = "sessions" /\ SessionsNext /\ UNCHANGED <<accountVars, draftVars, judged, limiterVars>>

Spec == Init /\ [][Next]_gatewayVars

\* Requests keep coming, the limiter's store is not down for good and time
\* passes; KV catches up.  Nobody has to sign in, answer or come back.
Fairness ==
  /\ \A c \in Calls : /\ SF_limiterVars(part = "limiter" /\ consume(c))
                      /\ SF_limiterVars(part = "limiter" /\ charge(c))
  /\ WF_limiterVars(part = "limiter" /\ nextWindow)
  /\ WF_sessionVars(part = "sessions" /\ propagate)
FairSpec == Spec /\ Fairness

GatewayTypeOK ==
  AccountsTypeOK /\ DraftsTypeOK /\ FormsTypeOK /\ LimiterTypeOK /\ SessionsTypeOK

-----------------------------------------------------------------------------
(* Properties *)

\* However hard one address is used, it is served again: refreshing the TTL on
\* every hit (ratelimit.ts:62-64) does not carry a count into the next window.
LimiterRecovers == []<>(part = "limiter" => \E c \in Calls : call[c].at = "next")
=============================================================================
