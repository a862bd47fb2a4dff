----------------------------- MODULE MCCheckout -----------------------------
(***************************************************************************)
(* The checkout's run leaves out behaviours that differ from one it checks *)
(* only in the order of steps that nothing tells apart: the questions are  *)
(* interchangeable, and a session that expires or a draft that is swept    *)
(* matters to nobody until it is looked at.  Of the steps that Fairness    *)
(* asks for only a create that names the other question is left out, and   *)
(* its mirror image is there: no behaviour is lost for being unfair.       *)
(***************************************************************************)
EXTENDS Checkout

FirstId == CHOOSE id \in Ids : TRUE

\* The questions are minted in one order.
MintedInOrder ==
  \A id \in Ids \ {FirstId} : row'[id] # "unminted" => row'[FirstId] # "unminted"

\* The session expires at the last moment: an attempt is about to use it.
ExpiresWhenUsed ==
  session' # session => \E s \in Runs : run[s].at \in {"create", "indexLoop"}

\* A draft is swept at the last moment: its payment could be indexed.  One that is
\* never paid for is never swept, as its row stays unpaid to whoever reads it.
SweptWhenPaid ==
  \A id \in Ids : row'[id] = "swept" /\ row[id] # "swept" => Paid(id)

InOrder == MintedInOrder /\ ExpiresWhenUsed /\ SweptWhenPaid
=============================================================================
