------------------------------ MODULE Accounts ------------------------------
(***************************************************************************)
(* A creator's account: claiming a handle, editing the profile, uploading  *)
(* an avatar (workers/api/src/routes: profile.ts, avatar.ts), by requests  *)
(* that interleave between their database and object-store calls, from     *)
(* several tabs of one creator or from two creators after one handle.      *)
(*                                                                         *)
(* A request here has passed the limiter, requireAuth and the schema of    *)
(* its body (Limiter, Sessions, Forms).  The reads (GET /me, /board, the   *)
(* avatar itself) show the row or the object as it stands.                 *)
(***************************************************************************)
CONSTANTS
  Wallets,
  Handles,   \* the handles asked for, none of them reserved
  Values,    \* what an editable column may be set to
  Objects,   \* bound: avatars uploaded
  Edits,     \* bound: requests in flight at once
  Null       \* no profile, an avatar not set, a column as the claim left it

VARIABLES
  creators,  \* database: the profiles
  avatars,   \* R2: the objects stored
  edit       \* the requests

accountVars == <<creators, avatars, edit>>

Columns == {"displayName", "minPriceUsdc"}
Creator == [handle : Handles, displayName : Values \cup {Null},
            minPriceUsdc : Values \cup {Null}, avatarUrl : Objects \cup {Null}]
NewCreator(h) == [handle |-> h, displayName |-> Null, minPriceUsdc |-> Null, avatarUrl |-> Null]
ASSUME AccountsAssumption == Null \notin Creator

\* Every field of a profile body is optional, but one is there.
Patches == UNION {[fields -> Values] : fields \in (SUBSET Columns) \ {{}}}
Bodies == [claim : Handles] \cup [profile : Patches] \cup [avatar : Objects]
Kind(e) == CHOOSE k \in {"claim", "profile", "avatar"} : k \in DOMAIN edit[e].body
NoEdit == [at |-> "off", wallet |-> Null, body |-> Null]

Running(e) == edit[e].at \in {"insert", "put", "update"}

AccountsTypeOK ==
  /\ creators \in [Wallets -> Creator \cup {Null}]
  /\ avatars \subseteq Objects
  /\ \A e \in Edits :
       \/ edit[e] = NoEdit
       \/ /\ Running(e) \/ edit[e].at = "handle_taken"
          /\ edit[e].wallet \in Wallets /\ edit[e].body \in Bodies

AccountsInit ==
  /\ creators = [w \in Wallets |-> Null]
  /\ avatars = {}
  /\ edit = [e \in Edits |-> NoEdit]

-----------------------------------------------------------------------------

Proceed(e, at) == edit' = [edit EXCEPT ![e].at = at]
\* An answer ends the request.  The one refusal a property looks at stays shown.
Done(e) == edit' = [edit EXCEPT ![e] = NoEdit]
HandleTaken(e) == edit' = [edit EXCEPT ![e].at = "handle_taken"]
Uploading(o) == \E e \in Edits : Running(e) /\ edit[e].body = [avatar |-> o]

\* A request comes in and reads its wallet's own row: a claim must not find one
\* (409 already_claimed), the others must (404 no_profile).
Arrive(e, w, at, body) ==
  /\ ~Running(e)
  /\ edit' = [edit EXCEPT ![e] = [at |-> at, wallet |-> w, body |-> body]]
  /\ UNCHANGED <<creators, avatars>>
claim(e) ==
  \E w \in Wallets, h \in Handles :
    creators[w] = Null /\ Arrive(e, w, "insert", [claim |-> h])
profile(e) ==
  \E w \in Wallets, p \in Patches :
    creators[w] # Null /\ Arrive(e, w, "update", [profile |-> p])

\* An upload whose declared type, size and leading bytes were found to agree
\* (Forms); it draws a random object key of its own.
avatar(e) ==
  LET unused == {o \in Objects \ avatars : ~Uploading(o)} IN
  \E w \in Wallets :
    /\ creators[w] # Null /\ unused # {}
    /\ Arrive(e, w, "put", [avatar |-> CHOOSE o \in unused : TRUE])

\* The unique index of the handle and the primary key: both say "UNIQUE".
Clash(w, h) == creators[w] # Null \/ \E o \in Wallets : creators[o] # Null /\ creators[o].handle = h
isUniqueViolation_slip(error) == TRUE
isUniqueViolation(error) == error = "UNIQUE constraint failed"

insert(e) ==
  LET w == edit[e].wallet
      h == edit[e].body.claim
      Throws(error) == /\ IF isUniqueViolation(error) THEN HandleTaken(e) ELSE Done(e)
                       /\ UNCHANGED creators
  IN /\ edit[e].at = "insert"
     /\ \/ Clash(w, h) /\ Throws("UNIQUE constraint failed")
        \/ Throws("database unavailable")
        \/ /\ ~Clash(w, h)
           /\ creators' = [creators EXCEPT ![w] = NewCreator(h)]
           /\ Done(e)
     /\ UNCHANGED avatars

\* The slip does not await the object store.
put_slip(e) ==
  /\ edit[e].at = "put"
  /\ avatars' \in {avatars, avatars \cup {edit[e].body.avatar}}
  /\ Proceed(e, "update")
  /\ UNCHANGED creators
put(e) ==
  /\ edit[e].at = "put"
  /\ avatars' = avatars \cup {edit[e].body.avatar}
  /\ Proceed(e, "update")
  /\ UNCHANGED creators

\* What the update sets: the columns the body names, or the avatar's address.
\* The slip clears a column the body leaves out.
Set(e) == IF Kind(e) = "profile" THEN edit[e].body.profile ELSE [avatarUrl |-> edit[e].body.avatar]
patch_slip(e) ==
  [c \in Columns \cup DOMAIN Set(e) |-> IF c \in DOMAIN Set(e) THEN Set(e)[c] ELSE Null]
patch(e) == Set(e)
Assign(row, set) == [c \in DOMAIN row |-> IF c \in DOMAIN set THEN set[c] ELSE row[c]]
update(e) ==
  /\ edit[e].at = "update"
  /\ creators' = [creators EXCEPT ![edit[e].wallet] = Assign(@, patch(e))]
  /\ Done(e)
  /\ UNCHANGED avatars

\* The worker stops, or a store throws: what was written stays written.
editStops(e) ==
  /\ Running(e)
  /\ Done(e)
  /\ UNCHANGED <<creators, avatars>>

AccountsNext ==
  \E e \in Edits : claim(e) \/ profile(e) \/ avatar(e) \/ insert(e) \/ put(e) \/ update(e) \/ editStops(e)

-----------------------------------------------------------------------------
(* Properties *)

\* A claim refused as taken found the handle taken, or its own wallet with a
\* profile by then (profile.ts:51-58: the primary key's violation is reported
\* as the handle's); any other failure is not reported so.
TakenMeansTaken ==
  \A e \in Edits : edit[e].at = "handle_taken" => Clash(edit[e].wallet, edit[e].body.claim)

\* A row, and each of its columns, changes only by a request of its owner that
\* names the column and sets it to that: no request reverts what another tab
\* saved while it ran, a handle is for good (profile.ts:65-82, avatar.ts:65-70).
OnlyNamedColumns ==
  [][\A w \in Wallets : creators[w] # Null =>
       /\ creators'[w] # Null
       /\ \A c \in DOMAIN creators[w] : creators'[w][c] # creators[w][c] =>
            \E e \in Edits : /\ edit[e].at = "update" /\ edit[e].wallet = w
                             /\ c \in DOMAIN Set(e) /\ creators'[w][c] = Set(e)[c]]_accountVars

\* A profile never names an avatar that is not stored, wherever an upload stops
\* and however two of them interleave (avatar.ts:56-70).
AvatarExists ==
  \A w \in Wallets : creators[w] # Null /\ creators[w].avatarUrl # Null =>
    creators[w].avatarUrl \in avatars
=============================================================================
