------------------------------- MODULE Forms -------------------------------
(***************************************************************************)
(* The three places that judge what a user types: the web app's forms, the *)
(* API's schemas (workers/api/src: schemas.ts, lib/handles.ts,             *)
(* lib/images.ts) and the CHECK constraints of the database                *)
(* (packages/shared/src/db/schema.ts), each with code of its own.          *)
(*                                                                         *)
(* A text is its length once trimmed, in UTF-16 units as JavaScript counts *)
(* them, the blanks around it, and whether all of it is surrogate pairs,   *)
(* each of which the database counts as one.  A price is a number of base  *)
(* units, the decimals typed and the zeros in front.                       *)
(***************************************************************************)
EXTENDS Integers

CONSTANTS
  Lengths,     \* bound: the lengths tried, at least those around every limit
  Amounts,     \* bound: the base units tried
  MinPrice, MaxPrice, \* 1 and 10,000 USDC: what lies between them is alike
  MaxAmount    \* the largest number of 39 digits

ASSUME FormsAssumption ==
  /\ Lengths \subseteq Nat /\ Amounts \subseteq Nat
  /\ MinPrice \in Nat \ {0} /\ MaxPrice \in Nat
  /\ MaxAmount \in Nat /\ MaxPrice <= MaxAmount

VARIABLE judged   \* the input last tried: its form, and both verdicts on it

Texts == [len : Lengths, pad : {0, 1}, pairs : BOOLEAN]
RawLength(t) == t.len + t.pad
DbLength(t) == IF t.pairs THEN (t.len + 1) \div 2 ELSE t.len
\* An Input or a Textarea with a maxLength takes no more than that.
Typed(maxLength) == {t \in Texts : RawLength(t) <= maxLength}
\* zod: z.string().trim().min(min).max(max).
Schema(t, min, max) == t.len >= min /\ t.len <= max
Check(t, min, max) == DbLength(t) >= min /\ DbLength(t) <= max

-----------------------------------------------------------------------------
(* Handles *)

HandleTexts == [len : Lengths, pad : {0, 1}, letters : {"lower", "upper", "other"}, reserved : BOOLEAN]
normalizeHandle(h) ==
  [h EXCEPT !.pad = 0, !.letters = IF @ = "upper" THEN "lower" ELSE @]
HANDLE_REGEX_slip(h) == h.pad = 0 /\ h.letters = "lower" /\ h.len \in 3 .. 29
HANDLE_REGEX(h) == h.pad = 0 /\ h.letters = "lower" /\ h.len \in 3 .. 30

\* The form's own rule, and the API's: handleSchema, then the reserved names.
validateHandle(raw) ==
  LET h == normalizeHandle(raw) IN
    h.len >= 3 /\ h.len <= 30 /\ h.letters = "lower" /\ ~h.reserved
claimAccepts(raw) ==
  LET h == normalizeHandle(raw) IN HANDLE_REGEX(h) /\ ~h.reserved
handleFits(h) == h.len \in 3 .. 30 /\ h.letters = "lower"

-----------------------------------------------------------------------------
(* Prices *)

Displays == [units : Amounts, decimals : {0, 6, 7}, zeros : {0, 40}]
BaseText(units, zeros) == [units |-> units, zeros |-> zeros]
\* Up to six decimals; BigInt drops the zeros in front.
parses(d) == d.decimals <= 6
parseUsdc(d) == BaseText(d.units, 0)
validatePrice(d) ==
  parses(d) /\ parseUsdc(d).units >= MinPrice /\ parseUsdc(d).units <= MaxPrice
minPriceSchema(b) == b.units >= MinPrice /\ b.units <= MaxPrice
\* Any zeros in front are forty.
AtMost39Digits(b) == b.zeros = 0 /\ b.units <= MaxAmount
isBaseUnits(b) == AtMost39Digits(b)
minPriceFits(b) == isBaseUnits(b) /\ b.units >= MinPrice /\ b.units <= MaxPrice

-----------------------------------------------------------------------------
(* Links: a list is some rows alike, and some left blank *)

Urls == [len : Lengths, pad : {0, 1}, scheme : {"http", "other", "none"}]
LinkRows == [label : Typed(30), url : Urls]
isValidUrl(u) == u.len <= 200 /\ u.scheme = "http"
Blank(r) == r.label.len = 0 /\ r.url.len = 0
validateLinks(r, n) ==
  Blank(r) \/ /\ r.label.len > 0 /\ r.label.len <= 30
              /\ r.url.len > 0 /\ isValidUrl(r.url)
              /\ n <= 10
linkSchema(r) ==
  Schema(r.label, 1, 30) /\ r.url.len <= 200 /\ r.url.scheme = "http"
\* Rows left blank are not sent; neither is an empty list.
linksAccept(r, n) == Blank(r) \/ (n <= 10 /\ linkSchema(r))

-----------------------------------------------------------------------------
(* The forms: does the form let an input through, and would the server take it? *)

\* long is kept for an amount that no balance has bounded.
Unjudged == [form |-> "none", lets |-> FALSE, takes |-> FALSE, long |-> FALSE]
Judge(form, lets, takes) ==
  judged' = [form |-> form, lets |-> lets, takes |-> takes, long |-> FALSE]

FormsTypeOK ==
  judged \in [form : {"none", "handle", "claimName", "displayName", "headline", "bio",
                      "price", "links", "question", "amount", "amountUnread", "answer", "avatar"},
              lets : BOOLEAN, takes : BOOLEAN, long : BOOLEAN]
FormsInit == judged = Unjudged

\* ClaimHandleForm: the display name is sent if there is one.
claimForm == \E h \in HandleTexts :
  Judge("handle", validateHandle(h), claimAccepts(h) /\ handleFits(normalizeHandle(h)))
claimName == \E t \in Typed(50) :
  Judge("claimName", TRUE, t.len = 0 \/ (Schema(t, 1, 50) /\ Check(t, 1, 50)))

\* ProfileEditor: a name, and a headline and a bio that may be cleared.
displayName == \E t \in Typed(50) :
  Judge("displayName", t.len > 0 /\ t.len <= 50, Schema(t, 1, 50) /\ Check(t, 1, 50))
headline == \E t \in Typed(80) :
  Judge("headline", TRUE, t.len = 0 \/ (Schema(t, 0, 80) /\ Check(t, 0, 80)))
bio == \E t \in Typed(500) :
  Judge("bio", TRUE, t.len = 0 \/ (Schema(t, 0, 500) /\ Check(t, 0, 500)))
price == \E d \in Displays :
  Judge("price", validatePrice(d), minPriceSchema(parseUsdc(d)) /\ minPriceFits(parseUsdc(d)))
links == \E r \in LinkRows, n \in 1 .. 11 :
  Judge("links", validateLinks(r, n), linksAccept(r, n))

\* AskComposer.
question == \E t \in Typed(2000) :
  Judge("question", t.len > 0 /\ RawLength(t) <= 2000, Schema(t, 1, 2000) /\ Check(t, 1, 2000))
amountUsdcSchema(b) == AtMost39Digits(b) /\ b.units > 0
priceGate(b, min) == b.units >= min
\* Against the minimum price the page has loaded, and the wallet's balance, which is
\* within 39 digits: every amount is, that the token could hold.
amountAccepts(d, min) == amountUsdcSchema(parseUsdc(d)) /\ priceGate(parseUsdc(d), min)
amount ==
  \E d \in Displays, min \in MinPrice .. MaxPrice, balance \in {n \in Amounts : n <= MaxAmount} :
    LET units == parseUsdc(d).units IN
      Judge("amount", parses(d) /\ units >= min /\ units <= balance, amountAccepts(d, min))
\* While the balance is not read yet, or cannot be, nothing bounds the amount.
amountUnread ==
  \E d \in Displays, min \in MinPrice .. MaxPrice :
    LET units == parseUsdc(d).units IN
      judged' = [form |-> "amountUnread", lets |-> parses(d) /\ units >= min,
                 takes |-> amountAccepts(d, min), long |-> units > MaxAmount]
\* AnswerPanel.
answer == \E t \in Typed(5000) :
  Judge("answer", t.len > 0 /\ RawLength(t) <= 5000, Schema(t, 1, 5000) /\ Check(t, 1, 5000))

-----------------------------------------------------------------------------
(* Avatars: the picker looks at the name's type and the size, the route at  *)
(* the bytes as well                                                        *)

ImageTypes == {"image/png", "image/jpeg", "image/webp"}
Files == [declared : ImageTypes \cup {"other"}, bytes : ImageTypes \cup {"other"},
          size : {"empty", "fits", "over 5 MB"}]
onPick(f) == f.declared \in ImageTypes /\ f.size # "over 5 MB"
sniffImageType(f) == IF f.size = "empty" \/ f.bytes \notin ImageTypes THEN "null" ELSE f.bytes
avatarAccepts(f) ==
  f.declared \in ImageTypes /\ f.size = "fits" /\ sniffImageType(f) = f.declared
picker == \E f \in Files : Judge("avatar", onPick(f), avatarAccepts(f))

\* The user types something, and clears the field again.
clearField == judged # Unjudged /\ judged' = Unjudged
FormsNext ==
  \/ /\ judged = Unjudged
     /\ \/ claimForm \/ claimName \/ displayName \/ headline \/ bio \/ price \/ links
        \/ question \/ amount \/ amountUnread \/ answer \/ picker
  \/ clearField

-----------------------------------------------------------------------------
(* Properties *)

\* What a form lets through the API's schemas accept, and what they accept from
\* it passes the CHECKs: no one is told by the form that a text is fine and by
\* the server that it is not (handle.ts:1-5, usdc.ts:1-6, ProfileEditor.tsx:1-6,
\* schemas.ts:1-4).  Two forms are not so strict.  The composer sets no maximum:
\* before the balance is read it lets an amount of 40 digits and more go to an
\* API that refuses it (AskComposer.tsx:65-74, schemas.ts:73-79), and only that.
\* Of an avatar the API is the stricter judge, and the picker keeps back nothing
\* it would take.
FormNeverRefused ==
  CASE judged.form = "avatar" -> judged.takes => judged.lets
    [] judged.form = "amountUnread" -> judged.lets => judged.takes \/ judged.long
    [] OTHER -> judged.lets => judged.takes
=============================================================================
