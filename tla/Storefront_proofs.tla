------------------------- MODULE Storefront_proofs -------------------------
(***************************************************************************)
(* A card never has two purchases in flight, for any products, variants    *)
(* and number of submissions (OnePurchasePerCard of Storefront).           *)
(*                                                                         *)
(* Two flags guard a submission: the buttons of the card look at           *)
(* card.buying, the button of the dialog at card.activating only, and the  *)
(* dialog may be cancelled while either is set.  The invariant Owned says  *)
(* why that is enough: whatever is in flight raised the flag that the next *)
(* submission of this product will look at.                                *)
(***************************************************************************)
EXTENDS Storefront, FiniteSetTheorems, TLAPS

\* The part of TypeOK the argument needs.
Typed ==
  /\ product \in Products /\ card \in CardType /\ probe \in Macs \cup {NoMac}

\* A purchase in flight keeps its card busy, and where there is a dialog it
\* came through the dialog, whose own flag is up until it is answered.
Owned ==
  /\ viaModal \subseteq mine
  /\ card.modal => product.kind \in Asking
  /\ mine # {} => card.buying
  /\ mine # {} /\ product.kind \in Asking => mine = viaModal /\ card.activating
  /\ OnePurchasePerCard

CardInv == Typed /\ Owned

-----------------------------------------------------------------------------

LEMMA MaxQuantityType == MaxQuantity \in Nat /\ MaxQuantity > 0
<1>1. MaxQuantity \in Nat \ {0}
  BY Zenon, StorefrontAssumption
<1>2. QED  BY <1>1

\* The card a page is mounted with is a card.
LEMMA FreshCardType ==
  ASSUME NEW p \in Products PROVE FreshCard(p) \in CardType
<1>1. p.variants \in Seq(Variants)
  BY StorefrontAssumption
<1>2. p.variants # <<>> => p.variants[1] \in Variants
  BY <1>1
<1>3. 1 \in 1..MaxQuantity
  BY MaxQuantityType
<1>4. QED  BY <1>2, <1>3 DEF FreshCard, CardType

\* The quantity box keeps what is typed within its limits.
LEMMA ClampType ==
  ASSUME NEW n \in Int PROVE Clamp(n) \in 1..MaxQuantity
BY MaxQuantityType DEF Clamp

\* Leaving a page leaves a fresh card, which owns nothing.
LEMMA GoToInv ==
  ASSUME Typed, NEW at, NEW o, GoTo(at, o), product' = product PROVE CardInv'
<1>1. /\ card' = FreshCard(product) /\ probe' = NoMac
      /\ mine' = {} /\ viaModal' = {}
  BY DEF GoTo
<1>2. FreshCard(product) \in CardType
  BY FreshCardType DEF Typed
<1>3. Typed'
  BY <1>1, <1>2 DEF Typed
<1>4. ~FreshCard(product).modal
  BY DEF FreshCard
<1>5. Owned'
  BY <1>1, <1>4 DEF Owned, OnePurchasePerCard
<1>6. QED  BY <1>3, <1>5 DEF CardInv

\* A step that leaves the flags and the submissions alone leaves Owned alone.
LEMMA SameOwner ==
  ASSUME Owned, product' = product, UNCHANGED own,
         card'.buying = card.buying, card'.activating = card.activating,
         card'.modal => product.kind \in Asking
  PROVE  Owned'
BY DEF Owned, own, OnePurchasePerCard

\* A submission of a card with nothing in flight is the only one.
LEMMA SubmitOwned ==
  ASSUME Typed, Owned, mine = {}, NEW c \in CardType, NEW v, NEW n, Submit(c, v, n),
         product' = product, c.modal = card.modal,
         product.kind \in Asking => card.modal /\ c.activating
  PROVE  Owned' /\ card' \in CardType
<1>1. PICK o \in Orders : /\ mine' = mine \cup {o}
                          /\ viaModal' = IF card.modal THEN viaModal \cup {o} ELSE viaModal
                          /\ card' = [c EXCEPT !.buying = TRUE]
  <2>1. (CHOOSE x \in Orders : stage[x] = "unused") \in Orders
    BY DEF Submit
  <2>2. QED  BY <2>1 DEF Submit
<1>2. /\ card' \in CardType /\ card'.buying
      /\ card'.modal = c.modal /\ card'.activating = c.activating
  BY <1>1 DEF CardType
<1>3. mine' = {o} /\ viaModal \subseteq {}
  BY <1>1 DEF Owned
<1>4. card.modal => viaModal' = {o}
  BY <1>1, <1>3
<1>5. viaModal' \subseteq mine'
  BY <1>1, <1>3
<1>6. OnePurchasePerCard'
  BY <1>3 DEF OnePurchasePerCard
<1>7. (product.kind \in Asking)' = (product.kind \in Asking)
  OBVIOUS
<1>8. Owned'
  BY <1>2, <1>3, <1>4, <1>5, <1>6, <1>7 DEF Owned
<1>9. QED  BY <1>2, <1>8

\* The answer of a purchase lowers the flags only of the card that made it,
\* which then has none in flight.
LEMMA AnswerInv ==
  ASSUME Typed, Owned, NEW o, card' = CatchAndFinally(o), product' = product,
         probe' = probe, mine' = mine \ {o}, viaModal' = viaModal \ {o}
  PROVE  CardInv'
<1>1. CASE o \notin mine
  <2>1. card' = card /\ mine' = mine /\ viaModal' = viaModal
    BY <1>1 DEF CatchAndFinally, Owned
  <2>2. Owned'
    BY <2>1, SameOwner DEF Owned, own
  <2>3. QED  BY <2>1, <2>2 DEF CardInv, Typed
<1>2. CASE o \in mine
  <2>1. mine' = {} /\ viaModal' = {}
    BY <1>2 DEF Owned, OnePurchasePerCard
  <2>2. card' = [card EXCEPT !.buying = FALSE,
                             !.error = IF o \in viaModal THEN TRUE ELSE @,
                             !.activating = IF o \in viaModal THEN FALSE ELSE @]
    BY <1>2 DEF CatchAndFinally
  <2>3. card' \in CardType /\ card'.modal = card.modal
    BY <2>2 DEF CardType, Typed
  <2>4. Owned'
    BY <2>1, <2>3 DEF Owned, OnePurchasePerCard
  <2>5. QED  BY <2>3, <2>4 DEF CardInv, Typed
<1>3. QED  BY <1>1, <1>2

-----------------------------------------------------------------------------
(* The actions *)

LEMMA InitInv == Init => CardInv
<1> SUFFICES ASSUME Init PROVE CardInv  OBVIOUS
<1>1. product \in Products /\ card = FreshCard(product) /\ probe = NoMac
      /\ mine = {} /\ viaModal = {}
  BY DEF Init
<1>2. card \in CardType
  BY <1>1, FreshCardType
<1>3. ~card.modal
  BY <1>1 DEF FreshCard
<1>4. QED  BY <1>1, <1>2, <1>3 DEF CardInv, Typed, Owned, OnePurchasePerCard

LEMMA UseCardInv == CardInv /\ UseCard => CardInv'
<1> SUFFICES ASSUME Typed, Owned, UseCard PROVE CardInv'  BY DEF CardInv
<1> USE DEF Typed
<1>1. CASE \E v \in Variants : PickVariant(v)
  <2> PICK v \in Variants : PickVariant(v)  BY <1>1
  <2>1. /\ card' = [card EXCEPT !.variant = v] /\ UNCHANGED <<product, probe, own>>
    BY DEF PickVariant, Rest
  <2>2. /\ card' \in CardType /\ card'.buying = card.buying
        /\ card'.activating = card.activating /\ card'.modal = card.modal
    BY <2>1 DEF CardType
  <2>3. Owned'
    BY <2>1, <2>2, SameOwner DEF Owned
  <2>4. QED  BY <2>1, <2>2, <2>3 DEF CardInv
<1>2. CASE \E n \in 0..(MaxQuantity + 1) : TypeQuantity(n)
  <2> PICK n \in 0..(MaxQuantity + 1) : TypeQuantity(n)  BY <1>2
  <2>1. /\ card' = [card EXCEPT !.qty = Clamp(n)] /\ UNCHANGED <<product, probe, own>>
    BY DEF TypeQuantity, Rest
  <2>2. Clamp(n) \in 1..MaxQuantity
    BY ClampType, MaxQuantityType
  <2>3. /\ card' \in CardType /\ card'.buying = card.buying
        /\ card'.activating = card.activating /\ card'.modal = card.modal
    BY <2>1, <2>2 DEF CardType
  <2>4. Owned'
    BY <2>1, <2>3, SameOwner DEF Owned
  <2>5. QED  BY <2>1, <2>3, <2>4 DEF CardInv
<1>3. CASE BuyNow
  <2>1. /\ ~card.buying /\ ~card.modal /\ product.kind \notin Asking
        /\ Submit(card, card.variant, card.qty) /\ UNCHANGED <<product, probe>>
    BY <1>3 DEF BuyNow, CanBuy, OnCard, Rest
  <2>2. mine = {}
    BY <2>1 DEF Owned
  <2>3. Owned' /\ card' \in CardType
    BY <2>1, <2>2, SubmitOwned
  <2>4. QED  BY <2>1, <2>3 DEF CardInv
<1>4. CASE OpenDialog
  <2>1. /\ product.kind \in Asking /\ UNCHANGED <<product, probe, own>>
    BY <1>4 DEF OpenDialog, Rest
  <2>2. InitialDuration \in {"year", "forever"}
    BY DEF InitialDuration
  <2>3. /\ card' \in CardType /\ card'.buying = card.buying
        /\ card'.activating = card.activating
    BY <1>4, <2>2 DEF CardType, OpenDialog
  <2>4. Owned'
    BY <2>1, <2>3, SameOwner
  <2>5. QED  BY <2>1, <2>3, <2>4 DEF CardInv
<1>5. QED  BY <1>1, <1>2, <1>3, <1>4 DEF UseCard

LEMMA UseDialogInv == CardInv /\ UseDialog => CardInv'
<1> SUFFICES ASSUME Typed, Owned, UseDialog PROVE CardInv'  BY DEF CardInv
<1> USE DEF Typed
<1>0. ASSUME /\ card' \in CardType /\ probe' \in Macs \cup {NoMac}
             /\ card'.buying = card.buying /\ card'.activating = card.activating
             /\ card'.modal => card.modal
             /\ UNCHANGED <<product, own>>
      PROVE  CardInv'
  <2>1. Owned'
    BY <1>0, SameOwner DEF Owned
  <2>2. QED  BY <1>0, <2>1 DEF CardInv
<1>1. CASE \E m \in Macs \cup {""} : TypeMac(m)
  BY <1>0, <1>1 DEF TypeMac, TypedCheck, CardType, Rest
<1>2. CASE CheckDevice
  <2>1. UNCHANGED <<product, own>>
    BY <1>2 DEF CheckDevice, Rest
  <2>2. CASE card.mac \in Macs
    <3>1. card' = [card EXCEPT !.checking = TRUE, !.check = ""] /\ probe' = card.mac
      BY <1>2, <2>2 DEF CheckDevice
    <3>2. QED  BY <1>0, <2>1, <2>2, <3>1 DEF CardType
  <2>3. CASE card.mac \notin Macs
    <3>1. card' = [card EXCEPT !.check = "malformed"] /\ probe' = probe
      BY <1>2, <2>3 DEF CheckDevice
    <3>2. QED  BY <1>0, <2>1, <3>1 DEF CardType
  <2>4. QED  BY <2>2, <2>3
<1>3. CASE CheckReply
  BY <1>0, <1>3 DEF CheckReply, CardType, Rest
<1>4. CASE \E d \in {"year", "forever"} : ChooseDuration(d)
  BY <1>0, <1>4 DEF ChooseDuration, CardType, Rest
<1>5. CASE \E chosen \in BOOLEAN : ChooseOption(chosen)
  BY <1>0, <1>5 DEF ChooseOption, CardType, Rest
<1>6. CASE OptionsReply
  BY <1>0, <1>6 DEF OptionsReply, CardType, Rest
<1>7. CASE OptionsFail
  BY <1>0, <1>7 DEF OptionsFail, FailedOptions, CardType, Rest
<1>8. CASE SubmitDialog
  <2>1. /\ card.modal /\ ~card.activating /\ UNCHANGED <<product, probe>>
    BY <1>8 DEF SubmitDialog, InDialog, Rest
  <2>2. mine = {}
    BY <2>1 DEF Owned
  <2>3. CASE Complete
    <3> DEFINE c == [card EXCEPT !.error = FALSE, !.activating = TRUE]
    <3>1. Submit(c, Chosen, Units)
      BY <1>8, <2>3 DEF SubmitDialog
    <3>2. c \in CardType /\ c.modal = card.modal /\ c.activating
      BY DEF CardType
    <3> HIDE DEF c
    <3>3. Owned' /\ card' \in CardType
      BY <2>1, <2>2, <3>1, <3>2, SubmitOwned
    <3>4. QED  BY <2>1, <3>3 DEF CardInv
  <2>4. CASE ~Complete
    BY <1>0, <1>8, <2>1, <2>4 DEF SubmitDialog, Rejected, CardType
  <2>5. QED  BY <2>3, <2>4
<1>9. CASE CancelDialog
  BY <1>0, <1>9 DEF CancelDialog, CardType, Rest
<1>10. QED
  BY <1>1, <1>2, <1>3, <1>4, <1>5, <1>6, <1>7, <1>8, <1>9 DEF UseDialog

LEMMA SameInv == CardInv /\ UNCHANGED <<product, dialog, own>> => CardInv'
BY DEF CardInv, Typed, Owned, OnePurchasePerCard, dialog, own

LEMMA UsePagesInv == CardInv /\ UsePages => CardInv'
<1> SUFFICES ASSUME CardInv, UsePages PROVE CardInv'  OBVIOUS
<1>0. Typed
  BY DEF CardInv
<1>1. CASE \E at \in {"products", "orders"} : OpenPage(at)
  BY <1>0, <1>1, GoToInv DEF OpenPage
<1>2. CASE HistoryReply
  BY <1>2, SameInv DEF HistoryReply
<1>3. CASE \E o \in Orders : ViewReceipt(o)
  BY <1>0, <1>3, GoToInv DEF ViewReceipt
<1>4. CASE \E o \in Orders : ReceiptReply(o) \/ ReceiptLost(o)
  BY <1>4, SameInv DEF ReceiptReply, ReceiptLost
<1>5. CASE \E p \in polls : StatusReply(p)
  <2> PICK p \in polls : StatusReply(p)  BY <1>5
  <2>1. UNCHANGED product
    BY DEF StatusReply
  <2>2. GoTo("receipt", p.of) \/ UNCHANGED <<dialog, own>>
    BY DEF StatusReply
  <2>3. QED  BY <1>0, <2>1, <2>2, GoToInv, SameInv
<1>6. CASE \E p \in polls : StatusLost(p) \/ StatusTimer(p) \/ StrayReply(p)
  BY <1>6, SameInv DEF StatusLost, StatusTimer, StrayReply, Dismiss
<1>7. QED  BY <1>1, <1>2, <1>3, <1>4, <1>5, <1>6 DEF UsePages

LEMMA BuyingInv == CardInv /\ Buying => CardInv'
<1> SUFFICES ASSUME CardInv, Buying PROVE CardInv'  OBVIOUS
<1>0. Typed /\ Owned
  BY DEF CardInv
<1> PICK o \in Orders : Bought(o) \/ Denied(o) \/ Unsure(o) \/ Reserve(o) \/ Refuse(o)
                        \/ TakeOver(o) \/ Fulfil(o)
  BY DEF Buying
<1>1. CASE Bought(o)
  BY <1>0, <1>1, GoToInv DEF Bought
<1>2. CASE Denied(o) \/ Unsure(o)
  <2>1. /\ card' = CatchAndFinally(o) /\ product' = product /\ probe' = probe
        /\ mine' = mine \ {o} /\ viaModal' = viaModal \ {o}
    BY <1>2 DEF Denied, Unsure
  <2>2. QED  BY <1>0, <2>1, AnswerInv
<1>3. CASE Reserve(o) \/ Refuse(o) \/ TakeOver(o) \/ Fulfil(o)
  BY <1>3, SameInv DEF Reserve, Refuse, TakeOver, Fulfil, Browser
<1>4. QED  BY <1>1, <1>2, <1>3

-----------------------------------------------------------------------------

\* The strengthening is inductive: what is in flight raised the flag that the
\* next submission of its card looks at.
THEOREM OwnedAlways == Spec => []CardInv
<1>1. CardInv /\ [Next]_vars => CardInv'
  <2>1. CardInv /\ UNCHANGED vars => CardInv'
    BY SameInv DEF vars
  <2>2. QED  BY <2>1, UseCardInv, UseDialogInv, UsePagesInv, BuyingInv DEF Next
<1>2. QED  BY <1>1, InitInv, PTL DEF Spec

\* A card has at most one purchase in flight (ProductCard.jsx guards the card
\* by isBuying and the dialog by isActivating), for all values of the constants.
THEOREM CardBuysOnce == Spec => []OnePurchasePerCard
<1>1. CardInv => OnePurchasePerCard
  BY DEF CardInv, Owned
<1>2. QED  BY <1>1, OwnedAlways, PTL
-----------------------------------------------------------------------------
(* The orders at the service, and what the card knows of them *)

\* An order exists only once its submission was accepted; closed, it is delivered in
\* full, or by hand, or failed and, where there is a provider, nothing of it is charged.
OrderOK(o) ==
  /\ creds[o] <= quantity[o]
  /\ stage[o] \in {"unused", "sent", "refused"} => state[o] = "NONE"
  /\ state[o] = "NONE" => quantity[o] = 0
  /\ state[o] = "COMPLETED" =>
       \/ creds[o] = quantity[o] /\ creds[o] > 0
       \/ terms[o].kind = "whatsapp" /\ creds[o] = 0
  /\ state[o] = "FAILED" /\ terms[o].kind # "none" => quantity[o] = 0

ServiceInv ==
  /\ terms \in [Orders -> [reseller : {Buyer}, kind : Services]]
  /\ state \in [Orders -> {"NONE", "OPEN", "COMPLETED", "FAILED"}]
  /\ quantity \in [Orders -> 0..MaxQuantity] /\ creds \in [Orders -> 0..MaxQuantity]
  /\ \A o \in Orders : OrderOK(o)

Body == [variant : Variants, qty : 1..MaxQuantity]

CallInv ==
  /\ stage \in [Orders -> {"unused", "sent", "refused", "inline", "taken", "queued"}]
  /\ client \in [Orders -> {"none", "waiting", "told", "denied", "unsure"}]
  /\ ask \in [Orders -> Body \cup {NoAsk}]
  /\ mine \subseteq Orders
  /\ \A o \in Orders :
       /\ stage[o] = "sent" => ask[o] \in Body
       /\ client[o] = "denied" => stage[o] \in {"refused", "taken"} \/ state[o] = "FAILED"

\* A closed order stays as it is.
Closed(o) == state[o] \in {"COMPLETED", "FAILED"}
Frozen == \A o \in Orders : Closed(o) =>
  state'[o] = state[o] /\ quantity'[o] = quantity[o] /\ creds'[o] = creds[o]

LEMMA SameService ==
  ASSUME ServiceInv, UNCHANGED <<product, stage, service>> PROVE ServiceInv' /\ Frozen
BY DEF service, ServiceInv, OrderOK, Frozen

\* One order moves; the rest stay as they are.
LEMMA OneOrder ==
  ASSUME ServiceInv, NEW o \in Orders, NEW s \in {"OPEN", "COMPLETED", "FAILED"},
         NEW n \in 0..MaxQuantity, NEW k \in 0..MaxQuantity,
         state' = [state EXCEPT ![o] = s], quantity' = [quantity EXCEPT ![o] = n],
         creds' = [creds EXCEPT ![o] = k], UNCHANGED <<product, terms>>,
         \A x \in Orders \ {o} : stage'[x] = stage[x],
         ~Closed(o), OrderOK(o)'
  PROVE  ServiceInv' /\ Frozen
<1>1. /\ state' \in [Orders -> {"NONE", "OPEN", "COMPLETED", "FAILED"}]
      /\ \A x \in Orders \ {o} : state'[x] = state[x]
  BY DEF ServiceInv
<1>2. /\ quantity' \in [Orders -> 0..MaxQuantity]
      /\ \A x \in Orders \ {o} : quantity'[x] = quantity[x]
  BY DEF ServiceInv
<1>3. /\ creds' \in [Orders -> 0..MaxQuantity]
      /\ \A x \in Orders \ {o} : creds'[x] = creds[x]
  BY DEF ServiceInv
<1>4. ASSUME NEW x \in Orders PROVE OrderOK(x)'
  <2>1. CASE x = o
    BY <2>1
  <2>2. CASE x # o
    BY <1>1, <1>2, <1>3, <2>2 DEF ServiceInv, OrderOK
  <2>3. QED  BY <2>1, <2>2
<1>5. Frozen
  BY <1>1, <1>2, <1>3 DEF Frozen
<1>6. QED  BY <1>1, <1>2, <1>3, <1>4, <1>5 DEF ServiceInv

\* What OneOrder asks of an order that moves.
LEMMA OrderFacts ==
  ASSUME ServiceInv, NEW o \in Orders
  PROVE  /\ OrderOK(o) /\ state[o] \in {"NONE", "OPEN", "COMPLETED", "FAILED"}
         /\ quantity[o] \in 0..MaxQuantity /\ creds[o] \in 0..MaxQuantity
         /\ terms[o].kind \in Services
         /\ state = [state EXCEPT ![o] = state[o]] /\ creds = [creds EXCEPT ![o] = creds[o]]
         /\ quantity = [quantity EXCEPT ![o] = quantity[o]]
BY DEF ServiceInv

\* A submission only leaves the browser.
LEMMA SubmitService ==
  ASSUME ServiceInv, CallInv, NEW c, NEW v, NEW n, Submit(c, v, n), UNCHANGED <<product, service>>
  PROVE  ServiceInv' /\ Frozen
<1>1. PICK o \in Orders : stage[o] = "unused" /\ stage' = [stage EXCEPT ![o] = "sent"]
  <2>1. (CHOOSE x \in Orders : stage[x] = "unused") \in Orders
        /\ stage[CHOOSE x \in Orders : stage[x] = "unused"] = "unused"
    BY DEF Submit
  <2>2. QED  BY <2>1 DEF Submit
<1>2. state[o] = "NONE"
  BY <1>1 DEF ServiceInv, OrderOK
<1>3. \A x \in Orders : OrderOK(x)'
  BY <1>1, <1>2 DEF ServiceInv, CallInv, OrderOK, service
<1>4. QED  BY <1>3 DEF ServiceInv, service, Frozen

LEMMA ReserveService ==
  ASSUME ServiceInv, CallInv, NEW o \in Orders, Reserve(o) PROVE ServiceInv' /\ Frozen
<1>0. /\ stage[o] = "sent" /\ state[o] = "NONE" /\ UNCHANGED <<product, terms, creds>>
      /\ state' = [state EXCEPT ![o] = "OPEN"]
      /\ quantity' = [quantity EXCEPT ![o] = ask[o].qty]
      /\ stage' = [stage EXCEPT ![o] = IF ask[o].qty <= AsyncThreshold THEN "inline" ELSE "queued"]
  BY DEF Reserve, Shop!Buy, Browser
<1>1. ask[o].qty \in 1..MaxQuantity /\ ask[o].qty \in 0..MaxQuantity
  BY <1>0, MaxQuantityType DEF CallInv, Body
<1>2. /\ stage'[o] \in {"inline", "queued"} /\ \A x \in Orders \ {o} : stage'[x] = stage[x]
  BY <1>0 DEF CallInv
<1>3. /\ OrderOK(o) /\ creds[o] \in 0..MaxQuantity /\ creds' = [creds EXCEPT ![o] = creds[o]]
      /\ quantity[o] = 0
  BY <1>0, OrderFacts DEF OrderOK
<1>4. creds[o] = 0 /\ ~Closed(o)
  BY <1>0, <1>3, MaxQuantityType DEF OrderOK, Closed
<1>5. OrderOK(o)'
  <2>1. state'[o] = "OPEN" /\ quantity'[o] = ask[o].qty /\ creds'[o] = 0
    BY <1>0, <1>4 DEF ServiceInv
  <2>2. 0 <= ask[o].qty
    BY <1>1
  <2>3. QED  BY <1>0, <1>2, <1>3, <2>1, <2>2 DEF OrderOK
<1>6. QED  BY <1>0, <1>1, <1>2, <1>3, <1>4, <1>5, OneOrder

LEMMA FulfilService ==
  ASSUME ServiceInv, CallInv, NEW o \in Orders, Fulfil(o) PROVE ServiceInv' /\ Frozen
<1> USE DEF Closed
<1>0. /\ OrderOK(o) /\ quantity[o] \in 0..MaxQuantity /\ creds[o] \in 0..MaxQuantity
      /\ state = [state EXCEPT ![o] = state[o]] /\ creds = [creds EXCEPT ![o] = creds[o]]
      /\ quantity = [quantity EXCEPT ![o] = quantity[o]]
      /\ UNCHANGED <<product, stage>> /\ MaxQuantity \in Nat
      /\ (\A x \in Orders \ {o} : stage'[x] = stage[x])
      /\ terms[o].kind \in Services
  BY OrderFacts, MaxQuantityType DEF Fulfil, Browser
<1>1. CASE terms[o].kind = "panel" /\ Shop!Deliver(o)
  <2>1. /\ state[o] = "OPEN" /\ creds[o] < quantity[o] /\ creds' = [creds EXCEPT ![o] = creds[o] + 1]
        /\ UNCHANGED <<terms, state, quantity>>
    BY <1>1 DEF Shop!Deliver
  <2>2. creds[o] + 1 \in 0..MaxQuantity /\ creds[o] + 1 <= quantity[o]
    BY <1>0, <2>1
  <2>3. creds'[o] = creds[o] + 1
    BY <2>1 DEF ServiceInv
  <2>4. OrderOK(o)'
    BY <1>0, <2>1, <2>2, <2>3 DEF OrderOK
  <2>5. QED  BY <1>0, <2>1, <2>2, <2>4, OneOrder
<1>2. CASE Shop!Refund(o)
  <2>1. /\ state[o] = "OPEN" /\ quantity' = [quantity EXCEPT ![o] = creds[o]]
        /\ UNCHANGED <<terms, state, creds>>
    BY <1>2 DEF Shop!Refund
  <2>2. quantity'[o] = creds[o]
    BY <2>1 DEF ServiceInv
  <2>3. OrderOK(o)'
    BY <1>0, <2>1, <2>2 DEF OrderOK
  <2>4. QED  BY <1>0, <2>1, <2>3, OneOrder
<1>3. CASE terms[o].kind # "none" /\ Shop!Settle(o)
  <2>1. PICK s \in {"COMPLETED", "FAILED"} :
          /\ state[o] = "OPEN" /\ creds[o] = quantity[o] /\ state' = [state EXCEPT ![o] = s]
          /\ (s = "COMPLETED" <=> creds[o] > 0)
          /\ UNCHANGED <<terms, quantity, creds>>
    BY <1>3 DEF Shop!Settle
  <2>2. /\ state'[o] = s /\ creds'[o] = creds[o] /\ quantity'[o] = quantity[o]
        /\ terms'[o] = terms[o] /\ creds[o] = quantity[o]
    BY <2>1 DEF ServiceInv
  <2>3. s = "FAILED" => creds[o] = 0 /\ quantity[o] = 0
    BY <1>0, <2>1
  <2>4. OrderOK(o)'
    <3>1. CASE s = "COMPLETED"
      <4>1. creds'[o] = quantity'[o] /\ creds'[o] > 0
        BY <2>1, <2>2, <3>1
      <4>2. state'[o] = "COMPLETED" /\ stage'[o] = stage[o] /\ creds'[o] <= quantity'[o]
        BY <1>0, <2>2, <3>1
      <4>3. stage[o] \notin {"unused", "sent", "refused"}
        BY <1>0, <2>1 DEF OrderOK
      <4>4. QED  BY <4>1, <4>2, <4>3 DEF OrderOK
    <3>2. CASE s = "FAILED"
      BY <1>0, <2>1, <2>2, <2>3, <3>2 DEF OrderOK
    <3>3. QED  BY <3>1, <3>2
  <2>5. QED  BY <1>0, <2>1, <2>4, OneOrder
<1>4. CASE Shop!CloseByHand(o)
  <2>1. PICK s \in {"COMPLETED", "FAILED"} :
          /\ state[o] = "OPEN" /\ creds[o] = 0
          /\ state' = [state EXCEPT ![o] = s] /\ UNCHANGED <<terms, quantity, creds>>
          /\ terms[o].kind = IF s = "COMPLETED" THEN "whatsapp" ELSE "none"
    BY <1>4 DEF Shop!CloseByHand
  <2>2. state'[o] = s
    BY <2>1 DEF ServiceInv
  <2>3. OrderOK(o)'
    BY <1>0, <2>1, <2>2 DEF OrderOK
  <2>4. QED  BY <1>0, <2>1, <2>3, OneOrder
<1>5. QED  BY <1>1, <1>2, <1>3, <1>4 DEF Fulfil

LEMMA ServiceStep ==
  ASSUME ServiceInv, CallInv, [Next]_vars PROVE ServiceInv' /\ Frozen
<1>1. CASE UNCHANGED vars
  BY <1>1, SameService DEF vars, calls
<1>2. CASE UseCard
  <2>1. CASE BuyNow
    BY <2>1, SubmitService DEF BuyNow, Rest
  <2>2. CASE ~BuyNow
    BY <1>2, <2>2, SameService DEF UseCard, PickVariant, TypeQuantity, OpenDialog, Rest, calls
  <2>3. QED  BY <2>1, <2>2
<1>3. CASE UseDialog
  <2>1. UNCHANGED <<product, service>>
    BY <1>3 DEF UseDialog, TypeMac, CheckDevice, CheckReply, ChooseDuration, ChooseOption,
                OptionsReply, OptionsFail, SubmitDialog, CancelDialog, Rest
  <2>2. UNCHANGED stage \/ \E c, v, n : Submit(c, v, n)
    BY <1>3 DEF UseDialog, TypeMac, CheckDevice, CheckReply, ChooseDuration, ChooseOption,
                OptionsReply, OptionsFail, SubmitDialog, CancelDialog, calls
  <2>3. QED  BY <2>1, <2>2, SameService, SubmitService
<1>4. CASE UsePages
  BY <1>4, SameService DEF UsePages, OpenPage, HistoryReply, ViewReceipt, ReceiptReply, ReceiptLost,
     StatusReply, StatusLost, StatusTimer, StrayReply, calls
<1>5. CASE Buying
  <2> PICK o \in Orders : Bought(o) \/ Denied(o) \/ Unsure(o) \/ Reserve(o) \/ Refuse(o)
                          \/ TakeOver(o) \/ Fulfil(o)
    BY <1>5 DEF Buying
  <2>1. CASE Bought(o) \/ Denied(o) \/ Unsure(o)
    BY <2>1, SameService DEF Bought, Denied, Unsure
  <2>2. CASE TakeOver(o)
    <3>1. stage[o] = "inline" /\ stage' = [stage EXCEPT ![o] = "taken"]
          /\ UNCHANGED <<product, service>>
      BY <2>2 DEF TakeOver, Browser
    <3>2. \A x \in Orders : OrderOK(x)'
      BY <3>1 DEF ServiceInv, CallInv, OrderOK, service
    <3>3. QED  BY <3>1, <3>2 DEF ServiceInv, service, Frozen
  <2>3. CASE Refuse(o)
    <3>1. stage[o] = "sent" /\ stage' = [stage EXCEPT ![o] = "refused"]
          /\ UNCHANGED <<product, service>>
      BY <2>3 DEF Refuse, Browser
    <3>2. \A x \in Orders : OrderOK(x)'
      BY <3>1 DEF ServiceInv, CallInv, OrderOK, service
    <3>3. QED  BY <3>1, <3>2 DEF ServiceInv, service, Frozen
  <2>4. QED  BY <2>1, <2>2, <2>3, ReserveService, FulfilService
<1>6. QED  BY <1>1, <1>2, <1>3, <1>4, <1>5 DEF Next

-----------------------------------------------------------------------------
(* The dialog *)

\* The card has one of the product's variants, and the dialog needs one.
CardFits ==
  /\ card.variant # NoVariant => Has(card.variant)
  /\ card.modal => card.variant # NoVariant

\* A check in flight, or answered, is of the MAC in the box, unless that was edited
\* meanwhile; and the promax dialog waits for its packages, has them or says why not.
Honest ==
  /\ card.modal /\ card.check \in Macs /\ card.check # card.mac => edited
  /\ card.modal /\ probe # NoMac /\ probe # card.mac => edited
  /\ card.modal /\ product.kind = "promax" /\ asks = 0 =>
       card.options \in {"some", "empty"} \/ card.optionsError

DialogInv == asks \in 0..MaxAsks /\ edited \in BOOLEAN /\ CardFits /\ Honest

LEMMA MaxAsksType == MaxAsks \in Nat /\ 0 \in 0..MaxAsks
<1>1. MaxAsks \in Nat
  BY Zenon, StorefrontAssumption
<1>2. QED  BY <1>1

LEMMA MacFacts == "" \notin Macs /\ "malformed" \notin Macs /\ NoMac \notin Macs
BY Zenon, StorefrontAssumption

\* A step that keeps what the dialog asks and shows, or closes it.
LEMMA SameDialog ==
  ASSUME DialogInv, product' = product, probe' = probe, asks' = asks, edited' = edited,
         card'.variant = card.variant, card'.modal => card.modal,
         card'.modal => /\ card'.mac = card.mac /\ card'.check = card.check
                        /\ card'.options = card.options
                        /\ card'.optionsError = card.optionsError
  PROVE  DialogInv'
BY DEF DialogInv, CardFits, Honest, Has

\* A page that is opened has a fresh card and no dialog.
LEMMA GoToDialog ==
  ASSUME Typed, NEW at, NEW o, GoTo(at, o), product' = product PROVE DialogInv'
<1>1. card' = FreshCard(product) /\ probe' = NoMac /\ asks' = 0 /\ edited' = FALSE
  BY DEF GoTo
<1>2. ~card'.modal
        /\ card'.variant = IF product.variants = <<>> THEN NoVariant ELSE product.variants[1]
  BY <1>1 DEF FreshCard
<1>3. product.variants \in Seq(Variants)
  BY StorefrontAssumption DEF Typed
<1>4. product.variants # <<>> => 1 \in 1..Len(product.variants)
  BY <1>3
<1>5. CardFits'
  BY <1>2, <1>4 DEF CardFits, Has
<1>6. Honest'
  BY <1>2 DEF Honest
<1>7. QED  BY <1>1, <1>5, <1>6, MaxAsksType DEF DialogInv

LEMMA AnswerDialog ==
  ASSUME Typed, DialogInv, NEW o, card' = CatchAndFinally(o),
         UNCHANGED <<product, probe, asks, edited>>
  PROVE  DialogInv'
<1>1. /\ card'.variant = card.variant /\ card'.modal = card.modal /\ card'.mac = card.mac
      /\ card'.check = card.check /\ card'.options = card.options
      /\ card'.optionsError = card.optionsError
  BY DEF CatchAndFinally, Typed, CardType
<1>2. QED  BY <1>1, SameDialog

\* A submission raises flags of the card and no more.
LEMMA SubmitDialogs ==
  ASSUME DialogInv, NEW c \in CardType, NEW v, NEW n, Submit(c, v, n),
         UNCHANGED <<product, probe, asks, edited>>,
         c.variant = card.variant, c.modal = card.modal, c.mac = card.mac,
         c.check = card.check, c.options = card.options, c.optionsError = card.optionsError
  PROVE  DialogInv'
<1>1. card' = [c EXCEPT !.buying = TRUE]
  BY DEF Submit
<1>2. /\ card'.variant = card.variant /\ card'.modal = card.modal /\ card'.mac = card.mac
      /\ card'.check = card.check /\ card'.options = card.options
      /\ card'.optionsError = card.optionsError
  BY <1>1 DEF CardType
<1>3. QED  BY <1>2, SameDialog

LEMMA CardDialog ==
  ASSUME CardInv, DialogInv, UseCard PROVE DialogInv'
<1>0. Typed /\ card \in CardType
  BY DEF CardInv, Typed
<1>1. CASE \E v \in Variants : PickVariant(v)
  <2> PICK v \in Variants : PickVariant(v)  BY <1>1
  <2>1. /\ ~card.modal /\ Has(v) /\ card' = [card EXCEPT !.variant = v]
        /\ UNCHANGED <<product, probe, asks, edited>>
    BY DEF PickVariant, OnCard, Rest
  <2>2. ~card'.modal /\ card'.variant = v
    BY <1>0, <2>1 DEF CardType
  <2>3. QED  BY <2>1, <2>2 DEF DialogInv, CardFits, Honest, Has
<1>2. CASE \E n \in 0..(MaxQuantity + 1) : TypeQuantity(n)
  <2> PICK n \in 0..(MaxQuantity + 1) : TypeQuantity(n)  BY <1>2
  <2>1. /\ ~card.modal /\ card' = [card EXCEPT !.qty = Clamp(n)]
        /\ UNCHANGED <<product, probe, asks, edited>>
    BY DEF TypeQuantity, OnCard, Rest
  <2>2. ~card'.modal /\ card'.variant = card.variant
    BY <1>0, <2>1 DEF CardType
  <2>3. QED  BY <2>1, <2>2, SameDialog
<1>3. CASE BuyNow
  BY <1>0, <1>3, SubmitDialogs DEF BuyNow, Rest
<1>4. CASE OpenDialog
  <2>1. /\ card.variant # NoVariant /\ (AsksOptions => asks < MaxAsks)
        /\ card' = [card EXCEPT !.modal = TRUE, !.duration = InitialDuration, !.mac = "",
                          !.error = FALSE, !.check = "", !.option = FALSE,
                          !.optionsError = FALSE]
        /\ asks' = IF AsksOptions THEN asks + 1 ELSE asks
        /\ edited' = (probe # NoMac) /\ UNCHANGED <<product, probe>>
    BY <1>4 DEF OpenDialog, CanBuy, Rest
  <2>2. card'.variant = card.variant /\ card'.check = "" /\ card'.mac = ""
    BY <1>0, <2>1 DEF CardType
  <2>3. asks \in 0..MaxAsks /\ MaxAsks \in Nat
    BY MaxAsksType DEF DialogInv
  <2>4. asks' \in 0..MaxAsks /\ (product.kind = "promax" => asks' # 0)
    BY <2>1, <2>3 DEF AsksOptions
  <2>5. CardFits'
    BY <2>1, <2>2 DEF DialogInv, CardFits, Has
  <2>6. Honest'
    BY <2>1, <2>2, <2>4, MacFacts DEF Honest
  <2>7. QED  BY <2>1, <2>4, <2>5, <2>6 DEF DialogInv
<1>5. QED  BY <1>1, <1>2, <1>3, <1>4 DEF UseCard

LEMMA DialogDialog ==
  ASSUME CardInv, DialogInv, UseDialog PROVE DialogInv'
<1>0. Typed /\ card \in CardType
  BY DEF CardInv, Typed
<1>1. CASE \E m \in Macs \cup {""} : TypeMac(m)
  <2> PICK m \in Macs \cup {""} : TypeMac(m)  BY <1>1
  <2>1. /\ card' = [card EXCEPT !.mac = m, !.check = ""]
        /\ edited' = (edited \/ probe # NoMac) /\ product.kind = "hotplayer"
        /\ UNCHANGED <<product, probe, asks>>
    BY DEF TypeMac, TypedCheck, Rest
  <2>2. card'.variant = card.variant /\ card'.modal = card.modal /\ card'.check = ""
    BY <1>0, <2>1 DEF CardType
  <2>3. CardFits' /\ Honest'
    BY <2>1, <2>2, MacFacts DEF DialogInv, CardFits, Honest, Has
  <2>4. QED  BY <2>1, <2>3 DEF DialogInv
<1>2. CASE CheckDevice
  <2>1. product.kind = "hotplayer" /\ UNCHANGED <<product, asks>>
    BY <1>2 DEF CheckDevice, Rest
  <2>2. PICK k \in {"", "malformed"} :
          /\ card'.variant = card.variant /\ card'.modal = card.modal /\ card'.mac = card.mac
          /\ card'.check = k
    BY <1>0, <1>2 DEF CheckDevice, CardType
  <2>3. probe' = card.mac \/ (probe' = probe /\ edited' = edited)
    BY <1>2 DEF CheckDevice
  <2>4. edited' \in BOOLEAN
    BY <1>2 DEF CheckDevice, DialogInv
  <2>5. CardFits'
    BY <2>1, <2>2 DEF DialogInv, CardFits, Has
  <2>6. Honest'
    BY <2>1, <2>2, <2>3, MacFacts DEF DialogInv, Honest
  <2>7. QED  BY <2>1, <2>4, <2>5, <2>6 DEF DialogInv
<1>3. CASE CheckReply
  <2>1. /\ probe # NoMac /\ probe' = NoMac
        /\ card' = [card EXCEPT !.check = probe, !.checking = FALSE]
        /\ UNCHANGED <<product, asks, edited>>
    BY <1>3 DEF CheckReply, Rest
  <2>2. /\ card'.variant = card.variant /\ card'.modal = card.modal /\ card'.mac = card.mac
        /\ card'.options = card.options /\ card'.optionsError = card.optionsError
        /\ card'.check = probe
    BY <1>0, <2>1 DEF CardType
  <2>3. QED  BY <2>1, <2>2 DEF DialogInv, CardFits, Honest, Has
<1>4. CASE \E d \in {"year", "forever"} : ChooseDuration(d)
  <2>1. /\ card'.variant = card.variant /\ card'.modal = card.modal /\ card'.mac = card.mac
        /\ card'.check = card.check /\ card'.options = card.options
        /\ card'.optionsError = card.optionsError
    BY <1>0, <1>4 DEF ChooseDuration, CardType
  <2>2. QED  BY <1>4, <2>1, SameDialog DEF ChooseDuration, Rest
<1>5. CASE \E chosen \in BOOLEAN : ChooseOption(chosen)
  <2>1. /\ card'.variant = card.variant /\ card'.modal = card.modal /\ card'.mac = card.mac
        /\ card'.check = card.check /\ card'.options = card.options
        /\ card'.optionsError = card.optionsError
    BY <1>0, <1>5 DEF ChooseOption, CardType
  <2>2. QED  BY <1>5, <2>1, SameDialog DEF ChooseOption, Rest
<1>6. CASE OptionsReply \/ OptionsFail
  <2>1. asks > 0 /\ asks' = asks - 1 /\ UNCHANGED <<product, probe, edited>>
    BY <1>6 DEF OptionsReply, OptionsFail, Rest
  <2>2. asks' \in 0..MaxAsks
    BY <2>1, MaxAsksType DEF DialogInv
  <2>3. /\ card'.variant = card.variant /\ card'.modal = card.modal /\ card'.mac = card.mac
        /\ card'.check = card.check
    BY <1>0, <1>6 DEF OptionsReply, OptionsFail, FailedOptions, CardType
  <2>4. product.kind = "promax" => card'.options \in {"some", "empty"} \/ card'.optionsError
    BY <1>0, <1>6 DEF OptionsReply, OptionsFail, FailedOptions, CardType
  <2>5. CardFits' /\ Honest'
    BY <2>1, <2>3, <2>4 DEF DialogInv, CardFits, Honest, Has
  <2>6. QED  BY <2>1, <2>2, <2>5 DEF DialogInv
<1>7. CASE SubmitDialog
  <2>1. UNCHANGED <<product, probe, asks, edited>>
    BY <1>7 DEF SubmitDialog, Rest
  <2>2. CASE Complete
    <3>1. PICK c \in {[card EXCEPT !.error = FALSE, !.activating = TRUE]} :
            Submit(c, Chosen, Units)
      BY <1>7, <2>2 DEF SubmitDialog
    <3>2. /\ c \in CardType /\ c.variant = card.variant /\ c.modal = card.modal
          /\ c.mac = card.mac /\ c.check = card.check /\ c.options = card.options
          /\ c.optionsError = card.optionsError
      BY <1>0, <3>1 DEF CardType
    <3>3. QED  BY <2>1, <3>1, <3>2, SubmitDialogs
  <2>3. CASE ~Complete
    <3>1. card' = [card EXCEPT !.error = TRUE]
      BY <1>7, <2>3 DEF SubmitDialog, Rejected
    <3>2. /\ card'.variant = card.variant /\ card'.modal = card.modal /\ card'.mac = card.mac
          /\ card'.check = card.check /\ card'.options = card.options
          /\ card'.optionsError = card.optionsError
      BY <1>0, <3>1 DEF CardType
    <3>3. QED  BY <2>1, <3>2, SameDialog
  <2>4. QED  BY <2>2, <2>3
<1>8. CASE CancelDialog
  <2>1. ~card'.modal /\ card'.variant = card.variant
    BY <1>0, <1>8 DEF CancelDialog, CardType
  <2>2. QED  BY <1>8, <2>1, SameDialog DEF CancelDialog, Rest
<1>9. QED
  BY <1>1, <1>2, <1>3, <1>4, <1>5, <1>6, <1>7, <1>8 DEF UseDialog

LEMMA StillDialog ==
  ASSUME DialogInv, UNCHANGED <<product, dialog>> PROVE DialogInv'
BY SameDialog DEF dialog

LEMMA DialogStep ==
  ASSUME CardInv, DialogInv, [Next]_vars PROVE DialogInv'
<1>0. Typed
  BY DEF CardInv
<1>1. CASE UNCHANGED vars
  BY <1>1, StillDialog DEF vars
<1>2. CASE UsePages
  <2>1. UNCHANGED product
    BY <1>2 DEF UsePages, OpenPage, HistoryReply, ViewReceipt, ReceiptReply, ReceiptLost,
                StatusReply, StatusLost, StatusTimer, StrayReply
  <2>2. UNCHANGED dialog \/ \E at, o : GoTo(at, o)
    BY <1>2 DEF UsePages, OpenPage, HistoryReply, ViewReceipt, ReceiptReply, ReceiptLost,
                StatusReply, StatusLost, StatusTimer, StrayReply, Dismiss
  <2>3. QED  BY <1>0, <2>1, <2>2, GoToDialog, StillDialog
<1>3. CASE Buying
  <2> PICK o \in Orders : Bought(o) \/ Denied(o) \/ Unsure(o) \/ Reserve(o) \/ Refuse(o)
                          \/ TakeOver(o) \/ Fulfil(o)
    BY <1>3 DEF Buying
  <2>1. CASE Bought(o)
    BY <1>0, <2>1, GoToDialog DEF Bought
  <2>2. CASE Denied(o) \/ Unsure(o)
    BY <1>0, <2>2, AnswerDialog DEF Denied, Unsure
  <2>3. CASE Reserve(o) \/ Refuse(o) \/ TakeOver(o) \/ Fulfil(o)
    BY <2>3, StillDialog DEF Reserve, Refuse, TakeOver, Fulfil, Browser
  <2>4. QED  BY <2>1, <2>2, <2>3
<1>4. QED  BY <1>1, <1>2, <1>3, CardDialog, DialogDialog DEF Next

-----------------------------------------------------------------------------
(* What is submitted *)

\* A set of numbers has a least one: otherwise the intervals below its members would
\* be an infinite descent.
LEMMA LeastNumber ==
  ASSUME NEW T, T \subseteq Nat, T # {} PROVE \E m \in T : \A n \in T : m <= n
<1> DEFINE Below == {1..n : n \in T}
           R == StrictSubsetOrdering(Nat)
<1>1. IsWellFoundedOn(R, FiniteSubsetsOf(Nat))
  BY FS_StrictSubsetOrderingWellFounded
<1>2. Below \subseteq FiniteSubsetsOf(Nat)
  <2> SUFFICES ASSUME NEW n \in T PROVE 1..n \in FiniteSubsetsOf(Nat)
    OBVIOUS
  <2>1. n \in Nat /\ 1 \in Int /\ n \in Int
    OBVIOUS
  <2>2. IsFiniteSet(1..n) /\ 1..n \subseteq Nat
    BY <2>1, FS_Interval
  <2>3. QED  BY <2>2 DEF FiniteSubsetsOf
<1>3. Below # {}
  OBVIOUS
<1> HIDE DEF R
<1>4. \E x \in Below : \A y \in Below : ~(<<y, x>> \in R)
  <2> HIDE DEF Below
  <2>1. QED  BY <1>1, <1>2, <1>3, WFMin
<1>5. PICK m \in T : \A n \in T : ~(<<1..n, 1..m>> \in R)
  BY <1>4
<1>6. ASSUME NEW n \in T, n < m PROVE FALSE
  <2>1. 1..n \subseteq 1..m /\ m \in 1..m /\ m \notin 1..n /\ 1..n \subseteq Nat /\ 1..m \subseteq Nat
    BY <1>6
  <2>2. 1..n # 1..m
    BY <2>1
  <2>3. QED  BY <1>5, <2>1, <2>2 DEF R, StrictSubsetOrdering
<1>7. QED  BY <1>6

\* A list with a member of S has a first one.
LEMMA FirstIn ==
  ASSUME NEW list \in Seq(Variants), NEW S, NEW i \in 1..Len(list), list[i] \in S
  PROVE  \E k \in 1..Len(list) : list[k] \in S /\ \A j \in 1..(k - 1) : list[j] \notin S
<1> DEFINE T == {k \in 1..Len(list) : list[k] \in S}
<1>1. Len(list) \in Nat
  OBVIOUS
<1>2. T \subseteq Nat /\ T # {}
  BY <1>1
<1>3. PICK m \in T : \A n \in T : m <= n
  <2> HIDE DEF T
  <2>1. QED  BY <1>2, LeastNumber
<1>4. m \in 1..Len(list) /\ m \in Nat /\ list[m] \in S
  BY <1>1, <1>3
<1>5. ASSUME NEW j \in 1..(m - 1) PROVE list[j] \notin S
  <2>1. j \in 1..Len(list) /\ ~(m <= j)
    BY <1>1, <1>4
  <2>2. QED  BY <1>3, <2>1
<1>6. QED  BY <1>4, <1>5

Kind(label) == IF label = "forever" THEN Lifetime ELSE Variants \ Lifetime

\* The variant of a duration is one of the product's, and of that duration if the
\* product has any such.
LEMMA DurationFits ==
  ASSUME Typed, NEW label \in {"year", "forever"}, DurationVariant(label) # NoVariant
  PROVE  /\ DurationVariant(label) \in Variants /\ Has(DurationVariant(label))
         /\ (\E v \in Kind(label) : Has(v)) => DurationVariant(label) \in Kind(label)
<1> DEFINE list == product.variants
<1>1. list \in Seq(Variants) /\ Lifetime \subseteq Variants
  BY StorefrontAssumption DEF Typed
<1>2. list # <<>>
  BY DEF DurationVariant
<1>3. 1 \in 1..Len(list) /\ Len(list) \in 1..Len(list)
  BY <1>1, <1>2
<1>4. \A i \in 1..Len(list) : list[i] \in Variants
  BY <1>1
<1>5. PICK d \in {1, Len(list)} :
        DurationVariant(label) =
          IF \E i \in 1..Len(list) : list[i] \in Kind(label)
          THEN list[CHOOSE i \in 1..Len(list) :
                 list[i] \in Kind(label) /\ \A j \in 1..(i - 1) : list[j] \notin Kind(label)]
          ELSE list[d]
  <2>1. CASE label = "forever"
    BY <1>2, <2>1 DEF DurationVariant, First, Kind
  <2>2. CASE label = "year"
    <3>1. \A i \in 1..Len(list) : list[i] \in Kind(label) <=> list[i] \notin Lifetime
      BY <1>4, <2>2 DEF Kind
    <3>2. \A i \in 1..Len(list) : \A j \in 1..(i - 1) : j \in 1..Len(list)
      BY <1>3
    <3>3. \A i \in 1..Len(list) :
            (/\ list[i] \notin Lifetime /\ \A j \in 1..(i - 1) : ~(list[j] \notin Lifetime))
            <=> (list[i] \in Kind(label) /\ \A j \in 1..(i - 1) : list[j] \notin Kind(label))
      BY <3>1, <3>2
    <3>4. (CHOOSE i \in 1..Len(list) :
             /\ list[i] \notin Lifetime /\ \A j \in 1..(i - 1) : ~(list[j] \notin Lifetime))
          = (CHOOSE i \in 1..Len(list) :
               list[i] \in Kind(label) /\ \A j \in 1..(i - 1) : list[j] \notin Kind(label))
      BY <3>3
    <3>5. DurationVariant(label) =
            IF \E i \in 1..Len(list) : list[i] \notin Lifetime
            THEN list[CHOOSE i \in 1..Len(list) :
                   /\ list[i] \notin Lifetime /\ \A j \in 1..(i - 1) : ~(list[j] \notin Lifetime)]
            ELSE list[1]
      BY <1>2, <2>2 DEF DurationVariant, First
    <3>6. QED  BY <3>1, <3>4, <3>5
  <2>3. QED  BY <2>1, <2>2
<1>6. CASE \E i \in 1..Len(list) : list[i] \in Kind(label)
  <2>1. \E k \in 1..Len(list) :
          list[k] \in Kind(label) /\ \A j \in 1..(k - 1) : list[j] \notin Kind(label)
    BY <1>1, <1>6, FirstIn
  <2>2. PICK k \in 1..Len(list) : DurationVariant(label) = list[k] /\ list[k] \in Kind(label)
    BY <1>5, <1>6, <2>1
  <2>3. QED  BY <1>4, <2>2 DEF Has
<1>7. CASE ~\E i \in 1..Len(list) : list[i] \in Kind(label)
  <2>1. DurationVariant(label) = list[d] /\ d \in 1..Len(list)
    BY <1>3, <1>5, <1>7
  <2>2. ~\E v \in Kind(label) : Has(v)
    BY <1>7 DEF Has
  <2>3. QED  BY <1>4, <2>1, <2>2 DEF Has
<1>8. QED  BY <1>6, <1>7

\* What BoughtAsDisplayed says of a submission of n units of v.
Displayed(v, n) ==
  /\ \/ v = card.variant
     \/ /\ product.kind = "hotplayer"
        /\ \/ (card.variant \in Lifetime) # (card.duration = "forever")
           \/ \E x, y \in Variants : /\ x # y /\ Has(x) /\ Has(y)
                                    /\ (x \in Lifetime) = (y \in Lifetime)
  /\ n = card.qty \/ product.kind \in {"hotplayer", "promax"}

LEMMA DialogBuys ==
  ASSUME Typed, DialogInv, card.modal, Complete
  PROVE  Chosen \in Variants /\ Units \in 1..MaxQuantity /\ Displayed(Chosen, Units)
<1>0. /\ card.variant \in Variants /\ Has(card.variant) /\ card.duration \in {"year", "forever"}
      /\ card.qty \in 1..MaxQuantity
  BY DEF DialogInv, CardFits, Typed, CardType
<1>1. Units \in 1..MaxQuantity /\ (Units = card.qty \/ product.kind \in {"hotplayer", "promax"})
  BY <1>0, MaxQuantityType DEF Units
<1>2. CASE product.kind # "hotplayer"
  BY <1>0, <1>1, <1>2 DEF Chosen, Displayed
<1>3. CASE product.kind = "hotplayer"
  <2>1. Chosen = DurationVariant(card.duration) /\ Chosen # NoVariant
    BY <1>3 DEF Complete, Chosen
  <2>2. /\ Chosen \in Variants /\ Has(Chosen)
        /\ (\E v \in Kind(card.duration) : Has(v)) => Chosen \in Kind(card.duration)
    BY <1>0, <2>1, DurationFits
  <2>3. CASE (card.variant \in Lifetime) # (card.duration = "forever")
    BY <1>1, <1>3, <2>2, <2>3 DEF Displayed
  <2>4. CASE (card.variant \in Lifetime) = (card.duration = "forever")
    <3>1. card.variant \in Kind(card.duration)
      BY <1>0, <2>4 DEF Kind
    <3>2. Chosen \in Kind(card.duration)
      BY <1>0, <2>2, <3>1
    <3>3. (Chosen \in Lifetime) = (card.variant \in Lifetime)
      BY <1>0, <2>4, <3>2 DEF Kind
    <3>4. QED  BY <1>0, <1>1, <1>3, <2>2, <3>3 DEF Displayed
  <2>5. QED  BY <2>3, <2>4
<1>4. QED  BY <1>2, <1>3

\* What a step submits, if it does.
Submits ==
  \A o \in Orders : stage[o] = "unused" /\ stage'[o] = "sent" => Displayed(ask'[o].variant, ask'[o].qty)

LEMMA SubmitCall ==
  ASSUME CallInv, NEW c, NEW v \in Variants, NEW n \in 1..MaxQuantity, Submit(c, v, n),
         Displayed(v, n), UNCHANGED state
  PROVE  CallInv' /\ Submits
<1>1. PICK o \in Orders :
        /\ stage[o] = "unused" /\ stage' = [stage EXCEPT ![o] = "sent"]
        /\ client' = [client EXCEPT ![o] = "waiting"]
        /\ ask' = [ask EXCEPT ![o] = [variant |-> v, qty |-> n]]
        /\ mine' = mine \cup {o}
  <2>1. (CHOOSE x \in Orders : stage[x] = "unused") \in Orders
        /\ stage[CHOOSE x \in Orders : stage[x] = "unused"] = "unused"
    BY DEF Submit
  <2>2. QED  BY <2>1 DEF Submit
<1>2. [variant |-> v, qty |-> n] \in Body
  BY DEF Body
<1>3. /\ stage' \in [Orders -> {"unused", "sent", "refused", "inline", "taken", "queued"}]
      /\ client' \in [Orders -> {"none", "waiting", "told", "denied", "unsure"}]
      /\ ask' \in [Orders -> Body \cup {NoAsk}] /\ mine' \subseteq Orders
  BY <1>1, <1>2 DEF CallInv
<1>4. /\ client'[o] = "waiting" /\ ask'[o] = [variant |-> v, qty |-> n]
      /\ \A x \in Orders \ {o} : stage'[x] = stage[x] /\ client'[x] = client[x] /\ ask'[x] = ask[x]
  BY <1>1 DEF CallInv
<1>5. CallInv'
  BY <1>2, <1>3, <1>4 DEF CallInv
<1>6. Submits
  BY <1>4 DEF Submits
<1>7. QED  BY <1>5, <1>6

LEMMA SameCall ==
  ASSUME CallInv, Frozen, UNCHANGED calls, mine' \subseteq mine PROVE CallInv' /\ Submits
<1>1. \A o \in Orders : state[o] = "FAILED" => state'[o] = "FAILED"
  BY DEF Frozen, Closed
<1>2. QED  BY <1>1 DEF calls, CallInv, Submits

\* The fate of one submission.
LEMMA OneCall ==
  ASSUME CallInv, Frozen, NEW o \in Orders, mine' \subseteq mine,
         \/ stage' = stage
         \/ /\ stage[o] = "sent" /\ client[o] # "denied"
            /\ \E s \in {"refused", "inline", "queued"} : stage' = [stage EXCEPT ![o] = s],
         \/ client' = client
         \/ \E k \in {"told", "unsure"} : client' = [client EXCEPT ![o] = k]
         \/ /\ stage' = stage /\ (stage[o] \in {"refused", "taken"} \/ state'[o] = "FAILED")
            /\ client' = [client EXCEPT ![o] = "denied"],
         \/ ask' = ask
         \/ stage' # stage /\ ask' = [ask EXCEPT ![o] = NoAsk]
  PROVE  CallInv' /\ Submits
<1>1. \A x \in Orders : state[x] = "FAILED" => state'[x] = "FAILED"
  BY DEF Frozen, Closed
<1>2. /\ stage' \in [Orders -> {"unused", "sent", "refused", "inline", "taken", "queued"}]
      /\ \A x \in Orders \ {o} : stage'[x] = stage[x]
      /\ stage' # stage => stage[o] = "sent" /\ stage'[o] # "sent" /\ client[o] # "denied"
  BY DEF CallInv
<1>3. /\ client' \in [Orders -> {"none", "waiting", "told", "denied", "unsure"}]
      /\ \A x \in Orders \ {o} : client'[x] = client[x]
      /\ \/ client'[o] = client[o] \/ client'[o] # "denied"
         \/ stage'[o] \in {"refused", "taken"} \/ state'[o] = "FAILED"
  BY DEF CallInv
<1>4. /\ ask' \in [Orders -> Body \cup {NoAsk}]
      /\ \A x \in Orders \ {o} : ask'[x] = ask[x]
      /\ stage' = stage => ask' = ask
  BY DEF CallInv
<1>5. ASSUME NEW x \in Orders
      PROVE  /\ stage'[x] = "sent" => ask'[x] \in Body
             /\ client'[x] = "denied" => stage'[x] \in {"refused", "taken"} \/ state'[x] = "FAILED"
             /\ stage[x] = "unused" => stage'[x] # "sent"
  <2>1. CASE x # o
    BY <1>1, <1>2, <1>3, <1>4, <2>1 DEF CallInv
  <2>2. CASE x = o
    BY <1>1, <1>2, <1>3, <1>4, <2>2 DEF CallInv
  <2>3. QED  BY <2>1, <2>2
<1>6. QED  BY <1>2, <1>3, <1>4, <1>5 DEF CallInv, Submits

LEMMA CallStep ==
  ASSUME CardInv, DialogInv, CallInv, ServiceInv, ServiceInv', Frozen, [Next]_vars
  PROVE  CallInv' /\ Submits
<1>0. Typed /\ card.variant \in Variants \cup {NoVariant} /\ card.qty \in 1..MaxQuantity
  BY DEF CardInv, Typed, CardType
<1>1. CASE UNCHANGED vars
  BY <1>1, SameCall DEF vars, own
<1>2. CASE UseCard
  <2>1. CASE BuyNow
    <3>1. /\ card.variant # NoVariant /\ Submit(card, card.variant, card.qty) /\ UNCHANGED state
      BY <2>1 DEF BuyNow, CanBuy, Rest, service
    <3>2. Displayed(card.variant, card.qty) /\ card.variant \in Variants
      BY <1>0, <3>1 DEF Displayed
    <3>3. QED  BY <1>0, <3>1, <3>2, SubmitCall
  <2>2. CASE ~BuyNow
    BY <1>2, <2>2, SameCall DEF UseCard, PickVariant, TypeQuantity, OpenDialog, own
  <2>3. QED  BY <2>1, <2>2
<1>3. CASE UseDialog
  <2>1. CASE SubmitDialog /\ Complete
    <3>1. PICK c \in {[card EXCEPT !.error = FALSE, !.activating = TRUE]} :
            Submit(c, Chosen, Units)
      BY <2>1 DEF SubmitDialog
    <3>2. card.modal /\ UNCHANGED state
      BY <2>1 DEF SubmitDialog, InDialog, Rest, service
    <3>3. Chosen \in Variants /\ Units \in 1..MaxQuantity /\ Displayed(Chosen, Units)
      BY <1>0, <2>1, <3>2, DialogBuys
    <3>4. QED  BY <3>1, <3>2, <3>3, SubmitCall
  <2>2. CASE ~(SubmitDialog /\ Complete)
    <3>1. UNCHANGED <<calls, own>>
      BY <1>3, <2>2 DEF UseDialog, TypeMac, CheckDevice, CheckReply, ChooseDuration,
            ChooseOption, OptionsReply, OptionsFail, SubmitDialog, CancelDialog
    <3>2. QED  BY <3>1, SameCall DEF own
  <2>3. QED  BY <2>1, <2>2
<1>4. CASE UsePages
  <2>1. UNCHANGED calls
    BY <1>4 DEF UsePages, OpenPage, HistoryReply, ViewReceipt, ReceiptReply, ReceiptLost,
                StatusReply, StatusLost, StatusTimer, StrayReply
  <2>2. mine' = mine \/ mine' = {}
    BY <1>4 DEF UsePages, OpenPage, HistoryReply, ViewReceipt, ReceiptReply, ReceiptLost,
                StatusReply, StatusLost, StatusTimer, StrayReply, Dismiss, GoTo, own
  <2>3. QED  BY <2>1, <2>2, SameCall
<1>5. CASE Buying
  <2> PICK o \in Orders : Bought(o) \/ Denied(o) \/ Unsure(o) \/ Reserve(o) \/ Refuse(o)
                          \/ TakeOver(o) \/ Fulfil(o)
    BY <1>5 DEF Buying
  <2>1. CASE Bought(o)
    BY <2>1, OneCall DEF Bought, GoTo
  <2>2. CASE Denied(o)
    BY <2>2, OneCall DEF Denied, Declined, service
  <2>3. CASE Unsure(o)
    BY <2>3, OneCall DEF Unsure
  <2>4. CASE Reserve(o) \/ Refuse(o)
    <3>1. stage[o] = "sent" /\ UNCHANGED <<mine, client>> /\ ask' = [ask EXCEPT ![o] = NoAsk]
      BY <2>4 DEF Reserve, Refuse, Browser, own
    <3>2. \E s \in {"refused", "inline", "queued"} : stage' = [stage EXCEPT ![o] = s]
      BY <2>4 DEF Reserve, Refuse
    <3>3. stage' # stage
      BY <3>1, <3>2 DEF CallInv
    <3>4. client[o] # "denied"
      BY <3>1 DEF CallInv, ServiceInv, OrderOK
    <3>5. QED  BY <3>1, <3>2, <3>3, <3>4, OneCall
  <2>5. CASE Fulfil(o)
    BY <2>5, SameCall DEF Fulfil, Browser, own, calls
  <2>6. CASE TakeOver(o)
    <3>1. /\ stage[o] = "inline" /\ stage' = [stage EXCEPT ![o] = "taken"]
          /\ UNCHANGED <<mine, client, ask, state>>
      BY <2>6 DEF TakeOver, Browser, own, service
    <3>2. QED  BY <3>1 DEF CallInv, Submits
  <2>7. QED  BY <2>1, <2>2, <2>3, <2>4, <2>5, <2>6
<1>6. QED  BY <1>1, <1>2, <1>3, <1>4, <1>5 DEF Next

-----------------------------------------------------------------------------
(* The pages *)

PageType ==
  /\ page \in [at : {"products", "orders"}, order : {NoOrder}]
            \cup [at : {"processing", "receipt"}, order : Orders]
  /\ note \in [text : {"failed", "unknown", "unread"}, of : Orders] \cup {NoNote}
  /\ shown \in [of : Orders, n : 0..MaxQuantity] \cup {Nothing}
  /\ fetching \in Orders \cup {NoOrder} /\ late \subseteq Orders
  /\ direct \in BOOLEAN /\ overtaken \in BOOLEAN
  /\ polls \subseteq Polls /\ listed \subseteq Orders
  /\ \A p \in polls : p.live => page = [at |-> "processing", order |-> p.of]

\* The latest request is that of the page; earlier ones there are only if it was reached
\* from another order's.  What is requested, shown or listed is completed, and a page
\* that waits for nothing shows its own order, an error, or a reply that came late.
PageInv ==
  /\ fetching # NoOrder => page.at = "receipt" /\ fetching = page.order
  /\ late # {} => direct
  /\ \A o \in InFlight \cup listed : state[o] = "COMPLETED"
  /\ note # NoNote /\ note.of # page.order => direct
  /\ note.text = "failed" => state[note.of] = "FAILED"
  /\ page.at = "receipt" /\ fetching = NoOrder /\ note = NoNote /\ shown.of # page.order =>
       overtaken
  /\ shown # Nothing => state[shown.of] = "COMPLETED" /\ shown.n = creds[shown.of]

\* What ReceiptIsEarned says of a step.
Earned ==
  page' # page /\ page'.at = "receipt" =>
    LET o == page'.order IN
    /\ state[o] = "COMPLETED"
    /\ \/ client'[o] # client[o]
       \/ page.at = "orders"
       \/ page = [at |-> "processing", order |-> o]

LEMMA NoOrderFact == NoOrder \notin Orders
BY Zenon, StorefrontAssumption

\* What the pages say of orders stays true, as closed orders do not change.
LEMMA SamePage ==
  ASSUME PageType, PageInv, Frozen, UNCHANGED <<page, receipt, polls, listed>>
  PROVE  PageType' /\ PageInv' /\ Earned
<1>1. UNCHANGED <<page, note, shown, fetching, late, direct, overtaken, polls, listed>>
  BY DEF receipt
<1>2. PageType' /\ Earned
  BY <1>1 DEF PageType, Earned
<1>3. \A o \in InFlight \cup listed : o \in Orders
  BY NoOrderFact DEF PageType, InFlight
<1>4. note.text = "failed" => note.of \in Orders
  <2>1. NoNote.text # "failed"
    BY DEF NoNote
  <2>2. note # NoNote => note \in [text : {"failed", "unknown", "unread"}, of : Orders]
    BY DEF PageType
  <2>3. QED  BY <2>1, <2>2
<1>5. shown # Nothing => shown.of \in Orders
  BY DEF PageType
<1>6. (\A o \in InFlight \cup listed : state'[o] = "COMPLETED") /\ InFlight' = InFlight
  BY <1>1, <1>3 DEF PageInv, Frozen, Closed, InFlight
<1>7. note.text = "failed" => state'[note.of] = "FAILED"
  BY <1>4 DEF PageInv, Frozen, Closed
<1>8. shown # Nothing => state'[shown.of] = "COMPLETED" /\ shown.n = creds'[shown.of]
  BY <1>5 DEF PageInv, Frozen, Closed
<1>9. QED  BY <1>1, <1>2, <1>6, <1>7, <1>8 DEF PageInv

\* A page is mounted afresh, or goes on to another order.
LEMMA GoToPage ==
  ASSUME PageType, PageInv, NEW at \in {"products", "orders", "processing", "receipt"},
         NEW o, o \in IF at \in {"products", "orders"} THEN {NoOrder} ELSE Orders,
         at = "receipt" => state[o] = "COMPLETED",
         GoTo(at, o), UNCHANGED service
  PROVE  PageType' /\ PageInv'
<1>0. UNCHANGED <<state, creds>>
  BY DEF service
<1>1. /\ page' = [at |-> at, order |-> o]
      /\ note' = IF page.at = at THEN note ELSE NoNote
      /\ shown' = IF page.at = at THEN shown ELSE Nothing
      /\ direct' = (page.at = at) /\ overtaken' = (page.at = at /\ overtaken)
      /\ fetching' = IF at = "receipt" THEN o ELSE NoOrder
      /\ late' = IF page.at = at /\ fetching # NoOrder THEN late \cup {fetching}
                 ELSE IF page.at = at THEN late ELSE {}
      /\ listed' = {}
  BY DEF GoTo, Asked
<1>2. polls' = {[p EXCEPT !.live = FALSE] : p \in polls} \cup Watch(at, o)
  BY DEF GoTo
<1>3. page'.at = at /\ page'.order = o
  BY <1>1
<1>4. page' \in [at : {"products", "orders"}, order : {NoOrder}]
              \cup [at : {"processing", "receipt"}, order : Orders]
  BY <1>1
<1>5. polls' \subseteq Polls /\ \A p \in polls' : p.live => page' = [at |-> "processing", order |-> p.of]
  <2>1. \A p \in polls : [p EXCEPT !.live = FALSE] \in Polls /\ ~[p EXCEPT !.live = FALSE].live
    BY DEF PageType, Polls
  <2>2. \A p \in Watch(at, o) :
          p \in Polls /\ (p.live => page' = [at |-> "processing", order |-> p.of])
    <3>1. CASE at # "processing"
      BY <3>1 DEF Watch
    <3>2. CASE at = "processing"
      <4>1. o \in Orders /\ Watch(at, o) = {[of |-> o, live |-> TRUE, at |-> "asked"]}
        BY <3>2 DEF Watch
      <4>2. [of |-> o, live |-> TRUE, at |-> "asked"] \in Polls
        BY <4>1 DEF Polls
      <4>3. page' = [at |-> "processing", order |-> o]
        BY <1>1, <3>2
      <4>4. [of |-> o, live |-> TRUE, at |-> "asked"].of = o
        OBVIOUS
      <4>5. ASSUME NEW p \in Watch(at, o)
            PROVE  p \in Polls /\ page' = [at |-> "processing", order |-> p.of]
        <5>1. p = [of |-> o, live |-> TRUE, at |-> "asked"]
          BY <4>1, <4>5
        <5>2. p.of = o
          BY <5>1
        <5>3. QED  BY <4>2, <4>3, <5>1, <5>2, Zenon
      <4>6. QED  BY <4>5
    <3>3. QED  BY <3>1, <3>2
  <2>3. QED  BY <1>2, <2>1, <2>2
<1>6. fetching' \in Orders \cup {NoOrder} /\ late' \subseteq Orders
  BY <1>1 DEF PageType
<1>7. PageType'
  <2>1. /\ note' \in [text : {"failed", "unknown", "unread"}, of : Orders] \cup {NoNote}
        /\ shown' \in [of : Orders, n : 0..MaxQuantity] \cup {Nothing}
    BY <1>1 DEF PageType
  <2>2. direct' \in BOOLEAN /\ overtaken' \in BOOLEAN /\ listed' \subseteq Orders
    BY <1>1 DEF PageType
  <2>3. QED  BY <1>4, <1>5, <1>6, <2>1, <2>2 DEF PageType
<1>8. \A x \in InFlight' \cup listed' : state'[x] = "COMPLETED"
  <2>1. InFlight' \subseteq InFlight \cup (IF at = "receipt" THEN {o} ELSE {})
    BY <1>1 DEF InFlight
  <2>2. QED  BY <1>0, <1>1, <2>1 DEF PageInv
<1>9. NoNote.text # "failed" /\ Nothing = Nothing
  BY DEF NoNote
<1>10. PageInv'
  <2>1. fetching' # NoOrder => page'.at = "receipt" /\ fetching' = page'.order
    BY <1>1, <1>3
  <2>2. late' # {} => direct'
    BY <1>1
  <2>3. note' # NoNote /\ note'.of # page'.order => direct'
    BY <1>1
  <2>4. note'.text = "failed" => state'[note'.of] = "FAILED"
    BY <1>0, <1>1, <1>9 DEF PageInv
  <2>5. page'.at = "receipt" /\ fetching' = NoOrder => FALSE
    BY <1>1, <1>3, NoOrderFact
  <2>6. shown' # Nothing =>
          state'[shown'.of] = "COMPLETED" /\ shown'.n = creds'[shown'.of]
    BY <1>0, <1>1 DEF PageInv
  <2>7. QED  BY <1>8, <2>1, <2>2, <2>3, <2>4, <2>5, <2>6 DEF PageInv
<1>11. QED  BY <1>7, <1>10

\* A reply of the status request, or its loss, is about the order of the page.
LEMMA PollPage ==
  ASSUME PageType, PageInv, ServiceInv, NEW p \in polls,
         StatusReply(p) \/ StatusLost(p) \/ StatusTimer(p) \/ StrayReply(p)
  PROVE  PageType' /\ PageInv' /\ Earned
<1>0. /\ p.of \in Orders /\ p \in Polls /\ (p.live => page = [at |-> "processing", order |-> p.of])
      /\ UNCHANGED service /\ UNCHANGED <<state, creds>>
  BY DEF PageType, Polls, StatusReply, StatusLost, StatusTimer, StrayReply, service
<1>1. CASE GoTo("receipt", p.of) /\ p.live /\ state[p.of] = "COMPLETED"
  <2>1. PageType' /\ PageInv'
    BY <1>0, <1>1, GoToPage
  <2>2. page' = [at |-> "receipt", order |-> p.of]
    BY <1>1 DEF GoTo
  <2>3. QED  BY <1>0, <1>1, <2>1, <2>2 DEF Earned
<1>2. ASSUME NEW n \in {note} \cup [text : {"failed", "unknown"}, of : {p.of}], note' = n,
             n # note => p.live,
             n # note /\ n.text = "failed" => state[p.of] = "FAILED",
             polls' \subseteq (polls \ {p}) \cup {[p EXCEPT !.at = "timer"], [p EXCEPT !.at = "asked"]},
             UNCHANGED <<page, shown, fetching, late, direct, overtaken, listed>>
      PROVE  PageType' /\ PageInv' /\ Earned
  <2>1. \A q \in polls' : q \in Polls /\ (q.live => page = [at |-> "processing", order |-> q.of])
    BY <1>2 DEF PageType, Polls
  <2>2. PageType'
    BY <1>0, <1>2, <2>1 DEF PageType
  <2>3. InFlight' = InFlight
    BY <1>2 DEF InFlight
  <2>4. n # note => n.of = page.order
    BY <1>0, <1>2
  <2>5. n.text = "failed" => state[n.of] = "FAILED"
    BY <1>2 DEF PageInv
  <2>6. page.at = "receipt" => n = note
    BY <1>0, <1>2
  <2>7. PageInv'
    BY <1>0, <1>2, <2>3, <2>4, <2>5, <2>6 DEF PageInv
  <2>8. QED  BY <1>2, <2>2, <2>7 DEF Earned
<1>3. CASE StatusReply(p)
  <2>1. PICK status \in Status(p.of) :
          IF status = "COMPLETED" THEN GoTo("receipt", p.of)
          ELSE /\ note' = IF status = "FAILED" THEN [text |-> "failed", of |-> p.of] ELSE note
               /\ polls' = (polls \ {p}) \cup
                           (IF AsksAgain(status) THEN {[p EXCEPT !.at = "timer"]} ELSE {})
               /\ UNCHANGED <<page, shown, fetching, late, direct, overtaken, listed>>
    BY <1>3 DEF StatusReply
  <2>2. p.live /\ (status = "COMPLETED" => state[p.of] = "COMPLETED")
        /\ (status = "FAILED" => state[p.of] = "FAILED")
    BY <1>3 DEF StatusReply, Status
  <2>3. CASE status = "COMPLETED"
    BY <1>1, <2>1, <2>2, <2>3
  <2>4. CASE status # "COMPLETED"
    <3>1. PICK n \in {IF status = "FAILED" THEN [text |-> "failed", of |-> p.of] ELSE note} :
            note' = n
      BY <2>1, <2>4
    <3>2. n \in {note} \cup [text : {"failed", "unknown"}, of : {p.of}]
      BY <3>1
    <3>3. n # note /\ n.text = "failed" => state[p.of] = "FAILED"
      BY <2>2, <3>1
    <3>4. polls' \subseteq (polls \ {p}) \cup {[p EXCEPT !.at = "timer"], [p EXCEPT !.at = "asked"]}
      BY <2>1, <2>4
    <3>5. UNCHANGED <<page, shown, fetching, late, direct, overtaken, listed>>
      BY <2>1, <2>4
    <3>6. QED  BY <1>2, <2>2, <3>1, <3>2, <3>3, <3>4, <3>5
  <2>5. QED  BY <2>3, <2>4
<1>4. CASE StatusLost(p)
  <2>1. PICK n \in {[text |-> "unknown", of |-> p.of]} : note' = n
    BY <1>4 DEF StatusLost
  <2>2. n \in [text : {"failed", "unknown"}, of : {p.of}] /\ n.text # "failed"
    BY <2>1
  <2>3. p.live /\ polls' = polls \ {p}
        /\ UNCHANGED <<page, shown, fetching, late, direct, overtaken, listed>>
    BY <1>4 DEF StatusLost
  <2>4. QED  BY <1>2, <2>1, <2>2, <2>3
<1>5. CASE StatusTimer(p) \/ StrayReply(p)
  <2>1. /\ polls' \subseteq (polls \ {p}) \cup {[p EXCEPT !.at = "timer"], [p EXCEPT !.at = "asked"]}
        /\ UNCHANGED <<page, note, shown, fetching, late, direct, overtaken, listed>>
    BY <1>5 DEF StatusTimer, StrayReply, Dismiss, receipt
  <2>2. QED  BY <1>2, <2>1
<1>6. QED  BY <1>3, <1>4, <1>5

\* The reply of a receipt request, or its failure, may come late.
LEMMA ReceiptPage ==
  ASSUME PageType, PageInv, ServiceInv, NEW o \in Orders, ReceiptReply(o) \/ ReceiptLost(o)
  PROVE  PageType' /\ PageInv' /\ Earned
<1>0. /\ o \in InFlight /\ state[o] = "COMPLETED" /\ OrderOK(o) /\ creds[o] \in 0..MaxQuantity
      /\ UNCHANGED <<page, direct, polls, listed, state, creds>>
  BY DEF ReceiptReply, ReceiptLost, PageInv, ServiceInv, service
<1>1. /\ fetching' = IF o = fetching THEN NoOrder ELSE fetching
      /\ late' = IF o = fetching THEN late ELSE late \ {o}
  BY DEF ReceiptReply, ReceiptLost, Received
<1>2. InFlight' \subseteq InFlight /\ late' \subseteq late
  BY <1>1 DEF InFlight
<1>3. o = page.order \/ direct
  BY <1>0 DEF InFlight, PageInv
<1>4. CASE ReceiptReply(o)
  <2>1. /\ shown' = [of |-> o, n |-> creds[o]] /\ overtaken' = (fetching = NoOrder) /\ note' = note
    BY <1>4 DEF ReceiptReply
  <2>2. shown'.of = o /\ shown'.n = creds[o] /\ shown' \in [of : Orders, n : 0..MaxQuantity]
    BY <1>0, <2>1
  <2>3. PageType'
    BY <1>0, <1>1, <2>1, <2>2 DEF PageType
  <2>4. fetching' = NoOrder /\ shown'.of # page.order => overtaken'
    BY <1>1, <2>1, <2>2 DEF PageInv
  <2>5. PageInv'
    BY <1>0, <1>1, <1>2, <2>1, <2>2, <2>4 DEF PageInv
  <2>6. QED  BY <1>0, <2>3, <2>5 DEF Earned
<1>5. CASE ReceiptLost(o)
  <2>1. note' = [text |-> "unread", of |-> o] /\ UNCHANGED <<shown, overtaken>>
    BY <1>5 DEF ReceiptLost
  <2>2. note'.of = o /\ note'.text = "unread" /\ note' # NoNote
        /\ note' \in [text : {"failed", "unknown", "unread"}, of : Orders]
    BY <2>1 DEF NoNote
  <2>3. PageType'
    BY <1>0, <1>1, <2>1, <2>2 DEF PageType
  <2>4. PageInv'
    BY <1>0, <1>1, <1>2, <1>3, <2>1, <2>2 DEF PageInv
  <2>5. QED  BY <1>0, <2>3, <2>4 DEF Earned
<1>6. QED  BY <1>4, <1>5

LEMMA PageStep ==
  ASSUME PageType, PageInv, ServiceInv, CallInv, Frozen, [Next]_vars
  PROVE  PageType' /\ PageInv' /\ Earned
<1>1. CASE UNCHANGED vars
  BY <1>1, SamePage DEF vars
<1>2. CASE UseCard \/ UseDialog
  <2>1. UNCHANGED <<page, receipt, polls, listed>>
    BY <1>2 DEF UseCard, UseDialog, PickVariant, TypeQuantity, BuyNow, OpenDialog, TypeMac,
                CheckDevice, CheckReply, ChooseDuration, ChooseOption, OptionsReply,
                OptionsFail, SubmitDialog, CancelDialog, Rest
  <2>2. QED  BY <2>1, SamePage
<1>3. CASE UsePages
  <2>1. CASE \E at \in {"products", "orders"} : OpenPage(at)
    <3>1. PICK at \in {"products", "orders"} : GoTo(at, NoOrder) /\ UNCHANGED service
      BY <2>1 DEF OpenPage
    <3>2. PageType' /\ PageInv'
      BY <3>1, GoToPage
    <3>3. page'.at # "receipt"
      BY <3>1 DEF GoTo
    <3>4. QED  BY <3>2, <3>3 DEF Earned
  <2>2. CASE HistoryReply
    <3>1. listed' = {o \in Orders : state[o] = "COMPLETED"}
          /\ UNCHANGED <<page, note, shown, fetching, late, direct, overtaken, polls, state, creds>>
      BY <2>2 DEF HistoryReply, receipt, service
    <3>2. InFlight' = InFlight
      BY <3>1 DEF InFlight
    <3>3. QED  BY <3>1, <3>2 DEF PageType, PageInv, Earned
  <2>3. CASE \E o \in Orders : ViewReceipt(o)
    <3> PICK o \in Orders : ViewReceipt(o)  BY <2>3
    <3>1. page.at = "orders" /\ state[o] = "COMPLETED" /\ GoTo("receipt", o) /\ UNCHANGED service
      BY DEF ViewReceipt, PageInv
    <3>2. PageType' /\ PageInv'
      BY <3>1, GoToPage
    <3>3. page' = [at |-> "receipt", order |-> o]
      BY <3>1 DEF GoTo
    <3>4. QED  BY <3>1, <3>2, <3>3 DEF Earned
  <2>4. CASE \E o \in Orders : ReceiptReply(o) \/ ReceiptLost(o)
    BY <2>4, ReceiptPage
  <2>5. CASE \E p \in polls : StatusReply(p) \/ StatusLost(p) \/ StatusTimer(p) \/ StrayReply(p)
    BY <2>5, PollPage
  <2>6. QED  BY <1>3, <2>1, <2>2, <2>3, <2>4, <2>5 DEF UsePages
<1>4. CASE Buying
  <2> PICK o \in Orders : Bought(o) \/ Denied(o) \/ Unsure(o) \/ Reserve(o) \/ Refuse(o)
                          \/ TakeOver(o) \/ Fulfil(o)
    BY <1>4 DEF Buying
  <2>1. CASE Bought(o)
    <3>1. /\ client[o] = "waiting" /\ client' = [client EXCEPT ![o] = "told"]
          /\ (Inline(o) => state[o] = "COMPLETED") /\ GoTo(NextPage(o), o) /\ UNCHANGED service
      BY <2>1 DEF Bought
    <3>2. PICK at \in {"receipt", "processing"} :
            GoTo(at, o) /\ (at = "receipt" => state[o] = "COMPLETED")
      BY <3>1 DEF NextPage
    <3>3. PageType' /\ PageInv'
      BY <3>1, <3>2, GoToPage
    <3>4. page' = [at |-> at, order |-> o]
      BY <3>2 DEF GoTo
    <3>5. client'[o] # client[o]
      BY <3>1 DEF CallInv
    <3>6. QED  BY <3>2, <3>3, <3>4, <3>5 DEF Earned
  <2>2. CASE ~Bought(o)
    <3>1. UNCHANGED <<page, receipt, polls, listed>>
      BY <2>2 DEF Denied, Unsure, Reserve, Refuse, TakeOver, Fulfil, Browser
    <3>2. QED  BY <3>1, SamePage
  <2>3. QED  BY <2>1, <2>2
<1>5. QED  BY <1>1, <1>2, <1>3, <1>4 DEF Next

-----------------------------------------------------------------------------

\* Everything the steps of the shop keep.
ShopInv == CardInv /\ DialogInv /\ CallInv /\ ServiceInv /\ PageType /\ PageInv

LEMMA InitShop == Init => ShopInv
<1> SUFFICES ASSUME Init PROVE ShopInv  OBVIOUS
<1>0. Typed /\ product \in Products /\ 0 \in 0..MaxQuantity
  BY MaxQuantityType, InitInv DEF CardInv, Typed
<1>1. DialogInv
  <2>1. card = FreshCard(product) /\ probe = NoMac /\ asks = 0 /\ edited = FALSE
    BY DEF Init
  <2>2. ~card.modal /\ card.variant = IF product.variants = <<>> THEN NoVariant
                                      ELSE product.variants[1]
    BY <2>1 DEF FreshCard
  <2>3. product.variants \in Seq(Variants)
    BY <1>0, StorefrontAssumption
  <2>4. product.variants # <<>> => 1 \in 1..Len(product.variants)
    BY <2>3
  <2>5. CardFits /\ Honest
    BY <2>2, <2>4 DEF CardFits, Honest, Has
  <2>6. QED  BY <2>1, <2>5, MaxAsksType DEF DialogInv
<1>2. CallInv
  BY DEF Init, CallInv
<1>3. ServiceInv
  <2>1. terms \in [Orders -> [reseller : {Buyer}, kind : Services]]
    <3>1. product.service \in Services
      BY <1>0, StorefrontAssumption
    <3>2. terms = [o \in Orders |-> [reseller |-> Buyer, kind |-> product.service]]
      BY DEF Init
    <3>3. QED  BY <3>1, <3>2
  <2>2. /\ state = [o \in Orders |-> "NONE"] /\ quantity = [o \in Orders |-> 0]
        /\ creds = [o \in Orders |-> 0]
    BY DEF Init
  <2>3. QED  BY <1>0, <2>1, <2>2 DEF ServiceInv, OrderOK
<1>4. PageType /\ PageInv
  BY NoOrderFact DEF Init, PageType, PageInv, InFlight, NoNote, Nothing
<1>5. QED  BY <1>1, <1>2, <1>3, <1>4, InitInv DEF ShopInv

LEMMA ShopStep ==
  ShopInv /\ [Next]_vars => ShopInv' /\ Submits /\ Earned
<1> SUFFICES ASSUME ShopInv, [Next]_vars PROVE ShopInv' /\ Submits /\ Earned
  OBVIOUS
<1>1. CardInv /\ DialogInv /\ CallInv /\ ServiceInv /\ PageType /\ PageInv
  BY DEF ShopInv
<1>2. CardInv'
  <2>1. CardInv /\ UNCHANGED vars => CardInv'
    BY SameInv DEF vars
  <2>2. QED  BY <1>1, <2>1, UseCardInv, UseDialogInv, UsePagesInv, BuyingInv DEF Next
<1>3. ServiceInv' /\ Frozen
  BY <1>1, ServiceStep
<1>4. DialogInv'
  BY <1>1, DialogStep
<1>5. CallInv' /\ Submits
  BY <1>1, <1>3, CallStep
<1>6. PageType' /\ PageInv' /\ Earned
  BY <1>1, <1>3, PageStep
<1>7. QED  BY <1>2, <1>3, <1>4, <1>5, <1>6 DEF ShopInv

\* The invariant of the whole shop is inductive.
THEOREM ShopAlways == Spec => []ShopInv
<1>1. ShopInv /\ [Next]_vars => ShopInv'
  BY ShopStep
<1>2. QED  BY <1>1, InitShop, PTL DEF Spec

\* Types; a dialog is open only for products that have one, and the one live status
\* request is that of the page that is open.
THEOREM ShopTyped == Spec => []TypeOK
<1>1. ShopInv => TypeOK
  <2> SUFFICES ASSUME ShopInv PROVE TypeOK  OBVIOUS
  <2>1. /\ product \in Products /\ card \in CardType /\ probe \in Macs \cup {NoMac}
        /\ viaModal \subseteq mine /\ (card.modal => product.kind \in Asking)
    BY DEF ShopInv, CardInv, Typed, Owned
  <2>2. asks \in 0..MaxAsks /\ edited \in BOOLEAN
    BY DEF ShopInv, DialogInv
  <2>3. /\ stage \in [Orders -> {"unused", "sent", "refused", "inline", "taken", "queued"}]
        /\ client \in [Orders -> {"none", "waiting", "told", "denied", "unsure"}]
        /\ ask \in [Orders -> [variant : Variants, qty : 1..MaxQuantity] \cup {NoAsk}]
        /\ mine \subseteq Orders
    BY DEF ShopInv, CallInv, Body
  <2>4. PageType
    BY DEF ShopInv
  <2>5. QED  BY <2>1, <2>2, <2>3, <2>4 DEF TypeOK, PageType
<1>2. QED  BY <1>1, ShopAlways, PTL

\* The service's own refusal of a purchase (the catch block of ProductCard.jsx) means
\* that nothing of it is charged, where the product has a provider and no admin's session
\* had taken the order from the request (whatsapp_order, handlers/admin.rs).
THEOREM DenialsAreFree == Spec => []DeniedIsFree
<1>1. ShopInv => DeniedIsFree
  <2> SUFFICES ASSUME ShopInv, NEW o \in Orders, client[o] = "denied",
                      terms[o].kind # "none", stage[o] # "taken"
               PROVE  quantity[o] = 0 /\ creds[o] = 0
    BY DEF DeniedIsFree
  <2>1. stage[o] = "refused" \/ state[o] = "FAILED"
    BY DEF ShopInv, CallInv
  <2>2. /\ OrderOK(o) /\ creds[o] \in 0..MaxQuantity /\ MaxQuantity \in Nat
    BY OrderFacts, MaxQuantityType DEF ShopInv
  <2>3. quantity[o] = 0
    BY <2>1, <2>2 DEF OrderOK
  <2>4. QED  BY <2>2, <2>3 DEF OrderOK
<1>2. QED  BY <1>1, ShopAlways, PTL

\* What a page shows is of its own order, except for an error that stays and a reply
\* that came late, and a receipt lists all that was delivered, which is nothing of a
\* whatsapp order closed by hand (the effects of ProcessingPage.jsx and ReceiptPage.jsx).
THEOREM PagesShowTheirOrder == Spec => []PageShowsItsOrder
<1>1. ShopInv => PageShowsItsOrder
  <2> SUFFICES ASSUME ServiceInv, PageType, PageInv PROVE PageShowsItsOrder  BY DEF ShopInv
  <2>1. InFlight = {} => fetching = NoOrder
    BY DEF InFlight
  <2>2. shown # Nothing => shown.of \in Orders
    BY DEF PageType
  <2>3. shown # Nothing =>
          /\ state[shown.of] = "COMPLETED" /\ shown.n = creds[shown.of]
          /\ \/ shown.n = quantity[shown.of] /\ shown.n > 0
             \/ terms[shown.of].kind = "whatsapp" /\ shown.n = 0
    BY <2>2 DEF PageInv, ServiceInv, OrderOK
  <2>4. QED  BY <2>1, <2>3 DEF PageInv, PageShowsItsOrder
<1>2. QED  BY <1>1, ShopAlways, PTL

\* The purchase dialog of ProductCard.jsx shows the check of the MAC it was asked for,
\* and says why it offers no packages of promax, unless an empty list came.
THEOREM DialogsAreHonest == Spec => []DialogIsHonest
<1>1. ShopInv => DialogIsHonest
  BY DEF ShopInv, DialogInv, Honest, DialogIsHonest
<1>2. QED  BY <1>1, ShopAlways, PTL

\* A receipt is reached only by the purchase, the waiting page or a link of an order
\* that is completed, and by no timer of a page that was left.
THEOREM ReceiptsAreEarned == Spec => ReceiptIsEarned
<1>1. ShopInv /\ [Next]_vars =>
        [page' # page /\ page'.at = "receipt" =>
           LET o == page'.order IN
           /\ state[o] = "COMPLETED"
           /\ \/ client'[o] # client[o]
              \/ page.at = "orders"
              \/ page = [at |-> "processing", order |-> o]]_vars
  BY ShopStep DEF Earned
<1>2. QED  BY <1>1, ShopAlways, PTL DEF Spec, ReceiptIsEarned

\* What is bought is the variant and quantity the card displays, but for the dialogs
\* that choose by a duration (handleBuyNow and the dialog's submit of ProductCard.jsx).
THEOREM PurchasesAreAsDisplayed == Spec => BoughtAsDisplayed
<1>1. ShopInv /\ [Next]_vars =>
        [\A o \in Orders :
           stage[o] = "unused" /\ stage'[o] = "sent" =>
             /\ \/ ask'[o].variant = card.variant
                \/ /\ product.kind = "hotplayer"
                   /\ \/ (card.variant \in Lifetime) # (card.duration = "forever")
                      \/ \E v, w \in Variants : /\ v # w /\ Has(v) /\ Has(w)
                                               /\ (v \in Lifetime) = (w \in Lifetime)
             /\ ask'[o].qty = card.qty \/ product.kind \in {"hotplayer", "promax"}]_vars
  BY ShopStep DEF Submits, Displayed
<1>2. QED  BY <1>1, ShopAlways, PTL DEF Spec, BoughtAsDisplayed
=============================================================================
