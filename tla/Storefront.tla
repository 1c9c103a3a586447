----------------------------- MODULE Storefront -----------------------------
(***************************************************************************)
(* A reseller at the shop: the card of one product with its purchase       *)
(* dialog (ProductCard.jsx), the pages that wait for an order and show it  *)
(* (ProcessingPage.jsx, ReceiptPage.jsx) and the order history             *)
(* (OrdersHistory.jsx), over the order service as OrderContract promises   *)
(* it.                                                                     *)
(*                                                                         *)
(* A step is one event of the browser (a click, an input, a reply, a       *)
(* timer) or one step of the service.  A page that is left is unmounted:   *)
(* its state is gone, but its requests and timers run on, and so do the    *)
(* functions that wait for them.  An order is named by the submission that *)
(* placed it, as each draws an idempotency key of its own.                 *)
(***************************************************************************)
EXTENDS Integers, Sequences

CONSTANTS
  Orders,          \* submissions of a purchase
  NoOrder,
  Variants, NoVariant,
  Lifetime,        \* variants whose display_name is 'Lifetime'
  Price,           \* [Variants -> Int], price_in_credits
  Products,        \* the products the card may be for
  Macs, NoMac,     \* well-formed MAC addresses
  Buyer, Credits,
  AsyncThreshold,  \* quantities above it are left to the worker
  MaxQuantity,     \* the 50 of the quantity box and of the service
  MaxAsks          \* option requests of one card in flight; bounds the runs

\* The dialog of these providers asks for more than a quantity.
Asking == {"hotplayer", "golden_api", "promax", "redfoxx"}

\* What fulfils the orders of a product, the AdapterKinds of OrderFlow.
Services == {"panel", "nodns", "whatsapp", "none", "broken"}

ASSUME StorefrontAssumption ==
  /\ NoOrder \notin Orders /\ NoVariant \notin Variants /\ NoMac \notin Macs
  /\ {"", "malformed"} \cap Macs = {}
  /\ Lifetime \subseteq Variants
  /\ Price \in [Variants -> Int]
  /\ Products \subseteq [kind : Asking \cup {"other"}, service : Services, manual : BOOLEAN,
                         variants : Seq(Variants), soldOut : SUBSET Variants]
  /\ Credits \in Int /\ AsyncThreshold \in Nat /\ MaxAsks \in Nat
  /\ MaxQuantity \in Nat \ {0}

VARIABLES
  product,    \* what the card is for, as the product list gave it
  card,       \* the state hooks of ProductCard
  probe,      \* MAC of the /check-device/ request in flight
  asks,       \* requests for options (bouquets, templates) in flight
  page,       \* the route and its orderId
  note,       \* the error hook of a page, and the order it came from
  shown,      \* the order and credentials hooks of ReceiptPage
  fetching,   \* order of the latest receipt request, while it is in flight
  late,       \* orders of earlier receipt requests still in flight
  polls,      \* status requests and their timers
  listed,     \* orders the history offers a receipt of
  stage,      \* how far a purchase request got at the service
  client,     \* what the card knows of it
  ask,        \* its body, until the service has dealt with it
  mine,       \* submissions in flight of the card that is mounted now
  viaModal,   \* those made in its dialog
  direct,     \* history: the page was reached from the same page of another order
  overtaken,  \* history: the last reply a receipt showed was not the last requested
  edited,     \* history: the MAC was edited, or the dialog reopened, during a check
  balance, terms, state, quantity, unit, creds

Shop == INSTANCE OrderContract
          WITH Resellers <- {Buyer}, Prices <- {Price[v] : v \in Variants}, Amounts <- {}

service == <<balance, terms, state, quantity, unit, creds>>
calls == <<stage, client, ask>>
own == <<mine, viaModal>>
receipt == <<note, shown, fetching, late, direct, overtaken>>
dialog == <<card, probe, asks, edited>>
vars == <<product, dialog, page, receipt, polls, listed, calls, own, service>>

-----------------------------------------------------------------------------
(* What the card derives from its product *)

Has(v) == \E i \in 1..Len(product.variants) : product.variants[i] = v
First(P(_), default) ==
  IF \E i \in 1..Len(product.variants) : P(product.variants[i])
  THEN product.variants[CHOOSE i \in 1..Len(product.variants) :
         /\ P(product.variants[i])
         /\ \A j \in 1..(i - 1) : ~P(product.variants[j])]
  ELSE default

ByPosition(label) ==
  IF product.variants = <<>> THEN NoVariant
  ELSE product.variants[IF label = "forever" THEN Len(product.variants) ELSE 1]
DurationVariant(label) ==
  IF product.variants = <<>> THEN NoVariant
  ELSE IF label = "forever"
       THEN First(LAMBDA v : v \in Lifetime, product.variants[Len(product.variants)])
       ELSE First(LAMBDA v : v \notin Lifetime, product.variants[1])

OutOfStock(v) == product.manual /\ v \in product.soldOut

FreshCard(p) ==
  [variant |-> IF p.variants = <<>> THEN NoVariant ELSE p.variants[1],
   qty |-> 1, buying |-> FALSE, modal |-> FALSE, mac |-> "", duration |-> "year",
   option |-> FALSE, options |-> "unknown", optionsError |-> FALSE,
   error |-> FALSE, activating |-> FALSE, check |-> "", checking |-> FALSE]

Nothing == [of |-> NoOrder, n |-> 0]
NoNote == [text |-> "", of |-> NoOrder]
NoAsk == [variant |-> NoVariant, qty |-> 0]

Init ==
  /\ product \in Products
  /\ card = FreshCard(product)
  /\ probe = NoMac /\ asks = 0 /\ edited = FALSE
  /\ page = [at |-> "products", order |-> NoOrder]
  /\ note = NoNote /\ shown = Nothing /\ fetching = NoOrder /\ late = {}
  /\ direct = FALSE /\ overtaken = FALSE
  /\ polls = {} /\ listed = {} /\ mine = {} /\ viaModal = {}
  /\ stage = [o \in Orders |-> "unused"]
  /\ client = [o \in Orders |-> "none"]
  /\ ask = [o \in Orders |-> NoAsk]
  /\ balance = [u \in {Buyer} |-> Credits]
  /\ terms = [o \in Orders |-> [reseller |-> Buyer, kind |-> product.service]]
  /\ state = [o \in Orders |-> "NONE"]
  /\ quantity = [o \in Orders |-> 0]
  /\ unit = [o \in Orders |-> 0]
  /\ creds = [o \in Orders |-> 0]

-----------------------------------------------------------------------------
(* The card *)

OnCard == page.at = "products" /\ ~card.modal
InDialog == page.at = "products" /\ card.modal
Rest == <<product, page, receipt, polls, listed, service>>

\* The buttons of the variants, when there is a choice.
PickVariant(v) ==
  /\ OnCard /\ Len(product.variants) > 1 /\ Has(v) /\ ~OutOfStock(v)
  /\ card' = [card EXCEPT !.variant = v]
  /\ UNCHANGED <<probe, asks, edited, calls, own, Rest>>

NoLimit(n) == IF n < 1 THEN 1 ELSE n
Clamp(n) == IF n < 1 THEN 1 ELSE IF n > MaxQuantity THEN MaxQuantity ELSE n

TypeQuantity(n) ==
  /\ OnCard /\ ~OutOfStock(card.variant)
  /\ card' = [card EXCEPT !.qty = Clamp(n)]
  /\ UNCHANGED <<probe, asks, edited, calls, own, Rest>>

\* submitPurchase up to its request; c is the card with what the caller set.
Submit(c, v, n) ==
  /\ \E o \in Orders : stage[o] = "unused"
  /\ LET o == CHOOSE x \in Orders : stage[x] = "unused" IN
     /\ stage' = [stage EXCEPT ![o] = "sent"]
     /\ client' = [client EXCEPT ![o] = "waiting"]
     /\ ask' = [ask EXCEPT ![o] = [variant |-> v, qty |-> n]]
     /\ mine' = mine \cup {o}
     /\ viaModal' = IF card.modal THEN viaModal \cup {o} ELSE viaModal
  /\ card' = [c EXCEPT !.buying = TRUE]

BuyAnyTime == card.variant # NoVariant /\ ~OutOfStock(card.variant)
CanBuy == card.variant # NoVariant /\ ~OutOfStock(card.variant) /\ ~card.buying

BuyNow ==
  /\ OnCard /\ CanBuy /\ product.kind \notin Asking
  /\ Submit(card, card.variant, card.qty)
  /\ UNCHANGED <<probe, asks, edited, Rest>>

\* The duration the dialog starts with.
InitialDuration ==
  IF product.kind = "hotplayer" /\ card.variant \in Lifetime THEN "forever" ELSE "year"

AsksOptions == product.kind \in {"golden_api", "promax"}

OpenDialog ==
  /\ OnCard /\ CanBuy /\ product.kind \in Asking
  /\ AsksOptions => asks < MaxAsks
  /\ card' = [card EXCEPT !.modal = TRUE, !.duration = InitialDuration, !.mac = "",
                          !.error = FALSE, !.check = "", !.option = FALSE,
                          !.optionsError = FALSE]
  /\ asks' = IF AsksOptions THEN asks + 1 ELSE asks
  /\ edited' = (probe # NoMac)
  /\ UNCHANGED <<probe, calls, own, Rest>>

-----------------------------------------------------------------------------
(* The dialog *)

KeepOldCheck == card.check
TypedCheck == ""

\* "" stands for whatever is no well-formed MAC, the empty box included.
TypeMac(m) ==
  /\ InDialog /\ product.kind = "hotplayer"
  /\ card' = [card EXCEPT !.mac = m, !.check = TypedCheck]
  /\ edited' = (edited \/ probe # NoMac)
  /\ UNCHANGED <<probe, asks, calls, own, Rest>>

CheckDevice ==
  /\ InDialog /\ product.kind = "hotplayer" /\ ~card.checking
  /\ IF card.mac \in Macs
     THEN /\ card' = [card EXCEPT !.checking = TRUE, !.check = ""]
          /\ probe' = card.mac /\ edited' = FALSE
     ELSE /\ card' = [card EXCEPT !.check = "malformed"]
          /\ UNCHANGED <<probe, edited>>
  /\ UNCHANGED <<asks, calls, own, Rest>>

\* The answer, or an error, of the request for probe.
CheckReply ==
  /\ probe # NoMac
  /\ card' = [card EXCEPT !.check = probe, !.checking = FALSE]
  /\ probe' = NoMac
  /\ UNCHANGED <<asks, edited, calls, own, Rest>>

ChooseDuration(d) ==
  /\ InDialog /\ product.kind = "hotplayer"
  /\ card' = [card EXCEPT !.duration = d]
  /\ UNCHANGED <<probe, asks, edited, calls, own, Rest>>

\* The list is rendered once there is one; choosing is optional for golden_api.
ChooseOption(chosen) ==
  /\ InDialog /\ AsksOptions /\ card.options = "some"
  /\ card' = [card EXCEPT !.option = chosen]
  /\ UNCHANGED <<probe, asks, edited, calls, own, Rest>>

\* The list that came is kept, also when there is nothing in it.  (The hook is
\* empty before the first reply as well; the model tells the two apart.)
OptionsReply ==
  /\ asks > 0
  /\ \E list \in {"some", "empty"} : card' = [card EXCEPT !.options = list]
  /\ asks' = asks - 1
  /\ UNCHANGED <<probe, edited, calls, own, Rest>>

\* A failure empties the templates, but leaves the bouquets and says so.
SilentFailure == [card EXCEPT !.options = "unknown"]
FailedOptions ==
  IF product.kind = "promax" THEN [card EXCEPT !.optionsError = TRUE]
                             ELSE [card EXCEPT !.options = "unknown"]
OptionsFail ==
  /\ asks > 0
  /\ card' = FailedOptions
  /\ asks' = asks - 1
  /\ UNCHANGED <<probe, edited, calls, own, Rest>>

Chosen == IF product.kind = "hotplayer" THEN DurationVariant(card.duration) ELSE card.variant
Units == IF product.kind \in {"hotplayer", "promax"} THEN 1 ELSE card.qty

Complete ==
  CASE product.kind = "hotplayer" -> card.mac \in Macs /\ Chosen # NoVariant
    [] product.kind = "promax" -> card.option
    [] OTHER -> TRUE

\* What a submission that is not complete leaves behind.
Rejected == [card EXCEPT !.error = TRUE]

SubmitDialog ==
  /\ InDialog /\ ~card.activating
  /\ IF Complete
     THEN Submit([card EXCEPT !.error = FALSE, !.activating = TRUE], Chosen, Units)
     ELSE card' = Rejected /\ UNCHANGED <<calls, own>>
  /\ UNCHANGED <<probe, asks, edited, Rest>>

\* A click beside the dialog cancels it even while a purchase is in flight.
CancelDialog ==
  /\ InDialog
  /\ card' = [card EXCEPT !.modal = FALSE, !.mac = "", !.error = FALSE, !.check = "",
                          !.option = FALSE,
                          !.options = IF product.kind = "golden_api" THEN @ ELSE "unknown"]
  /\ UNCHANGED <<probe, asks, edited, calls, own, Rest>>

-----------------------------------------------------------------------------
(* Navigation *)

Watch(at, o) == IF at = "processing" THEN {[of |-> o, live |-> TRUE, at |-> "asked"]} ELSE {}

\* ReceiptPage asks again when its orderId changes; earlier requests run on.
AskedOnce(at, o) == IF page.at = at THEN fetching ELSE o
Asked(at, o) == IF at = "receipt" THEN o ELSE NoOrder

\* The router mounts a page afresh, unless only its orderId changes.
GoTo(at, o) ==
  LET kept == page.at = at IN
  /\ page' = [at |-> at, order |-> o]
  /\ note' = IF kept THEN note ELSE NoNote
  /\ shown' = IF kept THEN shown ELSE Nothing
  /\ direct' = kept
  /\ overtaken' = (kept /\ overtaken)
  /\ fetching' = Asked(at, o)
  /\ late' = IF kept /\ fetching # NoOrder THEN late \cup {fetching}
             ELSE IF kept THEN late ELSE {}
  /\ polls' = {[p EXCEPT !.live = FALSE] : p \in polls} \cup Watch(at, o)
  /\ card' = FreshCard(product)
  /\ probe' = NoMac /\ asks' = 0 /\ edited' = FALSE
  /\ listed' = {} /\ mine' = {} /\ viaModal' = {}

OpenPage(at) ==
  /\ at \in {"products", "orders"} /\ page.at # at
  /\ GoTo(at, NoOrder)
  /\ UNCHANGED <<product, calls, service>>

-----------------------------------------------------------------------------
(* The reply of a purchase, which may find its card gone *)

Inline(o) == stage[o] \in {"inline", "taken"}
Reserved(o) == Inline(o) \/ stage[o] = "queued"

ReceiptAtOnce(o) == "receipt"
NextPage(o) == IF Inline(o) THEN "receipt" ELSE "processing"

Bought(o) ==
  /\ client[o] = "waiting" /\ Reserved(o)
  /\ Inline(o) => state[o] = "COMPLETED"
  /\ client' = [client EXCEPT ![o] = "told"]
  /\ GoTo(NextPage(o), o)
  /\ UNCHANGED <<product, stage, ask, service>>

\* What the catch and finally blocks do to a card that is still there.
CatchAndFinally(o) ==
  IF o \notin mine THEN card
  ELSE [card EXCEPT !.buying = FALSE,
                    !.error = IF o \in viaModal THEN TRUE ELSE @,
                    !.activating = IF o \in viaModal THEN FALSE ELSE @]

\* The 400 of the service.  The handler reads the status after fulfill_order, which
\* has closed the order, unless another fulfiller had taken it: then any status but
\* COMPLETED is a 400 as well.
DeclinedUnlessLoaded(o) == stage[o] = "refused" \/ (Inline(o) /\ creds[o] = 0)
Declined(o) ==
  \/ stage[o] = "refused"
  \/ stage[o] = "inline" /\ state[o] = "FAILED"
  \/ stage[o] = "taken" /\ state[o] # "COMPLETED"

Denied(o) ==
  /\ client[o] = "waiting" /\ Declined(o)
  /\ client' = [client EXCEPT ![o] = "denied"]
  /\ card' = CatchAndFinally(o)
  /\ mine' = mine \ {o} /\ viaModal' = viaModal \ {o}
  /\ UNCHANGED <<product, probe, asks, edited, page, receipt, polls, listed, stage, ask,
                 service>>

\* The connection breaks, or the service answers 500: the order may exist.
Unsure(o) ==
  /\ client[o] = "waiting"
  /\ client' = [client EXCEPT ![o] = "unsure"]
  /\ card' = CatchAndFinally(o)
  /\ mine' = mine \ {o} /\ viaModal' = viaModal \ {o}
  /\ UNCHANGED <<product, probe, asks, edited, page, receipt, polls, listed, stage, ask,
                 service>>

-----------------------------------------------------------------------------
(* The pages of an order *)

Status(o) == IF state[o] = "OPEN" THEN {"PENDING", "PROCESSING"} ELSE {state[o]}

PendingOnly(status) == status = "PENDING"
AsksAgain(status) == status \notin {"COMPLETED", "FAILED"}

StatusReply(p) ==
  /\ p \in polls /\ p.at = "asked" /\ p.live
  /\ \E status \in Status(p.of) :
       IF status = "COMPLETED"
       THEN GoTo("receipt", p.of)
       ELSE /\ note' = IF status = "FAILED" THEN [text |-> "failed", of |-> p.of] ELSE note
            /\ polls' = (polls \ {p}) \cup
                         (IF AsksAgain(status) THEN {[p EXCEPT !.at = "timer"]} ELSE {})
            /\ UNCHANGED <<dialog, page, shown, fetching, late, direct, overtaken, listed,
                           own>>
  /\ UNCHANGED <<product, calls, service>>

StatusLost(p) ==
  /\ p \in polls /\ p.at = "asked" /\ p.live
  /\ note' = [text |-> "unknown", of |-> p.of]
  /\ polls' = polls \ {p}
  /\ UNCHANGED <<product, dialog, page, shown, fetching, late, direct, overtaken, listed,
                 calls, own, service>>

\* The timer is not cleared when the page is left: it asks once more.
StatusTimer(p) ==
  /\ p \in polls /\ p.at = "timer"
  /\ polls' = (polls \ {p}) \cup {[p EXCEPT !.at = "asked"]}
  /\ UNCHANGED <<product, dialog, page, receipt, listed, calls, own, service>>

\* A reply that finds its page left.
FollowAnyway(p) ==
  IF state[p.of] = "COMPLETED"
  THEN GoTo("receipt", p.of)
  ELSE /\ polls' = polls \ {p}
       /\ UNCHANGED <<dialog, page, receipt, listed, own>>
Dismiss(p) ==
  /\ polls' = polls \ {p}
  /\ UNCHANGED <<dialog, page, receipt, listed, own>>

StrayReply(p) ==
  /\ p \in polls /\ p.at = "asked" /\ ~p.live
  /\ Dismiss(p)
  /\ UNCHANGED <<product, calls, service>>

InFlight == late \cup ({fetching} \ {NoOrder})

Received(o) ==
  /\ fetching' = IF o = fetching THEN NoOrder ELSE fetching
  /\ late' = IF o = fetching THEN late ELSE late \ {o}

ReceiptReply(o) ==
  /\ o \in InFlight
  /\ Received(o)
  /\ shown' = [of |-> o, n |-> creds[o]]
  /\ overtaken' = (fetching = NoOrder)
  /\ UNCHANGED <<product, dialog, page, note, direct, polls, listed, calls, own, service>>

\* Either of its two requests fails.
ReceiptLost(o) ==
  /\ o \in InFlight
  /\ Received(o)
  /\ note' = [text |-> "unread", of |-> o]
  /\ UNCHANGED <<product, dialog, page, shown, direct, overtaken, polls, listed, calls, own,
                 service>>

HistoryReply ==
  /\ page.at = "orders"
  /\ listed' = {o \in Orders : state[o] = "COMPLETED"}
  /\ UNCHANGED <<product, dialog, page, receipt, polls, calls, own, service>>

ViewReceipt(o) ==
  /\ page.at = "orders" /\ o \in listed
  /\ GoTo("receipt", o)
  /\ UNCHANGED <<product, calls, service>>

-----------------------------------------------------------------------------
(* The order service *)

Browser == <<product, dialog, page, receipt, polls, listed, own, client>>

Reserve(o) ==
  /\ stage[o] = "sent"
  /\ Shop!Buy(o, ask[o].qty, Price[ask[o].variant])
  /\ stage' = [stage EXCEPT ![o] = IF ask[o].qty <= AsyncThreshold THEN "inline" ELSE "queued"]
  /\ ask' = [ask EXCEPT ![o] = NoAsk]
  /\ UNCHANGED Browser

\* Any refusal before the reservation.
Refuse(o) ==
  /\ stage[o] = "sent"
  /\ stage' = [stage EXCEPT ![o] = "refused"]
  /\ ask' = [ask EXCEPT ![o] = NoAsk]
  /\ UNCHANGED <<Browser, service>>

\* An admin's whatsapp_order, which takes any order, wins the claim before the request.
TakeOver(o) ==
  /\ stage[o] = "inline" /\ state[o] = "OPEN"
  /\ creds[o] = 0 /\ quantity[o] > 0
  /\ stage' = [stage EXCEPT ![o] = "taken"]
  /\ UNCHANGED <<Browser, ask, service>>

\* Only a panel with a DNS host delivers.  One without, and the whatsapp stub, at most
\* fail and refund; an order whose credential or provider is rejected stays open for ever.
Fulfil(o) ==
  /\ \/ terms[o].kind = "panel" /\ Shop!Deliver(o)
     \/ terms[o].kind \in {"panel", "nodns", "whatsapp"} /\ (Shop!Refund(o) \/ Shop!Settle(o))
     \/ quantity[o] > 0 /\ Shop!CloseByHand(o)
  /\ UNCHANGED <<Browser, stage, ask>>

-----------------------------------------------------------------------------

UseCard ==
  \/ \E v \in Variants : PickVariant(v)
  \/ \E n \in 0..(MaxQuantity + 1) : TypeQuantity(n)
  \/ BuyNow \/ OpenDialog

UseDialog ==
  \/ \E m \in Macs \cup {""} : TypeMac(m)
  \/ CheckDevice \/ CheckReply
  \/ \E d \in {"year", "forever"} : ChooseDuration(d)
  \/ \E chosen \in BOOLEAN : ChooseOption(chosen)
  \/ OptionsReply \/ OptionsFail \/ SubmitDialog \/ CancelDialog

UsePages ==
  \/ \E at \in {"products", "orders"} : OpenPage(at)
  \/ HistoryReply
  \/ \E o \in Orders : ViewReceipt(o) \/ ReceiptReply(o) \/ ReceiptLost(o)
  \/ \E p \in polls : StatusReply(p) \/ StatusLost(p) \/ StatusTimer(p) \/ StrayReply(p)

Buying ==
  \E o \in Orders :
    \/ Bought(o) \/ Denied(o) \/ Unsure(o)
    \/ Reserve(o) \/ Refuse(o) \/ TakeOver(o) \/ Fulfil(o)

Next == UseCard \/ UseDialog \/ UsePages \/ Buying

Spec == Init /\ [][Next]_vars

Polls == [of : Orders, live : BOOLEAN, at : {"asked", "timer"}]

\* Requests are answered or break, and timers fire.  The service owes nothing: whether
\* it closes an order depends on the product and on failures (EveryOrderSettles of
\* OrderFlow); and the reseller is obliged to nothing.
Watching(o) ==
  \E p \in polls : p.of = o /\ p.live /\ (StatusReply(p) \/ StatusLost(p) \/ StatusTimer(p))

Fairness ==
  \A o \in Orders : /\ WF_vars(Bought(o) \/ Denied(o) \/ Unsure(o))
                    /\ WF_vars(Watching(o))

FairSpec == Spec /\ Fairness

-----------------------------------------------------------------------------
(* Properties *)

CardType ==
  [variant : Variants \cup {NoVariant}, qty : 1..MaxQuantity, buying : BOOLEAN,
   modal : BOOLEAN, mac : Macs \cup {""}, duration : {"year", "forever"},
   option : BOOLEAN, options : {"unknown", "some", "empty"}, optionsError : BOOLEAN, error : BOOLEAN,
   activating : BOOLEAN, check : Macs \cup {"", "malformed"}, checking : BOOLEAN]

\* Types. A dialog is open only for the products that have one, the browser has
\* at most one live status request, and it belongs to the page that is open.
TypeOK ==
  /\ product \in Products /\ card \in CardType
  /\ probe \in Macs \cup {NoMac} /\ asks \in 0..MaxAsks /\ edited \in BOOLEAN
  /\ page \in [at : {"products", "orders"}, order : {NoOrder}]
            \cup [at : {"processing", "receipt"}, order : Orders]
  /\ note \in [text : {"failed", "unknown", "unread"}, of : Orders] \cup {NoNote}
  /\ shown \in [of : Orders, n : 0..MaxQuantity] \cup {Nothing}
  /\ fetching \in Orders \cup {NoOrder} /\ late \subseteq Orders
  /\ direct \in BOOLEAN /\ overtaken \in BOOLEAN
  /\ polls \subseteq Polls /\ listed \subseteq Orders
  /\ stage \in [Orders -> {"unused", "sent", "refused", "inline", "taken", "queued"}]
  /\ client \in [Orders -> {"none", "waiting", "told", "denied", "unsure"}]
  /\ ask \in [Orders -> [variant : Variants, qty : 1..MaxQuantity] \cup {NoAsk}]
  /\ mine \subseteq Orders /\ viaModal \subseteq mine
  /\ card.modal => product.kind \in Asking
  /\ \A p \in polls : p.live => page = [at |-> "processing", order |-> p.of]

\* A card has at most one purchase in flight, although its dialog can be
\* cancelled while one is, and the two buttons look at different flags.
OnePurchasePerCard ==
  \A o, p \in mine : o = p

\* What is bought is the variant and quantity the card displays. The dialogs of
\* hotplayer and promax buy one unit whatever the quantity box says, and that of
\* hotplayer may buy another variant only if the reseller chose the other
\* duration there, or the product has several variants of one of the two kinds.
BoughtAsDisplayed ==
  [][\A o \in Orders :
       stage[o] = "unused" /\ stage'[o] = "sent" =>
         /\ \/ ask'[o].variant = card.variant
            \/ /\ product.kind = "hotplayer"
               /\ \/ (card.variant \in Lifetime) # (card.duration = "forever")
                  \/ \E v, w \in Variants : /\ v # w /\ Has(v) /\ Has(w)
                                           /\ (v \in Lifetime) = (w \in Lifetime)
         /\ ask'[o].qty = card.qty \/ product.kind \in {"hotplayer", "promax"}]_vars

\* An error that is the service's own answer (a 400) means that nothing is charged or
\* held, unless the product has no provider, or an admin's session had taken the order
\* from the request: only then may the refused order be charged, and be delivered yet.
DeniedIsFree ==
  \A o \in Orders :
    client[o] = "denied" /\ terms[o].kind # "none" /\ stage[o] # "taken" =>
      quantity[o] = 0 /\ creds[o] = 0

\* A page shows an error of another order only if it was reached from that
\* order's page, since the error stays, and a receipt ends up with another order's
\* credentials only if the replies of two requests crossed.  A receipt lists every
\* credential of a completed order, at least one, or none of a whatsapp order that was
\* completed by hand.
PageShowsItsOrder ==
  /\ note # NoNote /\ note.of # page.order => direct
  /\ note.text = "failed" => state[note.of] = "FAILED"
  /\ page.at = "receipt" /\ InFlight = {} /\ note = NoNote /\ shown.of # page.order => overtaken
  /\ page.at = "receipt" /\ shown # Nothing =>
       /\ state[shown.of] = "COMPLETED" /\ shown.n = creds[shown.of]
       /\ \/ shown.n = quantity[shown.of] /\ shown.n > 0
          \/ terms[shown.of].kind = "whatsapp" /\ shown.n = 0

\* The result of a device check is that of the MAC in the box, unless the MAC was
\* edited, or the dialog reopened, before the check was answered.  The promax
\* dialog, once its requests are answered, offers packages or says that loading
\* them failed, whichever came last, but for one case: the list that came was empty,
\* of which it says nothing.
DialogIsHonest ==
  /\ card.modal /\ card.check \in Macs /\ card.check # card.mac => edited
  /\ page.at = "products" /\ card.modal /\ product.kind = "promax" /\ asks = 0 =>
       card.options \in {"some", "empty"} \/ card.optionsError

\* The reseller is taken to a receipt by a purchase that was answered, by the
\* waiting page of that order or by a link, and only if the order is completed.
\* Nobody is moved by the timer of a page that was left.
ReceiptIsEarned ==
  [][page' # page /\ page'.at = "receipt" =>
       LET o == page'.order IN
       /\ state[o] = "COMPLETED"
       /\ \/ client'[o] # client[o]
          \/ page.at = "orders"
          \/ page = [at |-> "processing", order |-> o]]_vars

\* The waiting page of an order that is closed at last says how it ended, goes to its
\* receipt, or says that it cannot tell.  An order that stays open keeps it waiting.
OutcomeShown ==
  []<>(page.at # "processing" \/ note.of = page.order \/ state[page.order] = "OPEN")
=============================================================================
