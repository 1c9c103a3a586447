--------------------------- MODULE Listing_proofs ---------------------------
(***************************************************************************)
(* The lists show what was asked for, for any filters, pages and number of *)
(* requests in flight (RowsMatchFilters and NoPageBeyondLast of Listing).  *)
(*                                                                         *)
(* A reply is put on the screen whatever it answers, so the argument is    *)
(* about the last request sent: while it is in flight it is the last one   *)
(* of asked, and it agrees with the filters and the page unless they       *)
(* changed behind a debounce or a save.  A page is turned by the pager of  *)
(* the rows on the screen; as long as those are the rows of the filters,   *)
(* the pager does not lead beyond the last page.                           *)
(***************************************************************************)
EXTENDS Listing, TLAPS

Sent == [of : Filters, page : Nat]

ListTypes ==
  /\ kind \in Kinds /\ box \in Filters /\ page \in Nat \ {0}
  /\ url \in Sent /\ before \in Sent /\ wanted \in Sent /\ asked \in Seq(Sent)
  /\ pending \in Sent \cup {Nothing} /\ shown \in Sent \cup {Nothing}
  /\ pager \in [total : Nat, previous : BOOLEAN, next : BOOLEAN]
  /\ fresh \in BOOLEAN /\ crossed \in BOOLEAN /\ misled \in BOOLEAN
  /\ overtaken \in BOOLEAN /\ failed \in BOOLEAN /\ ready \in BOOLEAN

\* A list that is not ready has asked for nothing.
ReadyInv == ~ready => kind = "codes" /\ asked = <<>> /\ ~Waiting

\* The last request sent is the last one in flight, or was answered.
AskInv ==
  /\ fresh => asked # <<>> /\ asked[Len(asked)] = wanted
  /\ ready /\ ~fresh => shown = wanted \/ overtaken \/ failed

\* The last request sent, and the one still to be sent, agree with the inputs.
InputsInv ==
  /\ kind = "shop" =>
       /\ wanted = url
       /\ Waiting => pending.page = 0
       /\ ~crossed => IF Waiting THEN pending.of = box ELSE url.of = box
  /\ kind # "shop" /\ ready /\ ~crossed =>
       /\ wanted = Request(box, page)
       /\ Waiting => pending = wanted

\* The pager is that of the rows shown.
PagerInv ==
  IF kind = "shop"
  THEN shown # Nothing /\ PagesOf[shown.of] > 0 => pager.total = PagesOf[shown.of]
  ELSE IF shown = Nothing THEN ~pager.previous /\ ~pager.next ELSE pager = Links(shown)

\* Pages turned by the pager of the rows asked for are there.
PagesInv ==
  /\ kind = "shop" /\ ~crossed /\ ~misled /\ ~Waiting =>
       url.page <= 1 \/ url.page <= PagesOf[url.of]
  /\ kind \notin {"shop", "products"} /\ ~misled => page = 1 \/ page <= PagesOf[box]
  /\ kind = "codes" => page = 1

ListInv == ListTypes /\ ReadyInv /\ AskInv /\ InputsInv /\ PagerInv /\ PagesInv

-----------------------------------------------------------------------------
(* Requests *)

LEMMA RequestTypes ==
  /\ Empty \in Filters /\ NoRequest \in Sent /\ Nothing \notin Sent
  /\ \A f \in Filters, p \in Nat :
       /\ Request(f, p) \in Sent /\ Request(f, p).of = f /\ Request(f, p).page = p
  /\ \A r \in Sent : r = Request(r.of, r.page) /\ r.of \in Filters /\ r.page \in Nat
  /\ \A f \in Filters : PagesOf[f] \in Nat
  /\ <<>> \in Seq(Sent)
  /\ \A r \in Sent : <<r>> \in Seq(Sent) /\ Len(<<r>>) = 1 /\ <<r>>[1] = r /\ <<r>> # <<>>
<1>1. "" \in Searches /\ "" \in Choices /\ PagesOf \in [Filters -> Nat]
  BY ListingAssumption
<1>2. Empty \in Filters /\ NoRequest \in Sent
  BY <1>1 DEF Filters, Empty, Sent, NoRequest
<1>3. Nothing \notin Sent
  BY DEF Nothing, Sent
<1>4. \A f \in Filters, p \in Nat :
       /\ Request(f, p) \in Sent /\ Request(f, p).of = f /\ Request(f, p).page = p
  BY DEF Sent, Request
<1>5. \A r \in Sent : r = Request(r.of, r.page) /\ r.of \in Filters /\ r.page \in Nat
  BY DEF Sent, Request
<1>6. /\ <<>> \in Seq(Sent)
      /\ \A r \in Sent : <<r>> \in Seq(Sent) /\ Len(<<r>>) = 1 /\ <<r>>[1] = r /\ <<r>> # <<>>
  OBVIOUS
<1>7. QED  BY <1>1, <1>2, <1>3, <1>4, <1>5, <1>6

\* What asking does to the requests in flight and to the history of the last one.
LEMMA AskStep ==
  ASSUME ListTypes, ReadyInv, AskInv, NEW requests \in Seq(Sent), Ask(requests),
         UNCHANGED <<shown, overtaken>>, requests = <<>> => ready' = ready
  PROVE  /\ asked' \in Seq(Sent) /\ wanted' \in Sent /\ fresh' \in BOOLEAN /\ failed' \in BOOLEAN
         /\ AskInv'
         /\ requests = <<>> => UNCHANGED <<asked, wanted, fresh, failed>>
         /\ requests # <<>> => wanted' = requests[Len(requests)]
<1>1. /\ asked \in Seq(Sent) /\ wanted \in Sent /\ fresh \in BOOLEAN /\ failed \in BOOLEAN
  BY DEF ListTypes
<1>2. CASE requests = <<>>
  <2>1. UNCHANGED <<asked, wanted, fresh, failed>> /\ ready' = ready
    BY <1>2 DEF Ask
  <2>2. QED  BY <1>1, <1>2, <2>1 DEF AskInv
<1>3. CASE requests # <<>>
  <2>1. /\ asked' = asked \o requests /\ wanted' = requests[Len(requests)]
        /\ fresh' = TRUE /\ failed' = FALSE
    BY <1>3 DEF Ask
  <2>2. /\ Len(requests) \in 1..Len(requests) /\ requests[Len(requests)] \in Sent
        /\ asked' \in Seq(Sent) /\ Len(asked') = Len(asked) + Len(requests)
    BY <1>1, <1>3, <2>1
  <2>3. asked' # <<>> /\ asked'[Len(asked')] = requests[Len(requests)]
    BY <1>1, <1>3, <2>1, <2>2
  <2>4. QED  BY <1>3, <2>1, <2>2, <2>3 DEF AskInv
<1>4. QED  BY <1>2, <1>3

\* A reply or a failure takes one request out; the last one stays the last.
LEMMA DropStep ==
  ASSUME asked \in Seq(Sent), NEW i \in 1..Len(asked)
  PROVE  /\ Drop(i) \in Seq(Sent)
         /\ i # Len(asked) => /\ Drop(i) # <<>>
                              /\ Drop(i)[Len(Drop(i))] = asked[Len(asked)]
<1>1. Drop(i) \in [1..(Len(asked) - 1) -> Sent]
  BY DEF Drop
<1>2. Drop(i) \in Seq(Sent) /\ Len(Drop(i)) = Len(asked) - 1
  BY <1>1
<1>3. ASSUME i # Len(asked)
      PROVE  Drop(i) # <<>> /\ Drop(i)[Len(Drop(i))] = asked[Len(asked)]
  <2>1. Len(asked) - 1 \in 1..(Len(asked) - 1) /\ ~(Len(asked) - 1 < i)
    BY <1>3
  <2>2. Drop(i)[Len(asked) - 1] = asked[Len(asked)]
    BY <2>1 DEF Drop
  <2>3. QED  BY <1>2, <2>1, <2>2
<1>4. QED  BY <1>2, <1>3

-----------------------------------------------------------------------------
(* ProductsPage *)

LEMMA ListInit == Init => ListInv
<1> SUFFICES ASSUME Init PROVE ListInv
  OBVIOUS
<1>1. Empty \in Filters /\ NoRequest \in Sent /\ Request(Empty, 0) = NoRequest
      /\ Request(Empty, 1) \in Sent /\ Request(Empty, 0) \in Sent /\ NoRequest.page = 0 /\ NoRequest.of = Empty
  BY RequestTypes DEF NoRequest, Request
<1>2. kind \in Kinds /\ kind \in {"shop", "products", "resellers", "manual", "codes"}
  BY ListingAssumption DEF Init
<1>3. wanted \in Sent /\ asked \in Seq(Sent)
  BY <1>1 DEF Init
<1>4. pager \in [total : Nat, previous : BOOLEAN, next : BOOLEAN] /\ ~pager.previous /\ ~pager.next
  BY DEF Init, NoPager
<1>5. ListTypes
  <2>1. /\ box \in Filters /\ page \in Nat \ {0} /\ url \in Sent /\ before \in Sent
        /\ pending \in Sent \cup {Nothing} /\ shown \in Sent \cup {Nothing}
    BY <1>1 DEF Init
  <2>2. ready \in BOOLEAN
    BY Zenon DEF Init
  <2>3. /\ fresh \in BOOLEAN /\ crossed \in BOOLEAN /\ misled \in BOOLEAN
        /\ overtaken \in BOOLEAN /\ failed \in BOOLEAN
    BY <2>2, Zenon DEF Init
  <2>4. QED  BY <1>2, <1>3, <1>4, <2>1, <2>2, <2>3 DEF ListTypes
<1>6. ReadyInv
  BY DEF Init, ReadyInv, Waiting
<1>7. AskInv
  BY <1>1 DEF Init, AskInv
<1>8. InputsInv
  BY <1>1 DEF Init, InputsInv, Waiting
<1>9. PagerInv /\ PagesInv
  BY <1>1, <1>4 DEF Init, PagerInv, PagesInv
<1>10. QED  BY <1>5, <1>6, <1>7, <1>8, <1>9 DEF ListInv

\* A navigation of the shop, to a request that agrees with the inputs or behind
\* something that makes it cross.
LEMMA Navigation ==
  ASSUME ListInv, kind = "shop", NEW u \in Sent, SetUrl(u),
         UNCHANGED <<kind, page, ready, shown, pager, overtaken>>,
         box' \in Filters, pending' \in {pending, Nothing},
         crossed' \in BOOLEAN, misled' \in BOOLEAN,
         ~crossed' => IF pending' # Nothing THEN pending'.of = box' ELSE u.of = box',
         ~crossed' /\ ~misled' /\ pending' = Nothing => u.page <= 1 \/ u.page <= PagesOf[u.of]
  PROVE  ListInv'
<1>0. ListTypes /\ ReadyInv /\ AskInv /\ InputsInv /\ PagerInv /\ PagesInv
  BY DEF ListInv
<1>1. url' = u /\ before' \in Sent /\ Ask(IF u = url THEN <<>> ELSE <<u>>)
  BY <1>0 DEF SetUrl, ListTypes
<1>2. PICK requests \in Seq(Sent) : /\ requests = IF u = url THEN <<>> ELSE <<u>>
                                    /\ Ask(requests)
  <2>1. CASE u = url  BY <1>1, <2>1, RequestTypes
  <2>2. CASE u # url  BY <1>1, <2>2, RequestTypes
  <2>3. QED  BY <2>1, <2>2
<1>3. /\ asked' \in Seq(Sent) /\ wanted' \in Sent /\ fresh' \in BOOLEAN /\ failed' \in BOOLEAN
      /\ AskInv' /\ wanted' = u
  <2>1. wanted = url
    BY <1>0 DEF InputsInv
  <2>2. /\ asked' \in Seq(Sent) /\ wanted' \in Sent /\ fresh' \in BOOLEAN /\ failed' \in BOOLEAN
        /\ AskInv'
        /\ requests = <<>> => UNCHANGED <<asked, wanted, fresh, failed>>
        /\ requests # <<>> => wanted' = requests[Len(requests)]
    BY <1>0, <1>2, AskStep
  <2>3. CASE u = url  BY <1>2, <2>1, <2>2, <2>3
  <2>4. CASE u # url  BY <1>2, <2>2, <2>4
  <2>5. QED  BY <2>2, <2>3, <2>4
<1>4. ListTypes'
  BY <1>0, <1>1, <1>3 DEF ListTypes
<1>5. ReadyInv'
  BY <1>0 DEF ReadyInv
<1>6. InputsInv'
  BY <1>0, <1>1, <1>3 DEF InputsInv, Waiting
<1>7. PagerInv' /\ PagesInv'
  BY <1>0, <1>1 DEF PagerInv, PagesInv, Waiting, Links
<1>8. QED  BY <1>3, <1>4, <1>5, <1>6, <1>7 DEF ListInv

LEMMA TypeSearchStep ==
  ASSUME ListInv, NEW s \in Searches, TypeSearch(s)
  PROVE  ListInv'
<1>0. ListTypes /\ ReadyInv /\ AskInv /\ InputsInv /\ PagerInv /\ PagesInv
  BY DEF ListInv
<1>1. /\ kind = "shop" /\ box' = [box EXCEPT !.search = s] /\ pending' = Request(box', 0)
      /\ crossed' = FALSE
      /\ UNCHANGED <<kind, page, url, before, ready, asked, loading, shown, pager, wanted, fresh,
                     overtaken, failed, misled>>
  BY DEF TypeSearch
<1>2. box' \in Filters
  BY <1>0, <1>1 DEF ListTypes, Filters
<1>3. pending' \in Sent /\ pending' # Nothing /\ pending'.of = box' /\ pending'.page = 0
  BY <1>1, <1>2, RequestTypes
<1>4. ListTypes'
  BY <1>0, <1>1, <1>2, <1>3 DEF ListTypes
<1>5. ready
  BY <1>0, <1>1 DEF ReadyInv
<1>6. ReadyInv' /\ AskInv'
  BY <1>0, <1>1, <1>5 DEF ReadyInv, AskInv
<1>7. InputsInv'
  BY <1>0, <1>1, <1>3 DEF InputsInv, Waiting
<1>8. PagerInv' /\ PagesInv'
  BY <1>0, <1>1, <1>3 DEF PagerInv, PagesInv, Waiting, Links
<1>9. QED  BY <1>4, <1>6, <1>7, <1>8 DEF ListInv

LEMMA DebounceStep == ListInv /\ Debounce => ListInv'
<1> SUFFICES ASSUME ListInv, Debounce PROVE ListInv'
  OBVIOUS
<1>0. ListTypes /\ InputsInv
  BY DEF ListInv
<1>1. /\ kind = "shop" /\ Waiting /\ pending' = Nothing /\ SetUrl(pending) /\ misled' = FALSE
      /\ UNCHANGED <<kind, box, page, ready, shown, pager, overtaken, crossed>>
  BY DEF Debounce
<1>2. pending \in Sent /\ box \in Filters /\ crossed \in BOOLEAN
  BY <1>0, <1>1 DEF ListTypes, Waiting
<1>3. pending.page = 0 /\ (~crossed => pending.of = box)
  BY <1>0, <1>1 DEF InputsInv
<1>4. UNCHANGED <<kind, page, ready, shown, pager, overtaken>> /\ box' \in Filters
      /\ pending' \in {pending, Nothing} /\ crossed' \in BOOLEAN /\ misled' \in BOOLEAN
  BY <1>1, <1>2
<1>5. ~crossed' => IF pending' # Nothing THEN pending'.of = box' ELSE pending.of = box'
  BY <1>1, <1>3
<1>6. pending.page <= 1
  BY <1>3
<1>7. QED  BY <1>1, <1>2, <1>4, <1>5, <1>6, Navigation

LEMMA ChooseCategoryStep ==
  ASSUME ListInv, NEW c \in Choices, ChooseCategory(c)
  PROVE  ListInv'
<1>0. ListTypes
  BY DEF ListInv
<1>1. /\ kind = "shop" /\ box' = [box EXCEPT !.choice = c] /\ SetUrl(Request(box', 0))
      /\ crossed' = Waiting /\ misled' = FALSE
      /\ UNCHANGED <<kind, page, pending, ready, shown, pager, overtaken>>
  BY DEF ChooseCategory
<1>2. box' \in Filters
  BY <1>0, <1>1 DEF ListTypes, Filters
<1>3. PICK u \in Sent : u = Request(box', 0) /\ u.of = box' /\ u.page = 0
  BY <1>2, RequestTypes
<1>4. SetUrl(u)
  BY <1>1, <1>3
<1>5. crossed' \in BOOLEAN /\ (~crossed' => pending' = Nothing)
  BY <1>1 DEF Waiting
<1>6. UNCHANGED <<kind, page, ready, shown, pager, overtaken>>
      /\ pending' \in {pending, Nothing} /\ misled' \in BOOLEAN /\ u.page <= 1
  <2>1. UNCHANGED <<kind, page, ready, shown, pager, overtaken, pending>> /\ misled' = FALSE
    BY <1>1
  <2>2. u.page = 0
    BY <1>3
  <2>3. u.page <= 1
    BY <2>2
  <2>4. UNCHANGED <<kind, page, ready, shown, pager, overtaken>> /\ pending' = pending
    BY <2>1
  <2>5. misled' \in BOOLEAN
    BY <2>1
  <2>6. QED  BY <2>3, <2>4, <2>5, Zenon
<1>7. QED  BY <1>1, <1>2, <1>3, <1>4, <1>5, <1>6, Navigation

LEMMA ClearFiltersStep == ListInv /\ ClearFilters => ListInv'
<1> SUFFICES ASSUME ListInv, ClearFilters PROVE ListInv'
  OBVIOUS
<1>1. /\ kind = "shop" /\ box' = Empty /\ SetUrl(NoRequest)
      /\ crossed' = Waiting /\ misled' = FALSE
      /\ UNCHANGED <<kind, page, pending, ready, shown, pager, overtaken>>
  BY DEF ClearFilters
<1>2. box' \in Filters /\ NoRequest \in Sent /\ NoRequest.of = box' /\ NoRequest.page = 0
  BY <1>1, RequestTypes DEF NoRequest
<1>3. crossed' \in BOOLEAN /\ (~crossed' => pending' = Nothing)
  BY <1>1 DEF Waiting
<1>4. UNCHANGED <<kind, page, ready, shown, pager, overtaken>>
      /\ pending' \in {pending, Nothing} /\ misled' \in BOOLEAN /\ NoRequest.page <= 1
  <2>1. UNCHANGED <<kind, page, ready, shown, pager, overtaken, pending>> /\ misled' = FALSE
    BY <1>1
  <2>2. NoRequest.page = 0
    BY <1>2
  <2>3. NoRequest.page <= 1
    BY <2>2
  <2>4. UNCHANGED <<kind, page, ready, shown, pager, overtaken>> /\ pending' = pending
    BY <2>1
  <2>5. misled' \in BOOLEAN
    BY <2>1
  <2>6. QED  BY <2>3, <2>4, <2>5, Zenon
<1>5. QED  BY <1>1, <1>2, <1>3, <1>4, Navigation

\* The pager of rows that are there is that of the rows.
LEMMA GoToPageStep ==
  ASSUME ListInv, NEW p \in 1..MaxPage, GoToPage(p)
  PROVE  ListInv'
<1>0. ListTypes /\ ReadyInv /\ InputsInv /\ PagerInv /\ PagesInv
  BY DEF ListInv
<1> DEFINE f == [search |-> Or(url.of.search, box.search), choice |-> Or(url.of.choice, box.choice)]
<1>1. /\ kind = "shop" /\ Listed(shown) /\ p \in 1..pager.total /\ SetUrl(Request(f, p))
      /\ misled' = (misled \/ shown.of # box)
      /\ UNCHANGED <<kind, box, page, pending, ready, shown, pager, overtaken, crossed>>
  BY DEF GoToPage
<1>2. /\ url \in Sent /\ box \in Filters /\ shown \in Sent /\ pending \in Sent \cup {Nothing}
      /\ crossed \in BOOLEAN /\ misled \in BOOLEAN
  BY <1>0, <1>1 DEF ListTypes, Listed
<1>3. f \in Filters /\ (url.of = box => f = box)
  <2>1. /\ url.of \in Filters /\ url.of.search \in Searches /\ url.of.choice \in Choices
        /\ box.search \in Searches /\ box.choice \in Choices
        /\ box = [search |-> box.search, choice |-> box.choice]
    BY <1>2 DEF Sent, Filters
  <2>2. f \in Filters
    BY <2>1 DEF Filters, Or
  <2>3. ASSUME url.of = box PROVE f = box
    BY <2>1, <2>3 DEF Or
  <2>4. QED  BY <2>2, <2>3
<1>4. PICK u \in Sent : u = Request(f, p) /\ u.of = f /\ u.page = p
  <2>1. p \in Nat
    OBVIOUS
  <2>2. QED  BY <1>3, <2>1, RequestTypes
<1>5. SetUrl(u)
  BY <1>1, <1>4
<1>6. pager.total = PagesOf[shown.of]
  BY <1>0, <1>1 DEF PagerInv, Listed
<1>7. ~crossed => IF Waiting THEN pending.of = box ELSE url.of = box
  BY <1>0, <1>1 DEF InputsInv
<1>8. ~crossed' => IF pending' # Nothing THEN pending'.of = box' ELSE u.of = box'
  BY <1>1, <1>3, <1>4, <1>7 DEF Waiting
<1>9. ASSUME ~crossed', ~misled', pending' = Nothing
      PROVE  u.page <= PagesOf[u.of]
  <2>1. shown.of = box /\ u.of = box
    BY <1>1, <1>3, <1>4, <1>7, <1>9 DEF Waiting
  <2>2. PagesOf[box] \in Nat
    BY <1>2, RequestTypes
  <2>3. QED  BY <1>1, <1>4, <1>6, <2>1, <2>2
<1>10. box' \in Filters /\ pending' \in {pending, Nothing} /\ crossed' \in BOOLEAN
       /\ misled' \in BOOLEAN /\ UNCHANGED <<kind, page, ready, shown, pager, overtaken>>
  BY <1>1, <1>2
<1> HIDE DEF f
<1>11. QED  BY <1>1, <1>5, <1>8, <1>9, <1>10, Navigation

LEMMA GoBackStep == ListInv /\ GoBack => ListInv'
<1> SUFFICES ASSUME ListInv, GoBack PROVE ListInv'
  OBVIOUS
<1>0. ListTypes
  BY DEF ListInv
<1>1. /\ kind = "shop" /\ SetUrl(before) /\ crossed' = TRUE
      /\ UNCHANGED <<kind, box, page, pending, ready, shown, pager, overtaken, misled>>
  BY DEF GoBack
<1>2. before \in Sent /\ box \in Filters /\ misled \in BOOLEAN
  BY <1>0 DEF ListTypes
<1>3. QED  BY <1>1, <1>2, Navigation

-----------------------------------------------------------------------------
(* The tables of the admin *)

LEMMA FilterStep ==
  ASSUME ListInv, NEW f \in Filters, Filter(f)
  PROVE  ListInv'
<1>0. ListTypes /\ ReadyInv /\ AskInv /\ InputsInv /\ PagerInv /\ PagesInv
  BY DEF ListInv
<1>1. /\ kind # "shop" /\ box' = f /\ page' = (IF kind = "codes" THEN page ELSE 1)
      /\ Ask(IF ready THEN AfterFilter(f) ELSE <<>>)
      /\ crossed' = Waiting /\ misled' = FALSE
      /\ UNCHANGED <<kind, url, before, pending, ready, shown, pager, overtaken>>
  BY DEF Filter, FirstPage
<1>2. page \in Nat \ {0} /\ page' \in Nat \ {0} /\ page' = 1
  BY <1>0, <1>1 DEF ListTypes, PagesInv
<1>3. /\ Request(f, page) \in Sent /\ Request(f, page') \in Sent
  BY <1>2, RequestTypes
<1>4. PICK requests \in Seq(Sent) :
        /\ requests = IF ready THEN AfterFilter(f) ELSE <<>>
        /\ ready => requests # <<>> /\ requests[Len(requests)] = Request(f, page')
        /\ ~ready => requests = <<>>
        /\ Ask(requests)
  <2>1. CASE ~ready
    BY <1>1, <2>1, RequestTypes
  <2>2. CASE ready /\ page' = page
    <3>1. AfterFilter(f) = <<Request(f, page)>> \o <<>>
      BY <2>2 DEF AfterFilter
    <3>2. AfterFilter(f) = <<Request(f, page')>>
      BY <1>3, <2>2, <3>1
    <3>3. QED  BY <1>1, <1>3, <2>2, <3>2, RequestTypes
  <2>3. CASE ready /\ page' # page
    <3>1. AfterFilter(f) = <<Request(f, page)>> \o <<Request(f, page')>>
      BY <2>3 DEF AfterFilter
    <3>2. /\ <<Request(f, page)>> \in Seq(Sent) /\ Len(<<Request(f, page)>>) = 1
          /\ <<Request(f, page')>> \in Seq(Sent) /\ Len(<<Request(f, page')>>) = 1
          /\ <<Request(f, page')>>[1] = Request(f, page')
      BY <1>3, RequestTypes
    <3>3. /\ AfterFilter(f) \in Seq(Sent) /\ Len(AfterFilter(f)) = 2
          /\ AfterFilter(f)[2] = Request(f, page')
      BY <3>1, <3>2
    <3>4. AfterFilter(f) # <<>>
      BY <3>3
    <3>5. QED  BY <1>1, <2>3, <3>3, <3>4
  <2>4. ready \in BOOLEAN
    BY <1>0 DEF ListTypes
  <2>5. QED  BY <2>1, <2>2, <2>3, <2>4
<1>5. /\ asked' \in Seq(Sent) /\ wanted' \in Sent /\ fresh' \in BOOLEAN /\ failed' \in BOOLEAN
      /\ AskInv'
      /\ requests = <<>> => UNCHANGED <<asked, wanted, fresh, failed>>
      /\ requests # <<>> => wanted' = requests[Len(requests)]
  BY <1>0, <1>1, <1>4, AskStep
<1>6. ListTypes'
  BY <1>0, <1>1, <1>2, <1>5 DEF ListTypes, Waiting
<1>7. ReadyInv'
  BY <1>0, <1>1, <1>4, <1>5 DEF ReadyInv, Waiting
<1>8. InputsInv'
  BY <1>0, <1>1, <1>4, <1>5 DEF InputsInv, Waiting
<1>9. PagerInv' /\ PagesInv'
  BY <1>0, <1>1, <1>2 DEF PagerInv, PagesInv, Links
<1>10. QED  BY <1>5, <1>6, <1>7, <1>8, <1>9 DEF ListInv

\* The page the pager leads to from the rows of the filters is there.
LEMMA TurnStep ==
  ASSUME ListInv, kind # "shop", PagerShown, NEW p \in Nat \ {0}, TurnTo(p),
         \/ pager.previous /\ page > 1 /\ p = page - 1
         \/ pager.previous /\ p = 1
         \/ pager.next /\ p = page + 1
  PROVE  ListInv'
<1>0. ListTypes /\ ReadyInv /\ AskInv /\ InputsInv /\ PagerInv /\ PagesInv
  BY DEF ListInv
<1>1. /\ page' = p /\ Ask(IF p = page THEN <<>> ELSE <<Request(box, p)>>)
      /\ crossed' = (IF p = page THEN crossed ELSE Waiting)
      /\ misled' = (misled \/ shown # Request(box, page))
      /\ UNCHANGED <<kind, box, url, before, pending, ready, shown, pager, overtaken>>
  BY DEF TurnTo
<1>2. page \in Nat \ {0} /\ box \in Filters /\ Request(box, p) \in Sent /\ PagesOf[box] \in Nat
      /\ Request(box, page).of = box /\ Request(box, page).page = page
  BY <1>0, RequestTypes DEF ListTypes
<1>3. ready /\ kind # "codes"
  <2>1. kind # "codes"
    BY DEF PagerShown
  <2>2. QED  BY <1>0, <2>1 DEF ReadyInv, ListTypes
<1>4. PICK requests \in Seq(Sent) : /\ requests = IF p = page THEN <<>> ELSE <<Request(box, p)>>
                                    /\ Ask(requests)
  <2>1. CASE p = page  BY <1>1, <2>1, RequestTypes
  <2>2. CASE p # page  BY <1>1, <1>2, <2>2, RequestTypes
  <2>3. QED  BY <2>1, <2>2
<1>5. /\ asked' \in Seq(Sent) /\ wanted' \in Sent /\ fresh' \in BOOLEAN /\ failed' \in BOOLEAN
      /\ AskInv'
      /\ requests = <<>> => UNCHANGED <<asked, wanted, fresh, failed>>
      /\ requests # <<>> => wanted' = requests[Len(requests)]
  BY <1>0, <1>1, <1>4, AskStep
<1>6. ListTypes'
  BY <1>0, <1>1, <1>5 DEF ListTypes, Waiting
<1>7. ReadyInv'
  BY <1>1, <1>3 DEF ReadyInv
<1>8. InputsInv'
  <2>1. CASE p = page
    BY <1>0, <1>1, <1>4, <1>5, <2>1 DEF InputsInv, Waiting
  <2>2. CASE p # page
    BY <1>0, <1>1, <1>4, <1>5, <2>2 DEF InputsInv, Waiting
  <2>3. QED  BY <2>1, <2>2
<1>9. PagerInv'
  BY <1>0, <1>1 DEF PagerInv, Links
<1>10. ASSUME kind # "products", ~misled' PROVE p = 1 \/ p <= PagesOf[box]
  <2>1. ~misled /\ shown = Request(box, page) /\ shown # Nothing
    <3>1. ~misled /\ shown = Request(box, page)
      BY <1>1, <1>10
    <3>2. Request(box, page) \in Sent
      BY <1>2, RequestTypes
    <3>3. QED  BY <3>1, <3>2, RequestTypes
  <2>2. pager = Links(shown)
    BY <1>0, <2>1 DEF PagerInv
  <2>3. pager.next => page < PagesOf[box]
    BY <1>2, <1>10, <2>1, <2>2 DEF Links
  <2>4. page = 1 \/ page <= PagesOf[box]
    BY <1>0, <1>10, <2>1 DEF PagesInv
  <2>5. QED  BY <1>2, <2>3, <2>4
<1>11. PagesInv'
  BY <1>1, <1>3, <1>10 DEF PagesInv
<1>12. QED  BY <1>5, <1>6, <1>7, <1>8, <1>9, <1>11 DEF ListInv

LEMMA PagerSteps == ListInv /\ kind # "shop" /\ (PreviousPage \/ NextPage) => ListInv'
<1> SUFFICES ASSUME ListInv, kind # "shop", PreviousPage \/ NextPage PROVE ListInv'
  OBVIOUS
<1>1. page \in Nat \ {0}
  BY DEF ListInv, ListTypes
<1>2. CASE PreviousPage
  <2>1. PICK p \in Nat \ {0} : TurnTo(p) /\ ((page > 1 /\ p = page - 1) \/ p = 1)
    BY <1>1, <1>2 DEF PreviousPage
  <2>2. PagerShown /\ pager.previous
    BY <1>2 DEF PreviousPage
  <2>3. QED  BY <2>1, <2>2, TurnStep
<1>3. CASE NextPage
  <2>1. PICK p \in Nat \ {0} : TurnTo(p) /\ p = page + 1
    BY <1>1, <1>3 DEF NextPage
  <2>2. PagerShown /\ pager.next
    BY <1>3 DEF NextPage
  <2>3. QED  BY <2>1, <2>2, TurnStep
<1>4. QED  BY <1>2, <1>3

LEMMA ActSteps == ListInv /\ (Act \/ ActFailed) => ListInv'
<1> SUFFICES ASSUME ListInv, Act \/ ActFailed PROVE ListInv'
  OBVIOUS
<1>0. ListTypes /\ ReadyInv /\ AskInv /\ InputsInv /\ PagerInv /\ PagesInv
  BY DEF ListInv
<1>1. /\ kind # "shop" /\ pending' \in {Nothing, Request(box, page)}
      /\ UNCHANGED <<kind, box, page, url, before, ready, asked, loading, shown, pager, wanted,
                     fresh, overtaken, failed, crossed, misled>>
      /\ ready \/ pending' = Nothing
  BY DEF Act, ActFailed, history
<1>2. Request(box, page) \in Sent
  BY <1>0, RequestTypes DEF ListTypes
<1>3. ListTypes'
  BY <1>0, <1>1, <1>2 DEF ListTypes
<1>4. ReadyInv' /\ AskInv'
  BY <1>0, <1>1 DEF ReadyInv, AskInv, Waiting
<1>5. InputsInv'
  BY <1>0, <1>1 DEF InputsInv, Waiting
<1>6. PagerInv' /\ PagesInv'
  BY <1>0, <1>1 DEF PagerInv, PagesInv, Links
<1>7. QED  BY <1>3, <1>4, <1>5, <1>6 DEF ListInv

LEMMA RefreshSteps == ListInv /\ kind # "shop" /\ (ActDone \/ ProductsArrive) => ListInv'
<1> SUFFICES ASSUME ListInv, kind # "shop", ActDone \/ ProductsArrive PROVE ListInv'
  OBVIOUS
<1>0. ListTypes /\ ReadyInv /\ AskInv /\ InputsInv /\ PagerInv /\ PagesInv
  BY DEF ListInv
<1>1. Request(box, page) \in Sent
  BY <1>0, RequestTypes DEF ListTypes
<1>2. PICK r \in Sent :
        /\ Ask(<<r>>) /\ (~crossed => r = Request(box, page)) /\ pending' = Nothing /\ ready'
        /\ UNCHANGED <<kind, box, page, url, before, shown, pager, overtaken, crossed, misled>>
  <2>1. CASE ActDone
    <3>1. pending \in Sent /\ ready
      BY <1>0, <2>1 DEF ActDone, ListTypes, Waiting, ReadyInv
    <3>2. ~crossed => pending = Request(box, page)
      BY <1>0, <2>1, <3>1 DEF ActDone, InputsInv
    <3>3. QED  BY <2>1, <3>1, <3>2 DEF ActDone
  <2>2. CASE ProductsArrive
    BY <1>0, <1>1, <2>2 DEF ProductsArrive, ReadyInv, Waiting
  <2>3. QED  BY <2>1, <2>2
<1>3. PICK requests \in Seq(Sent) : /\ requests = <<r>> /\ requests # <<>>
                                    /\ requests[Len(requests)] = r /\ Ask(requests)
  BY <1>2
<1>4. /\ asked' \in Seq(Sent) /\ wanted' \in Sent /\ fresh' \in BOOLEAN /\ failed' \in BOOLEAN
      /\ AskInv' /\ wanted' = r
  BY <1>0, <1>2, <1>3, AskStep
<1>5. ListTypes'
  BY <1>0, <1>2, <1>4 DEF ListTypes
<1>6. ReadyInv'
  BY <1>2 DEF ReadyInv
<1>7. InputsInv'
  BY <1>0, <1>2, <1>4 DEF InputsInv, Waiting
<1>8. PagerInv' /\ PagesInv'
  BY <1>0, <1>2 DEF PagerInv, PagesInv, Links
<1>9. QED  BY <1>4, <1>5, <1>6, <1>7, <1>8 DEF ListInv

-----------------------------------------------------------------------------
(* Replies *)

LEMMA ReplyStep ==
  ASSUME ListInv, NEW i \in 1..Len(asked), Reply(i)
  PROVE  ListInv'
<1>0. ListTypes /\ ReadyInv /\ AskInv /\ InputsInv /\ PagerInv /\ PagesInv
  BY DEF ListInv
<1>1. asked \in Seq(Sent) /\ asked[i] \in Sent
  BY <1>0 DEF ListTypes
<1>2. /\ shown' = asked[i] /\ asked' = Drop(i)
      /\ fresh' = (fresh /\ ~Newest(i)) /\ overtaken' = ~fresh
      /\ UNCHANGED <<kind, box, page, url, before, pending, ready, wanted, failed, crossed, misled>>
      /\ pager' = IF kind = "shop"
                  THEN [pager EXCEPT !.total = IF PagesOf[asked[i].of] > 0
                                               THEN PagesOf[asked[i].of] ELSE @]
                  ELSE Links(asked[i])
  BY DEF Reply, inputs
<1>3. PagesOf[asked[i].of] \in Nat /\ asked[i].page \in Nat /\ asked[i] # Nothing
  BY <1>1, RequestTypes
<1>4. /\ asked' \in Seq(Sent)
      /\ i # Len(asked) => asked' # <<>> /\ asked'[Len(asked')] = asked[Len(asked)]
  BY <1>1, <1>2, DropStep
<1>5. pager' \in [total : Nat, previous : BOOLEAN, next : BOOLEAN] /\ PagerInv'
  <2>1. pager \in [total : Nat, previous : BOOLEAN, next : BOOLEAN]
    BY <1>0 DEF ListTypes
  <2>2. CASE kind = "shop"
    <3>1. /\ pager' \in [total : Nat, previous : BOOLEAN, next : BOOLEAN]
          /\ PagesOf[asked[i].of] > 0 => pager'.total = PagesOf[asked[i].of]
      BY <1>2, <1>3, <2>1, <2>2
    <3>2. QED  BY <1>2, <2>2, <3>1 DEF PagerInv
  <2>3. CASE kind # "shop"
    <3>1. pager' = Links(asked[i])
      BY <1>2, <2>3
    <3>2. Links(asked[i]) \in [total : Nat, previous : BOOLEAN, next : BOOLEAN]
      BY <1>3 DEF Links
    <3>3. PagerInv'
      BY <1>2, <1>3, <2>3, <3>1 DEF PagerInv, Links
    <3>4. QED  BY <3>1, <3>2, <3>3
  <2>4. QED  BY <2>2, <2>3
<1>6. ListTypes'
  BY <1>0, <1>1, <1>2, <1>4, <1>5 DEF ListTypes
<1>7. ready
  BY <1>0, <1>1 DEF ReadyInv, ListTypes
<1>8. ReadyInv' /\ AskInv'
  BY <1>0, <1>2, <1>4, <1>7 DEF ReadyInv, AskInv, Newest
<1>9. InputsInv' /\ PagesInv'
  BY <1>0, <1>2 DEF InputsInv, PagesInv, Waiting
<1>10. QED  BY <1>5, <1>6, <1>8, <1>9 DEF ListInv

LEMMA FailStep ==
  ASSUME ListInv, NEW i \in 1..Len(asked), Fail(i)
  PROVE  ListInv'
<1>0. ListTypes /\ ReadyInv /\ AskInv /\ InputsInv /\ PagerInv /\ PagesInv
  BY DEF ListInv
<1>1. asked \in Seq(Sent)
  BY <1>0 DEF ListTypes
<1>2. /\ asked' = Drop(i) /\ fresh' = (fresh /\ ~Newest(i))
      /\ failed' = (failed \/ Newest(i))
      /\ UNCHANGED <<kind, box, page, url, before, pending, ready, shown, pager, wanted, overtaken,
                     crossed, misled>>
  BY DEF Fail, inputs
<1>3. /\ asked' \in Seq(Sent)
      /\ i # Len(asked) => asked' # <<>> /\ asked'[Len(asked')] = asked[Len(asked)]
  BY <1>1, <1>2, DropStep
<1>4. ListTypes'
  BY <1>0, <1>2, <1>3 DEF ListTypes
<1>5. ready
  BY <1>0, <1>1 DEF ReadyInv, ListTypes
<1>6. ReadyInv' /\ AskInv'
  BY <1>0, <1>2, <1>3, <1>5 DEF ReadyInv, AskInv, Newest
<1>7. InputsInv' /\ PagerInv' /\ PagesInv'
  BY <1>0, <1>2 DEF InputsInv, PagerInv, PagesInv, Waiting, Links
<1>8. QED  BY <1>4, <1>6, <1>7 DEF ListInv

-----------------------------------------------------------------------------

LEMMA ListNext == ListInv /\ [Next]_vars => ListInv'
<1> SUFFICES ASSUME ListInv, [Next]_vars PROVE ListInv'
  OBVIOUS
<1>0. ready \in BOOLEAN
  BY DEF ListInv, ListTypes
<1>1. CASE UNCHANGED vars
  BY <1>1 DEF vars, inputs, history, ListInv, ListTypes, ReadyInv, AskInv, InputsInv, PagerInv,
              PagesInv, Waiting, Links
<1>2. CASE Shop
  BY <1>2, TypeSearchStep, DebounceStep, ChooseCategoryStep, ClearFiltersStep, GoToPageStep,
     GoBackStep DEF Shop
<1>3. CASE Admin
  <2>1. (PreviousPage \/ NextPage) => kind # "shop"
    BY DEF PreviousPage, NextPage, PagerShown
  <2>2. (ActDone \/ ProductsArrive) => kind # "shop"
    BY <1>0 DEF ActDone, ProductsArrive, ListInv, ReadyInv
  <2>3. QED  BY <1>3, <2>1, <2>2, FilterStep, PagerSteps, ActSteps, RefreshSteps DEF Admin
<1>4. CASE \E i \in 1..Len(asked) : Reply(i) \/ Fail(i)
  BY <1>4, ReplyStep, FailStep
<1>5. QED  BY <1>1, <1>2, <1>3, <1>4 DEF Next

LEMMA ListAlways == Spec => []ListInv
  BY ListInit, ListNext, PTL DEF Spec

\* Once nothing is in flight the rows are those of the filters and the page, unless
\* replies crossed, the last request failed, or the filters changed behind a
\* debounce, a save or the "back" button.
THEOREM RowsAreThoseAskedFor == Spec => []RowsMatchFilters
<1>1. ListInv => RowsMatchFilters
  <2> SUFFICES ASSUME ListInv, Settled
               PROVE  /\ wanted = Inputs \/ crossed
                      /\ shown = wanted \/ overtaken \/ failed
    BY DEF RowsMatchFilters
  <2>0. ListTypes /\ AskInv /\ InputsInv
    BY DEF ListInv
  <2>1. ready /\ ~fresh /\ ~Waiting
    BY <2>0 DEF Settled, AskInv, ListTypes
  <2>2. shown = wanted \/ overtaken \/ failed
    BY <2>0, <2>1 DEF AskInv
  <2>3. CASE kind = "shop"
    <3>1. url = Request(url.of, url.page) /\ wanted = url
      BY <2>0, <2>3, RequestTypes DEF ListTypes, InputsInv
    <3>2. ~crossed => url.of = box
      BY <2>0, <2>1, <2>3 DEF InputsInv
    <3>3. QED  BY <2>2, <2>3, <3>1, <3>2 DEF Inputs
  <2>4. CASE kind # "shop"
    BY <2>0, <2>1, <2>2, <2>4 DEF InputsInv, Inputs
  <2>5. QED  BY <2>3, <2>4
<1>2. QED  BY <1>1, ListAlways, PTL

\* Nobody ends up beyond the last page, but in the product table, whose "next" never
\* ends, or by the pager of rows other than those asked for.
THEOREM PagesAreThere == Spec => []NoPageBeyondLast
<1>1. ListInv => NoPageBeyondLast
  <2> SUFFICES ASSUME ListInv, Settled, kind # "products", wanted.page > 1, ~crossed, ~misled
               PROVE  wanted.page <= PagesOf[wanted.of]
    BY DEF NoPageBeyondLast
  <2>0. ListTypes /\ InputsInv /\ PagesInv
    BY DEF ListInv
  <2>1. ready /\ ~Waiting
    BY DEF Settled
  <2>2. wanted.page \in Nat
    BY <2>0, RequestTypes DEF ListTypes
  <2>3. CASE kind = "shop"
    BY <2>0, <2>1, <2>2, <2>3 DEF InputsInv, PagesInv
  <2>4. CASE kind # "shop"
    <3>1. wanted.of = box /\ wanted.page = page
      BY <2>0, <2>1, <2>4, RequestTypes DEF InputsInv, ListTypes
    <3>2. QED  BY <2>0, <2>2, <2>4, <3>1 DEF PagesInv, ListTypes
  <2>5. QED  BY <2>3, <2>4
<1>2. QED  BY <1>1, ListAlways, PTL
=============================================================================
