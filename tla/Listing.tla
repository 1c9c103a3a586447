------------------------------ MODULE Listing ------------------------------
(***************************************************************************)
(* The filtered, paged lists: ProductsPage.jsx, which keeps its filters in *)
(* the URL, and the tables of AdminProducts.jsx, AdminResellers.jsx,       *)
(* AdminProductDetail.jsx and AdminActivationCodes.jsx, which keep theirs  *)
(* in state hooks, with the page arithmetic of the handlers that answer.   *)
(*                                                                         *)
(* Every change asks again, and no reply is matched with what is asked for *)
(* by then: replies may cross.  What is pending besides a request is the   *)
(* debounce of the shop's search box, or a save, toggle or delete of the   *)
(* admin after which the list is asked for again; both are closures over   *)
(* the filters of the moment they began.                                   *)
(***************************************************************************)
EXTENDS Integers, Sequences

CONSTANTS
  Kinds,       \* the lists looked at, of shop, products, resellers, manual, codes
  Searches,    \* "" is no search
  Choices,     \* category, status or product; "" is any
  PagesOf,     \* [Filters -> Nat], pages of matching rows
  MaxAsked,    \* requests in flight; bounds the runs
  MaxPage      \* pages an admin turns to; bounds the runs

Filters == [search : Searches, choice : Choices]
Empty == [search |-> "", choice |-> ""]

ASSUME ListingAssumption ==
  /\ Kinds \subseteq {"shop", "products", "resellers", "manual", "codes"}
  /\ "" \in Searches /\ "" \in Choices
  /\ PagesOf \in [Filters -> Nat]
  /\ MaxAsked \in Nat \ {0} /\ MaxPage \in Nat \ {0}

VARIABLES
  kind,
  box,        \* the filter inputs
  page,       \* the page hook of an admin's table
  url,        \* the search parameters of the shop; page 0 is none
  before,     \* the URL "back" leads to
  pending,    \* closure of the debounce, or of the call the list is refreshed after
  ready,      \* the products of AdminActivationCodes have arrived
  asked,      \* requests in flight, in the order they were sent
  loading,    \* the skeleton is shown
  shown,      \* the request whose reply is listed
  pager,      \* what the last reply said of the pages
  wanted,     \* history: the last request sent
  fresh,      \* history: it is still in flight
  overtaken,  \* history: an earlier request was answered after it
  failed,     \* history: it failed
  crossed,    \* history: the filters changed while something was pending, or by "back"
  misled      \* history: the page was turned by the pager of other rows than those asked for

inputs == <<box, page, url, before, pending, ready>>
history == <<wanted, fresh, overtaken, failed, crossed, misled>>
vars == <<kind, inputs, asked, loading, shown, pager, history>>

NoRequest == [of |-> Empty, page |-> 0]
Nothing == [of |-> Empty, page |-> -1]
NoPager == [total |-> 0, previous |-> FALSE, next |-> FALSE]

Request(f, p) == [of |-> f, page |-> p]

-----------------------------------------------------------------------------
(* Asking *)

Ask(requests) ==
  IF requests = <<>> THEN UNCHANGED <<asked, loading, wanted, fresh, failed>>
  ELSE /\ Len(asked) + Len(requests) <= MaxAsked
       /\ asked' = asked \o requests
       /\ loading' = TRUE
       /\ wanted' = requests[Len(requests)]
       /\ fresh' = TRUE /\ failed' = FALSE

Init ==
  /\ kind \in Kinds
  /\ box = Empty /\ page = 1 /\ url = NoRequest /\ before = url /\ pending = Nothing
  /\ ready = (kind # "codes")
  /\ asked = IF ready THEN <<Request(Empty, IF kind = "shop" THEN 0 ELSE 1)>> ELSE <<>>
  /\ wanted = Request(Empty, IF kind = "shop" THEN 0 ELSE 1)
  /\ fresh = ready /\ loading = TRUE
  /\ shown = Nothing /\ pager = [NoPager EXCEPT !.total = IF kind = "shop" THEN 1 ELSE 0]
  /\ overtaken = FALSE /\ failed = FALSE /\ crossed = FALSE /\ misled = FALSE

Waiting == pending # Nothing

-----------------------------------------------------------------------------
(* ProductsPage *)

\* The same parameters are no navigation and ask for nothing.
SetUrl(u) ==
  /\ url' = u
  /\ before' = IF u = url THEN before ELSE url
  /\ Ask(IF u = url THEN <<>> ELSE <<u>>)

TypeSearch(s) ==
  /\ kind = "shop" /\ s # box.search
  /\ box' = [box EXCEPT !.search = s]
  /\ pending' = Request(box', 0)
  /\ crossed' = FALSE
  /\ UNCHANGED <<kind, page, url, before, ready, asked, loading, shown, pager, wanted, fresh,
                 overtaken, failed, misled>>

Debounce ==
  /\ kind = "shop" /\ Waiting
  /\ pending' = Nothing
  /\ SetUrl(pending)
  /\ misled' = FALSE
  /\ UNCHANGED <<kind, box, page, ready, shown, pager, overtaken, crossed>>

\* The debounce of an earlier search goes on.
ChooseCategory(c) ==
  /\ kind = "shop" /\ c # box.choice
  /\ box' = [box EXCEPT !.choice = c]
  /\ SetUrl(Request(box', 0))
  /\ crossed' = Waiting /\ misled' = FALSE
  /\ UNCHANGED <<kind, page, pending, ready, shown, pager, overtaken>>

ClearFilters ==
  /\ kind = "shop" /\ box # Empty
  /\ box' = Empty
  /\ SetUrl(NoRequest)
  /\ crossed' = Waiting /\ misled' = FALSE
  /\ UNCHANGED <<kind, page, pending, ready, shown, pager, overtaken>>

Listed(r) == r # Nothing /\ r.page <= PagesOf[r.of] /\ PagesOf[r.of] > 0
Or(value, default) == IF value = "" THEN default ELSE value

\* The pager. The page hook decides which number is highlighted, always the last,
\* and is left out: "previous" leads to the one before.
GoToPage(p) ==
  /\ kind = "shop" /\ ~loading /\ Listed(shown) /\ pager.total > 1
  /\ p \in 1..pager.total
  /\ SetUrl(Request([search |-> Or(url.of.search, box.search),
                     choice |-> Or(url.of.choice, box.choice)], p))
  /\ misled' = (misled \/ shown.of # box)
  /\ UNCHANGED <<kind, box, page, pending, ready, shown, pager, overtaken, crossed>>

\* The URL changes and the inputs do not.
GoBack ==
  /\ kind = "shop" /\ before # url
  /\ SetUrl(before)
  /\ crossed' = TRUE
  /\ UNCHANGED <<kind, box, page, pending, ready, shown, pager, overtaken, misled>>

-----------------------------------------------------------------------------
(* The tables of the admin *)

KeepPage == page
FirstPage == 1

\* A changed filter asks for the page of before; the effect that returns to the
\* first page then asks once more.
AfterFilterOnce(f) == <<Request(f, page)>>
AfterFilter(f) ==
  <<Request(f, page)>> \o (IF page' = page THEN <<>> ELSE <<Request(f, page')>>)

Filter(f) ==
  /\ kind # "shop" /\ f # box
  /\ box' = f
  /\ page' = IF kind = "codes" THEN page ELSE FirstPage
  /\ Ask(IF ready THEN AfterFilter(f) ELSE <<>>)
  /\ crossed' = Waiting /\ misled' = FALSE
  /\ UNCHANGED <<kind, url, before, pending, ready, shown, pager, overtaken>>

\* The pager of the product table stays while the next page is loading.
PagerShown ==
  CASE kind = "products" -> pager.total > 1
    [] kind \in {"resellers", "manual"} -> ~loading /\ pager.total > 0
    [] OTHER -> FALSE

TurnTo(p) ==
  /\ page' = p
  /\ Ask(IF p = page THEN <<>> ELSE <<Request(box, p)>>)
  /\ crossed' = IF p = page THEN crossed ELSE Waiting
  /\ misled' = (misled \/ shown # Request(box, page))
  /\ UNCHANGED <<kind, box, url, before, pending, ready, shown, pager, overtaken>>

PreviousPage == PagerShown /\ pager.previous /\ TurnTo(IF page > 1 THEN page - 1 ELSE 1)
NextPage == PagerShown /\ pager.next /\ page < MaxPage /\ TurnTo(page + 1)

\* A call after which the list is asked for again, one at a time here.
Act ==
  /\ kind # "shop" /\ ready /\ ~Waiting
  /\ pending' = Request(box, page)
  /\ UNCHANGED <<kind, box, page, url, before, ready, asked, loading, shown, pager, history>>

ActDone ==
  /\ kind # "shop" /\ Waiting
  /\ pending' = Nothing
  /\ Ask(<<pending>>)
  /\ UNCHANGED <<kind, box, page, url, before, ready, shown, pager, overtaken, crossed, misled>>

ActFailed ==
  /\ kind # "shop" /\ Waiting
  /\ pending' = Nothing
  /\ UNCHANGED <<kind, box, page, url, before, ready, asked, loading, shown, pager, history>>

\* AdminActivationCodes asks once it has the products; without, it asks for nothing.
ProductsArrive ==
  /\ ~ready
  /\ ready' = TRUE
  /\ Ask(<<Request(box, page)>>)
  /\ UNCHANGED <<kind, box, page, url, before, pending, shown, pager, overtaken, crossed,
                 misled>>

-----------------------------------------------------------------------------
(* Replies *)

Drop(i) == [j \in 1..(Len(asked) - 1) |-> IF j < i THEN asked[j] ELSE asked[j + 1]]
Newest(i) == fresh /\ i = Len(asked)

\* page_url: there is no link back from the second page, and the handler of the
\* product table links forward from every page.
Links(r) ==
  [total |-> PagesOf[r.of],
   previous |-> r.page > 2,
   next |-> kind = "products" \/ r.page < PagesOf[r.of]]

\* The query of resellers_list leaves the search unbound and is refused.
Answers(r) == ~(kind = "resellers" /\ r.of.search # "")

Reply(i) ==
  LET r == asked[i] IN
  /\ Answers(r)
  /\ shown' = r
  /\ pager' = IF kind = "shop"
              THEN [pager EXCEPT !.total = IF PagesOf[r.of] > 0 THEN PagesOf[r.of] ELSE @]
              ELSE Links(r)
  /\ asked' = Drop(i)
  /\ fresh' = (fresh /\ ~Newest(i))
  /\ overtaken' = ~fresh
  /\ loading' = FALSE
  /\ UNCHANGED <<kind, inputs, wanted, failed, crossed, misled>>

Fail(i) ==
  /\ asked' = Drop(i)
  /\ fresh' = (fresh /\ ~Newest(i))
  /\ failed' = (failed \/ Newest(i))
  /\ loading' = FALSE
  /\ UNCHANGED <<kind, inputs, shown, pager, wanted, overtaken, crossed, misled>>

-----------------------------------------------------------------------------

Shop ==
  \/ \E s \in Searches : TypeSearch(s)
  \/ \E c \in Choices : ChooseCategory(c)
  \/ \E p \in 1..MaxPage : GoToPage(p)
  \/ Debounce \/ ClearFilters \/ GoBack

Admin ==
  \/ \E f \in Filters : Filter(f)
  \/ PreviousPage \/ NextPage \/ Act \/ ActDone \/ ActFailed \/ ProductsArrive

Next == Shop \/ Admin \/ \E i \in 1..Len(asked) : Reply(i) \/ Fail(i)

Spec == Init /\ [][Next]_vars

-----------------------------------------------------------------------------
(* Properties *)

Settled == ready /\ asked = <<>> /\ ~Waiting
Inputs == Request(box, IF kind = "shop" THEN url.page ELSE page)

\* Once nothing is in flight, the rows are those of the filters and the page the
\* reader sees, unless replies crossed, the last request failed, or the filters
\* were changed while a debounce or a save was pending or by the "back" button.
RowsMatchFilters ==
  Settled => /\ wanted = Inputs \/ crossed
             /\ shown = wanted \/ overtaken \/ failed

\* The reader does not end up on a page that is not there, unless for those same
\* reasons, by the pager of rows other than those last asked for, or in the product table,
\* whose "next" never ends.
NoPageBeyondLast ==
  Settled /\ kind # "products" /\ wanted.page > 1 =>
    wanted.page <= PagesOf[wanted.of] \/ overtaken \/ failed \/ crossed \/ misled
=============================================================================
