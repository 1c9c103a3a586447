# Specifications of the reseller control center

The program is the backend of a shop in which resellers spend credits on IPTV
lines: an actix-web server (`src/src/`) over PostgreSQL and Redis, one
background task that fulfils larger orders from a Redis Stream, adapters for the
provider panels that sell the lines, and a React frontend (`src/frontend/`).
This directory holds TLA+ models of it, TLC configurations that check them on
small instances, and proofs that TLAPS checks for instances of any size.

## The system

| Component | State it keeps | Operations | Modelled in |
|---|---|---|---|
| Purchase handler, `handlers/orders.rs` | none of its own | `POST /orders`: replay check, quote, reservation, inline fulfilment or XADD, reply; listings and credential downloads | `OrderFlow` (the listings only read) |
| Reservation and fulfilment, `services/orders.rs` | `orders`, `credentials`, `credit_transactions`, `idempotency_keys`, `users.credit_balance` | `reserve_order`, `fulfill_order`, `mark_failed` | `OrderFlow` |
| Worker, `queue.rs`, spawned in `main.rs` | Redis Stream, consumer group, pending list | `enqueue_order`, `ensure_group`, `worker_once` | `OrderFlow` |
| Credits and manual completion, `handlers/dashboard.rs`, `handlers/admin.rs` | the same tables | `reseller_credits`, `whatsapp_order_complete`, `whatsapp_order`, variant edits | `OrderFlow` |
| Sessions, `handlers/auth.rs`, `middleware/auth.rs`, `utils/jwt.rs` | JWTs held by clients, `blacklist:{jti}` and `user:{id}` in Redis | login, refresh with rotation, logout, authentication of a request | `Session` |
| Rate limiting, `middleware/ratelimit.rs` | `rl:*` counters in Redis | INCR, EXPIRE, TTL for one or two buckets per request | `RateLimit` |
| Catalog, `handlers/catalog.rs` | cached pages and single-flight locks in Redis | categories, products, option lists | `CatalogCache` (option lists only read) |
| Catalog administration, `AdminProducts.jsx`, `handlers/dashboard.rs` | `products`, `product_variants`, `categories`; four dialogs | create, update, delete, the counts before deletes and the foreign keys behind them | `CatalogAdmin`; the provider sync is not modelled |
| Manual credentials, `handlers/dashboard.rs` | `manual_credentials` | create, bulk create, update, delete | the tables that list them in `Listing`; the rows are not modelled |
| Provider adapters, `providers/` | none | `provision`, `check_device`, `fetch_options`, parsing of responses and durations | by their outcomes in `OrderFlow` and `Storefront` |
| Storefront, `ProductCard.jsx`, `ProcessingPage.jsx`, `ReceiptPage.jsx`, `OrdersHistory.jsx` | the hooks of a card, its dialog and a page; requests and timers in flight | choose, check a device, buy, wait, read | `Storefront`, over `OrderContract` |
| Browser session, `lib/axios.js`, `AuthContext.jsx`, `App.jsx` | tokens in `localStorage`, the user of each tab | login, logout, interceptors, route guards | `Browser` |
| Filtered lists, `ProductsPage.jsx` and four tables of the admin | filters and page in the URL or in hooks, replies in flight | filter, search, turn pages, refetch | `Listing` |
| Other admin pages: providers, whatsapp orders, settings, reseller detail | hooks of a form | one endpoint each | not modelled |
| Statistics, configuration, cryptography | | read-only, start-up, library calls | not modelled |

How they meet: a handler and the worker call the same `fulfill_order`; so does
the admin's `whatsapp_order`. They share nothing in memory. What keeps them
apart is one guarded `UPDATE` (the claim: `PENDING` to `PROCESSING`), the row
lock `SELECT ... FOR UPDATE` on the reseller, and two unique constraints on the
idempotency key. The handler and the worker are joined by the stream only.

What is hard about it, and what each part must get right:

- *Money.* A balance is read, computed in Rust and written back as a value, in
  three places (reservation, refund, adjustment). No update may be lost, no
  balance may go negative, and what an order cost net of refunds must match the
  units it has.
- *One purchase, once.* The replay check reads outside the transaction, so two
  requests with one key both reach the reservation.
- *One fulfiller.* Request, worker and admin may start on one order at the same
  time; an admin may complete a whatsapp order by hand meanwhile.
- *Failures.* Every `?` after the claim leaves the order `PROCESSING`; a worker
  that dies leaves a pending entry that nobody reads again; XADD and XACK errors
  are only logged; the refund and the closing status are two transactions.
- *Progress.* The group starts at `$`, entries are delivered once, waiters queue
  on a row lock.
- *Sessions, throttles, caches.* Check-then-act on Redis keys with expiry.
- *The browser.* No request is ever cancelled and no reply is matched with what is
  asked for by then: replies, timers and refreshes act on whichever dialog, page
  or session is there when they arrive. A dialog can be closed, and another opened,
  while its call is in flight. Tabs share the tokens but not the user.
- *Sequences of calls.* The product form saves its rows one call at a time, and a
  retry starts from the first.

`PROJECT.json` lists these hazards at their lines, with the properties that
cover them or the reason why none does.

## Modules

`OrderFlow` is the detailed specification. A process is one purchase request,
one worker or one admin session, `pc` says where it stands, and a step is one
SQL statement, Redis command or provider call. A transaction that locks the
reseller's row is two steps: `LockRow` takes the lock and reads the balance into
`seen`, and the following step (`ReserveCommit`, `ReserveRollback`, `Refund`,
`Adjust`) writes from `seen`, commits and releases. The statements in between
touch only rows the transaction alone can see, so nothing can tell them apart.

| Variable | In the code |
|---|---|
| `req`, `resp`, `quote` | body and `Idempotency-Key` of a request, its reply, the variant's price as read before the transaction |
| `job`, `want`, `made` | the argument and the locals `order.quantity`, `credentials_created` of `fulfill_order` |
| `locked`, `seen` | the row lock of `users` and the balance read under it |
| `balance`, `ledger` | `users.credit_balance`, `credit_transactions` |
| `orders`, `creds` | `orders`, the number of `credentials` of an order |
| `lines` | lines created at the provider for an order, which only the provider knows |
| `catalog` | `price_in_credits` and the active flags of variant and product |
| `queue`, `pel`, `groupExists` | the stream and its consumer group |
| `faults`, `edits` | history counters that bound the runs |

An order is named by the request that placed it: `orders[r]` is the row request
`r` inserted, `NoRow` while there is none. `Adapter` says which of five kinds of
product a variant belongs to, as `fulfill_order` finds it: a panel that returns a
DNS host (`"panel"`), one that does not (`"nodns"`: hotplayer, golden_api,
redfoxx), the whatsapp stub, no provider row at all, and a row `get_provider`
rejects (`"broken"`). With `UseMock` the factory returns the mock for all of
them. A provider call that fails is a choice in `Provision`; a statement that
fails is `DbError`, which is what every `?` does; `Crash` is the death of a task
or a dropped handler future. Several processes may crash, one step each, so a
restart of the whole server is a sequence of `Crash` steps, one per task.

`OrderContract` is the abstract specification: what the order service promises
without locks, workers or streams. Credit is spent in one step, only paid units
are delivered, a refund returns exactly the undelivered ones, and an order closes
once. `OrderRefinement` maps the detailed state to it (`PENDING` and
`PROCESSING` are both `OPEN`) and names the claim `KeepsContract`.

`OrderFlowInv` states the inductive invariant `IInv`. `MCOrderFlow` holds the
constants of the TLC runs. The proofs are in modules named after what they are
about: `OrderFlow_proofs` (which also proves the refinement), `Session_proofs`,
`RateLimit_proofs`, `CatalogCache_proofs`, `Storefront_proofs`, `Browser_proofs`,
`Listing_proofs` and `CatalogAdmin_proofs`.

Three modules model the services around it. They meet the order service only in a
request that passes or does not, so they are not composed with it.

`RateLimit`: `pc` and `left` say where a request stands and which buckets it has
yet to pass; `got` is the local `count`; `count`, `ttl` and `born` are the Redis
keys. `INCR`, `EXPIRE` and `TTL` are steps of their own, each may fail, the reply
of `INCR` may be lost after it counted, and a future may be dropped between two
of them. `passed` is the time since a bucket let a request pass, its window when that
is longer ago or never was; `wait` is what a refused client was told. Redis answers `TTL`
in seconds, rounded to the nearest, so the answer may be a unit short of the time that
is left (`TtlReplies`).

`Session`: one process per connection that sends one request after another;
tokens are `jti` values with an owner and a remaining `life` (leeway included),
`blacklist` and `cache` the keys in Redis, `active` the column. Any token may be
presented to any endpoint: `decode_token` does not tell access from refresh
tokens. `spent` is a history variable. The switch of a
reseller (`Toggle`) stands for the endpoints that write `is_active`; none of them
touches Redis.

`CatalogCache`: a page is known by its age since it was read; `cached`, `ttl` and
`lockTtl` are the keys, `polls` and `slept` the loop of a loser. Pages in
`Guarded` go through the lock, as `products` does; `categories` does not. A request may
take longer than its lock lives; `Lost` says when a winner has lost its key, and the
history variable `robbed` who lost it to the unconditional `DEL` of another.

In all three a `Tick` lets every key age by one unit; what matters is the order
of expiries and steps, so TTLs of one to three units stand for seconds to days.

Four modules model the frontend. A step is one event of the browser (a click, an
input, a reply, a timer) or one step of the service behind it; what a function
captured before an `await` is in the record of its call.

`Storefront` composes the shop with the order service: `Shop == INSTANCE
OrderContract`, so the browser is checked against what the service promises, and
`OrderFlow` is checked to keep that promise. `card` holds the hooks of
`ProductCard`, `mine` and `viaModal` the purchases its `await`s are waiting for,
`probe` and `asks` its other requests; `page`, `note`, `shown`, `fetching`,
`late` and `polls` are the pages of an order. A page that is left is unmounted
(`GoTo`), its requests and timers run on. An order is named by the submission
that placed it, since each draws an idempotency key of its own. `Fulfil` is
any step of the contract that the service behind a product can take (`Services`, the
`AdapterKinds` of `OrderFlow`): only a panel with a DNS host delivers; hotplayer,
golden_api and redfoxx, which return none, and the whatsapp stub can only fail with
their refund or stay open; a product without a provider fails with its charge kept, as
`order_no_refund` shows; a row the factory rejects leaves the order open. A whatsapp
order may be closed by an admin's hand, with no credentials, and in `TakeOver` an
admin's `whatsapp_order` wins the claim before the request does.

`Browser`: `store` is `localStorage`, shared by the `Tabs`; `tab` the state of
`AuthContext`; `call` at most one call of `AuthContext` and one of the page per
tab. Tokens are known by the pair they were minted in. The endpoints are those of
`Session`, one step each: that a token once spent stays spent is what `Session`
checks, and what happens between its two Redis commands is left to it.

`Listing`: `box` are the filter inputs, `page` and `url` what they are turned into,
`asked` the requests in flight, `pending` the debounce of the shop or a save of the
admin after which the list is asked for again. `Links` is `page_bounds` and
`page_url`. A list is known by the request whose reply it is; the aggregate of
`AdminActivationCodes.jsx` over all products counts as one request.

`CatalogAdmin`: `product`, `variant` and `category` are the rows, `ordered` what some
order refers to, `form`, `target`, `manager` and `catForm` the dialogs, `calls` the
calls in flight with what they captured. Handlers that read before they write
(`admin_products_delete`, `admin_category_delete`) are two steps; a foreign key
refuses the second. Deleted variants keep `months` -1 so that an id is not used
twice. The list of products comes without variants, so the rows of the form are
always new ones. Providers, names, images, prices and packs are left out: variants
are of one pack.

Abstractions: the texts of messages, the contents of credentials, MAC addresses
and extras are left out; `"400"` stands for every refusal of a request, 404
included; the worker's log is left out. Credits are whole numbers (NUMERIC(12,2)
scaled); the width of the column is not modelled.

## Runs

The runs of `OrderFlow` use one reseller (the money of different resellers does not
interact, and the proofs are for any number), credits 3, unit price 1, quantities 1 and
2, `AsyncThreshold` 1 (so that quantity 1 is inline and 2 goes to the stream),
`MaxQuantity` 2, one worker. Two requests are enough for two purchases to race on the
key, the balance and the worker, and credits of 3 let two orders of 2 collide on the
balance. `order_race` has the prices -1 and 2 instead: an edit makes a quote stale,
nothing in the code keeps a price from being negative, two orders of 1 at price 2 collide,
and an order of 2 at price 2 needs an adjustment first. Requests and keys are symmetric
where no liveness is checked; `order_live` starts from one of each group of initial
states that differ by a renaming of requests and keys.

| Run | Configuration | Shows |
|---|---|---|
| `order_race` | two requests, worker, admin, panel and whatsapp products, two prices, one adjustment or edit | money, single purchase, single fulfiller, delivery, truthful replies; `OrderFlow` implements `OrderContract` |
| `order_faults` | two requests, worker, admin, three kinds of product, two failures of any kind | nobody holds what was not paid for; one failure strands at most one order |
| `order_live` | two requests, worker, admin, products with and without a provider, no failures, `FairSpec` | every reserved order settles, every request is answered |
| `rate_limit` | three requests of one client, limits 1 and 2, windows 2 and 3 ticks, one loss, `FairSpec` | less than twice the limit passes in one window's length; the wait a client was told is honest to the rounding of TTL; a bucket that refuses opens again |
| `session` | two processes, three tokens, one user, refresh TTL 2, leeway 1, failures | a spent token passes no check before its `exp` |
| `session_live` | one process, three tokens, failures, `FairSpec` | a reseller that stays deactivated is at last refused |
| `catalog` | two processes, both pages, TTL 3, lock 2, up to 2 ticks to compute, two polls, failures, `FairSpec` | no page too old is sent; a lock has one winner that has not lost it; every request is answered |
| `storefront` | one product of each kind of dialog and of fulfilment, two purchases, one MAC, two option requests in flight, `FairSpec` | the card buys what it displays and one order at a time; pages show their own order; the waiting page ends when its order does |
| `browser` | two tabs, two users, three pairs, two calls at once, one lost reply | logouts last; a tab speaks for the user it shows; sessions are given up only when over |
| `listing` | five lists, two filters, up to three pages, two requests in flight | rows match filters; nobody ends up beyond the last page |
| `catalog_admin` | two products and a third to create, three variants, two categories, three calls | references hold; a form stores its rows once and is not closed before; only the product named in the title changes |
| `order_no_refund` (expects a violation) | one request, a product without a provider | the order fails and keeps its charge |

Met while modelling, and visible in the code or the models without a run of their own:

- An error after the claim is acknowledged with nothing persisted on the order
  (`Work`, `AfterErr`), while `queue.rs:66` says "Ack regardless: failures are
  persisted on the order itself."
- A line that comes without a DNS host is created at the provider, but its
  credential is refused by the NOT NULL column (`Persist`), while
  `services/orders.rs:264` says "One provider call per purchased unit; each success
  persists a Credential."
- Two refreshes with one token both read the blacklist before either writes it and
  mint two pairs (`RefreshCheck`, `Rotate` of `Session`), while
  `tests/api_flow.rs:471` says "reusing the consumed refresh token -> 401".
- A session is renewed once: the refresh token that comes with the new access token
  is not stored (`RefreshReply`), and the next refresh logs the user out
  (`RenewedOnce`).
- A refresh answered after a logout leaves an access token behind (the exception in
  `LoggedOutStays`).
- A product save that failed halfway and is repeated stores its rows again when they
  have no duration, and is refused for ever when they have one (`Clashes`).
- A variant edited to lifetime keeps its old duration, since null is not written
  (`Update`).
- A product that was only deactivated is reported as deleted (`Deleted`).
- The package select of the purchase dialog compares ids with `parseInt` of a UUID
  (`ProductCard.jsx:407`): the choice is lost, and what is bought is what the select
  shows again. `AdminProductDetail.jsx:60` sends null for the same reason.
- The pager: the reply of the shop has no `page`, so the last number is always
  highlighted and "next" disabled; `page_url` gives no link back from page two, and
  the product table links forward from every page (`Links`). A search among
  resellers is always refused (`Answers`).
- The toggle of a reseller is sent without the body its handler requires.
- An entry added before the worker has created its group at `$` is never delivered
  (`EveryOrderSettles` with `GroupReady = FALSE`).
- A failed XADD is only logged: the client is told 202 and the charged order stays
  `PENDING` (`EveryOrderSettles` with `"enqueue"` in `Faults`).
- Whatsapp orders do reach `provision()`, which `whatsapp.rs:15` calls unreachable
  (`Provision` of a `"whatsapp"` product).
- A lost EXPIRE, or a lost reply of the INCR that created the key, leaves a key
  without TTL, and the bucket refuses its client for good (the exception in
  `BucketReopens`).
- A token blacklisted within the leeway after it was issued decodes for a moment
  after its key is gone (the exception in `SpentIsRefused`).
- The 60 seconds of the user cache start again with every request (`StoreUser`), so a
  deactivated reseller that keeps calling is served until its tokens run out.
- A refused client may be told to wait up to half a second too short, or 0 seconds,
  since `TTL` rounds to the nearest second (`TtlReplies`).
- A winner of the single-flight lock that takes more than five seconds deletes the lock
  of whoever won it since, and the next request joins the two (`Unlock`, `robbed`).
- A request whose order an admin's `whatsapp_order` took over is answered 400, although
  the order is charged and may be delivered yet (`Declined` of a `"taken"` order).
- The receipt of a whatsapp order that was completed by hand is empty
  (`PageShowsItsOrder`).
- An empty list of packages leaves the promax dialog without packages and without an
  error (`OptionsReply`).
- The waiting page of an order that never closes polls for ever: hotplayer, golden_api
  and redfoxx sell lines without a DNS host, and a row the factory rejects fails before
  anything is written (`OutcomeShown`).
- A negative price pays the buyer, and its refund may take the balance below zero; a
  negative opening credit is below zero from the start, without a ledger row
  (`Exposed`).
- Losers of the single-flight lock compute after a second although the lock is good
  for five: when the database is slow, all of them do (`GivesUp`).

The properties in words:

- `LedgerChained`, `NeverOverdrawn`: the ledger is a running account that ends at
  the balance; below zero is only a reseller who opened there or ordered at a negative
  price.
- `ChargedOnce`: one key, one order; one order, one charge of the quoted price
  times the quantity asked.
- `NetPaidMatchesQuantity`, `PaidForWhatItHolds`: charge minus refund is the unit
  price times the order's quantity, and it never holds more credentials than that.
- `SingleFulfiller`, `NoExcessLines`: one process inside `fulfill_order` per order,
  never more lines than ordered, at most one of them not yet stored.
- `DeliveredAsSold`: what a closed order says is so. `KeepsContract`: the refinement;
  closed orders stay as they are, and refunds are exact. (`FailedIsRefunded` and
  `TerminalIsFinal` say so on their own and are proved, not run.)
- `RepliesAreTruthful`: 201, 202, 409 and 400 still hold later. A 400 after the
  reservation says only that the order is not waiting: when an admin's
  `whatsapp_order` wins the claim, the request answers 400 although the order may
  yet be delivered.
- `EachFailureStrandsOne`: orders that nobody will move on are at most as many as
  the failures that happened. It excludes the two kinds of product for which the
  code strands orders by itself: those without a DNS host and those whose provider
  the factory refuses.
- `EveryOrderSettles`, `EveryRequestAnswered`: progress.

- `AtMostTwoBursts`: fixed windows admit a burst on both sides of a boundary, less
  than twice the limit together, plus one request for each INCR that failed open.
- `RetryAfterIsHonest`: the key that refused a client is gone when the wait is over, or
  in its last unit, which is what the rounding of TTL can cost. The header is not always
  a wait: asked before EXPIRE arrived or after the key expired, Redis answers -1 or -2
  and the client is told so.
- `SpentIsRefused`: a logged-out or rotated token passes no blacklist check before
  its `exp`; within the leeway after it a token may outlive its key.
- `DeactivationTakesHold`: refresh asks the database, so a deactivated reseller's
  tokens run out, and with them what renews its cache entry. That may take as long
  as a refresh token lives.
- `SentPageIsRecent`: no reply is older than cache TTL plus the time a request may
  take, although a slow request may put its page over a newer one.
- `OneWinner`: a lock has one winner that has not lost it. It is lost in two ways only,
  by taking longer than the key lives or to the unconditional DEL of a winner that had
  lost its own; nothing is assumed of how long a request takes, and in the run it may
  take as long as the key lives.

- `OnePurchasePerCard`, `DeniedIsFree`: one purchase in flight per card, although its
  dialog can be cancelled with a click beside it; who is told no has not paid, unless
  the product has no provider or an admin's session had taken the order over. An answer
  that was lost promises nothing: buying again buys twice.
- `BoughtAsDisplayed`: with its exceptions for the hotplayer dialog, which buys the
  first variant of a duration.
- `PageShowsItsOrder`, `DialogIsHonest`: an error, receipt, device check or list of
  packages is that of the order or dialog it is shown in; each exception names the
  way in which it may not be. A receipt is empty only of a whatsapp order completed by
  hand, and a promax dialog silent only about an empty list.
- `ReceiptIsEarned`, `OutcomeShown`: nobody is moved to a receipt by the timer of a
  page that was left; the waiting page of an order that is closed at last says so. Of an
  order that stays open it promises nothing.
- `LoggedOutStays`, `SentAsDisplayed`, `RenewedOnce`, `GivenUpWhenOver`: see the
  comments in `Browser`; the history variables `late` and `foreign` are their
  exceptions.
- `RowsMatchFilters`, `NoPageBeyondLast`: at rest, unless replies crossed, the last
  request failed, or the filters changed under a debounce or a save.
- `ReferencesHold`, `TitleIsWhatChanges`, `RowsStoredOnce`, `FormIsKept`: the catalog
  under crossing dialogs.

The bounds. Three requests fill a bucket of 1 once in each of two windows and ask once
more; three tokens are a pair and one that was spent. Two purchases are one in flight
and one behind it, or two receipts that cross; `MaxQuantity` 2 is one unit above the
inline threshold; two option requests are one from each of two openings of the dialog.
Three pairs are a login, its renewal and another login, in two tabs that have two calls
in flight. Two requests in flight cross; three pages have a first, a middle and a last.
Three calls of the admin are a save, its retry and a call that meets either, or two
deletes and an assignment; `Forms` and `MaxRows` are 1, since a form meets only its own
calls, and a second opening would only be `early`. A `MaxDelay` equal to the life of a
lock makes every winner that is slow one that has lost it. In `storefront` the providers
are the real ones; with the mock all of them deliver, as the panel does. Deadlock is
checked in every run but `browser`, where the bound on pairs can leave a refresh or a
login without one.

### Fairness

`FairSpec` asks weak fairness of every request's and worker's next step and of
`fulfill_order` wherever it runs: they are tokio tasks, and every statement
returns. It asks strong fairness of the two lock steps, since PostgreSQL queues
the waiters of a row lock. It asks nothing of an admin, except that an adjustment
once begun ends. It does assume that a provider call returns: the HTTP clients
are built without a timeout, so that is the provider's promise and not the
code's. In `RateLimit`, `Session` and `CatalogCache` fairness is weak: time passes,
and a Redis command or query once sent returns, with an error or without. In
`Storefront` it is weak too: requests are answered or break, and the timer of the
waiting page fires. The service owes it nothing, since for the products named above,
and after a failure, an order does stay open. Nobody is obliged to send a request, and
the reseller to nothing.

## Proofs

The theorems hold for any sets of requests, workers, admins, resellers, variants,
products, tokens, pages, tabs and users, any lifetimes and limits, and any bounds.

| Theorem | Module | Says |
|---|---|---|
| `TypeCorrect` | `OrderFlow_proofs` | `TypeOK`, and every process keeps to its own code (`JobOK`) |
| `LedgerCorrect` | `OrderFlow_proofs` | `LedgerChained` |
| `Invariance` | `OrderFlow_proofs` | `IInv` |
| `SolvencyCorrect` | `OrderFlow_proofs` | `NeverOverdrawn` |
| `ClaimCorrect` | `OrderFlow_proofs` | `SingleFulfiller` |
| `SettlementCorrect` | `OrderFlow_proofs` | `DeliveredAsSold`, `FailedIsRefunded` |
| `HoldingCorrect` | `OrderFlow_proofs` | `PaidForWhatItHolds` |
| `FinalityCorrect` | `OrderFlow_proofs` | `TerminalIsFinal` |
| `LinesCorrect` | `OrderFlow_proofs` | `NoExcessLines` |
| `RepliesCorrect` | `OrderFlow_proofs` | `RepliesAreTruthful` |
| `StrandingCorrect` | `OrderFlow_proofs` | `EachFailureStrandsOne` |
| `ChargeCorrect` | `OrderFlow_proofs` | `ChargedOnce` |
| `RefundCorrect` | `OrderFlow_proofs` | `NetPaidMatchesQuantity` |
| `Refinement` | `OrderFlow_proofs` | `KeepsContract` |
| `SpentStaysSpent` | `Session_proofs` | `SpentIsRefused` |
| `BurstsAreBounded` | `RateLimit_proofs` | `AtMostTwoBursts` |
| `WaitsAreHonest` | `RateLimit_proofs` | `RetryAfterIsHonest` |
| `PagesAreRecent` | `CatalogCache_proofs` | `SentPageIsRecent` |
| `LockHasOneWinner` | `CatalogCache_proofs` | `OneWinner` |
| `CardBuysOnce` | `Storefront_proofs` | `OnePurchasePerCard` |
| `ShopTyped` | `Storefront_proofs` | `TypeOK` |
| `PurchasesAreAsDisplayed` | `Storefront_proofs` | `BoughtAsDisplayed` |
| `DenialsAreFree` | `Storefront_proofs` | `DeniedIsFree` |
| `DialogsAreHonest` | `Storefront_proofs` | `DialogIsHonest` |
| `PagesShowTheirOrder` | `Storefront_proofs` | `PageShowsItsOrder` |
| `ReceiptsAreEarned` | `Storefront_proofs` | `ReceiptIsEarned` |
| `LogoutLasts` | `Browser_proofs` | `LoggedOutStays` |
| `TabsSpeakForTheirUser` | `Browser_proofs` | `SentAsDisplayed` |
| `SessionsAreRenewedOnce` | `Browser_proofs` | `RenewedOnce` |
| `SessionsEndWhenOver` | `Browser_proofs` | `GivenUpWhenOver` |
| `RowsAreThoseAskedFor` | `Listing_proofs` | `RowsMatchFilters` |
| `PagesAreThere` | `Listing_proofs` | `NoPageBeyondLast` |
| `CatalogStaysWhole` | `CatalogAdmin_proofs` | `ReferencesHold` |
| `RowsAreStoredOnce` | `CatalogAdmin_proofs` | `RowsStoredOnce` |
| `FormsAreKept` | `CatalogAdmin_proofs` | `FormIsKept` |
| `TitlesNameWhatChanges` | `CatalogAdmin_proofs` | `TitleIsWhatChanges` |

Between them they state every invariant and every action property that a passing run
checks.

The argument for orders. Types come first; with them goes `JobOK`, that a process at
a location of `fulfill_order` has an order in hand. `LockInv` says that a lock has one
holder, and that while it is held `seen` is the balance; `LedgerChained` is not
inductive without it, since `Post` writes from `seen`. Then comes what a fulfiller
knows of its order at each location (`WorkOK`), what a row says of its credentials
(`OrderOK`), and that two fulfillers hold different orders (`ApartInv`); every action is
shown to move one process and touch at most one order that no other fulfiller has,
after which only that process and that order need a look. `IInv` is their conjunction;
it was model-checked on the `order_race` and `order_faults` instances before it was
proved. `Refinement` uses it to show that each step that commits is a step of the
contract and every other one a stutter. Four more invariants stand on it:

- `LinesInv`: a fulfiller has stored every line it got but the one it is about to
  store. What ties the local count to the panel is that nobody else asks for lines of
  its order, which is `ApartInv` again.
- `RepliesInv`: a reply is given at the end of a request, when it is so, and what it
  says stays so: orders are not deleted, keys stay taken, and an order that no longer
  waits never waits again.
- `StrandedInv`: with the group in place, the orders nobody will move on (`Abandoned`)
  are at most as many as the failures. A step that is no failure leaves every order
  with whoever had it, or hands it on; a failure is the step of one process (`Fails`),
  which has one order in hand.
- `RowsInv`: which rows of the ledger an order has. A charge is posted by the step that
  makes the order exist, so a second one cannot follow. A refund is posted inside
  `fulfill_order`, so the invariant says that an order which waits
  (`WaitingUnrefunded`), or is in hand before its refund (`InHandUnrefunded`), was not
  refunded yet.

The services around it:

- `Session_proofs`: the key of a spent token is written with the lifetime of a refresh
  token and so outlasts the token but for its leeway (`KeyOutlasts`). `HandInv` says
  that nobody revokes a token it does not hold.
- `RateLimit_proofs`: what a bucket let pass lately is paid for by what it may still let
  pass before its key goes away (`Budget`). Counted since the key got its TTL the two
  stay below one limit, counted over a whole window below two; each INCR that fails, or
  whose reply is lost, adds one (`Excused`).
- `CatalogCache_proofs`: two pairs of clocks run side by side, the age of a page and the
  time spent on it (`Recent`), the life of a lock and the time it was held
  (`LockOutlives`). A winner that is too slow, or was robbed, counts as having lost its
  lock (`Holds`), so the argument needs no bound on how long a request takes.

The frontend:

- `OnePurchasePerCard` is not inductive, since the buttons of a card look at
  `card.buying` and the button of its dialog at `card.activating` only. `Owned` says
  that whatever is in flight raised the flag the next submission of this kind of
  product looks at. `ShopInv` adds what the service knows at each stage of a
  submission (`CallInv`, `ServiceInv`), what the dialog waits for (`DialogInv`) and
  which order the requests and timers of a page are about (`PageInv`). What the dialog
  of hotplayer buys is the first variant of the chosen duration (`First`); that there
  is one is a descent along the strict subsets of a finite set (`LeastNumber`), since
  induction itself is beyond the prover.
- `LoggedOutStays` needs that a refresh in flight carries a token that was minted
  (`Sound`): when it is answered after a logout, that token is not the one in the
  empty store, and the answer counts as `late`. `SessionInv` follows the user: both
  stored tokens are of one user, a refresh mints for the user of the token it spends,
  and a tab shows, or is about to be told, the user of the stored access token.
  `RenewInv` follows the pairs minted by refreshes: their tokens are never stored as
  refresh tokens. So a call that is refused again after a refresh of its own was sent
  with tokens of an earlier session, or the session is over.
- `ListInv`: the last request sent is the last one in flight or was answered
  (`AskInv`), it agrees with the inputs unless they changed behind a debounce or a save
  (`InputsInv`), and the pager is that of the rows shown (`PagerInv`), so it leads to
  pages that are there (`PagesInv`). It was model-checked on the `listing` instance.
- `ReferencesHold` needs that the rows a call was sent with are those a handler may
  rely on (`Captured`): the dialog they came from may be gone by the time they arrive.
  `BookInv` keeps book of a form: what its save has stored and is to store is what was
  owed when it was submitted (`InFlight`), and before that it stores nothing
  (`Unsent`).

Assumptions are the named ASSUMEs of the modules, and none asks more of a deployment than
the code does: prices and opening credits are any integers, since no handler or column
rejects negative ones, and a catalog request may take any time.

Model-checked only: the liveness properties (`EveryOrderSettles`,
`EveryRequestAnswered`, `BucketReopens`, `DeactivationTakesHold`,
`EveryCallerAnswered`, `OutcomeShown`). Liveness under fairness and ENABLED are beyond
the prover, as are induction over data and anything that reaches a RECURSIVE operator;
none of the modules declares one.

## Not modelled

- The listings, exports and statistics of the backend only read. The option
  endpoints of the catalog and `check_device` are asked by `Storefront`, which takes
  any answer.
- The provider sync, the providers page and the older product endpoints of
  `handlers/admin.rs`, which no page calls; the rows of `manual_credentials`, which
  no fulfilment reads; the settings.
- What adapters send and parse, hashing, encryption and the reading of the
  environment: translations without state.
- Toasts, skeletons, layout, the role check of `AdminRoute`, images and uploads.

## What is left

No invariant or action property of a run is without a theorem. What may still be
stated and proved: an abstract specification of the sessions that `Session` and
`Browser` both refer to, with `Session` shown to implement it, and the safety part of
the progress arguments, such as that whoever waits for a row lock keeps a process that
will release it.
