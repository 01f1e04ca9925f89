# A TLA+ model of NewNextMarket

NewNextMarket is a single-store shop: a NestJS API over PostgreSQL (through
Prisma) with a Redis cache, a Next.js storefront and an admin dashboard. The
shop's promises about stock, orders, money, carts and accounts are kept, or
broken, by the services of `src/apps/backend-api`, which several requests run at
once against the same rows. This project models those services at the
granularity at which they can interleave, checks the models with TLC on small
instances, and proves the main results with TLAPS for every value of the
constants.

Paths below are relative to `src/apps/backend-api/src` unless they start with
`src/` or `prisma/` (which is `src/apps/backend-api/prisma`).

## 1. The system

### Components

| Component | State | Operations that change it | What makes it correct | Model |
|---|---|---|---|---|
| Variant stock (`checkout/`, `orders/`, `catalog/`) | `ProductVariant.stock`, `.status`, `.deletedAt`; `InventoryLog` with its unique `eventKey` | `createOrder`, `confirmPayment`, `restoreCancelledOrderInventory`, `adjustInventory`, `updateInventory`, `updateProductVariant`, `deleteProductVariant`, `createProductVariant` | stock never negative; all items of an order or none; items of a cancelled order back once; the log adds up | `Inventory`, `StockLedger`, `Catalogue` |
| Orders (`orders/`) | `Order.status`, `.cancelledAt` | `cancelOrder`, `updateOrderStatus`, `refundAdminOrder` | nothing is paid for a cancelled order, and its goods are back | `OrderLifecycle`, `Fulfilment` |
| Payments (`payments/`) | `Payment.status`, `.method`; `Refund` rows | `createCustomerPayment`, `confirmCustomerPayment`, `collectCashOnDelivery`, `refundPayment` | refunds within what was paid; one usable payment; REFUNDED means paid back | `OrderLifecycle` |
| Checkout (`checkout/`) | creates `Order`, `Payment`, `Shipment`, `CouponUsage`; closes the `Cart` | `createOrder`, `confirmPayment` | one order of a cart; it holds what the cart held, at the price shown | `Inventory`, `OrderLifecycle`, `Fulfilment`, `Shopping`, `Pricing` |
| Shipping (`shipping/`) | `Shipment.status`, and `Order.status` | `updateShipment`; the quote of the rates | the quote is what is charged | `OrderLifecycle`, `Pricing` |
| Returns (`returns/`) | `ReturnRequest`, its items, `Refund` | `createCustomerReturn`, `updateReturnStatus` | nothing returned more often than bought; a return refunded once; what overlaps bounds what is refunded too much | `Returns` |
| Cart (`cart/`) | `Cart`, `CartItem`, `User.activeCartId` | get, add, update, remove, clear, apply and remove a coupon | nothing ordered twice; one active cart; an ordered cart stays closed | `Shopping` |
| Coupons (`coupons/`) | `Coupon`, `CouponUsage` | CRUD, quote | the quote is what the cart does; uses within the limits | `Pricing`, `Shopping` |
| Catalogue (`catalog/`) | categories, collections, products, variants, links | every handler that writes them; the refresh of the stock status | the status follows the stock | `Catalogue` |
| Seed (`prisma/seed.ts`, `prisma/seed-production.ts`) | rows of most tables | one run, which may die and be run again | initial stock logged once | `Catalogue`, `PublicCache` |
| Redis cache (`redis/`), and the pages of `catalog/`, `banners/`, `settings/` | versions and entries in Redis; the promise in `remember` | get, set, invalidate, connect | a finished write is seen; what was lost heals | `PublicCache` |
| Sessions (`auth/`, `src/apps/customer-frontend/lib/customer-api.ts`) | `User.refreshTokenHash`; tokens in the browser | register, login, refresh, logout; refresh and retry on a 401 | the calls of a page do not turn away each other | `Accounts` |
| Wishlist, reviews, notifications (`wishlist/`, `reviews/`, `notifications/`) | `Wishlist`, `WishlistItem`, `Review`, `Notification` | add, remove, create, moderate, delete, send, mark as read | a conflict is true; verified means bought; a deleted review stays hidden | `Accounts` |
| Settings (`settings/`), banners (`banners/`) | `Setting`, `Banner` rows | update | every place that reads them computes alike; pages follow | `Pricing`, `PublicCache` |
| Uploads (`uploads/`) | `Upload` rows, files | upload, delete | pages show them after a while | `PublicCache` |
| Audit log, reports, configuration, admin dashboard | see 7 | | | not modelled |

### How they interact

There are no messages between services; they call each other in one process and
meet in the database. Three transactions touch orders and stock together:
`createOrder` (cart, order, payment and stock), `cancelOrder` (order, payments
and stock) and `confirmPayment` (payment, order, cart and stock). Shipping,
status changes, collection and refunds write the order or its payments alone.
The catalogue writes stock without looking at orders. Every write of a public
row, but for uploads and reviews, then increments versions in Redis, outside of any
transaction. The
storefront calls all of it with several requests of a page at once.

What an interleaving can do is decided by the isolation of each handler:

| Handler | Isolation | In the model |
|---|---|---|
| `createOrder`, `confirmPayment` | interactive transaction, READ COMMITTED | one step per statement on a variant, row locks in `pending` (`Inventory`); one step after the cart was validated (`Shopping`) |
| `cancelOrder`, `collectCashOnDelivery` | interactive transaction, Serializable | one step: PostgreSQL aborts it if a row it writes has changed since it began |
| `adjustInventory`, `updateInventory`, `updateProductVariant`, `deleteProductVariant` | a read, then separate writes or a batch transaction, then three statements for the status of the product | one step for the read, one for each write (`Inventory`, `Catalogue`) |
| `updateOrderStatus`, `createCustomerPayment` | a read, then a transaction | read step, write step |
| `refundPayment` | READ COMMITTED; the read locks nothing | read step, write step |
| `updateShipment` | a batch of blind writes | one step |
| `createCustomerReturn` | reads, then a write, no transaction | read step, write step |
| `updateReturnStatus` | READ COMMITTED; its first write locks the return | one blind write, or, for REFUNDED, a read, a lock and a commit |
| the handlers of `CartService` | up to four statements to open the cart, one write, the same again to answer | one step each |
| the handlers of `auth/`, `wishlist/`, `reviews/`, `notifications/` | reads, then a write, no transaction | one step each |
| readers of public pages | version, entry, database, store | one step each |

### What is hard

The hazards are listed one by one, at their lines, in `PROJECT.json`. They are
of these kinds: decisions taken on rows that were read without a lock
(`adjustInventory`, `confirmPayment`, `refundPayment`, `updateOrderStatus`, the
cart, the wishlist, the refresh of a stock status); transactions that lock
several rows and may fail half way; long sequences of legal requests (cancel,
revive by a shipment update, pay, cancel again); writers of the order's status
that do not look at it; requests that wait for rows; a cache that is filled,
invalidated and lost while pages are built; a seed that dies and is run again;
tokens that several calls of a browser exchange at once; and amounts that are
computed in four places.

## 2. The modules

    StockLedger      what the shop promises of its stock       (abstract)
        ^ implemented by, for cash-on-delivery traffic
    Inventory        the stock and every writer of it          InventoryProofs
        ^ implemented by
    Fulfilment       orders, payments and stock together       FulfilmentProofs
        v implements
    OrderLifecycle   order status, payments, refunds           OrderLifecycleProofs
        ^ contained in
    Returns          returned items and their refunds          AmountsProofs

    Shopping         carts, coupons, the orders made of them   ShoppingProofs
    Pricing          what a cart, a quote and an order cost    AmountsProofs
    PublicCache      public pages in Redis                     PublicCacheProofs
    Catalogue        the rows of the catalogue; the seed       CatalogueProofs
    Accounts         sessions, wishlists, reviews              AccountsProofs

`OrderTerms` declares the constants that `Fulfilment` and `OrderLifecycle`
share, with their assumptions. The `MC...` modules give the constants that a
`.cfg` cannot write down and the symmetry sets. Small definitions headed
"Mutant" state a plausible bug of the definition that follows them; no action
uses them. They show that the properties can fail: with the mutant in place of
the definition, TLC finds the property violated.

### Inventory

`row[v]` is the committed version of a variant; `pending[v]` the version a
transaction has written and not committed, which is also the lock on the row;
`ledger[v]` the sum of the quantities in `InventoryLog`. `work[o]` is the open
transaction of an order: its kind, the items still to do, and the row it has
read for the item at hand. `edit[e]` is an admin's request and what it has
read. `taken` and `returned` count how often an order's items were deducted and
put back; the program has no such counter, and no action depends on one.

| Action | Code |
|---|---|
| `BeginCheckout`, `ReadVariant`, `DecrementVariant`, `Commit`, `Rollback` | `CheckoutService.createOrder` (`checkout/checkout.service.ts`): the `findUnique` and the conditional `updateMany` of each item |
| `BeginConfirm`, `ReadVariant`, `OverwriteVariant`, `Commit`, `Rollback` | `CheckoutService.confirmPayment`: reads, then writes an absolute stock |
| `Restore` | `OrdersService.restoreCancelledOrderInventory` |
| `ReadToAdjust`, `WriteAdjustment` | `CatalogService.adjustInventory` |
| `ReadToSet`, `WriteSet`, `LogSet` | `updateInventory`, `updateProductVariant` |
| `ReadToDelete`, `WriteDelete` | `deleteProductVariant` |

A checkout that loses a race (the `updateMany` matches no row) throws; that is
`Rollback`, which is enabled whenever a transaction is open. The items of an
order are dealt with in any order, which covers the order of every cart.

### StockLedger

Two variables and two steps: `Reserve` takes all items of an order at once from
units that are there, `Release` gives all of them back, once. `Inventory`
implements it (`ImplementsLedger`) under the mapping `available[v]` = committed
stock and `reservation[o]` = "released" when the cancellation's event keys
exist, "reserved" when only the order does. It does so for the traffic of
`CashSpec`, checkouts and cancellations: an absolute write of an admin or of
`confirmPayment` is not a step of the ledger.

### OrderLifecycle

`status[o]`, `payments[o]` (newest last) and `shipment[o]` are the rows of an
order. A handler that reads first and writes later occupies a `request[r]`
between the two; the record holds what the handler keeps in local variables.

| Action | Code |
|---|---|
| `CreateOrder` | `createOrder`: CONFIRMED at once, one cash-on-delivery payment that is PENDING |
| `ConfirmRead`, `ConfirmPaid`, `ConfirmFailed` | `confirmPayment`, also behind `confirmCustomerPayment` |
| `StatusRead`, `StatusWrite` | `updateOrderStatus` |
| `Cancel` | `cancelOrder`, by customer or admin |
| `CreateRead`, `CreateWrite` | `createCustomerPayment` |
| `Collect` | `collectCashOnDelivery` |
| `RefundRead`, `RefundWrite` | `refundPayment`, `refundAdminOrder` |
| `UpdateShipment` | `updateShipment` |
| `Abandon` | any of them failing, or finding its work done |

`MOCK` stands for every method that is not cash on delivery: the code tells no
more apart. Each payment of an order is for the order's total, so one constant
`Amount` is enough.

### Fulfilment

`OrderLifecycle` and `Inventory` as instances over the variables of both, plus
`confirming[o]`, the confirmation whose transaction is open. `PlaceOrder`,
`CancelOrder` and `FinishConfirmation` are joint steps; every other step belongs
to one side. A payment that an open confirmation has marked PAID is locked:
other writers of it wait (`PaymentLocked`). An order has one open transaction at
a time: a second confirmation of the same payment waits for the payment's row,
and one of another payment of the same order, which the code admits, is left
out. Edits of the catalogue are left to `Inventory`; they look at no order.

### Returns

`OrderLifecycle` as an instance, with every step it has, beside `returns[o]`,
the order's returns (lines, status, number of refund rows), and `task[r]`, what
a handler of returns under way has read. A request is served by one handler at
a time: `request[r]` and `task[r]` are never both in use.

| Action | Code |
|---|---|
| `CreateRead`, `CreateWrite` | `createCustomerReturn`; `Returnable` is `validateReturnItems`, line by line as there |
| `Decide` | `updateReturnStatus` to any status but REFUNDED: no transition is refused |
| `OpenReturn`, `LockReturn`, `PayBack` | `updateReturnStatus` to REFUNDED: the read; the update that locks the row, after which `createReturnRefundIfNeeded` looks for a refund and for a payment that is PAID; refund, payment, order and commit |
| `GiveUp` | an exception or a rollback |

A transaction that pays back shows in `task[r].op = "pay"`, and that is the
lock on the return's row. Returned goods are not put back into stock by this
code, so `Inventory` is not involved.

### Shopping

`cart[c]` are the carts, named by their customer and a number, `active[u]` is
`User.activeCartId`, `order[c]` the order made of a cart, if any, `usage[c]` its
`CouponUsage` row. `request[r]` is a handler under way: its stage, the cart it
works on, and, for those that go on to use it, the cart as it was read.

| Action | Code |
|---|---|
| `Start` | a request of a customer comes in; one for the shipping rates is `OpenForRates`, as it opens the cart only |
| `OpenPointed`, `FindCart`, `CreateCart`, `PointToCart` | `getOrCreateActiveCart`, statement by statement; run again to answer (`reopen`) |
| `DropUnavailable` | `removeUnavailableItems` |
| `FindItem`, `AddItem`, `UpdateItem`, `RemoveItem`, `ClearItems`, `ApplyCoupon`, `RemoveCoupon` | the handlers of `CartService` of these names |
| `ValidateCart`, `PlaceOrder` | `validateCartForCheckout`, and the transaction of `createOrder` |
| `ConfirmOrder` | `confirmPayment`, of an online payment made later |
| `SetCoupon`, `ToggleVariant` | what admins change meanwhile |
| `GiveUp` | a handler that throws |

An update or a removal finds its item by the item's id, and fails when that id is
gone: of an item taken out of the cart and put in again it does not find the new
one. `made` in a cart counts the items of a variant that were created there and
stands for the id of the last of them. `getCart`, `clearCart` and `removeCoupon`
open the cart alike and use nothing they have read of it, so one kind of request,
"get", is any of them until it acts. `clearCart` deletes the items and then takes
the coupon off, which is the step `RemoveCoupon`.

`asked` and `crossed` are history: `asked[c][v]` is how many units of v requests
have put in cart c, and `crossed` are the customers who have had two requests
under way at once.

### Pricing

Every amount of `toCartResponse` (`CartTotals`), the quote of a coupon
(`Quote`), the quote of the shipping (`Calculate`) and the page of the checkout
(`PageTotal`) as operators, translated each from its own code, and the steps
between which admins change prices and settings: `ValidateCart`, `CreateOrder`,
`UpdatePrice`, `UpdateSettings`. The cart and the checkout read `setting`, the
rows in the database; the quote of the shipping reads `cached`, the public
settings in Redis, as `ShippingService.getSettings` does. The copy is stored by
any visitor (`StoreSettings`), and dropped after an update, or late, or only when
it expires (`DropSettings`). A setting may be any number: `SettingsService.update`
asks for no more, so fees and thresholds may be negative.

The names `PricingInit`, `PricingNext`, `PricingSpec` and `PricingTypeOK` let
`AmountsProofs` extend it and `Returns` together. Amounts are whole cents; a
percentage of one is kept in hundredths of a cent until `Money` rounds it, as
`money` of the services does.

### PublicCache

`version[p]` and `entry[p][n]` are the keys in Redis, `connection[x]` the client
of process x, `request[r]` a reader or a writer under way. The content of a page
is, for each of its parts, how many writes of the data behind it were seen. A part
may be of data that another page is named for: a banner shows its collection, and
a product its images and the number of its reviews. Handlers that write the
catalogue invalidate `catalog` and `homepage`, not `banners`; uploads and new
reviews invalidate nothing (`WriteImages`).

| Action | Code |
|---|---|
| `Connect`, `Connected`, `Lose` | `RedisService.execute` and the client (lazy connection, no queue, no second attempt) |
| `StartRead`, `GetVersion`, `SetVersion`, `GetEntry`, `StorePage`, `End` | a reader of a page: `getVersion`, `get` and `set` of `RedisService`, the answer |
| `LoadPage`, `LoadCollections`, `Collect` | what is read of the database; `buildHomepage` reads the collections and, through their own page, the banners |
| `InFlight`, `Waiting`, step "join" | `remember` of the homepage |
| `StartWrite`, `Write`, `Invalidate`, `Finish` | a handler that writes, its increments, its answer; a write whose audit entry fails invalidates nothing |
| `Seed`, `WriteImages` | `prisma/seed.ts` and `prisma/seed-production.ts`; `UploadsService` and `ReviewsService.create`: past the cache |
| `Expire`, `Restart`, `LoadFails` | 'EX'; a process that stops; a database that does not answer |

### Catalogue

The rows by their slug or sku, `links` (`CollectionProduct`), and `request[r]`,
an admin's request between its checks and its write, or between the statements
of the refresh. `seed` is how far a run of the seed is.
`sole[p]` is history: the request that wrote a variant of p last, unless
something else has written since.

| Action | Code |
|---|---|
| `Check...`, then `CreateCategory`, `UpdateCategory`, `DeleteCategory` and the same of collections and products | the handlers of `CatalogService` of these names: the rows they look for, then their write |
| `CheckProductToAdd`, `AddProductToCollection`, `RemoveProductFromCollection` | the handlers of these names |
| `CheckNewVariant`, `CheckVariant`, `CheckAdjustment`, `CheckVariantToDelete`, then `CreateVariant`, `UpdateVariant`, `AdjustInventory`, `DeleteProductVariant` | `createProductVariant`, `updateProductVariant` and `updateInventory`, `adjustInventory`, `deleteProductVariant` |
| `ReadProductStatus`, `SumStock`, `SetStockStatus` | the statements of `updateProductStockStatus` |
| `TakeUnit`, `PutBackUnit` | an order of one unit and its cancellation |
| `SeedStart`, `SeedCategory`, `SeedCollection`, `SeedProduct`, `SeedLink`, `SeedVariant`, `FindSeedLog`, `CreateSeedLog`, `SeedEnd`, `SeedDies` | `prisma/seed.ts`, row by row; it may die at any point and be run again |

`prisma/seed-production.ts` writes settings, banners and five collections by the
same upserts, and no product, variant or log entry: of `Catalogue` it would be
the step `SeedCollection` alone.

### Accounts

`hash[u]` is `User.refreshTokenHash`, `store[d]` what browser d has in its
storage, `call[c]` a call of the storefront and how far it is: sent, denied,
refreshing, handled. A call whose access token has expired asks for new tokens
with the one in the storage at that time, and is retried once
(`src/apps/customer-frontend/lib/customer-api.ts`). `blocked` are the customers
whose account is not ACTIVE any more, or is deleted: login, guard and refresh ask
for it.

| Action | Code |
|---|---|
| `StartRegister`, `Register`, `Login`, `StoreRefreshToken`, `TakeTokens` | the pages and `registerCustomer`, `loginCustomer`, `storeCustomerRefreshToken` |
| `Send`, `SignOut`, `AskRefresh`, `Retry`, `RefreshFails` | `customerRequest`, `refreshAccessToken`, `signOut`; a refresh that is answered by an error of another kind: a token past its thirty days, the limit of requests (`main.ts:34`), a failure |
| `Guard`, `CompareHash`, `Rotate`, `Logout` | `JwtAuthGuard`, `refreshCustomerToken`, `logoutCustomer` |
| `FindProduct`, `FindList`, `CreateList`, `AddItem`, `RemoveItem`, `ShowList` | `WishlistService` |
| `FindPurchase`, `CreateReview`, `CheckReview`, `UpdateStatus`, `CheckReviewToDelete`, `DeleteReview` | `ReviewsService` |
| `FindUsers`, `CreateNotifications`, `MarkRead` | `NotificationsService` |
| `OrderStep`, `Block` | orders; an account that is no longer active, which no code of the repository makes it, so this is done in the database |

An access token may expire before any call but the retried one (`Guard`).
`Matches` is what the code does, not what it means to do: a refresh token is
hashed with bcrypt, which reads 72 bytes, and the tokens of a customer begin with
the same ones, so any of them matches the stored hash. `docs/api-summary.md:12`
speaks of rotation ("Rotate a customer refresh token."); the new token is stored,
but the old one still works. `ServedWhileSignedIn` holds for this reason.

## 3. The runs

| Run | Bounds | Distinct states | What it shows |
|---|---|---|---|
| `stock_all` | 2 variants, 2 orders (two units of one variant; a unit of each), 1 request of an admin | 243,391 | With every kind of writer of stock, statement by statement: never negative, put back once; the admin is answered |
| `stock_cash` | 2 variants, 3 orders, cash on delivery | 1,066 | `LedgerAgrees`, and `Inventory` implements `StockLedger` |
| `fulfilment_two` | 1 variant, 1 order, 2 requests under way, 2 payments | 540,816 | What holds of orders, payments and goods together, under any interleaving |
| `returns_two` | 1 order of 3 units, 2 requests under way, 2 returns of a unit, 2 payments | 1,207,801 | A return is paid back once; payments stay sound beside returns; what overlaps bounds what is refunded too much |
| `shopping_two` | 1 customer, 2 requests under way, 2 carts, 1 variant, 1 coupon | 1,523,520 | Nothing ordered twice, one active cart, an ordered cart stays closed |
| `pricing` | 2 variants, 2 prices, 9 coupons, a fee above and one below zero, a threshold or none, three tax rates; 1 change by an admin | 512,892 | The places that compute an amount agree, but for settings in Redis that are behind; an order holds together |
| `cache` | the homepage and the banners, 1 process, 2 requests, 1 write, 1 fault | 723,562 | An answered write is seen where it invalidates; what was lost heals |
| `catalogue` | 1 seeded category, collection, product, variant each, another variant; 2 requests; a seed that dies | 771,407 | The stock status follows the stock; the seed logs once |
| `accounts` | 1 customer, 1 browser, 2 calls, 2 requests of admins | 1,948,499 | No call turns away another; wishlist, reviews and notifications |
| `order_refund` | 1 order, 2 requests | | violation, see 6 |
| `returns_quantity` | 1 order, 2 requests, forms that name the item once, no decisions of admins | | violation, see 6 |
| `coupon_uses` | 1 customer, 1 request at a time | | violation, see 6 |

### Why the bounds are enough

Two requests under way are what a lost update takes, and every hazard of section
1 that is an interleaving is one of two actors. For all that is safety the
theorems of section 5 drop the bounds of this section: every invariant and every
action property of a passing run is a theorem for any values of the constants.

- `Inventory`: two orders over two variants can lock rows in opposite orders and
  compete for a last unit; the stock (3 and 2) is less than the orders want once
  one is deducted twice. In `stock_cash` two of three orders compete while
  another is cancelled.
- `OrderLifecycle`, `Fulfilment`: no guard or assignment relates two orders but
  through a variant, and that is the business of `stock_all`. `Amount` is 2 and
  an admin refunds 1 or the rest, so a payment is refunded in part, in full at
  once, and in full by two refunds. `MaxPayments` bounds the payments of an
  order: the second is one the customer creates after the first was refunded,
  cancelled or failed.
- `Returns`: the order is of 3 units at a price of 1, paid with a discount of 1:
  a return may be worth less than was paid, as much, or more, which has to be
  refused. `returns_two` keeps to returns of one unit, two of which come to what
  was paid; two requests make the bound of `RefundsBounded` twice what was paid,
  which two that overlap reach, and a third, later refund would exceed.
  `returns_quantity` leaves out decisions and items on two lines, with either of
  which `ReturnedWithinBought` fails without any race (section 6).
- `Shopping`: `MaxCarts` carts of a customer, so that one can be ordered and
  another opened, and `MaxAsked` units of a variant that a customer puts in carts in all. Stock is 2.
- `Pricing`: prices 3 and 9 put the subtotal below, at and above the threshold
  and the minimum (9) and the fixed amount (6). A fee of -4 is one that is given.
  A rate of 800 is eight percent given as a percentage, 15 one given as a share,
  -10 a mistake. One change is enough to set the copy of the settings in Redis,
  and the cart that was validated, against the rows.
- `PublicCache`: one write is what an entry can be out of date by; `MaxFaults`
  bounds restarts and lost connections. Keys have the versions that one write
  can lead to.
- `Catalogue`: a second variant lets a sum of stock be out of date. The
  properties ask nothing of categories, so there is one.
- `Accounts`: calls and requests are made once each, so two of each are two that
  race. With one browser an address is registered once; that an address is taken
  is a branch only the theorems cover.

Symmetry is used for requests and calls, in runs of invariants and action
properties; they are model values that no definition tells apart, but for a
`CHOOSE` of a free request, where it does not matter which.

Deadlock is checked in `stock_all`, `fulfilment_two`, both runs of returns and
`order_refund`: there a request can always be made. The others turn it off,
since their traffic may end: orders are placed and cancelled once each
(`stock_cash`), calls made once each (`accounts`), units asked for up to a bound
(`shopping_two`, `coupon_uses`), one order is made (`pricing`), and with nothing
left to write and the connection gone nothing has to happen (`cache`,
`catalogue`).

### Fairness

`LiveSpec` of `Inventory`:

- `WF(Commit \/ Rollback)` for each order: Prisma ends an interactive
  transaction when its time limit is up, committed or not.
- `SF` of the write of each admin's request: the row it needs may be locked,
  released and locked again, so weak fairness would promise nothing. PostgreSQL
  queues those who wait for a row and wakes them in the order they came.
- `WF(LogSet)`: nothing blocks the statement after the update.

`LiveSpec` of `PublicCache`:

- `WF` of the expiry of each page: Redis removes what was stored with `EX`.
- `WF(End(r))`: a request that has its answer is over.

No handler has to go on: one may stop for good between any two of its steps.

Nothing is assumed of customers and admins: no checkout, payment, cancellation,
read or write has to happen.

## 4. The properties

Beside one `TypeOK` per module (in `Pricing` it is `PricingTypeOK`, and says that
goods, discount and tax are never negative and that every amount is a whole number
of cents; a shipping, and with it a total, is negative where an admin has set a
fee below zero):

| Module | Property | |
|---|---|---|
| `Inventory` | `StockNonNegative` | Holds although `adjustInventory` and `confirmPayment` write levels computed from stale reads: each writes a level that was checked when it was computed. Stock is then wrong, but not negative. |
| | `RestoredAtMostOnce` | The unique `eventKey` keeps an order's items from being put back twice. |
| | `LedgerAgrees`, `ImplementsLedger` | Of `CashSpec`. |
| | `EditsFinish` | An admin's request is answered, however orders lock its row. |
| `Fulfilment` | `CancelledNotPaid` | Survives the blind writes of `updateShipment` and `updateOrderStatus`, because none of them writes CANCELLED, and `cancelOrder` and `collectCashOnDelivery` are Serializable. |
| | `RefundedIsFull` | Although `RefundWithinPaid` fails, what is called REFUNDED was paid back in full. |
| | `CashRefundsStick` | Cash that was paid back stays marked so. |
| | `CancelledIsRestored` | The items of a cancelled order are back, once. |
| | `PaidOnlineIsTaken` | What is paid for online is off the shelf. |
| `Returns` | `PaidBackOnce`, `PaymentsSound` | Under any interleaving. |
| | `RefundsBounded` | The limit of a refund is broken by those that overlap (section 6), and by no more than those: what is paid back of a payment stays within its amount for each request that can be under way at once. |
| `Shopping` | `NothingOrderedTwice` | The units in a cart and in its order are units that requests put in that cart, also when they cross: an add that has read the cart before it was ordered does not order its goods again. |
| | `OneActiveCart` | Of customers whose requests have not crossed. |
| | `OrderedCartStaysClosed` | Of such customers too: a cart that was ordered is not active again, and holds nothing. |
| `Pricing` | `OrderHoldsTogether` | Lines, discount, shipping, tax and total of an order agree, whatever changes meanwhile. |
| | `ChargedPageAndTax` | If nothing changes, the order has the lines that were shown and costs what the page says and the tax, which the page leaves out. |
| | `CouponNeverCosts` | A coupon takes off at most what the goods cost and leaves the shipping as it was, or free: the threshold is held against the goods before the discount. Only a fee below zero makes free shipping a loss. |
| | `QuoteAgrees` | The quote of a coupon is what the cart does. So is the quote of the shipping, unless the copy of the settings in Redis is behind the rows. |
| `PublicCache` | `Fresh` | If no command to Redis has failed, a page shows every write answered before it was asked for, of what its handlers invalidate it for (`Promised`): also with a homepage that is made of other pages and shared by those who wait for it. Of the collection of a banner, of images and of reviews no page promises that. |
| | `Settles` | However writes and invalidations are lost, in the end the pages show what the database has: the collection of a banner and the images too. |
| `Catalogue` | `StockStatusAgrees` | Once its refresh is over, a product is ACTIVE or OUT_OF_STOCK as its stock says, if no other request has come in between. |
| | `SeedLogsOnce` | The initial stock is logged once. |
| `Accounts` | `ServedWhileSignedIn` | No call turns away another, although two rotate the same token: a session that is refused is one of a customer who has signed out or was blocked. A refresh that fails in itself (`RefreshFails`) is a failed call. |
| | `ConflictIsTrue`, `VerifiedWasBought`, `DeletedReviewStaysHidden` | |

Each property has a mutant of the code that breaks it.

## 5. The theorems

All are checked by `tlapm` for arbitrary values of the constants, from the
assumptions named `...Assumption` in the modules.

`InventoryProofs`:

- `TypeCorrect`: `Spec => []TypeOK`.
- `StockCorrect`: `Spec => []StockNonNegative`. Not inductive by itself: a
  stale write could make stock negative. `NoNegativeTarget` adds that every
  uncommitted version is non-negative, that a confirmation's row was read with
  enough stock for the item, and that the level an adjustment is about to write
  is non-negative.
- `RestoreCorrect`: `Spec => []RestoredAtMostOnce`. `KeysTellReturns` ties
  `returned` to the unique event keys and `placed` to `taken`.
- `LedgerCorrect`: `CashSpec => []LedgerAgrees`. `PendingIsDecrement` says that
  every uncommitted version is the committed one less the order's items, which
  is what a conditional decrement of a locked row gives and an absolute write
  does not.
- `LedgerImplemented`: `CashSpec => ImplementsLedger`, a step simulation.
  `CommitTakesItems` and `RestoreReturnsItems` show that `Commit` of a new
  order is `Reserve` and `Restore` is `Release`; every other step stutters.

`OrderLifecycleProofs`: `TypeCorrect`, `CancelledCorrect`, `RefundedCorrect`
and `CashCorrect` follow from one inductive invariant, `IInv`: types;
`PaymentsSound` (each payment's status agrees with its refunds); `RequestsAgree`
(what a request has read is still true in part: its payment is there, of the
same method, refunded at least as much, and no request will write CANCELLED);
`PaidOnPlacing` (an order exists exactly when it has a payment); and
`CancelledNotPaid`. There is one lemma per handler.

`FulfilmentProofs`: the composition implements both of its parts
(`LifecycleImplemented`, `StockImplemented`), so their theorems are theorems of
it: `TypeCorrect`, `CancelledCorrect`, `RefundedCorrect`, `CashCorrect`,
`StockCorrect`. What relates the two has an invariant of its own, of which the
invariants of the parts are conjuncts: `RestoredCorrect` and `TakenCorrect`. It
adds what an open confirmation keeps true of the payment it has locked, and
that a payment made online is PAID by a confirmation only.

`AmountsProofs` is about `Returns` and `Pricing`, which both add amounts up. It
begins with sums over finite sets: `SumsExist`, `TotalStep`, `TotalNat`,
`TotalAny` and their like say that `MapThenSumSet` is the sum it is meant to be,
whichever element is taken first. They are inductions on the subsets of a finite
set, in the form of `SubsetInduction`, which takes a family of sets where the
library's theorem takes an operator, and rests on the minimal element of a
well-founded order.

- `PaidBackCorrect`: `Spec => []PaidBackOnce`. The invariant adds `RowsHeld`: a
  handler works on a return that is there, the one that holds its row is the only
  one, and that return has no refund yet.
- `ReturnsTypeCorrect` and `PaymentsCorrect`, from `MoneyInv`: what
  `OrderLifecycle` keeps true of its payments is kept by the steps of returns as
  well, where a transaction that pays back has read at most what its payment has
  had refunded (`TasksAgree`).
- `RefundsCorrect`: `Spec => []RefundsBounded`, with refunds and returns that
  overlap as they like. That what was refunded is at most the amount for each
  request is not inductive: a refund that has read, and not yet written, will add
  to it. `Budgeted` therefore looks at the requests that have no refund of the
  payment under way: what was refunded is at most the amount for each of them, or
  will be, with the refund that one of the others has still to write, at most the
  amount for each of them and that one.
- `AmountsCorrect`, `OrderCorrect`, `PageAndTaxCorrect`, `CouponCorrect` and
  `QuoteCorrect`: the five properties of `Pricing`, for all prices, quantities,
  rates, coupons and settings, where fees and thresholds are any integers. They
  rest on lemmas about the operators: rounding keeps amounts in their order and
  whole cents as they are (`MoneyRounds`), a discount is never more than the goods
  (`DiscountWithin`), a total is the subtotal less the discount with shipping and
  tax (`TotalsAre`). `PricingInv` adds that the cart that was validated adds up,
  and that until an admin changes something it and the order are what the page
  shows.

`CatalogueProofs`: `TypeCorrect`, `StockStatusCorrect` and `SeedLogsCorrect`, from one invariant: `RowsSound` (a row refers to rows that
are there), `RequestsSound` (what a request has found is there still, as rows
are marked as deleted and never removed), `SeedSound` (the rows up to where the
seed is are there) and `SoleSound` (what the refresh of the only writer of a
product has read is still true).

`AccountsProofs`: `TypeCorrect`, `ServedCorrect`, `VerifiedCorrect`,
`ConflictCorrect`, `DeletedReviewCorrect`. `ServedCorrect` rests on what
`Matches` does: were it the comparison it is meant to be, of two calls that
rotate one token the second would be turned away. It says nothing of calls that
fail because their refresh does.

`ShoppingProofs`: `TypeCorrect`, `ActiveCartCorrect`, `OrderedCartCorrect`,
`OrderedOnce` and `OrdersCloseCorrect`, for any customers, carts, coupons and
requests. The second and the third are about
customers whose requests have not crossed (with two under way at once both
fail), and are not inductive: a request between its search for a cart and its
write could create a second one, or write to one that was ordered meanwhile.
`RequestsSound` says what a request knows: the cart it holds is its customer's
and is not ordered, and a search that found no active cart would find none
still. `Alone` says why: there is no other request of that customer.
`PointersSound` keeps `User.activeCartId` among the customer's own carts.

`OrderedOnce` is `Spec => []NothingOrderedTwice`, with requests that cross as
they like, and `OrdersCloseCorrect` that an order closes its cart for good. Here
a request may write to a cart that was ordered since it read it. `ItemsCounted`
says why it orders nothing again: a quantity it has read was asked for, and when
the cart was ordered since and holds an item of that variant again, then the id
it has read is an older one, by which nothing is found. Without the id, an add of
one that has read two would make three of the one that was put in after the
order, two of which are in the order already.

`PublicCacheProofs`: `TypeCorrect` and `FreshCorrect`, for any number of
processes, requests, writes and faults.

- `Shape` is the invariant of the first. Beside the types it says what a reader
  and a writer look like at each step (`RequestsSound`), that an entry holds all
  that its page shows (`EntriesWhole`), that what was answered was written
  (`FinishedSound`), and that a version counts the writes: with the increments
  still to come it is at most one more than their number (`VersionsCounted`).
  The last counts requests, which is why `RequestsAssumption` says that there are
  finitely many.
- `FreshInvariant` is that of the second. What is stored, and what a request
  looks for, is under the version of now or an earlier one (`KeysCurrent`). A
  page shows a write when nothing older is under its key, nor on its way there.
  In this sense a page shows, under its version of now, what was answered
  (`FinishedShown`) and what a writer has invalidated it for
  (`InvalidatedShown`), and under the key a request holds, what that request may
  count on (`FloorsShown`). The homepage is subtle, as it is made of the page of
  the banners: its version is incremented after theirs (`WritersInOrder`), so
  whoever has its new key finds the new banners.

## 6. Where the code and what is said of it part

Three are checked to fail:

- `order_refund` / `RefundWithinPaid`. Two refunds of a payment that both read
  before either writes each pass the limit (`payments/payments.service.ts:218`).
  `docs/backend-checklist.md:59`: "Refund amount cannot exceed paid amount minus
  prior refunds."
- `coupon_uses` / `UsageLimitKept`. `createOrder` takes the coupon off the cart
  (`checkout/checkout.service.ts:190`); `confirmPayment`, which alone records a
  use, looks for it there. "Coupon usage limit has been reached"
  (`cart/cart.service.ts:482`) is never said.
- `returns_quantity` / `ReturnedWithinBought`. Two forms for one order that are
  both checked before either is stored return more than was bought
  (`returns/returns.service.ts:45`). "Return quantity exceeds remaining purchased
  quantity" (`returns/returns.service.ts:228`).

Others were met while modelling; the models have the steps, and no property
pretends otherwise:

- `adjustInventory` writes the stock it read plus the quantity; an order
  committed in between is undone. `catalog/dto/adjust-inventory.dto.ts:8`:
  "Positive or negative quantity adjustment."
- A shipment update, a status change decided on an earlier read, or a payment
  brings a cancelled order back, though its entry in the transition table
  (`orders/orders.service.ts:34`) is empty.
- `confirmPayment` deducts stock that `createOrder` has already deducted.
  `docs/api-summary.md:81`: "Confirm mock payment and reduce stock
  idempotently." And it excludes a payment that is PAID, not one that was PAID
  and then REFUNDED.
- `updateReturnStatus` writes any status over any other
  (`returns/returns.service.ts:183`): a REJECTED return stops counting, its items
  are returned again, and then it is APPROVED. An item on two lines of one return
  is checked line by line (`:206`). Either exceeds what was bought with no race.
- Two requests that find no usable payment both create one
  (`payments/payments.service.ts:57`).
- Two requests of a customer without a cart make two active carts
  (`cart/cart.service.ts:294`).
- The total on the checkout page leaves the tax out; `ChargedPageAndTax` says
  that the order costs what the page says, plus the tax.
- Refresh tokens are hashed with bcrypt, of which 72 bytes count, so an old token
  of the same customer still matches. A logout with an expired access token is
  turned away and leaves the hash; one that races a refresh is undone by it
  (`auth/auth.service.ts:146`).
- The seed, run again, writes its stock over the stock of the day
  (`prisma/seed.ts:600`).
- The refresh of a stock status may make a deleted product ACTIVE
  (`catalog/catalog.service.ts:1664`). Lists ask for `deletedAt` too, but what is
  joined to a row does not: a deleted category is shown as the parent of its
  children and as the category of its products (`catalog/catalog.service.ts:1414`,
  `:1471`), a deleted collection on the page of its products and with its banner
  (`:1482`, `banners/banners.service.ts:36`), a deleted product on a wishlist
  (`wishlist/wishlist.service.ts:64`). So no property says that what was deleted
  stays hidden.
- Some writes do not invalidate every page that shows them: a collection that is edited or
  deleted stays as it was on the page of the banners
  (`catalog/catalog.service.ts:1236`), and an image or a review as it was
  on the pages of its product (`uploads/uploads.service.ts:52`,
  `reviews/reviews.service.ts:47`), until the entries expire. `src/README.md:22`
  promises it of "inventory and checkout writes", which do invalidate.
- `SettingsService.update` takes any number for a fee
  (`settings/settings.service.ts:59`); a negative one makes the shipping a gift,
  which a coupon for free shipping then takes away. And it writes key by key:
  one that is refused leaves those before it written, and Redis as it was, so that
  the quote of the shipping and the cart differ until the copy expires.

## 7. Abstractions, and what is not modelled

- A `findFirst` with `include` is several SQL statements; the model reads the
  row and what it includes in one step.
- A Serializable transaction is one atomic step or nothing. Retries after a
  serialization failure are the client's, so a failed one is no step.
- Names, texts, images, audit entries, paging and timestamps are left out of
  rows; prices and settings are in `Pricing` alone, where carts hold nothing
  else. `refunded` is the sum of the payment's refund rows.
- `Shopping` places an order in one step after the cart was validated; that its
  transaction deals with one variant after the other is in `Inventory`. Stock
  there is what a cart is checked against.
- `PublicCache` has one page per namespace; what differs between the pages of a
  namespace (query, slug) is the key's second part, and pages do not affect each
  other. Lost connections are final, as the client makes no second attempt.
- In `Accounts` an access token is fresh or expired; when it expires is open. An
  account that was blocked is not made active again.
- PostgreSQL's READ COMMITTED is modelled by what it does for these statements:
  a write waits for the row's lock and sees the last committed version.
- A crash of a process in the middle of a transaction is its rollback.
- `Catalogue` has the rows, not what pages join to them; `PublicCache` has that a
  page shows rows of others, not which.
- Not modelled: the file of an upload (in a storage service, read back by
  nothing in the code), reports (read-only), the audit log (append-only,
  read back by nothing; that its failure stops a handler after its write is in
  `PublicCache`), configuration and bootstrap (no state), the admin dashboard and
  the rest of the storefront (rendering and requests).

## 8. What is only model-checked, and what is left

Liveness is out of the prover's reach, which knows no ENABLED: `EditsFinish` and
`Settles` are checked on the instances of section 3 only. So is what fails
(section 6), as a counterexample is an instance. Every other property of a run is
a theorem too, with no hypothesis but the assumptions on the constants.

An induction over data has to be written as one over the subsets of a finite set
(`SubsetInduction` in `AmountsProofs`); the library's theorems that take an
operator cannot be instantiated. No model needs another kind.

What would come next: codes and limits of coupons that are created while carts
use them; the second confirmation of another payment of the same order in
`Fulfilment`.
