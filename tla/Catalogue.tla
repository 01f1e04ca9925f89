------------------------------ MODULE Catalogue ------------------------------
(***************************************************************************)
(* The catalogue: CatalogService and the rows it keeps, together with what *)
(* else writes those rows: prisma/seed.ts, which may be run again and may  *)
(* die half way, and the orders that take stock and give it back.          *)
(*                                                                         *)
(* A handler checks that the rows it was given exist, and later writes     *)
(* with nothing held in between.  Those that write a variant then refresh  *)
(* the status of its product, which takes three statements more.           *)
(*                                                                         *)
(* A row is named by its slug or sku, which is unique, also among deleted  *)
(* rows.  PublicCache has the pages made of the rows, Inventory the log    *)
(* entries of the admins' stock edits.  The category of a product is left  *)
(* out: no row depends on it.                                              *)
(***************************************************************************)
EXTENDS Integers, Sequences

CONSTANTS
  Categories, Collections, Products, Variants,
  Requests,         \* requests of admins, each made once
  SeedRows,         \* the rows of seed.ts, in their order
  Levels,           \* stock levels an admin sets, and adjusts by
  Statuses,         \* statuses an admin gives a category or a collection
  ProductStatuses,  \* statuses an admin gives a product
  VariantStatuses,  \* statuses an admin gives a variant
  Undefined,        \* null
  Absent            \* a field left out of a request

Status == {"ACTIVE", "INACTIVE"}
ProductStatus == {"DRAFT", "ACTIVE", "OUT_OF_STOCK", "ARCHIVED"}
VariantStatus == {"ACTIVE", "INACTIVE", "OUT_OF_STOCK", "DISCONTINUED"}

\* Status NONE: the row is not there.
Category == [status: Status \cup {"NONE"}, deleted: BOOLEAN,
             parent: Categories \cup {Undefined}]
Collection == [status: Status \cup {"NONE"}, deleted: BOOLEAN, home: BOOLEAN]
Product == [status: ProductStatus \cup {"NONE"}, deleted: BOOLEAN]
Variant == [status: VariantStatus \cup {"NONE"}, deleted: BOOLEAN, stock: Nat,
            product: Products \cup {Undefined}]

\* The fields of a request; in a request that creates, one left out is the
\* default.
CategoryPatch == [status: Statuses \cup {Absent},
                  parent: Categories \cup {Undefined, Absent}]
CollectionPatch == [status: Statuses \cup {Absent}, home: BOOLEAN \cup {Absent}]
ProductPatch == [status: ProductStatuses \cup {Absent}]
VariantPatch == [status: VariantStatuses \cup {Absent}, stock: Levels \cup {Absent}]

\* The rows of seed.ts.  A product comes with its links and its variants.
SeedCategoryRow ==
  [table: {"category"}, id: Categories, parent: Categories \cup {Undefined}]
SeedCollectionRow == [table: {"collection"}, id: Collections]
SeedProductRow ==
  [table: {"product"}, id: Products]
  \cup [table: {"link"}, id: Products, collection: Collections]
  \cup [table: {"variant"}, id: Variants, product: Products, stock: Nat]
SeedRow == SeedCategoryRow \cup SeedCollectionRow \cup SeedProductRow

ASSUME LevelsAssumption == Levels \subseteq Nat
ASSUME StatusesAssumption ==
  /\ Statuses \subseteq Status
  /\ ProductStatuses \subseteq ProductStatus
  /\ VariantStatuses \subseteq VariantStatus
ASSUME SeedAssumption == SeedRows \in Seq(SeedRow)
\* A variant's row comes after the row of its product.
ASSUME SeedOrderAssumption ==
  \A i \in 1 .. Len(SeedRows) :
    SeedRows[i].table = "variant" =>
      \E j \in 1 .. i - 1 : /\ SeedRows[j].table = "product"
                            /\ SeedRows[j].id = SeedRows[i].product

VARIABLES
  category, collection, product, variant,
  links,    \* the CollectionProduct rows
  request,  \* request[r]: what request r has yet to do
  seed,     \* how far a run of seed.ts is, if one is on
  seeded,   \* a run of seed.ts came to its end
  seedLogs, \* seedLogs[v]: the "Initial seed stock." entries of variant v
  sold,     \* variants of which an order holds a unit
  sole      \* sole[p]: the request that wrote a variant of product p last, as
            \* long as nothing else has written p or its variants

rows == <<category, collection, product, variant, links>>
seeding == <<seed, seeded, seedLogs>>
vars == <<rows, request, seeding, sold, sole>>

New == [op |-> "new"]
Done == [op |-> "done"]

Request ==
  {New, Done}
  \cup [op: {"createCategory", "updateCategory"}, id: Categories, patch: CategoryPatch]
  \cup [op: {"deleteCategory"}, id: Categories]
  \cup [op: {"updateCollection"}, id: Collections, patch: CollectionPatch]
  \cup [op: {"deleteCollection"}, id: Collections]
  \cup [op: {"addProduct"}, id: Products, collection: Collections]
  \cup [op: {"updateProduct"}, id: Products, patch: ProductPatch]
  \cup [op: {"deleteProduct"}, id: Products]
  \cup [op: {"createVariant"}, id: Variants, product: Products, patch: VariantPatch]
  \cup [op: {"updateVariant"}, id: Variants, patch: VariantPatch]
  \cup [op: {"adjust"}, id: Variants, seen: Variant, quantity: Int]
  \cup [op: {"deleteVariant"}, id: Variants]
  \cup [op: {"refresh"}, id: Products]
  \cup [op: {"sum", "restatus"}, id: Products, seen: ProductStatus]

\* step: the row of SeedRows at hand, 0 when no run is on.
Seed == [step: 0 .. Len(SeedRows) + 1, at: {"row", "find", "log"}]
SeedOff == [step |-> 0, at |-> "row"]

TypeOK ==
  /\ category \in [Categories -> Category]
  /\ collection \in [Collections -> Collection]
  /\ product \in [Products -> Product]
  /\ variant \in [Variants -> Variant]
  /\ links \in SUBSET (Collections \X Products)
  /\ request \in [Requests -> Request]
  /\ seed \in Seed
  /\ seeded \in BOOLEAN
  /\ seedLogs \in [Variants -> Nat]
  /\ sold \in SUBSET Variants
  /\ sole \in [Products -> Requests \cup {Undefined}]

Init ==
  /\ category = [k \in Categories |->
                   [status |-> "NONE", deleted |-> FALSE, parent |-> Undefined]]
  /\ collection = [c \in Collections |->
                     [status |-> "NONE", deleted |-> FALSE, home |-> FALSE]]
  /\ product = [p \in Products |->
                  [status |-> "NONE", deleted |-> FALSE]]
  /\ variant = [v \in Variants |->
                  [status |-> "NONE", deleted |-> FALSE, stock |-> 0,
                   product |-> Undefined]]
  /\ links = {}
  /\ request = [r \in Requests |-> New]
  /\ seed = SeedOff
  /\ seeded = FALSE
  /\ seedLogs = [v \in Variants |-> 0]
  /\ sold = {}
  /\ sole = [p \in Products |-> Undefined]

-----------------------------------------------------------------------------
(* Helpers of the handlers.                                                *)

Stored(row) == row.status # "NONE"

\* ensureCategoryExists, ensureCollectionExists, ensureProductExists and
\* getVariantOrThrow.
Exists(row) == Stored(row) /\ ~row.deleted

\* A reference of a request is looked up when it is there and not null.
KnownCategory(k) == k \in Categories => Exists(category[k])

\* Mutant: an optional field is written though it was left out.
Overwritten(old, new) == new

\* An optional field is written when it is there.
Patched(old, new) == IF new = Absent THEN old ELSE new

Then(r, next) == request' = [request EXCEPT ![r] = next]

\* The checks of request r have passed; what it will do is next.
Begin(r, next) ==
  /\ request[r] = New
  /\ Then(r, next)
  /\ UNCHANGED <<rows, seeding, sold, sole>>

\* Product p or one of its variants is written by another than sole[p].
Touched(ps) == sole' = [p \in Products |-> IF p \in ps THEN Undefined ELSE sole[p]]

-----------------------------------------------------------------------------
(* Categories.                                                             *)

CategoryPatched(row, patch) ==
  [row EXCEPT !.status = Patched(@, patch.status), !.parent = Patched(@, patch.parent)]

CheckNewCategory(r, k, patch) ==
  /\ KnownCategory(patch.parent)
  /\ Begin(r, [op |-> "createCategory", id |-> k, patch |-> patch])

\* The unique slug refuses a second row.
CreateCategory(r) ==
  /\ request[r].op = "createCategory"
  /\ LET k == request[r].id
     IN category' = IF Stored(category[k]) THEN category
                    ELSE [category EXCEPT ![k] =
                            CategoryPatched([@ EXCEPT !.status = "ACTIVE"],
                                            request[r].patch)]
  /\ Then(r, Done)
  /\ UNCHANGED <<collection, product, variant, links, seeding, sold, sole>>

CheckCategory(r, k, patch) ==
  /\ Exists(category[k])
  /\ patch.parent # k
  /\ KnownCategory(patch.parent)
  /\ Begin(r, [op |-> "updateCategory", id |-> k, patch |-> patch])

UpdateCategory(r) ==
  /\ request[r].op = "updateCategory"
  /\ category' = [category EXCEPT ![request[r].id] =
                    CategoryPatched(@, request[r].patch)]
  /\ Then(r, Done)
  /\ UNCHANGED <<collection, product, variant, links, seeding, sold, sole>>

CheckCategoryToDelete(r, k) ==
  /\ Exists(category[k])
  /\ Begin(r, [op |-> "deleteCategory", id |-> k])

DeleteCategory(r) ==
  /\ request[r].op = "deleteCategory"
  /\ category' = [category EXCEPT ![request[r].id].status = "INACTIVE",
                                  ![request[r].id].deleted = TRUE]
  /\ Then(r, Done)
  /\ UNCHANGED <<collection, product, variant, links, seeding, sold, sole>>

-----------------------------------------------------------------------------
(* Collections and what is in them.                                        *)

CollectionPatched(row, patch) ==
  [row EXCEPT !.status = Patched(@, patch.status), !.home = Patched(@, patch.home)]

CreateCollection(r, c, patch) ==
  /\ request[r] = New
  /\ ~Stored(collection[c])
  /\ collection' = [collection EXCEPT ![c] =
                      CollectionPatched([@ EXCEPT !.status = "ACTIVE"], patch)]
  /\ Then(r, Done)
  /\ UNCHANGED <<category, product, variant, links, seeding, sold, sole>>

CheckCollection(r, c, patch) ==
  /\ Exists(collection[c])
  /\ Begin(r, [op |-> "updateCollection", id |-> c, patch |-> patch])

UpdateCollection(r) ==
  /\ request[r].op = "updateCollection"
  /\ collection' = [collection EXCEPT ![request[r].id] =
                      CollectionPatched(@, request[r].patch)]
  /\ Then(r, Done)
  /\ UNCHANGED <<category, product, variant, links, seeding, sold, sole>>

CheckCollectionToDelete(r, c) ==
  /\ Exists(collection[c])
  /\ Begin(r, [op |-> "deleteCollection", id |-> c])

DeleteCollection(r) ==
  /\ request[r].op = "deleteCollection"
  /\ collection' = [collection EXCEPT ![request[r].id].status = "INACTIVE",
                                      ![request[r].id].deleted = TRUE]
  /\ Then(r, Done)
  /\ UNCHANGED <<category, product, variant, links, seeding, sold, sole>>

CheckProductToAdd(r, c, p) ==
  /\ Exists(collection[c])
  /\ Exists(product[p])
  /\ Begin(r, [op |-> "addProduct", id |-> p, collection |-> c])

\* A product that is in the collection already is refused, to the same effect.
AddProductToCollection(r) ==
  /\ request[r].op = "addProduct"
  /\ links' = links \cup {<<request[r].collection, request[r].id>>}
  /\ Then(r, Done)
  /\ UNCHANGED <<category, collection, product, variant, seeding, sold, sole>>

RemoveProductFromCollection(r, c, p) ==
  /\ request[r] = New
  /\ <<c, p>> \in links
  /\ links' = links \ {<<c, p>>}
  /\ Then(r, Done)
  /\ UNCHANGED <<category, collection, product, variant, seeding, sold, sole>>

-----------------------------------------------------------------------------
(* Products.                                                               *)

ProductPatched(row, patch) == [row EXCEPT !.status = Patched(@, patch.status)]

CreateProduct(r, p, patch) ==
  /\ request[r] = New
  /\ ~Stored(product[p])
  /\ product' = [product EXCEPT ![p] =
                   ProductPatched([@ EXCEPT !.status = "DRAFT"], patch)]
  /\ Then(r, Done)
  /\ Touched({p})
  /\ UNCHANGED <<category, collection, variant, links, seeding, sold>>

CheckProduct(r, p, patch) ==
  /\ Exists(product[p])
  /\ Begin(r, [op |-> "updateProduct", id |-> p, patch |-> patch])

\* The row is found by its id, deleted or not.
UpdateProduct(r) ==
  /\ request[r].op = "updateProduct"
  /\ product' = [product EXCEPT ![request[r].id] =
                   ProductPatched(@, request[r].patch)]
  /\ Then(r, Done)
  /\ Touched({request[r].id})
  /\ UNCHANGED <<category, collection, variant, links, seeding, sold>>

CheckProductToDelete(r, p) ==
  /\ Exists(product[p])
  /\ Begin(r, [op |-> "deleteProduct", id |-> p])

DeleteProduct(r) ==
  /\ request[r].op = "deleteProduct"
  /\ product' = [product EXCEPT ![request[r].id].status = "ARCHIVED",
                                ![request[r].id].deleted = TRUE]
  /\ Then(r, Done)
  /\ Touched({request[r].id})
  /\ UNCHANGED <<category, collection, variant, links, seeding, sold>>

-----------------------------------------------------------------------------
(* Variants, their stock, and the status of their product.                 *)

\* What a handler does once it has written a variant of product p.
ToRefresh(p) == [op |-> "refresh", id |-> p]

\* Request r writes variant v.
WriteVariant(r, v, row) ==
  /\ variant' = [variant EXCEPT ![v] = row]
  /\ Then(r, ToRefresh(row.product))
  /\ sole' = [sole EXCEPT ![row.product] = r]
  /\ UNCHANGED <<category, collection, product, links, seeding, sold>>

CheckNewVariant(r, v, p, patch) ==
  /\ Exists(product[p])
  /\ Begin(r, [op |-> "createVariant", id |-> v, product |-> p, patch |-> patch])

CreateVariant(r) ==
  /\ request[r].op = "createVariant"
  /\ ~Stored(variant[request[r].id])
  /\ LET patch == request[r].patch
     IN WriteVariant(r, request[r].id,
          [status |-> Patched("ACTIVE", patch.status), deleted |-> FALSE,
           stock |-> Patched(0, patch.stock), product |-> request[r].product])

\* updateProductVariant and updateInventory.
CheckVariant(r, v, patch) ==
  /\ Exists(variant[v])
  /\ Begin(r, [op |-> "updateVariant", id |-> v, patch |-> patch])

UpdateVariant(r) ==
  /\ request[r].op = "updateVariant"
  /\ LET v == request[r].id
         patch == request[r].patch
     IN WriteVariant(r, v,
          [variant[v] EXCEPT !.status = Patched(@, patch.status),
                             !.stock = Patched(@, patch.stock)])

CheckAdjustment(r, v, n) ==
  /\ Exists(variant[v])
  /\ n # 0
  /\ variant[v].stock + n >= 0
  /\ Begin(r, [op |-> "adjust", id |-> v, seen |-> variant[v], quantity |-> n])

\* Stock and status are computed from the row as it was read.
AdjustInventory(r) ==
  /\ request[r].op = "adjust"
  /\ LET v == request[r].id
         seen == request[r].seen
         stock == seen.stock + request[r].quantity
     IN WriteVariant(r, v,
          [variant[v] EXCEPT
             !.stock = stock,
             !.status = IF stock = 0 /\ seen.status = "ACTIVE" THEN "OUT_OF_STOCK"
                        ELSE IF stock > 0 /\ seen.status = "OUT_OF_STOCK" THEN "ACTIVE"
                        ELSE seen.status])

CheckVariantToDelete(r, v) ==
  /\ Exists(variant[v])
  /\ Begin(r, [op |-> "deleteVariant", id |-> v])

DeleteProductVariant(r) ==
  /\ request[r].op = "deleteVariant"
  /\ LET v == request[r].id
     IN WriteVariant(r, v,
          [variant[v] EXCEPT !.status = "DISCONTINUED", !.deleted = TRUE])

\* updateProductStockStatus, first statement: the status of the product.  A
\* draft or an archived product keeps the status it has.
ReadProductStatus(r) ==
  /\ request[r].op = "refresh"
  /\ LET p == request[r].id
     IN Then(r, IF product[p].status \in {"DRAFT", "ARCHIVED"} THEN Done
                ELSE [op |-> "sum", id |-> p, seen |-> product[p].status])
  /\ UNCHANGED <<rows, seeding, sold, sole>>

\* Mutant: discontinued variants count.
CountedAll(v, p) == variant[v].product = p /\ Exists(variant[v])

\* The variants whose stock counts.
Counted(v, p) ==
  variant[v].product = p /\ Exists(variant[v]) /\ variant[v].status # "DISCONTINUED"

InStock(p) == \E v \in Variants : Counted(v, p) /\ variant[v].stock > 0

\* The status of a product, as it was read, that its stock contradicts.
Wrong(status, stocked) ==
  IF stocked THEN status = "OUT_OF_STOCK" ELSE status = "ACTIVE"

\* Second statement: the stock of its variants.
SumStock(r) ==
  /\ request[r].op = "sum"
  /\ Then(r, IF Wrong(request[r].seen, InStock(request[r].id))
             THEN [request[r] EXCEPT !.op = "restatus"] ELSE Done)
  /\ UNCHANGED <<rows, seeding, sold, sole>>

\* Third statement: the other status, whatever the row has become.
SetStockStatus(r) ==
  /\ request[r].op = "restatus"
  /\ LET p == request[r].id
     IN /\ product' = [product EXCEPT ![p].status =
                         IF request[r].seen = "ACTIVE" THEN "OUT_OF_STOCK" ELSE "ACTIVE"]
        /\ Touched({p} \ {q \in Products : sole[q] = r})
  /\ Then(r, Done)
  /\ UNCHANGED <<category, collection, variant, links, seeding, sold>>

-----------------------------------------------------------------------------
(* Orders, as far as the catalogue sees them: the status of the product is *)
(* neither asked for nor refreshed.                                        *)

\* createOrder takes a unit of variant v.
TakeUnit(v) ==
  /\ v \notin sold
  /\ Exists(variant[v])
  /\ variant[v].status = "ACTIVE"
  /\ variant[v].stock > 0
  /\ variant' = [variant EXCEPT ![v].stock = @ - 1,
                   ![v].status = IF variant[v].stock = 1 THEN "OUT_OF_STOCK" ELSE "ACTIVE"]
  /\ sold' = sold \cup {v}
  /\ Touched({variant[v].product})
  /\ UNCHANGED <<category, collection, product, links, request, seeding>>

\* The order is cancelled.
PutBackUnit(v) ==
  /\ v \in sold
  /\ variant' = [variant EXCEPT ![v].stock = @ + 1,
                   ![v].status = IF @ = "OUT_OF_STOCK" THEN "ACTIVE" ELSE @]
  /\ sold' = sold \ {v}
  /\ Touched({variant[v].product})
  /\ UNCHANGED <<category, collection, product, links, request, seeding>>

-----------------------------------------------------------------------------
(* seed.ts.  Each of its rows is an upsert by slug, by url or by sku; for  *)
(* a variant two statements follow.  Rows of tables that are not here      *)
(* (roles, settings, coupons, banners, uploads) are left out.              *)

SeedRowAtHand == SeedRows[seed.step]

SeedStart ==
  /\ seed = SeedOff
  /\ seed' = [step |-> 1, at |-> "row"]
  /\ UNCHANGED <<rows, request, seeded, seedLogs, sold, sole>>

\* The statement at hand is done; next is where the run goes on.
SeedGoesOn(at) ==
  /\ seed' = IF at = "row" THEN [step |-> seed.step + 1, at |-> at]
             ELSE [seed EXCEPT !.at = at]
  /\ UNCHANGED <<request, seeded, sold>>

AtRow(table) ==
  /\ seed.step \in 1 .. Len(SeedRows)
  /\ seed.at = "row"
  /\ SeedRowAtHand.table = table

\* The update sets no deletedAt.
SeedCategory ==
  /\ AtRow("category")
  /\ category' = [category EXCEPT ![SeedRowAtHand.id].status = "ACTIVE",
                                  ![SeedRowAtHand.id].parent = SeedRowAtHand.parent]
  /\ SeedGoesOn("row")
  /\ UNCHANGED <<collection, product, variant, links, seedLogs, sole>>

SeedCollection ==
  /\ AtRow("collection")
  /\ collection' = [collection EXCEPT ![SeedRowAtHand.id].status = "ACTIVE"]
  /\ SeedGoesOn("row")
  /\ UNCHANGED <<category, product, variant, links, seedLogs, sole>>

SeedProduct ==
  /\ AtRow("product")
  /\ product' = [product EXCEPT ![SeedRowAtHand.id].status = "ACTIVE"]
  /\ Touched({SeedRowAtHand.id})
  /\ SeedGoesOn("row")
  /\ UNCHANGED <<category, collection, variant, links, seedLogs>>

SeedLink ==
  /\ AtRow("link")
  /\ links' = links \cup {<<SeedRowAtHand.collection, SeedRowAtHand.id>>}
  /\ SeedGoesOn("row")
  /\ UNCHANGED <<category, collection, product, variant, seedLogs, sole>>

\* A variant that is there is set to the stock of the seed.
SeedVariant ==
  /\ AtRow("variant")
  /\ LET v == SeedRowAtHand.id
     IN /\ variant' = [variant EXCEPT ![v].status = "ACTIVE",
                                      ![v].stock = SeedRowAtHand.stock,
                                      ![v].product = SeedRowAtHand.product]
        /\ Touched({variant[v].product, SeedRowAtHand.product})
  /\ SeedGoesOn("find")
  /\ UNCHANGED <<category, collection, product, links, seedLogs>>

\* Mutant: the log entry is created without a look for an earlier one.
NeverLogged(v) == FALSE

AlreadyLogged(v) == seedLogs[v] > 0

FindSeedLog ==
  /\ seed.at = "find"
  /\ SeedGoesOn(IF AlreadyLogged(SeedRowAtHand.id) THEN "row" ELSE "log")
  /\ UNCHANGED <<rows, seedLogs, sole>>

CreateSeedLog ==
  /\ seed.at = "log"
  /\ seedLogs' = [seedLogs EXCEPT ![SeedRowAtHand.id] = @ + 1]
  /\ SeedGoesOn("row")
  /\ UNCHANGED <<rows, sole>>

SeedEnd ==
  /\ seed.step = Len(SeedRows) + 1
  /\ seed' = SeedOff
  /\ seeded' = TRUE
  /\ UNCHANGED <<rows, request, seedLogs, sold, sole>>

\* A statement fails, or the process is killed.
SeedDies ==
  /\ seed # SeedOff
  /\ seed' = SeedOff
  /\ UNCHANGED <<rows, request, seeded, seedLogs, sold, sole>>

-----------------------------------------------------------------------------
CategoryStep(r) ==
  \/ \E k \in Categories :
       \/ \E patch \in CategoryPatch : CheckNewCategory(r, k, patch) \/ CheckCategory(r, k, patch)
       \/ CheckCategoryToDelete(r, k)
  \/ CreateCategory(r)
  \/ UpdateCategory(r)
  \/ DeleteCategory(r)

CollectionStep(r) ==
  \/ \E c \in Collections :
       \/ \E patch \in CollectionPatch :
            CreateCollection(r, c, patch) \/ CheckCollection(r, c, patch)
       \/ CheckCollectionToDelete(r, c)
       \/ \E p \in Products :
            CheckProductToAdd(r, c, p) \/ RemoveProductFromCollection(r, c, p)
  \/ UpdateCollection(r)
  \/ DeleteCollection(r)
  \/ AddProductToCollection(r)

ProductStep(r) ==
  \/ \E p \in Products :
       \/ \E patch \in ProductPatch : CreateProduct(r, p, patch) \/ CheckProduct(r, p, patch)
       \/ CheckProductToDelete(r, p)
  \/ UpdateProduct(r)
  \/ DeleteProduct(r)

VariantStep(r) ==
  \/ \E v \in Variants :
       \/ \E patch \in VariantPatch :
            \/ \E p \in Products : CheckNewVariant(r, v, p, patch)
            \/ CheckVariant(r, v, patch)
       \/ \E n \in Levels : CheckAdjustment(r, v, n) \/ CheckAdjustment(r, v, -n)
       \/ CheckVariantToDelete(r, v)
  \/ CreateVariant(r)
  \/ UpdateVariant(r)
  \/ AdjustInventory(r)
  \/ DeleteProductVariant(r)
  \/ ReadProductStatus(r)
  \/ SumStock(r)
  \/ SetStockStatus(r)

SeedStep ==
  \/ SeedStart
  \/ SeedCategory
  \/ SeedCollection
  \/ SeedProduct
  \/ SeedLink
  \/ SeedVariant
  \/ FindSeedLog
  \/ CreateSeedLog
  \/ SeedEnd
  \/ SeedDies

Next ==
  \/ \E r \in Requests : CategoryStep(r) \/ CollectionStep(r) \/ ProductStep(r) \/ VariantStep(r)
  \/ \E v \in Variants : TakeUnit(v) \/ PutBackUnit(v)
  \/ SeedStep

Spec == Init /\ [][Next]_vars

-----------------------------------------------------------------------------
(* Properties.                                                             *)

\* When a handler that wrote a variant is through, and nobody else has written
\* the product or its variants since, the product is on the shelf exactly when
\* there is stock to sell.
StockStatusAgrees ==
  \A p \in Products :
    /\ sole[p] # Undefined
    /\ request[sole[p]] = Done
    /\ product[p].status \in {"ACTIVE", "OUT_OF_STOCK"}
    => (product[p].status = "ACTIVE"
        <=> \E v \in Variants : /\ variant[v].product = p
                                /\ ~variant[v].deleted
                                /\ variant[v].status # "DISCONTINUED"
                                /\ variant[v].stock > 0)

\* The initial stock of a variant is logged once however often the seed is run
\* and wherever a run dies, and a run that ends has logged all of them.
SeedLogsOnce ==
  /\ \A v \in Variants : seedLogs[v] <= 1
  /\ seeded => \A i \in 1 .. Len(SeedRows) :
                 SeedRows[i].table = "variant" => seedLogs[SeedRows[i].id] = 1
=============================================================================
