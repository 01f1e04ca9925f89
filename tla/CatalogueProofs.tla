--------------------------- MODULE CatalogueProofs ---------------------------
(***************************************************************************)
(* The catalogue, for any rows, any requests of admins and any seed.       *)
(***************************************************************************)
EXTENDS Catalogue, TLAPS

\* A variant that is there has a product that is there; one that is not is not
\* deleted, and has no stock, nor has an order of it.
RowsSound ==
  \A v \in Variants :
    /\ Stored(variant[v]) => /\ variant[v].product \in Products
                             /\ Stored(product[variant[v].product])
    /\ ~Stored(variant[v]) =>
         ~variant[v].deleted /\ variant[v].stock = 0 /\ v \notin sold

\* What request q, for variants va and products pr, was checked against is there.
Checked(q, va, pr) ==
  /\ q.op \in {"updateVariant", "adjust", "deleteVariant"} => Stored(va[q.id])
  /\ q.op = "adjust" => q.seen.stock + q.quantity >= 0 /\ q.seen.status # "NONE"
  /\ q.op = "createVariant" => Stored(pr[q.product])
  /\ q.op = "refresh" => Stored(pr[q.id])

RequestsSound == \A r \in Requests : Checked(request[r], variant, product)

\* What a run of the seed has behind it is there.
SeedSound ==
  /\ seed.at # "row" => /\ seed.step \in 1 .. Len(SeedRows)
                        /\ SeedRows[seed.step].table = "variant"
  /\ seed.at = "log" => seedLogs[SeedRows[seed.step].id] = 0
  /\ \A i \in 1 .. Len(SeedRows) :
       i < seed.step =>
         /\ SeedRows[i].table = "product" => Stored(product[SeedRows[i].id])
         /\ SeedRows[i].table = "variant" => seedLogs[SeedRows[i].id] = 1
  /\ SeedLogsOnce

\* The request that wrote a variant of p last is refreshing the status of p,
\* on what it has read of it, or has done so.
Settling(q, p) ==
  \/ q = ToRefresh(p)
  \/ q.op = "sum" /\ q.id = p /\ q.seen = product[p].status
  \/ /\ q.op = "restatus" /\ q.id = p /\ q.seen = product[p].status
     /\ Wrong(q.seen, InStock(p))
  \/ /\ q = Done
     /\ \/ product[p].status \in {"DRAFT", "ARCHIVED"}
        \/ ~Wrong(product[p].status, InStock(p))

SoleSound == \A p \in Products : sole[p] # Undefined => Settling(request[sole[p]], p)

IInv == TypeOK /\ RowsSound /\ RequestsSound /\ SeedSound /\ SoleSound

-----------------------------------------------------------------------------
(* What a request holds.                                                   *)

LEMMA RequestHolds ==
  ASSUME NEW q \in Request
  PROVE  /\ q.op \in {"createCategory", "updateCategory"} =>
              q.id \in Categories /\ q.patch \in CategoryPatch
         /\ q.op = "deleteCategory" => q.id \in Categories
         /\ q.op = "updateCollection" => q.id \in Collections /\ q.patch \in CollectionPatch
         /\ q.op = "deleteCollection" => q.id \in Collections
         /\ q.op = "addProduct" => q.id \in Products /\ q.collection \in Collections
         /\ q.op = "updateProduct" => q.id \in Products /\ q.patch \in ProductPatch
         /\ q.op \in {"deleteProduct", "refresh"} => q.id \in Products
         /\ q.op = "createVariant" =>
              q.id \in Variants /\ q.product \in Products /\ q.patch \in VariantPatch
         /\ q.op = "updateVariant" => q.id \in Variants /\ q.patch \in VariantPatch
         /\ q.op = "adjust" => q.id \in Variants /\ q.seen \in Variant /\ q.quantity \in Int
         /\ q.op = "deleteVariant" => q.id \in Variants
         /\ q.op \in {"sum", "restatus"} => q.id \in Products /\ q.seen \in ProductStatus
  BY DEF Request, New, Done

LEMMA SeedRowHolds ==
  ASSUME NEW row \in SeedRow
  PROVE  /\ row.table = "category" =>
              row.id \in Categories /\ row.parent \in Categories \cup {Undefined}
         /\ row.table = "collection" => row.id \in Collections
         /\ row.table = "product" => row.id \in Products
         /\ row.table = "link" => row.id \in Products /\ row.collection \in Collections
         /\ row.table = "variant" =>
              row.id \in Variants /\ row.product \in Products /\ row.stock \in Nat
  BY DEF SeedRow, SeedCategoryRow, SeedCollectionRow, SeedProductRow

LEMMA CategoryPatchedType ==
  ASSUME NEW row \in Category, NEW patch \in CategoryPatch
  PROVE  /\ CategoryPatched(row, patch) \in Category
         /\ CategoryPatched(row, patch).deleted = row.deleted
  BY StatusesAssumption DEF CategoryPatched, Patched, Category, CategoryPatch

LEMMA CollectionPatchedType ==
  ASSUME NEW row \in Collection, NEW patch \in CollectionPatch
  PROVE  /\ CollectionPatched(row, patch) \in Collection
         /\ CollectionPatched(row, patch).deleted = row.deleted
  <1>1. Patched(row.status, patch.status) \in Status \cup {"NONE"}
    BY StatusesAssumption DEF Patched, Collection, CollectionPatch
  <1>2. Patched(row.home, patch.home) \in BOOLEAN
    BY Zenon DEF Patched, Collection, CollectionPatch
  <1> QED BY <1>1, <1>2 DEF CollectionPatched, Collection

LEMMA ProductPatchedType ==
  ASSUME NEW row \in Product, NEW patch \in ProductPatch
  PROVE  /\ ProductPatched(row, patch) \in Product
         /\ ProductPatched(row, patch).deleted = row.deleted
         /\ Stored(row) => Stored(ProductPatched(row, patch))
  BY StatusesAssumption DEF ProductPatched, Patched, Product, ProductPatch, Stored, ProductStatus

-----------------------------------------------------------------------------
(* What a step must keep.                                                  *)

\* No row goes away, and no deleted one comes back.
RowsStay ==
  /\ \A k \in Categories : category[k].deleted => category'[k].deleted
  /\ \A c \in Collections : collection[c].deleted => collection'[c].deleted
  /\ \A p \in Products : /\ product[p].deleted => product'[p].deleted
                         /\ Stored(product[p]) => Stored(product'[p])
  /\ \A v \in Variants : /\ variant[v].deleted => variant'[v].deleted
                         /\ Stored(variant[v]) => Stored(variant'[v])

\* What a request was checked against stays.
LEMMA CheckedStays ==
  ASSUME NEW q \in Request, Checked(q, variant, product), RowsStay
  PROVE  Checked(q, variant', product')
  BY RequestHolds DEF Checked, RowsStay

\* Request r becomes n.
LEMMA RequestsKept ==
  ASSUME TypeOK, RequestsSound, RowsStay, NEW r \in Requests, NEW n \in Request,
         Then(r, n), Checked(n, variant', product')
  PROVE  RequestsSound' /\ request' \in [Requests -> Request]
  BY CheckedStays DEF TypeOK, RequestsSound, Then

LEMMA RequestsUnchanged ==
  ASSUME TypeOK, RequestsSound, RowsStay, UNCHANGED request
  PROVE  RequestsSound'
  BY CheckedStays DEF TypeOK, RequestsSound

LEMMA SeedUnchanged ==
  ASSUME TypeOK, SeedSound, RowsStay, UNCHANGED seeding
  PROVE  SeedSound'
  BY SeedAssumption, SeedRowHolds DEF SeedSound, SeedLogsOnce, RowsStay, seeding

\* Row v is written, which neither was nor becomes a variant of product p.
LEMMA StockElsewhere ==
  ASSUME TypeOK, NEW v \in Variants, NEW row, NEW p \in Products,
         variant' = [variant EXCEPT ![v] = row],
         variant[v].product = p => ~Stored(variant[v]),
         row.product = p => ~Stored(row)
  PROVE  InStock(p)' <=> InStock(p)
  <1>1. ASSUME NEW w \in Variants
        PROVE  (Counted(w, p) /\ variant[w].stock > 0)'
                 <=> (Counted(w, p) /\ variant[w].stock > 0)
    BY DEF TypeOK, Counted, Exists
  <1> QED BY <1>1 DEF InStock

\* A request that has not come to the refresh has written no variant.
Writing(q) == q.op \notin {"refresh", "sum", "restatus", "done"}

LEMMA SettlingIsLast ==
  ASSUME NEW q, NEW p \in Products, Settling(q, p)
  PROVE  ~Writing(q)
  BY DEF Settling, Writing, ToRefresh, Done

-----------------------------------------------------------------------------
(* The kinds of step.                                                      *)

\* Request r goes on, and writes at most categories, collections and links.
LEMMA MovesOn ==
  ASSUME IInv, NEW r \in Requests, NEW n \in Request,
         Then(r, n), Checked(n, variant, product), RowsStay,
         category' \in [Categories -> Category],
         collection' \in [Collections -> Collection],
         links' \in SUBSET (Collections \X Products),
         UNCHANGED <<product, variant, seeding, sold, sole>>,
         \A p \in Products : Settling(request[r], p) => Settling(n, p)
  PROVE  IInv'
  <1>1. RequestsSound' /\ request' \in [Requests -> Request]
    BY RequestsKept DEF IInv
  <1>2. SeedSound'
    BY SeedUnchanged DEF IInv
  <1>3. TypeOK'
    BY <1>1 DEF IInv, TypeOK, seeding
  <1>4. RowsSound'
    BY DEF IInv, RowsSound
  <1>5. SoleSound'
    <2> SUFFICES ASSUME NEW p \in Products, sole[p] # Undefined
                 PROVE  Settling(request[sole[p]], p)'
      BY DEF SoleSound
    <2>1. Settling(request[sole[p]], p) /\ sole[p] \in Requests
      BY DEF IInv, SoleSound, TypeOK
    <2>2. Settling(request'[sole[p]], p)
      BY <2>1 DEF Then, IInv, TypeOK
    <2>3. InStock(p)' <=> InStock(p)
      BY DEF InStock, Counted
    <2> QED BY <2>2, <2>3 DEF Settling, Wrong, ToRefresh, Done
  <1> QED BY <1>1, <1>2, <1>3, <1>4, <1>5 DEF IInv

LEMMA BeginKeeps ==
  ASSUME IInv, NEW r \in Requests, NEW n \in Request,
         Begin(r, n), Checked(n, variant, product)
  PROVE  IInv' /\ RowsStay
  <1>1. \A p \in Products : ~Settling(request[r], p)
    BY SettlingIsLast DEF Begin, New, Writing
  <1>2. RowsStay
    BY DEF Begin, rows, RowsStay
  <1> QED BY <1>1, <1>2, MovesOn DEF Begin, rows, IInv, TypeOK

\* Request r writes product p last of all, or settles its status.
LEMMA WritesProduct ==
  ASSUME IInv, NEW r \in Requests, NEW p \in Products, NEW row \in Product,
         product' = [product EXCEPT ![p] = row],
         Then(r, Done),
         UNCHANGED <<category, collection, variant, links, seeding, sold>>,
         product[p].deleted => row.deleted,
         Stored(product[p]) => Stored(row),
         \/ Writing(request[r]) /\ Touched({p})
         \/ /\ request[r].op = "restatus" /\ request[r].id = p
            /\ Touched({p} \ {q \in Products : sole[q] = r})
            /\ Wrong(request[r].seen, InStock(p)) => ~Wrong(row.status, InStock(p))
  PROVE  IInv' /\ RowsStay
  <1>1. RowsStay
    BY DEF IInv, TypeOK, RowsStay
  <1>2. Done \in Request /\ Checked(Done, variant', product')
    BY DEF Done, Request, Checked
  <1>3. RequestsSound' /\ request' \in [Requests -> Request]
    BY <1>1, <1>2, RequestsKept DEF IInv
  <1>4. SeedSound'
    BY <1>1, SeedUnchanged DEF IInv
  <1>5. TypeOK'
    BY <1>3 DEF IInv, TypeOK, seeding, Touched
  <1>6. RowsSound'
    BY <1>1, <1>5 DEF IInv, RowsSound, TypeOK, RowsStay
  <1>7. SoleSound'
    <2> SUFFICES ASSUME NEW q \in Products, sole'[q] # Undefined
                 PROVE  Settling(request[sole[q]], q)'
      BY DEF SoleSound
    <2>1. sole'[q] = sole[q] /\ sole[q] \in Requests /\ Settling(request[sole[q]], q)
      BY DEF IInv, SoleSound, TypeOK, Touched
    <2>2. InStock(q)' <=> InStock(q)
      BY DEF InStock, Counted
    <2>3. CASE sole[q] # r
      <3>1. q # p
        BY <2>3 DEF Touched
      <3>2. product'[q] = product[q] /\ request'[sole[q]] = request[sole[q]]
        BY <2>1, <2>3, <3>1 DEF IInv, TypeOK, Then
      <3> QED BY <2>1, <2>2, <3>2 DEF Settling, Wrong, ToRefresh, Done
    <2>4. CASE sole[q] = r
      <3>1. ~Writing(request[r])
        BY <2>1, <2>4, SettlingIsLast
      <3>2. /\ request[r].op = "restatus" /\ request[r].id = p
            /\ Wrong(request[r].seen, InStock(p)) => ~Wrong(row.status, InStock(p))
        BY <3>1
      <3>3. q = p /\ Wrong(request[r].seen, InStock(p))
        BY <2>1, <2>4, <3>2 DEF Settling, ToRefresh, Done
      <3>4. request'[r] = Done /\ product'[p] = row
        BY DEF IInv, TypeOK, Then
      <3> QED BY <2>1, <2>2, <2>4, <3>2, <3>3, <3>4 DEF Settling, Wrong
    <2> QED BY <2>3, <2>4
  <1> QED BY <1>1, <1>3, <1>4, <1>5, <1>6, <1>7 DEF IInv

\* Request r writes variant v, of a product that is there.
LEMMA WritesVariant ==
  ASSUME IInv, NEW r \in Requests, NEW v \in Variants, NEW row \in Variant,
         WriteVariant(r, v, row), Writing(request[r]),
         Stored(row), row.product \in Products, Stored(product[row.product]),
         variant[v].product = row.product \/ ~Stored(variant[v]),
         variant[v].deleted => row.deleted
  PROVE  IInv' /\ RowsStay
  <1>1. RowsStay
    BY DEF IInv, TypeOK, RowsStay, WriteVariant
  <1> DEFINE n == ToRefresh(row.product)
  <1>2. n \in Request /\ Checked(n, variant', product')
    BY DEF ToRefresh, Request, Checked, WriteVariant
  <1>3. RequestsSound' /\ request' \in [Requests -> Request]
    BY <1>1, <1>2, RequestsKept DEF IInv, WriteVariant
  <1>4. SeedSound'
    BY <1>1, SeedUnchanged DEF IInv, WriteVariant
  <1>5. TypeOK'
    BY <1>3 DEF IInv, TypeOK, seeding, WriteVariant
  <1>6. RowsSound'
    BY DEF IInv, RowsSound, TypeOK, WriteVariant
  <1>7. SoleSound'
    <2> SUFFICES ASSUME NEW q \in Products, sole'[q] # Undefined
                 PROVE  Settling(request[sole[q]], q)'
      BY DEF SoleSound
    <2>1. CASE q = row.product
      <3>1. sole'[q] = r /\ request'[r] = n
        BY <2>1 DEF IInv, TypeOK, WriteVariant, Then
      <3> QED BY <2>1, <3>1 DEF Settling
    <2>2. CASE q # row.product
      <3>1. sole'[q] = sole[q]
        BY <2>2 DEF IInv, TypeOK, WriteVariant
      <3>2. sole[q] \in Requests /\ Settling(request[sole[q]], q)
        BY <3>1 DEF IInv, TypeOK, SoleSound
      <3>3. request'[sole[q]] = request[sole[q]]
        BY <3>2, SettlingIsLast DEF IInv, TypeOK, WriteVariant, Then
      <3>4. InStock(q)' <=> InStock(q)
        BY <2>2, StockElsewhere DEF IInv, WriteVariant
      <3> QED BY <3>1, <3>2, <3>3, <3>4 DEF Settling, Wrong, ToRefresh, Done, WriteVariant
    <2> QED BY <2>1, <2>2
  <1> QED BY <1>1, <1>3, <1>4, <1>5, <1>6, <1>7 DEF IInv

\* What of the requests that settle is left when others write product or variants.
LEMMA SoleKept ==
  ASSUME IInv, UNCHANGED request,
         \A p \in Products :
           sole'[p] # Undefined =>
             sole'[p] = sole[p] /\ product'[p] = product[p] /\ (InStock(p)' <=> InStock(p))
  PROVE  SoleSound'
  BY DEF IInv, SoleSound, Settling, Wrong, ToRefresh, Done

\* An order, or the seed, writes variant v.
LEMMA StockMoves ==
  ASSUME IInv, NEW v \in Variants, NEW row \in Variant,
         variant' = [variant EXCEPT ![v] = row],
         UNCHANGED <<category, collection, product, links, request, seeding>>,
         sold' \subseteq sold \cup {v},
         Touched({variant[v].product}),
         row.product = variant[v].product, row.deleted = variant[v].deleted,
         Stored(row), Stored(variant[v])
  PROVE  IInv' /\ RowsStay
  <1>1. RowsStay
    BY DEF IInv, TypeOK, RowsStay
  <1>2. RequestsSound'
    BY <1>1, RequestsUnchanged DEF IInv
  <1>3. SeedSound'
    BY <1>1, SeedUnchanged DEF IInv
  <1>4. TypeOK'
    BY DEF IInv, TypeOK, seeding, Touched
  <1>5. RowsSound'
    BY DEF IInv, RowsSound, TypeOK
  <1>6. SoleSound'
    <2>1. ASSUME NEW p \in Products, sole'[p] # Undefined
          PROVE  sole'[p] = sole[p] /\ (InStock(p)' <=> InStock(p))
      BY <2>1, StockElsewhere DEF IInv, Touched
    <2> QED BY <2>1, SoleKept
  <1> QED BY <1>1, <1>2, <1>3, <1>4, <1>5, <1>6 DEF IInv

-----------------------------------------------------------------------------
(* The steps of the requests.                                              *)

\* The write of request r on categories, collections and links ends it.
LEMMA EndsElsewhere ==
  ASSUME IInv, NEW r \in Requests, Writing(request[r]), Then(r, Done), RowsStay,
         category' \in [Categories -> Category],
         collection' \in [Collections -> Collection],
         links' \in SUBSET (Collections \X Products),
         UNCHANGED <<product, variant, seeding, sold, sole>>
  PROVE  IInv'
  BY MovesOn, SettlingIsLast DEF Done, Request, Checked

LEMMA CategoryStepKeeps ==
  ASSUME IInv, NEW r \in Requests, CategoryStep(r)
  PROVE  IInv' /\ RowsStay
  <1> USE DEF Writing
  <1>1. ASSUME NEW k \in Categories, NEW patch \in CategoryPatch, CheckNewCategory(r, k, patch)
        PROVE  IInv' /\ RowsStay
    <2> DEFINE n == [op |-> "createCategory", id |-> k, patch |-> patch]
    <2>1. n \in Request /\ Checked(n, variant, product)
      BY DEF Request, Checked
    <2>2. Begin(r, n)
      BY <1>1 DEF CheckNewCategory
    <2> HIDE DEF n
    <2> QED BY <2>1, <2>2, BeginKeeps
  <1>2. ASSUME NEW k \in Categories, NEW patch \in CategoryPatch, CheckCategory(r, k, patch)
        PROVE  IInv' /\ RowsStay
    <2> DEFINE n == [op |-> "updateCategory", id |-> k, patch |-> patch]
    <2>1. n \in Request /\ Checked(n, variant, product)
      BY DEF Request, Checked
    <2>2. Begin(r, n)
      BY <1>2 DEF CheckCategory
    <2> HIDE DEF n
    <2> QED BY <2>1, <2>2, BeginKeeps
  <1>3. ASSUME NEW k \in Categories, CheckCategoryToDelete(r, k)
        PROVE  IInv' /\ RowsStay
    <2> DEFINE n == [op |-> "deleteCategory", id |-> k]
    <2>1. n \in Request /\ Checked(n, variant, product)
      BY DEF Request, Checked
    <2>2. Begin(r, n)
      BY <1>3 DEF CheckCategoryToDelete
    <2> HIDE DEF n
    <2> QED BY <2>1, <2>2, BeginKeeps
  <1> DEFINE k == request[r].id
  <1>4. CASE CreateCategory(r)
    <2>1. k \in Categories /\ request[r].patch \in CategoryPatch
      BY <1>4, RequestHolds DEF CreateCategory, IInv, TypeOK
    <2>2. category[k] \in Category
      BY <2>1 DEF IInv, TypeOK
    <2> DEFINE new == [category[k] EXCEPT !.status = "ACTIVE"]
               row == CategoryPatched(new, request[r].patch)
    <2>3. new \in Category /\ new.deleted = category[k].deleted
      BY <2>2 DEF Category, Status
    <2>4. row \in Category /\ row.deleted = category[k].deleted
      BY <2>1, <2>3, CategoryPatchedType
    <2>5. category' = category \/ category' = [category EXCEPT ![k] = row]
      BY <1>4 DEF CreateCategory
    <2> HIDE DEF row
    <2>6. category' \in [Categories -> Category]
      BY <2>4, <2>5 DEF IInv, TypeOK
    <2>7. RowsStay
      BY <1>4, <2>1, <2>4, <2>5 DEF CreateCategory, RowsStay, IInv, TypeOK
    <2> QED BY <1>4, <2>6, <2>7, EndsElsewhere DEF CreateCategory, IInv, TypeOK
  <1>5. CASE UpdateCategory(r)
    <2>1. k \in Categories /\ request[r].patch \in CategoryPatch
      BY <1>5, RequestHolds DEF UpdateCategory, IInv, TypeOK
    <2>2. category[k] \in Category
      BY <2>1 DEF IInv, TypeOK
    <2> DEFINE row == CategoryPatched(category[k], request[r].patch)
    <2>3. row \in Category /\ row.deleted = category[k].deleted
      BY <2>1, <2>2, CategoryPatchedType
    <2>4. category' = [category EXCEPT ![k] = row]
      BY <1>5 DEF UpdateCategory
    <2> HIDE DEF row
    <2>5. category' \in [Categories -> Category]
      BY <2>3, <2>4 DEF IInv, TypeOK
    <2>6. RowsStay
      BY <1>5, <2>1, <2>3, <2>4 DEF UpdateCategory, RowsStay, IInv, TypeOK
    <2> QED BY <1>5, <2>5, <2>6, EndsElsewhere DEF UpdateCategory, IInv, TypeOK
  <1>6. CASE DeleteCategory(r)
    <2>1. k \in Categories
      BY <1>6, RequestHolds DEF DeleteCategory, IInv, TypeOK
    <2>2. category' \in [Categories -> Category]
      BY <1>6, <2>1 DEF DeleteCategory, IInv, TypeOK, Category, Status
    <2>3. RowsStay
      BY <1>6, <2>1 DEF DeleteCategory, RowsStay, IInv, TypeOK
    <2> QED BY <1>6, <2>2, <2>3, EndsElsewhere DEF DeleteCategory, IInv, TypeOK
  <1> QED BY <1>1, <1>2, <1>3, <1>4, <1>5, <1>6 DEF CategoryStep

LEMMA CollectionStepKeeps ==
  ASSUME IInv, NEW r \in Requests, CollectionStep(r)
  PROVE  IInv' /\ RowsStay
  <1> USE DEF Writing
  <1>1. ASSUME NEW c \in Collections, NEW patch \in CollectionPatch,
               CreateCollection(r, c, patch)
        PROVE  IInv' /\ RowsStay
    <2> DEFINE new == [collection[c] EXCEPT !.status = "ACTIVE"]
               row == CollectionPatched(new, patch)
    <2>1. new \in Collection /\ new.deleted = collection[c].deleted
      BY DEF IInv, TypeOK, Collection, Status
    <2>2. row \in Collection /\ row.deleted = collection[c].deleted
      BY <2>1, CollectionPatchedType
    <2>3. collection' = [collection EXCEPT ![c] = row]
      BY <1>1 DEF CreateCollection
    <2> HIDE DEF row
    <2>4. collection' \in [Collections -> Collection]
      BY <2>2, <2>3 DEF IInv, TypeOK
    <2>5. RowsStay
      BY <1>1, <2>2, <2>3 DEF CreateCollection, RowsStay, IInv, TypeOK
    <2> QED BY <1>1, <2>4, <2>5, EndsElsewhere DEF CreateCollection, New, IInv, TypeOK
  <1>2. ASSUME NEW c \in Collections, NEW patch \in CollectionPatch,
               CheckCollection(r, c, patch)
        PROVE  IInv' /\ RowsStay
    <2> DEFINE n == [op |-> "updateCollection", id |-> c, patch |-> patch]
    <2>1. n \in Request /\ Checked(n, variant, product)
      BY DEF Request, Checked
    <2>2. Begin(r, n)
      BY <1>2 DEF CheckCollection
    <2> HIDE DEF n
    <2> QED BY <2>1, <2>2, BeginKeeps
  <1>3. ASSUME NEW c \in Collections, CheckCollectionToDelete(r, c)
        PROVE  IInv' /\ RowsStay
    <2> DEFINE n == [op |-> "deleteCollection", id |-> c]
    <2>1. n \in Request /\ Checked(n, variant, product)
      BY DEF Request, Checked
    <2>2. Begin(r, n)
      BY <1>3 DEF CheckCollectionToDelete
    <2> HIDE DEF n
    <2> QED BY <2>1, <2>2, BeginKeeps
  <1>4. ASSUME NEW c \in Collections, NEW p \in Products, CheckProductToAdd(r, c, p)
        PROVE  IInv' /\ RowsStay
    <2> DEFINE n == [op |-> "addProduct", id |-> p, collection |-> c]
    <2>1. n \in Request /\ Checked(n, variant, product)
      BY DEF Request, Checked
    <2>2. Begin(r, n)
      BY <1>4 DEF CheckProductToAdd
    <2> HIDE DEF n
    <2> QED BY <2>1, <2>2, BeginKeeps
  <1>5. ASSUME NEW c \in Collections, NEW p \in Products,
               RemoveProductFromCollection(r, c, p)
        PROVE  IInv' /\ RowsStay
    <2>1. RowsStay
      BY <1>5 DEF RemoveProductFromCollection, RowsStay
    <2> QED BY <1>5, <2>1, EndsElsewhere
          DEF RemoveProductFromCollection, New, IInv, TypeOK
  <1> DEFINE c == request[r].id
  <1>6. CASE UpdateCollection(r)
    <2>1. c \in Collections /\ request[r].patch \in CollectionPatch
      BY <1>6, RequestHolds DEF UpdateCollection, IInv, TypeOK
    <2>2. collection[c] \in Collection
      BY <2>1 DEF IInv, TypeOK
    <2> DEFINE row == CollectionPatched(collection[c], request[r].patch)
    <2>3. row \in Collection /\ row.deleted = collection[c].deleted
      BY <2>1, <2>2, CollectionPatchedType
    <2>4. collection' = [collection EXCEPT ![c] = row]
      BY <1>6 DEF UpdateCollection
    <2> HIDE DEF row
    <2>5. collection' \in [Collections -> Collection]
      BY <2>3, <2>4 DEF IInv, TypeOK
    <2>6. RowsStay
      BY <1>6, <2>1, <2>3, <2>4 DEF UpdateCollection, RowsStay, IInv, TypeOK
    <2> QED BY <1>6, <2>5, <2>6, EndsElsewhere DEF UpdateCollection, IInv, TypeOK
  <1>7. CASE DeleteCollection(r)
    <2>1. c \in Collections
      BY <1>7, RequestHolds DEF DeleteCollection, IInv, TypeOK
    <2>2. collection' \in [Collections -> Collection]
      BY <1>7, <2>1 DEF DeleteCollection, IInv, TypeOK, Collection, Status
    <2>3. RowsStay
      BY <1>7, <2>1 DEF DeleteCollection, RowsStay, IInv, TypeOK
    <2> QED BY <1>7, <2>2, <2>3, EndsElsewhere DEF DeleteCollection, IInv, TypeOK
  <1>8. CASE AddProductToCollection(r)
    <2>1. c \in Products /\ request[r].collection \in Collections
      BY <1>8, RequestHolds DEF AddProductToCollection, IInv, TypeOK
    <2>2. RowsStay
      BY <1>8 DEF AddProductToCollection, RowsStay
    <2> QED BY <1>8, <2>1, <2>2, EndsElsewhere DEF AddProductToCollection, IInv, TypeOK
  <1> QED BY <1>1, <1>2, <1>3, <1>4, <1>5, <1>6, <1>7, <1>8 DEF CollectionStep

LEMMA ProductStepKeeps ==
  ASSUME IInv, NEW r \in Requests, ProductStep(r)
  PROVE  IInv' /\ RowsStay
  <1> USE DEF Writing
  <1>1. ASSUME NEW p \in Products, NEW patch \in ProductPatch, CreateProduct(r, p, patch)
        PROVE  IInv' /\ RowsStay
    <2> DEFINE new == [product[p] EXCEPT !.status = "DRAFT"]
               row == ProductPatched(new, patch)
    <2>1. new \in Product /\ new.deleted = product[p].deleted
      BY DEF IInv, TypeOK, Product, ProductStatus
    <2>2. row \in Product /\ row.deleted = product[p].deleted
      BY <2>1, ProductPatchedType
    <2>3. product' = [product EXCEPT ![p] = row]
      BY <1>1 DEF CreateProduct
    <2>4. Writing(request[r])
      BY <1>1 DEF CreateProduct, New
    <2> HIDE DEF new, row, Writing
    <2> QED BY <1>1, <2>2, <2>3, <2>4, WritesProduct DEF CreateProduct
  <1>2. ASSUME NEW p \in Products, NEW patch \in ProductPatch, CheckProduct(r, p, patch)
        PROVE  IInv' /\ RowsStay
    <2> DEFINE n == [op |-> "updateProduct", id |-> p, patch |-> patch]
    <2>1. n \in Request /\ Checked(n, variant, product)
      BY DEF Request, Checked
    <2>2. Begin(r, n)
      BY <1>2 DEF CheckProduct
    <2> HIDE DEF n
    <2> QED BY <2>1, <2>2, BeginKeeps
  <1>3. ASSUME NEW p \in Products, CheckProductToDelete(r, p)
        PROVE  IInv' /\ RowsStay
    <2> DEFINE n == [op |-> "deleteProduct", id |-> p]
    <2>1. n \in Request /\ Checked(n, variant, product)
      BY DEF Request, Checked
    <2>2. Begin(r, n)
      BY <1>3 DEF CheckProductToDelete
    <2> HIDE DEF n
    <2> QED BY <2>1, <2>2, BeginKeeps
  <1> DEFINE p == request[r].id
  <1>4. CASE UpdateProduct(r)
    <2>1. p \in Products /\ request[r].patch \in ProductPatch
      BY <1>4, RequestHolds DEF UpdateProduct, IInv, TypeOK
    <2>2. product[p] \in Product
      BY <2>1 DEF IInv, TypeOK
    <2> DEFINE row == ProductPatched(product[p], request[r].patch)
    <2>3. /\ row \in Product /\ row.deleted = product[p].deleted
          /\ Stored(product[p]) => Stored(row)
      BY <2>1, <2>2, ProductPatchedType
    <2>4. product' = [product EXCEPT ![p] = row]
      BY <1>4 DEF UpdateProduct
    <2> HIDE DEF row
    <2> QED BY <1>4, <2>1, <2>3, <2>4, WritesProduct DEF UpdateProduct
  <1>5. CASE DeleteProduct(r)
    <2>1. p \in Products
      BY <1>5, RequestHolds DEF DeleteProduct, IInv, TypeOK
    <2> DEFINE row == [product[p] EXCEPT !.status = "ARCHIVED", !.deleted = TRUE]
    <2>2. row \in Product /\ row.deleted /\ Stored(row)
      BY <2>1 DEF IInv, TypeOK, Product, ProductStatus, Stored
    <2>3. product' = [product EXCEPT ![p] = row]
      BY <1>5, <2>1 DEF DeleteProduct, IInv, TypeOK
    <2> HIDE DEF row
    <2> QED BY <1>5, <2>1, <2>2, <2>3, WritesProduct DEF DeleteProduct
  <1> QED BY <1>1, <1>2, <1>3, <1>4, <1>5 DEF ProductStep

\* The status a product is given is not the one its stock contradicts.
LEMMA OtherStatusFits ==
  ASSUME NEW status, NEW stocked, Wrong(status, stocked)
  PROVE  ~Wrong(IF status = "ACTIVE" THEN "OUT_OF_STOCK" ELSE "ACTIVE", stocked)
  BY DEF Wrong

\* The refresh of the status of a product.
LEMMA RefreshKeeps ==
  ASSUME IInv, NEW r \in Requests,
         ReadProductStatus(r) \/ SumStock(r) \/ SetStockStatus(r)
  PROVE  IInv' /\ RowsStay
  <1> DEFINE p == request[r].id
  <1>0. request[r] \in Request
    BY DEF IInv, TypeOK
  <1>1. CASE ReadProductStatus(r)
    <2>1. p \in Products /\ product[p] \in Product /\ Stored(product[p])
      BY <1>0, <1>1, RequestHolds DEF ReadProductStatus, IInv, TypeOK, RequestsSound, Checked
    <2> DEFINE n == IF product[p].status \in {"DRAFT", "ARCHIVED"} THEN Done
                    ELSE [op |-> "sum", id |-> p, seen |-> product[p].status]
    <2>2. n \in Request /\ Checked(n, variant, product)
      BY <2>1 DEF Request, Checked, Product, Stored, Done
    <2>3. \A q \in Products : Settling(request[r], q) => Settling(n, q)
      BY <1>1 DEF ReadProductStatus, Settling, ToRefresh, Done
    <2>4. Then(r, n) /\ UNCHANGED <<rows, seeding, sold, sole>>
      BY <1>1 DEF ReadProductStatus
    <2>5. RowsStay
      BY <2>4 DEF rows, RowsStay
    <2> HIDE DEF n
    <2> QED BY <2>2, <2>3, <2>4, <2>5, MovesOn DEF rows, IInv, TypeOK
  <1>2. CASE SumStock(r)
    <2>1. p \in Products /\ request[r].seen \in ProductStatus
      BY <1>0, <1>2, RequestHolds DEF SumStock
    <2> DEFINE m == [request[r] EXCEPT !.op = "restatus"]
               n == IF Wrong(request[r].seen, InStock(p)) THEN m ELSE Done
    <2>2. /\ m \in [op: {"sum", "restatus"}, id: Products, seen: ProductStatus]
          /\ m.op = "restatus" /\ m.id = p /\ m.seen = request[r].seen
      BY <1>0, <1>2 DEF SumStock, Request, New, Done
    <2>3. m \in Request /\ Checked(m, variant, product)
      BY <2>2 DEF Request, Checked
    <2>4. n \in Request /\ Checked(n, variant, product)
      BY <2>3 DEF Request, Checked, Done
    <2>5. \A q \in Products : Settling(request[r], q) => Settling(n, q)
      <3> SUFFICES ASSUME NEW q \in Products, Settling(request[r], q)
                   PROVE  Settling(n, q)
        OBVIOUS
      <3>1. q = p /\ request[r].seen = product[p].status
        BY <1>2 DEF SumStock, Settling, ToRefresh, Done
      <3> HIDE DEF m
      <3>2. CASE Wrong(request[r].seen, InStock(p))
        BY <2>2, <3>1, <3>2 DEF Settling
      <3>3. CASE ~Wrong(request[r].seen, InStock(p))
        BY <3>1, <3>3 DEF Settling
      <3> QED BY <3>2, <3>3
    <2>6. Then(r, n) /\ UNCHANGED <<rows, seeding, sold, sole>>
      BY <1>2 DEF SumStock
    <2>7. RowsStay
      BY <2>6 DEF rows, RowsStay
    <2> HIDE DEF n
    <2> QED BY <2>4, <2>5, <2>6, <2>7, MovesOn DEF rows, IInv, TypeOK
  <1>3. CASE SetStockStatus(r)
    <2>1. p \in Products /\ request[r].op = "restatus"
      BY <1>0, <1>3, RequestHolds DEF SetStockStatus
    <2> DEFINE status == IF request[r].seen = "ACTIVE" THEN "OUT_OF_STOCK" ELSE "ACTIVE"
               row == [product[p] EXCEPT !.status = status]
    <2>2. /\ row \in Product /\ row.deleted = product[p].deleted /\ Stored(row)
          /\ row.status = status
      BY <2>1 DEF IInv, TypeOK, Product, ProductStatus, Stored
    <2>3. product' = [product EXCEPT ![p] = row]
      BY <1>3, <2>1 DEF SetStockStatus, IInv, TypeOK
    <2>4. Wrong(request[r].seen, InStock(p)) => ~Wrong(row.status, InStock(p))
      BY <2>2, OtherStatusFits
    <2> HIDE DEF row
    <2> QED BY <1>3, <2>1, <2>2, <2>3, <2>4, WritesProduct DEF SetStockStatus
  <1> QED BY <1>1, <1>2, <1>3

LEMMA VariantPatchHolds ==
  ASSUME NEW patch \in VariantPatch, NEW status \in VariantStatus, NEW stock \in Nat
  PROVE  Patched(status, patch.status) \in VariantStatus /\ Patched(stock, patch.stock) \in Nat
  BY LevelsAssumption, StatusesAssumption DEF VariantPatch, Patched

LEMMA VariantStepKeeps ==
  ASSUME IInv, NEW r \in Requests, VariantStep(r)
  PROVE  IInv' /\ RowsStay
  <1> USE DEF Writing
  <1>1. ASSUME NEW v \in Variants, NEW p \in Products, NEW patch \in VariantPatch,
               CheckNewVariant(r, v, p, patch)
        PROVE  IInv' /\ RowsStay
    <2> DEFINE n == [op |-> "createVariant", id |-> v, product |-> p, patch |-> patch]
    <2>1. n \in Request /\ Checked(n, variant, product)
      BY <1>1 DEF Request, Checked, CheckNewVariant, Exists
    <2>2. Begin(r, n)
      BY <1>1 DEF CheckNewVariant
    <2> HIDE DEF n
    <2> QED BY <2>1, <2>2, BeginKeeps
  <1>2. ASSUME NEW v \in Variants, NEW patch \in VariantPatch, CheckVariant(r, v, patch)
        PROVE  IInv' /\ RowsStay
    <2> DEFINE n == [op |-> "updateVariant", id |-> v, patch |-> patch]
    <2>1. n \in Request /\ Checked(n, variant, product)
      BY <1>2 DEF Request, Checked, CheckVariant, Exists
    <2>2. Begin(r, n)
      BY <1>2 DEF CheckVariant
    <2> HIDE DEF n
    <2> QED BY <2>1, <2>2, BeginKeeps
  <1>3. ASSUME NEW v \in Variants, NEW n \in Int, CheckAdjustment(r, v, n)
        PROVE  IInv' /\ RowsStay
    <2> DEFINE q == [op |-> "adjust", id |-> v, seen |-> variant[v], quantity |-> n]
    <2>1. q \in Request
      BY DEF IInv, TypeOK, Request
    <2>2. Checked(q, variant, product)
      BY <1>3 DEF Checked, CheckAdjustment, Exists, Stored
    <2>3. Begin(r, q)
      BY <1>3 DEF CheckAdjustment
    <2> HIDE DEF q
    <2> QED BY <2>1, <2>2, <2>3, BeginKeeps
  <1>4. ASSUME NEW v \in Variants, CheckVariantToDelete(r, v)
        PROVE  IInv' /\ RowsStay
    <2> DEFINE n == [op |-> "deleteVariant", id |-> v]
    <2>1. n \in Request /\ Checked(n, variant, product)
      BY <1>4 DEF Request, Checked, CheckVariantToDelete, Exists
    <2>2. Begin(r, n)
      BY <1>4 DEF CheckVariantToDelete
    <2> HIDE DEF n
    <2> QED BY <2>1, <2>2, BeginKeeps
  <1> DEFINE v == request[r].id
             q == request[r]
  <1>5. q \in Request /\ Checked(q, variant, product)
    BY DEF IInv, TypeOK, RequestsSound
  <1>6. CASE CreateVariant(r)
    <2>1. /\ v \in Variants /\ q.product \in Products /\ q.patch \in VariantPatch
          /\ Stored(product[q.product]) /\ ~Stored(variant[v]) /\ ~variant[v].deleted
      BY <1>5, <1>6, RequestHolds DEF CreateVariant, Checked, IInv, RowsSound
    <2> DEFINE row == [status |-> Patched("ACTIVE", q.patch.status), deleted |-> FALSE,
                       stock |-> Patched(0, q.patch.stock), product |-> q.product]
    <2>2. /\ Patched("ACTIVE", q.patch.status) \in VariantStatus
          /\ Patched(0, q.patch.stock) \in Nat
      BY <2>1, VariantPatchHolds DEF VariantStatus
    <2>3. row \in Variant /\ Stored(row) /\ row.product = q.product
      BY <2>1, <2>2 DEF Variant, Stored, VariantStatus
    <2>4. WriteVariant(r, v, row)
      BY <1>6 DEF CreateVariant
    <2> HIDE DEF row
    <2> QED BY <1>6, <2>1, <2>3, <2>4, WritesVariant DEF CreateVariant
  <1>7. ASSUME v \in Variants, Stored(variant[v]), Writing(q),
               NEW row \in Variant, WriteVariant(r, v, row), Stored(row),
               row.product = variant[v].product, variant[v].deleted => row.deleted
        PROVE  IInv' /\ RowsStay
    <2>1. variant[v].product \in Products /\ Stored(product[variant[v].product])
      BY <1>7 DEF IInv, RowsSound
    <2> QED BY <1>7, <2>1, WritesVariant
  <1>8. CASE UpdateVariant(r)
    <2>1. v \in Variants /\ q.patch \in VariantPatch /\ Stored(variant[v])
      BY <1>5, <1>8, RequestHolds DEF UpdateVariant, Checked
    <2> DEFINE status == Patched(variant[v].status, q.patch.status)
               stock == Patched(variant[v].stock, q.patch.stock)
               row == [variant[v] EXCEPT !.status = status, !.stock = stock]
    <2>2. status \in VariantStatus /\ stock \in Nat
      BY <2>1, VariantPatchHolds DEF IInv, TypeOK, Variant, Stored
    <2>3. WriteVariant(r, v, row)
      BY <1>8 DEF UpdateVariant
    <2> HIDE DEF status, stock
    <2>4. /\ row \in Variant /\ Stored(row)
          /\ row.product = variant[v].product /\ row.deleted = variant[v].deleted
      BY <2>1, <2>2 DEF IInv, TypeOK, Variant, Stored, VariantStatus
    <2> HIDE DEF row
    <2> QED BY <1>7, <1>8, <2>1, <2>3, <2>4 DEF UpdateVariant
  <1>9. CASE AdjustInventory(r)
    <2>1. /\ v \in Variants /\ q.seen \in Variant /\ q.quantity \in Int /\ Stored(variant[v])
          /\ q.seen.stock + q.quantity >= 0 /\ q.seen.status # "NONE"
      BY <1>5, <1>9, RequestHolds DEF AdjustInventory, Checked
    <2> DEFINE stock == q.seen.stock + q.quantity
               status == IF stock = 0 /\ q.seen.status = "ACTIVE" THEN "OUT_OF_STOCK"
                         ELSE IF stock > 0 /\ q.seen.status = "OUT_OF_STOCK" THEN "ACTIVE"
                         ELSE q.seen.status
               row == [variant[v] EXCEPT !.stock = stock, !.status = status]
    <2>2. stock \in Nat
      BY <2>1 DEF Variant
    <2>3. WriteVariant(r, v, row)
      BY <1>9 DEF AdjustInventory
    <2> HIDE DEF stock
    <2>4. status \in VariantStatus
      BY <2>1 DEF Variant, VariantStatus
    <2> HIDE DEF status
    <2>5. /\ row \in Variant /\ Stored(row)
          /\ row.product = variant[v].product /\ row.deleted = variant[v].deleted
      BY <2>1, <2>2, <2>4 DEF IInv, TypeOK, Variant, Stored, VariantStatus
    <2> HIDE DEF row
    <2> QED BY <1>7, <1>9, <2>1, <2>3, <2>5 DEF AdjustInventory
  <1>10. CASE DeleteProductVariant(r)
    <2>1. v \in Variants /\ Stored(variant[v])
      BY <1>5, <1>10, RequestHolds DEF DeleteProductVariant, Checked
    <2> DEFINE row == [variant[v] EXCEPT !.status = "DISCONTINUED", !.deleted = TRUE]
    <2>2. WriteVariant(r, v, row)
      BY <1>10 DEF DeleteProductVariant
    <2>3. /\ row \in Variant /\ Stored(row)
          /\ row.product = variant[v].product /\ row.deleted
      BY <2>1 DEF IInv, TypeOK, Variant, Stored, VariantStatus
    <2> HIDE DEF row
    <2> QED BY <1>7, <1>10, <2>1, <2>2, <2>3 DEF DeleteProductVariant
  <1>11. \A n \in Levels : n \in Int /\ -n \in Int
    BY LevelsAssumption
  <1> QED BY <1>1, <1>2, <1>3, <1>4, <1>6, <1>8, <1>9, <1>10, <1>11, RefreshKeeps DEF VariantStep

-----------------------------------------------------------------------------
(* The steps of the orders and of the seed.                                *)

LEMMA OrderStepKeeps ==
  ASSUME IInv, NEW v \in Variants, TakeUnit(v) \/ PutBackUnit(v)
  PROVE  IInv' /\ RowsStay
  <1>0. variant[v] \in Variant
    BY DEF IInv, TypeOK
  <1>1. CASE TakeUnit(v)
    <2> DEFINE stock == variant[v].stock - 1
               status == IF variant[v].stock = 1 THEN "OUT_OF_STOCK" ELSE "ACTIVE"
               row == [variant[v] EXCEPT !.stock = stock, !.status = status]
    <2>1. Stored(variant[v]) /\ stock \in Nat /\ status \in VariantStatus
      BY <1>0, <1>1 DEF TakeUnit, Exists, Variant, VariantStatus
    <2>2. variant' = [variant EXCEPT ![v] = row]
      BY <1>1 DEF TakeUnit, IInv, TypeOK
    <2>3. /\ UNCHANGED <<category, collection, product, links, request, seeding>>
          /\ sold' \subseteq sold \cup {v}
          /\ Touched({variant[v].product})
      BY <1>1 DEF TakeUnit, IInv, TypeOK
    <2> HIDE DEF stock, status
    <2>4. /\ row \in Variant /\ Stored(row)
          /\ row.product = variant[v].product /\ row.deleted = variant[v].deleted
      BY <1>0, <2>1 DEF Variant, Stored, VariantStatus
    <2> HIDE DEF row
    <2> QED BY <2>1, <2>2, <2>3, <2>4, StockMoves
  <1>2. CASE PutBackUnit(v)
    <2> DEFINE stock == variant[v].stock + 1
               status == IF variant[v].status = "OUT_OF_STOCK" THEN "ACTIVE"
                         ELSE variant[v].status
               row == [variant[v] EXCEPT !.stock = stock, !.status = status]
    <2>1. Stored(variant[v])
      BY <1>2 DEF PutBackUnit, IInv, RowsSound
    <2>2. stock \in Nat /\ status \in VariantStatus
      BY <1>0, <2>1 DEF Variant, VariantStatus, Stored
    <2>3. variant' = [variant EXCEPT ![v] = row]
      BY <1>2 DEF PutBackUnit, IInv, TypeOK
    <2>4. /\ UNCHANGED <<category, collection, product, links, request, seeding>>
          /\ sold' \subseteq sold \cup {v}
          /\ Touched({variant[v].product})
      BY <1>2 DEF PutBackUnit, IInv, TypeOK
    <2> HIDE DEF stock, status
    <2>5. /\ row \in Variant /\ Stored(row)
          /\ row.product = variant[v].product /\ row.deleted = variant[v].deleted
      BY <1>0, <2>2 DEF Variant, VariantStatus, Stored
    <2> HIDE DEF row
    <2> QED BY <2>1, <2>3, <2>4, <2>5, StockMoves
  <1> QED BY <1>1, <1>2

\* The row of seed.ts at hand.
LEMMA AtHand ==
  ASSUME SeedRows \in Seq(SeedRow), seed.step \in 1 .. Len(SeedRows)
  PROVE  SeedRowAtHand \in SeedRow
  BY DEF SeedRowAtHand

\* A run of the seed writes a row that is no product's and no variant's.
LEMMA SeedWritesElsewhere ==
  ASSUME IInv, NEW table \in {"category", "collection", "link"}, AtRow(table),
         SeedGoesOn("row"), RowsStay,
         category' \in [Categories -> Category],
         collection' \in [Collections -> Collection],
         links' \in SUBSET (Collections \X Products),
         UNCHANGED <<product, variant, seedLogs, sole>>
  PROVE  IInv'
  <1>1. TypeOK'
    BY SeedAssumption DEF IInv, TypeOK, SeedGoesOn, AtRow, Seed
  <1>2. RequestsSound'
    BY RequestsUnchanged DEF IInv, SeedGoesOn
  <1>3. RowsSound'
    BY DEF SeedGoesOn, IInv, RowsSound
  <1>4. SeedSound'
    BY SeedAssumption DEF IInv, TypeOK, Seed, SeedSound, SeedLogsOnce, SeedGoesOn, AtRow,
       SeedRowAtHand
  <1>5. SoleSound'
    BY SoleKept DEF SeedGoesOn, InStock, Counted
  <1> QED BY <1>1, <1>2, <1>3, <1>4, <1>5 DEF IInv

LEMMA SeedRowKeeps ==
  ASSUME IInv, SeedCategory \/ SeedCollection \/ SeedLink
  PROVE  IInv' /\ RowsStay
  <1> DEFINE row == SeedRowAtHand
  <1>1. CASE SeedCategory
    <2>1. row.id \in Categories /\ row.parent \in Categories \cup {Undefined}
      BY <1>1, SeedAssumption, AtHand, SeedRowHolds DEF SeedCategory, AtRow
    <2>2. category' \in [Categories -> Category]
      BY <1>1, <2>1 DEF SeedCategory, IInv, TypeOK, Category, Status
    <2>3. RowsStay
      BY <1>1, <2>1 DEF SeedCategory, RowsStay, IInv, TypeOK
    <2> QED BY <1>1, <2>2, <2>3, SeedWritesElsewhere DEF SeedCategory, IInv, TypeOK
  <1>2. CASE SeedCollection
    <2>1. row.id \in Collections
      BY <1>2, SeedAssumption, AtHand, SeedRowHolds DEF SeedCollection, AtRow
    <2>2. collection' \in [Collections -> Collection]
      BY <1>2, <2>1 DEF SeedCollection, IInv, TypeOK, Collection, Status
    <2>3. RowsStay
      BY <1>2, <2>1 DEF SeedCollection, RowsStay, IInv, TypeOK
    <2> QED BY <1>2, <2>2, <2>3, SeedWritesElsewhere DEF SeedCollection, IInv, TypeOK
  <1>3. CASE SeedLink
    <2>1. row.id \in Products /\ row.collection \in Collections
      BY <1>3, SeedAssumption, AtHand, SeedRowHolds DEF SeedLink, AtRow
    <2>2. RowsStay
      BY <1>3 DEF SeedLink, RowsStay
    <2> QED BY <1>3, <2>1, <2>2, SeedWritesElsewhere DEF SeedLink, IInv, TypeOK
  <1> QED BY <1>1, <1>2, <1>3

LEMMA SeedProductKeeps ==
  ASSUME IInv, SeedProduct
  PROVE  IInv' /\ RowsStay
  <1> DEFINE p == SeedRowAtHand.id
  <1>1. p \in Products
    BY SeedAssumption, AtHand, SeedRowHolds DEF SeedProduct, AtRow
  <1>2. RowsStay
    BY <1>1 DEF SeedProduct, RowsStay, IInv, TypeOK, Stored
  <1>3. TypeOK'
    <2>1. product' \in [Products -> Product]
      BY <1>1 DEF SeedProduct, IInv, TypeOK, Product, ProductStatus
    <2>2. seed' \in Seed
      BY SeedAssumption DEF SeedProduct, SeedGoesOn, AtRow, Seed
    <2>3. sole' \in [Products -> Requests \cup {Undefined}]
      BY DEF SeedProduct, IInv, TypeOK, Touched
    <2> QED BY <2>1, <2>2, <2>3 DEF SeedProduct, SeedGoesOn, IInv, TypeOK
  <1>4. RequestsSound'
    BY <1>2, RequestsUnchanged DEF IInv, SeedProduct, SeedGoesOn
  <1>5. RowsSound'
    BY <1>2 DEF SeedProduct, SeedGoesOn, IInv, RowsSound, RowsStay
  <1>6. Stored(product'[p])
    BY <1>1 DEF SeedProduct, IInv, TypeOK, Stored
  <1>7. SeedSound'
    <2>1. ASSUME NEW i \in 1 .. Len(SeedRows), SeedRows[i].table = "product",
                 i < seed.step
          PROVE  Stored(product'[SeedRows[i].id])
      BY <1>2, <2>1, SeedAssumption, SeedRowHolds DEF IInv, SeedSound, RowsStay
    <2>2. /\ seed.step \in 1 .. Len(SeedRows) /\ SeedRows[seed.step].table = "product"
          /\ seed'.at = "row" /\ seed'.step = seed.step + 1
          /\ UNCHANGED <<seedLogs, seeded>>
      BY DEF SeedProduct, AtRow, SeedGoesOn, SeedRowAtHand
    <2> QED BY <1>6, <2>1, <2>2 DEF IInv, SeedSound, SeedLogsOnce, SeedRowAtHand
  <1>8. SoleSound'
    BY <1>1, SoleKept DEF SeedProduct, SeedGoesOn, InStock, Counted, Touched, IInv, TypeOK
  <1> QED BY <1>2, <1>3, <1>4, <1>5, <1>7, <1>8 DEF IInv

LEMMA SeedVariantKeeps ==
  ASSUME IInv, SeedVariant
  PROVE  IInv' /\ RowsStay
  <1> DEFINE v == SeedRowAtHand.id
             p == SeedRowAtHand.product
             row == [variant[v] EXCEPT !.status = "ACTIVE", !.stock = SeedRowAtHand.stock,
                                       !.product = p]
  <1>1. v \in Variants /\ p \in Products /\ SeedRowAtHand.stock \in Nat
    BY SeedAssumption, AtHand, SeedRowHolds DEF SeedVariant, AtRow
  <1>2. /\ row \in Variant /\ Stored(row)
        /\ row.product = p /\ row.deleted = variant[v].deleted
    <2>1. variant[v] \in Variant
      BY <1>1 DEF IInv, TypeOK
    <2> HIDE DEF v, p
    <2> QED BY <1>1, <2>1 DEF Variant, VariantStatus, Stored
  <1>3. variant' = [variant EXCEPT ![v] = row]
    BY <1>1 DEF SeedVariant, IInv, TypeOK
  <1>4. Stored(product[p])
    <2>1. seed.step \in 1 .. Len(SeedRows) /\ SeedRows[seed.step].table = "variant"
      BY DEF SeedVariant, AtRow, SeedRowAtHand
    <2>2. PICK j \in 1 .. seed.step - 1 :
            /\ SeedRows[j].table = "product"
            /\ SeedRows[j].id = SeedRows[seed.step].product
      BY <2>1, SeedOrderAssumption
    <2>3. j \in 1 .. Len(SeedRows) /\ j < seed.step
      BY <2>1, SeedAssumption
    <2>4. \A i \in 1 .. Len(SeedRows) :
            i < seed.step /\ SeedRows[i].table = "product"
              => Stored(product[SeedRows[i].id])
      BY DEF IInv, SeedSound
    <2>5. Stored(product[SeedRows[seed.step].product])
      BY <2>2, <2>3, <2>4
    <2> QED BY <2>5 DEF SeedRowAtHand
  <1> HIDE DEF row
  <1>5. RowsStay
    BY <1>1, <1>2, <1>3 DEF SeedVariant, RowsStay, IInv, TypeOK
  <1>6. TypeOK'
    <2>1. variant' \in [Variants -> Variant]
      BY <1>2, <1>3 DEF IInv, TypeOK
    <2>2. seed' \in Seed
      BY DEF SeedVariant, IInv, TypeOK, SeedGoesOn, Seed
    <2>3. sole' \in [Products -> Requests \cup {Undefined}]
      BY DEF SeedVariant, IInv, TypeOK, Touched
    <2> QED BY <2>1, <2>2, <2>3 DEF SeedVariant, SeedGoesOn, IInv, TypeOK
  <1>7. RequestsSound'
    BY <1>5, RequestsUnchanged DEF IInv, SeedVariant, SeedGoesOn
  <1>8. RowsSound'
    BY <1>1, <1>2, <1>3, <1>4 DEF SeedVariant, SeedGoesOn, IInv, RowsSound, TypeOK
  <1>9. SeedSound'
    <2>1. /\ seed.step \in 1 .. Len(SeedRows) /\ SeedRows[seed.step].table = "variant"
          /\ seed'.at = "find" /\ seed'.step = seed.step
          /\ UNCHANGED <<product, seedLogs, seeded>>
      BY DEF SeedVariant, AtRow, SeedGoesOn, SeedRowAtHand, IInv, TypeOK, Seed
    <2> QED BY <2>1 DEF IInv, SeedSound, SeedLogsOnce
  <1>10. SoleSound'
    <2>1. ASSUME NEW q \in Products, sole'[q] # Undefined
          PROVE  sole'[q] = sole[q] /\ (InStock(q)' <=> InStock(q))
      <3>1. sole'[q] = sole[q] /\ q # variant[v].product /\ q # p
        BY <2>1 DEF SeedVariant, Touched
      <3> QED BY <1>1, <1>2, <1>3, <3>1, StockElsewhere DEF IInv
    <2> QED BY <2>1, SoleKept DEF SeedVariant, SeedGoesOn
  <1> QED BY <1>5, <1>6, <1>7, <1>8, <1>9, <1>10 DEF IInv

\* A run of the seed writes no row but an entry of the log.
LEMMA SeedRunKeeps ==
  ASSUME IInv, SeedStart \/ FindSeedLog \/ CreateSeedLog \/ SeedEnd \/ SeedDies
  PROVE  IInv' /\ RowsStay
  <1>1. UNCHANGED <<rows, request, sold, sole>>
    BY DEF SeedStart, FindSeedLog, CreateSeedLog, SeedEnd, SeedDies, SeedGoesOn
  <1>2. RowsStay
    BY <1>1 DEF rows, RowsStay
  <1>3. RequestsSound' /\ RowsSound' /\ SoleSound'
    <2>1. RequestsSound'
      BY <1>1, <1>2, RequestsUnchanged DEF IInv
    <2>2. RowsSound'
      BY <1>1 DEF rows, IInv, RowsSound
    <2>3. SoleSound'
      BY <1>1, SoleKept DEF rows, InStock, Counted
    <2> QED BY <2>1, <2>2, <2>3
  <1>4. SeedRows \in Seq(SeedRow) /\ Len(SeedRows) \in Nat
    BY SeedAssumption
  <1>5. seed \in Seed /\ seedLogs \in [Variants -> Nat] /\ seeded \in BOOLEAN /\ SeedSound
    BY DEF IInv, TypeOK
  <1>6. /\ seed' \in Seed /\ seedLogs' \in [Variants -> Nat] /\ seeded' \in BOOLEAN
        /\ SeedSound'
    <2>1. CASE SeedStart
      BY <1>1, <1>4, <1>5, <2>1 DEF SeedStart, Seed, SeedSound, SeedLogsOnce, rows
    <2>2. CASE SeedDies
      BY <1>1, <1>4, <1>5, <2>2 DEF SeedDies, SeedOff, Seed, SeedSound, SeedLogsOnce, rows
    <2>3. CASE SeedEnd
      BY <1>1, <1>4, <1>5, <2>3 DEF SeedEnd, SeedOff, Seed, SeedSound, SeedLogsOnce, rows
    <2>4. ASSUME FindSeedLog \/ CreateSeedLog
          PROVE  /\ seed.step \in 1 .. Len(SeedRows)
                 /\ SeedRows[seed.step].table = "variant"
                 /\ SeedRowAtHand.id \in Variants
      <3>1. seed.step \in 1 .. Len(SeedRows) /\ SeedRows[seed.step].table = "variant"
        BY <1>5, <2>4 DEF SeedSound, FindSeedLog, CreateSeedLog
      <3> QED BY <1>4, <3>1, AtHand, SeedRowHolds DEF SeedRowAtHand
    <2>5. CASE FindSeedLog
      <3> DEFINE i == seed.step
      <3>1. CASE AlreadyLogged(SeedRowAtHand.id)
        <4>1. seed' = [step |-> i + 1, at |-> "row"] /\ UNCHANGED <<seedLogs, seeded>>
          BY <2>5, <3>1 DEF FindSeedLog, SeedGoesOn
        <4>2. seedLogs[SeedRows[i].id] = 1
          BY <1>5, <2>4, <2>5, <3>1 DEF AlreadyLogged, SeedRowAtHand, SeedSound, SeedLogsOnce
        <4> QED BY <1>1, <1>4, <1>5, <2>4, <2>5, <4>1, <4>2
              DEF Seed, SeedSound, SeedLogsOnce, rows
      <3>2. CASE ~AlreadyLogged(SeedRowAtHand.id)
        <4>1. seed' = [seed EXCEPT !.at = "log"] /\ UNCHANGED <<seedLogs, seeded>>
          BY <2>5, <3>2 DEF FindSeedLog, SeedGoesOn
        <4>2. seedLogs[SeedRows[i].id] = 0
          BY <1>5, <2>4, <2>5, <3>2 DEF AlreadyLogged, SeedRowAtHand
        <4> QED BY <1>1, <1>4, <1>5, <2>4, <2>5, <4>1, <4>2
              DEF Seed, SeedSound, SeedLogsOnce, rows
      <3> QED BY <3>1, <3>2
    <2>6. CASE CreateSeedLog
      <3> DEFINE i == seed.step
                 v == SeedRows[i].id
      <3>1. /\ seed' = [step |-> i + 1, at |-> "row"] /\ UNCHANGED seeded
            /\ seedLogs' = [seedLogs EXCEPT ![v] = @ + 1]
        BY <2>6 DEF CreateSeedLog, SeedGoesOn, SeedRowAtHand
      <3>2. seedLogs[v] = 0 /\ v \in Variants
        BY <1>5, <2>4, <2>6 DEF CreateSeedLog, SeedSound, SeedRowAtHand
      <3>3. seedLogs'[v] = 1 /\ \A w \in Variants \ {v} : seedLogs'[w] = seedLogs[w]
        BY <1>5, <3>1, <3>2
      <3>4. \A j \in 1 .. Len(SeedRows) :
              SeedRows[j].table = "variant" => SeedRows[j].id \in Variants
        BY <1>4, SeedRowHolds
      <3>5. seedLogs' \in [Variants -> Nat] /\ seed' \in Seed
        BY <1>4, <1>5, <2>4, <2>6, <3>1, <3>2 DEF Seed
      <3>6. SeedLogsOnce'
        BY <1>5, <3>1, <3>2, <3>3, <3>4 DEF SeedSound, SeedLogsOnce
      <3>7. \A j \in 1 .. Len(SeedRows) :
              j < i + 1 /\ SeedRows[j].table = "variant" => seedLogs'[SeedRows[j].id] = 1
        BY <1>4, <1>5, <2>4, <2>6, <3>2, <3>3, <3>4 DEF SeedSound
      <3>8. \A j \in 1 .. Len(SeedRows) :
              j < i + 1 /\ SeedRows[j].table = "product" => Stored(product'[SeedRows[j].id])
        BY <1>1, <1>4, <1>5, <2>4, <2>6 DEF SeedSound, rows
      <3>9. seed'.at = "row" /\ seed'.step = i + 1
        BY <3>1
      <3> QED BY <1>5, <3>1, <3>5, <3>6, <3>7, <3>8, <3>9 DEF SeedSound
    <2> QED BY <2>1, <2>2, <2>3, <2>5, <2>6
  <1>7. TypeOK'
    BY <1>1, <1>6 DEF IInv, TypeOK, rows
  <1> QED BY <1>2, <1>3, <1>6, <1>7 DEF IInv

-----------------------------------------------------------------------------
LEMMA InitIInv == Init => IInv
  <1> SUFFICES ASSUME Init PROVE IInv
    OBVIOUS
  <1>1. seedLogs \in [Variants -> Nat] /\ \A v \in Variants : seedLogs[v] = 0
    BY DEF Init
  <1>2. seed \in Seed /\ seed.step = 0 /\ seed.at = "row"
    BY SeedAssumption DEF Init, Seed, SeedOff
  <1>3. TypeOK
    BY <1>1, <1>2 DEF Init, TypeOK, Category, Collection, Product, Variant, Request, New
  <1>4. RowsSound
    BY DEF Init, RowsSound, Stored
  <1>5. RequestsSound
    BY DEF Init, RequestsSound, Checked, New
  <1>6. SeedSound
    BY <1>1, <1>2 DEF Init, SeedSound, SeedLogsOnce
  <1>7. SoleSound
    BY DEF Init, SoleSound
  <1> QED BY <1>3, <1>4, <1>5, <1>6, <1>7 DEF IInv

LEMMA NextKeeps == IInv /\ [Next]_vars => IInv' /\ RowsStay
  <1> SUFFICES ASSUME IInv, [Next]_vars PROVE IInv' /\ RowsStay
    OBVIOUS
  <1>1. CASE UNCHANGED vars
    <2>1. RowsStay
      BY <1>1 DEF vars, rows, RowsStay
    <2>2. TypeOK' /\ RowsSound' /\ RequestsSound'
      BY <1>1 DEF vars, rows, seeding, IInv, TypeOK, RowsSound, RequestsSound
    <2>3. SeedSound'
      BY <1>1 DEF vars, rows, seeding, IInv, SeedSound, SeedLogsOnce
    <2>4. SoleSound'
      BY <1>1, SoleKept DEF vars, rows, InStock, Counted
    <2> QED BY <2>1, <2>2, <2>3, <2>4 DEF IInv
  <1>2. ASSUME NEW r \in Requests,
               CategoryStep(r) \/ CollectionStep(r) \/ ProductStep(r) \/ VariantStep(r)
        PROVE  IInv' /\ RowsStay
    BY <1>2, CategoryStepKeeps, CollectionStepKeeps, ProductStepKeeps, VariantStepKeeps
  <1>3. ASSUME NEW v \in Variants, TakeUnit(v) \/ PutBackUnit(v)
        PROVE  IInv' /\ RowsStay
    BY <1>3, OrderStepKeeps
  <1>4. CASE SeedStep
    BY <1>4, SeedRowKeeps, SeedProductKeeps, SeedVariantKeeps, SeedRunKeeps DEF SeedStep
  <1> QED BY <1>1, <1>2, <1>3, <1>4 DEF Next

LEMMA Invariance == Spec => []IInv
  BY InitIInv, NextKeeps, PTL DEF Spec

\* TypeOK holds for any rows, seed and requests: no adjustment makes the stock
\* negative, and no refresh reads the status of a product that is not there.
THEOREM TypeCorrect == Spec => []TypeOK
  BY Invariance, PTL DEF IInv

\* The initial stock of a variant is logged once, however often the seed is run
\* and wherever a run dies.
THEOREM SeedLogsCorrect == Spec => []SeedLogsOnce
  <1>1. IInv => SeedLogsOnce
    BY DEF IInv, SeedSound
  <1> QED BY <1>1, Invariance, PTL

\* When the last writer of a product's variants is through, the product is on
\* the shelf exactly when there is stock to sell.
THEOREM StockStatusCorrect == Spec => []StockStatusAgrees
  <1>1. IInv => StockStatusAgrees
    <2> SUFFICES ASSUME IInv, NEW p \in Products,
                        sole[p] # Undefined, request[sole[p]] = Done,
                        product[p].status \in {"ACTIVE", "OUT_OF_STOCK"}
                 PROVE  product[p].status = "ACTIVE"
                         <=> \E v \in Variants : /\ variant[v].product = p
                                                 /\ ~variant[v].deleted
                                                 /\ variant[v].status # "DISCONTINUED"
                                                 /\ variant[v].stock > 0
      BY DEF StockStatusAgrees
    <2>1. Settling(Done, p)
      BY DEF IInv, SoleSound
    <2>2. product[p].status = "ACTIVE" <=> InStock(p)
      BY <2>1 DEF Settling, ToRefresh, Done, Wrong
    <2>3. \A v \in Variants : variant[v].stock > 0 => Stored(variant[v])
      BY DEF IInv, RowsSound
    <2> QED BY <2>2, <2>3 DEF InStock, Counted, Exists
  <1> QED BY <1>1, Invariance, PTL
=============================================================================
