----------------------------- MODULE Ecommerce ------------------------------
(***************************************************************************)
(* The ecommerce plugin: its schema, Setup and Cleanup as scripts of       *)
(* statements, each operation as the set of scripts it may send, and the   *)
(* operations each mode of the workload draws from.                        *)
(***************************************************************************)
EXTENDS SqlOperation

CONSTANT LockRows      \* the products, as far as orders lock their inventory

---------------------------------------------------------------------------
(* Setup and Cleanup. *)

CreateTables ==
    << Create("users", {}), Create("vendors", {}), Create("products", {"vendors"}),
       Create("inventory", {"products", "vendors"}),
       Create("purchase_orders", {"vendors"}),
       Create("purchase_order_items", {"purchase_orders", "products"}),
       Create("orders", {"users"}), Create("order_items", {"orders", "products"}),
       Create("reviews", {"users", "products", "orders"}),
       Create("user_sessions", {"users"}), Create("product_analytics", {"users", "products"}) >>

Tables == UNION {CreateTables[i].tables : i \in DOMAIN CreateTables}

(* Indexes, the vector index and the triggers may fail with a warning. *)
CreateIndexes == << Ignored(Read(Tables)), Ignored(Read({"reviews"})) >>
CreateTriggers == << Ignored(Read({"inventory"})), Ignored(Read({"purchase_order_items"})) >>
EnablePgVector == << Ignored(Plain) >>
CreateSchema == EnablePgVector \o CreateTables \o CreateIndexes \o CreateTriggers

LoadVendors == Fill({"vendors"}, {})
LoadUsers == Fill({"users"}, {})
LoadProducts == Fill({"products"}, {"vendors"})
LoadInventory == Fill({"inventory"}, {"products", "vendors"})
LoadOrders == Fill({"orders", "order_items"}, {"users", "products"})
LoadReviews == Fill({"reviews"}, {"users", "products"})
LoadUserSessions == Fill({"user_sessions"}, {"users"})
LoadProductAnalytics == Fill({"product_analytics"}, {"users", "products"})
LoadInitialPurchaseOrders ==
    Fill({"purchase_orders", "purchase_order_items"}, {"vendors", "products"})

(* A loader that goes on without the products of the vendors. *)
LoadSampleDataWithoutProducts ==
    << LoadVendors, LoadUsers, LoadUserSessions >>

LoadSampleData ==
    << LoadVendors, LoadUsers, LoadProducts, LoadInventory, LoadOrders, LoadReviews,
       LoadUserSessions, LoadProductAnalytics, LoadInitialPurchaseOrders >>

(* Every table but order_items is counted. *)
SchemaExists(db) == \A t \in Tables \ {"order_items"} : db[t] # "absent"

Setup(db) == {(IF SchemaExists(db) THEN <<>> ELSE CreateSchema)
                  \o <<StopIfFilled("users")>> \o LoadSampleData}

CleanupWithoutVendors ==
    << DropIfExists("product_analytics"), DropIfExists("reviews"), DropIfExists("users") >>

Cleanup ==
    << Ignored(Plain),                     \* triggers and functions
       DropIfExists("product_analytics"), DropIfExists("user_sessions"),
       DropIfExists("reviews"), DropIfExists("order_items"), DropIfExists("orders"),
       DropIfExists("purchase_order_items"), DropIfExists("purchase_orders"),
       DropIfExists("inventory"), DropIfExists("products"), DropIfExists("vendors"),
       DropIfExists("users") >>

---------------------------------------------------------------------------
(* Reads. *)

getUserByEmail == One(Read({"users"}))
getProductBySKU == One(Read({"products"}))
getProductsByCategory == One(Read({"products"}))
getUserOrders == One(Read({"orders"}))
getProductReviews == One(Read({"reviews", "users"}))
getVendorProducts == One(Read({"products", "vendors"}))
getPurchaseOrdersByVendor == One(Read({"purchase_orders"}))
getOrderDetailsWithItems == One(Read({"orders", "order_items", "products", "users"}))
getUserActivitySummary == One(Read({"users", "orders", "reviews"}))
getProductAnalytics == One(Read({"product_analytics"}))
getInventoryStatus == One(Read({"inventory", "products", "vendors"}))
getVendorPerformance == One(Read({"vendors", "purchase_orders"}))
searchProductsByName == One(Read({"products"}))
findSimilarUsers == One(Read({"users", "orders", "order_items", "products"}))
getRecentActivity == One(Read({"orders", "reviews"}))
searchReviewsByVector == {<<Try(Read({"reviews"})), Read({"reviews"})>>}
getTopProductsByCategory == One(Read({"products"}))
getUserSpendingTrends == One(Read({"orders"}))
getInventoryAnalysis == One(Read({"inventory", "products"}))
getStockControlReport ==
    One(Read({"inventory", "products", "vendors", "purchase_orders", "purchase_order_items"}))
getInventoryByProduct == One(Read({"inventory"}))
getOrderDetails == One(Read({"orders"}))
getSalesAnalytics == One(Read({"orders", "order_items", "products"}))
getCustomerSegmentation == One(Read({"users", "orders"}))

---------------------------------------------------------------------------
(* Writes. *)

(* What the trigger on inventory may write besides: a purchase order for what
   runs low, and the price of the product. *)
checkStockAndReorder(s) == Firing(s, {"purchase_orders", "purchase_order_items", "products"})

(* What the trigger on received items writes besides; the update of the
   inventory fires the other trigger in turn. *)
handlePurchaseReceipt(s) == checkStockAndReorder(Firing(s, {"inventory", "purchase_orders"}))

createNewOrderInSteps ==
    {<<Insert("orders", {"users"}), Insert("order_items", {"products"}), Update("inventory")>>}

(* Two products stand for one to three. *)
createNewOrder ==
    LET item(r) == << Insert("order_items", {"products"}),
                      checkStockAndReorder(UpdateRow("inventory", <<"inventory", r>>)) >>
    IN  {InTransaction(<<Insert("orders", {"users"})>> \o item(r) \o item(q)) : r, q \in LockRows}

updateInventory == One(checkStockAndReorder(Update("inventory")))
insertProductReview == One(Insert("reviews", {"users", "products"}))
updateUserProfile == One(Update("users"))
createPurchaseOrder ==
    LET item == <<Insert("purchase_order_items", {"products"})>>
        order == <<Insert("purchase_orders", {"vendors"})>>
    IN  {InTransaction(order \o item), InTransaction(order \o item \o item)}
receivePurchaseOrder ==
    {<< FindOrStop({"purchase_order_items"}),
        handlePurchaseReceipt(Update("purchase_order_items")) >>}
updateProductPricing ==
    {<<MustFind({"products"}, {"products"})>>,
     <<MustFind({"products"}, {"products"}), Update("products")>>}
insertProductAnalytics == One(Insert("product_analytics", {"products", "users"}))
updateVendorRating == One(Update("vendors"))
processOrderShipment == {<<FindOrStop({"orders"}), Update("orders")>>}
updateOrderStatus == One(Update("orders"))

---------------------------------------------------------------------------
(* The operations each mode draws from. *)

executeReadOperation ==
    UNION {getUserByEmail, getProductBySKU, getProductsByCategory, getUserOrders,
           getProductReviews, getVendorProducts, getPurchaseOrdersByVendor,
           getOrderDetailsWithItems, getUserActivitySummary, getProductAnalytics,
           getInventoryStatus, getVendorPerformance, searchProductsByName, findSimilarUsers,
           getRecentActivity, searchReviewsByVector, getTopProductsByCategory,
           getUserSpendingTrends, getInventoryAnalysis, getStockControlReport}

executeWriteOperation ==
    UNION {createNewOrder, insertProductReview, updateInventory, updateUserProfile,
           updateProductPricing, insertProductAnalytics, updateVendorRating,
           processOrderShipment, createPurchaseOrder, receivePurchaseOrder}

executeOLTPReadOperation ==
    UNION {getUserByEmail, getProductBySKU, getUserOrders, getInventoryByProduct, getOrderDetails}

executeOLTPWriteOperation ==
    UNION {updateInventory, updateUserProfile, insertProductAnalytics, updateOrderStatus}

executeAnalyticsOperation ==
    UNION {getInventoryAnalysis, getUserSpendingTrends, getTopProductsByCategory,
           getVendorPerformance, getStockControlReport, getSalesAnalytics,
           getCustomerSegmentation}

(* CreateWorkload: the mode of each type of workload. *)
Modes == {"read", "write", "mixed", "oltp", "analytics"}

Operations(mode) ==
    CASE mode = "read" -> executeReadOperation
      [] mode = "write" -> executeWriteOperation
      [] mode = "mixed" -> executeReadOperation \cup executeWriteOperation
      [] mode = "oltp" -> executeOLTPReadOperation \cup executeOLTPWriteOperation
      [] mode = "analytics" -> executeAnalyticsOperation
=============================================================================
