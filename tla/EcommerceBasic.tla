--------------------------- MODULE EcommerceBasic ---------------------------
(***************************************************************************)
(* The basic e-commerce plugin, in the form of the module Ecommerce: eight *)
(* tables, no trigger, and one operation that is a transaction.            *)
(***************************************************************************)
EXTENDS SqlOperation

---------------------------------------------------------------------------
(* Setup and Cleanup. *)

CreateTables ==
    << Create("users", {}), Create("products", {}), Create("inventory", {"products"}),
       Create("orders", {"users"}), Create("order_items", {"orders", "products"}),
       Create("reviews", {"users", "products"}), Create("user_sessions", {"users"}),
       Create("product_analytics", {"users", "products"}) >>

Tables == UNION {CreateTables[i].tables : i \in DOMAIN CreateTables}

(* Creating an index may fail with a warning. *)
CreateSchema == CreateTables \o <<Ignored(Read(Tables))>>

LoadUsers == Fill({"users"}, {})
LoadProducts == Fill({"products"}, {})
LoadInventory == Fill({"inventory"}, {"products"})

(* An error of the query that returns the ids of a batch is not looked at: its
   orders are missing, and so are their items. *)
LoadOrders == Ignored(Fill({"orders", "order_items"}, {"users", "products"}))
LoadReviews == Fill({"reviews"}, {"users", "products"})
LoadUserSessions == Fill({"user_sessions"}, {"users"})
LoadProductAnalytics == Fill({"product_analytics"}, {"users", "products"})
LoadSampleData ==
    << LoadUsers, LoadProducts, LoadInventory, LoadOrders, LoadReviews, LoadUserSessions,
       LoadProductAnalytics >>

(* Every table but order_items is counted. *)
SchemaExists(db) == \A t \in Tables \ {"order_items"} : db[t] # "absent"

Setup(db) == {(IF SchemaExists(db) THEN <<>> ELSE CreateSchema)
                  \o <<StopIfFilled("users")>> \o LoadSampleData}

Cleanup ==
    << DropIfExists("product_analytics"), DropIfExists("user_sessions"),
       DropIfExists("reviews"), DropIfExists("order_items"), DropIfExists("orders"),
       DropIfExists("inventory"), DropIfExists("products"), DropIfExists("users") >>

---------------------------------------------------------------------------
(* Reads. *)

getUserByEmail == One(Read({"users"}))
getProductBySKU == One(Read({"products"}))
getProductsByCategory == One(Read({"products"}))
getOrderDetailsWithItems == One(Read({"orders", "order_items", "products", "users"}))
getUserActivitySummary == One(Read({"users", "orders", "reviews", "user_sessions"}))
getUserOrders == One(Read({"orders"}))
getProductReviews == One(Read({"reviews", "users"}))
getProductAnalytics == One(Read({"product_analytics"}))
getRecentActivity == One(Read({"orders", "products", "reviews", "users"}))
getInventoryAnalysis == One(Read({"inventory", "products"}))
searchProductsByName == One(Read({"products"}))
findSimilarUsers == One(Read({"users"}))
getTopProductsByCategory == One(Read({"products"}))
getUserSpendingTrends == One(Read({"orders"}))

---------------------------------------------------------------------------
(* Writes. *)

createUser == One(Insert("users", {}))
createProduct == One(Insert("products", {}))

createOrder ==
    LET item == <<Insert("order_items", {"products"})>>
        order(items) == <<Insert("orders", {"users"})>> \o items \o <<Update("orders")>>
    IN  {InTransaction(order(item)), InTransaction(order(item \o item))}

updateUserInfo == One(Update("users"))
updateProductRating == One(Update("products"))
updateInventory == One(Update("inventory"))
createReview == One(Insert("reviews", {"users", "products"}))
logProductView == One(Insert("product_analytics", {"users", "products"}))

---------------------------------------------------------------------------
(* The operations each mode draws from. *)

executeReadOperation ==
    UNION {getUserByEmail, getProductBySKU, getProductsByCategory, getOrderDetailsWithItems,
           getUserActivitySummary, getUserOrders, getProductReviews, getProductAnalytics,
           getRecentActivity, getInventoryAnalysis, searchProductsByName, findSimilarUsers,
           getTopProductsByCategory, getUserSpendingTrends}

executeWriteOperation ==
    UNION {createUser, createProduct, createOrder, updateUserInfo, updateProductRating,
           updateInventory, createReview, logProductView}

executeOLTPReadOperation ==
    UNION {getUserByEmail, getProductBySKU, getUserOrders, getProductReviews,
           getProductsByCategory}

executeOLTPWriteOperation ==
    UNION {createOrder, updateInventory, logProductView, updateUserInfo}

executeAnalyticsOperation ==
    UNION {getUserSpendingTrends, getTopProductsByCategory, getInventoryAnalysis,
           getRecentActivity, findSimilarUsers}

(* CreateWorkload: the mode of each type of workload. *)
Modes == {"read", "write", "mixed", "oltp", "analytics"}

(* What a worker draws from. *)
Operations(mode) ==
    CASE mode = "read" -> executeReadOperation
      [] mode = "write" -> executeWriteOperation
      [] mode = "mixed" -> executeReadOperation \cup executeWriteOperation
      [] mode = "oltp" -> executeOLTPReadOperation \cup executeOLTPWriteOperation
      [] mode = "analytics" -> executeAnalyticsOperation
=============================================================================
