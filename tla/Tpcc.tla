-------------------------------- MODULE Tpcc --------------------------------
(***************************************************************************)
(* The TPC-C plugin: the schema and its load, and the three transactions,  *)
(* which lock the row of the warehouse, of a district and of a customer.   *)
(***************************************************************************)
EXTENDS SqlOperation

CONSTANT LockRows      \* the districts

Tables == {"warehouse", "district", "customer", "orders", "order_line"}

---------------------------------------------------------------------------
(* Setup and Cleanup. *)

CreateTables ==
    << CreateIfNotExists("warehouse", {}), CreateIfNotExists("district", {"warehouse"}),
       CreateIfNotExists("customer", {}), CreateIfNotExists("orders", {}),
       CreateIfNotExists("order_line", {}) >>

loadDistrictsBatch == Copy("district", {"warehouse"})

(* One COPY for each batch of a district; at a small scale there are fewer
   customers than the transactions draw from. *)
loadCustomersBatch == Fill({"customer"}, {})

loadInitialData == << FillAll({"warehouse"}, {}), loadDistrictsBatch, loadCustomersBatch >>

SetupScript == CreateTables \o <<StopIfFilled("warehouse")>> \o loadInitialData
Setup(db) == {SetupScript}

(* It drops the tables and calls Setup, which main calls again. *)
Cleanup ==
    << DropIfExists("order_line"), DropIfExists("orders"), DropIfExists("customer"),
       DropIfExists("district"), DropIfExists("warehouse") >> \o SetupScript

---------------------------------------------------------------------------
(* The transactions. *)

WarehouseRow == <<"warehouse", 1>>
DistrictRow(d) == <<"district", d>>
CustomerRow(d) == <<"customer", d>>

paymentTx ==
    {InTransaction(<< UpdateRow("warehouse", WarehouseRow), UpdateRow("district", DistrictRow(d)),
                      UpdateRow("customer", CustomerRow(d)) >>) : d \in LockRows}

(* The number of the order is read FOR UPDATE of the row of the district. *)
NextOrderID(d) == Locking(MustFind({"district"}, {"district"}), DistrictRow(d))

(* An order that reads the tax of the warehouse, FOR UPDATE, in the end. *)
newOrderTxWithTax ==
    {InTransaction(<< NextOrderID(d), Insert("orders", {}), UpdateRow("district", DistrictRow(d)),
                      Locking(Read({"warehouse"}), WarehouseRow) >>) : d \in LockRows}

newOrderTx ==
    {InTransaction(<< NextOrderID(d), Insert("orders", {}), UpdateRow("district", DistrictRow(d)),
                      Insert("order_line", {}), Insert("order_line", {}) >>) : d \in LockRows}

(* The rows of the customers of a name are still open, and keep their connection,
   when the order is read over another. *)
orderStatusTxWithOpenRows ==
    {InTransaction(<<Read({"customer"}), ThroughPool(Read({"orders"}))>>)}

(* The customers of a name are read, to the last row, before the transaction
   begins.  An order that is not found ends the operation with a commit. *)
orderStatusTx ==
    LET customer == MustFind({"customer"}, {"customer"})
        order == Read({"orders"})
        found == InTransaction(<<customer, order, Read({"order_line"})>>)
        none == InTransaction(<<customer, Ignored(order)>>)
        byName == <<Read({"customer"})>>
    IN  {found, none, byName \o found, byName \o none}

Modes == {"tpcc"}

rollTransaction(mode) == UNION {newOrderTx, paymentTx, orderStatusTx}
Operations(mode) == rollTransaction(mode)
=============================================================================
