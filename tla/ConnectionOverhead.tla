------------------------- MODULE ConnectionOverhead -------------------------
(***************************************************************************)
(* The plugin that compares persistent with transient connections: one     *)
(* table, and operations that are each a transaction of one statement.     *)
(***************************************************************************)
EXTENDS SqlOperation

Tables == {"connection_test"}

Setup(db) == {<< CreateIfNotExists("connection_test", {}), StopIfFilled("connection_test"),
                 FillAll({"connection_test"}, {}) >>}
Cleanup == <<DropIfExists("connection_test")>>

(* A query that names the column data gets strings for all of its parameters:
   so do the inserts, one update and two of the selects. *)
generateArgsForQuery(s, namesData) == IF namesData THEN Malformed ELSE s

generateOperations ==
    LET t == "connection_test"
    IN  {generateArgsForQuery(Read({t}), namesData) : namesData \in BOOLEAN}
            \cup {generateArgsForQuery(Insert(t, {}), TRUE)}
            \cup {generateArgsForQuery(Update(t), namesData) : namesData \in BOOLEAN}
            \cup {generateArgsForQuery(Delete(t), FALSE)}

executePersistentOperation == {InTransaction(<<s>>) : s \in generateOperations}
executeTransientOperation == {OnOwnConnection(<<s>>) : s \in generateOperations}

Modes == {"connection"}

(* What a worker draws from. *)
Operations(mode) == executePersistentOperation \cup executeTransientOperation
=============================================================================
