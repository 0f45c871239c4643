---------------------------- MODULE SqlOperation ----------------------------
(***************************************************************************)
(* The statements that the workload plugins send to PostgreSQL, reduced to *)
(* what the correctness of a workload depends on: which tables a statement *)
(* reads and writes, which tables must hold a row for an id that was drawn *)
(* at random, whether an error ends the operation, and what belongs to a   *)
(* transaction.  The texts of the statements, their columns and the values *)
(* are left out.  The database itself is external to the repository: what  *)
(* it does with a statement is described here from how the plugins use it. *)
(*                                                                         *)
(* A table is "absent", "empty", "short" (it has rows, but not one for     *)
(* every id the operations draw) or "full".                                *)
(***************************************************************************)
EXTENDS Naturals, Sequences, FiniteSets

Statuses == {"absent", "empty", "short", "full"}

(* "after" says what follows the statement: the next one if it succeeds and the
   end of the operation if it fails, unless the constructors below say
   otherwise.  "via" is the connection: that of the open transaction or, if
   there is none, one of the pool. *)
Plain == [verb |-> "read", tables |-> {}, needs |-> {}, row |-> <<>>,
          after |-> "next", via |-> "transaction"]

---------------------------------------------------------------------------
(* Statements of operations. *)

(* A query for which no row is no error (Query, or QueryRow with ErrNoRows
   passed over). *)
Read(T) == [Plain EXCEPT !.tables = T]

(* QueryRow(...).Scan whose error ends the operation: the row must exist. *)
MustFind(T, needs) == [Plain EXCEPT !.tables = T, !.needs = needs]

(* QueryRow(...).Scan after which ErrNoRows ends the operation with success. *)
FindOrStop(T) == [Plain EXCEPT !.tables = T, !.after = "maybe"]

(* The foreign keys of the row that is inserted are drawn from the tables in
   refs. *)
Insert(t, refs) == [Plain EXCEPT !.verb = "insert", !.tables = {t}, !.needs = refs]

(* The id of the row comes from a sequence that a COPY of given ids does not
   move: it can be the id of a row that was copied. *)
InsertNext(t) == [Insert(t, {}) EXCEPT !.verb = "insertnext"]

Update(t) == [Plain EXCEPT !.verb = "update", !.tables = {t}]
Delete(t) == [Plain EXCEPT !.verb = "delete", !.tables = {t}]

(* Row r is locked until the transaction ends. *)
Locking(s, r) == [s EXCEPT !.row = r]
UpdateRow(t, r) == Locking(Update(t), r)

(* A trigger writes the tables T along with the statement s. *)
Firing(s, T) == [s EXCEPT !.tables = @ \cup T]

(* An error of s is logged or dropped, and the next statement follows. *)
Ignored(s) == [s EXCEPT !.after = "ignored"]

(* The next statement is a second attempt, left out if s succeeds. *)
Try(s) == [s EXCEPT !.after = "attempt"]

(* s is sent through the pool while a transaction of the operation is open. *)
ThroughPool(s) == [s EXCEPT !.via = "pool"]

(* Its arguments do not have the types of the parameters. *)
Malformed == [Plain EXCEPT !.verb = "malformed"]

Begin == [Plain EXCEPT !.verb = "begin"]
Commit == [Plain EXCEPT !.verb = "commit"]
InTransaction(script) == <<Begin>> \o script \o <<Commit>>

(* The same over a connection of its own, opened and closed by the operation. *)
OnOwnConnection(script) == <<[Begin EXCEPT !.via = "own"]>> \o script \o <<Commit>>

(* An operation that always sends the one statement s, as a set of scripts. *)
One(s) == {<<s>>}

---------------------------------------------------------------------------
(* Statements of Setup and Cleanup. *)

Create(t, refs) == [Plain EXCEPT !.verb = "create", !.tables = {t}, !.needs = refs]
CreateIfNotExists(t, refs) == [Create(t, refs) EXCEPT !.verb = "ensure"]
DropIfExists(t) == [Plain EXCEPT !.verb = "drop", !.tables = {t}]

(* Many inserts, each committed on its own, whose ids are drawn from rows that
   the same Setup has loaded into refs; the configured scale says how many. *)
Fill(T, refs) == [Plain EXCEPT !.verb = "fill", !.tables = T, !.needs = refs]

(* The same, with a number of rows that does not depend on the scale. *)
FillAll(T, refs) == [Fill(T, refs) EXCEPT !.verb = "fillall"]

(* One COPY of rows with given ids: all or none, and refused by rows that have
   those ids. *)
Copy(t, refs) == [Fill({t}, refs) EXCEPT !.verb = "copy"]

(* Setup ends here, with success, if t holds a row. *)
StopIfFilled(t) == [Plain EXCEPT !.verb = "guard", !.tables = {t}]

---------------------------------------------------------------------------
(* What the database does with a statement. *)

HasRows(db, t) == db[t] \in {"short", "full"}
Schematic == {"create", "ensure", "drop"}
Loading == {"fill", "fillall", "copy"}

(* The statement s cannot succeed on db. *)
Impossible(db, s) ==
    \/ s.verb \notin Schematic /\ \E t \in s.tables \cup s.needs : db[t] = "absent"
    \/ s.verb = "create" /\ \E t \in s.tables : db[t] # "absent"
    \/ s.verb \in Schematic /\ \E t \in s.needs : db[t] = "absent"
    \/ s.verb \notin Schematic /\ \E t \in s.needs : ~HasRows(db, t)
    \/ s.verb = "malformed"
    \/ s.verb = "copy" /\ \E t \in s.tables : HasRows(db, t)

(* It may fail on db, by what the tables hold. *)
Refusable(db, s) ==
    \/ Impossible(db, s)
    \/ s.verb \notin Schematic \cup Loading /\ \E t \in s.needs : db[t] # "full"
    \/ s.verb = "insertnext" /\ \E t \in s.tables : HasRows(db, t)

(* Why it was refused. *)
Refusal(db, s) ==
    IF s.verb = "malformed" THEN "arguments"
    ELSE IF s.verb \in {"copy", "insertnext"} /\ \A t \in s.tables \cup s.needs : HasRows(db, t)
    THEN "collision"
    ELSE "missing"

(* The tables after s has succeeded; scale is what a scaled load makes of a
   table.  Of a full table a delete may leave a part. *)
Applied(db, s, scale) ==
    [t \in DOMAIN db |->
        IF t \notin s.tables THEN db[t]
        ELSE CASE s.verb \in {"create", "ensure"} /\ db[t] = "absent" -> "empty"
               [] s.verb = "drop" -> "absent"
               [] s.verb = "fill" /\ db[t] = "empty" -> scale
               [] s.verb \in {"fillall", "copy"} /\ db[t] = "empty" -> "full"
               [] s.verb \in {"insert", "insertnext"} /\ db[t] = "empty" -> "short"
               [] s.verb = "delete" /\ db[t] = "full" -> "short"
               [] OTHER -> db[t]]

(* What a statement that has failed can leave behind: of a load, some rows. *)
HalfLoaded(db, s) ==
    IF s.verb \in {"fill", "fillall"}
    THEN {[t \in DOMAIN db |-> IF t \in T /\ db[t] = "empty" THEN "short" ELSE db[t]] :
              T \in {{}, s.tables} \cup {{t} : t \in s.tables}}
    ELSE {db}

Writing == {"insert", "insertnext", "update", "delete"}
Writes(script) == UNION {script[i].tables : i \in {j \in DOMAIN script : script[j].verb \in Writing}}

(* After the first n statements of the script a transaction is open. *)
OpenAfter(script, n) ==
    \E i \in 1 .. n : /\ script[i].verb = "begin"
                      /\ \A j \in i .. n : script[j].verb # "commit"

(* It holds a connection of the pool. *)
PooledAfter(script, n) ==
    OpenAfter(script, n) /\ \E i \in 1 .. n : script[i].verb = "begin" /\ script[i].via # "own"

(* The rows the open transaction has locked by then. *)
LockedAfter(script, n) ==
    IF OpenAfter(script, n)
    THEN {script[i].row : i \in {j \in 1 .. n : script[j].row # <<>>}}
    ELSE {}
=============================================================================
