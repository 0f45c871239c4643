------------------------------- MODULE Simple -------------------------------
(***************************************************************************)
(* The simple plugin: one table, which only Cleanup fills.                 *)
(***************************************************************************)
EXTENDS SqlOperation

Tables == {"loadtest"}

SetupScript == <<CreateIfNotExists("loadtest", {})>>
Setup(db) == {SetupScript}

Cleanup == <<DropIfExists("loadtest")>> \o SetupScript \o <<Fill({"loadtest"}, {})>>

doRead == One(MustFind({"loadtest"}, {"loadtest"}))
doWrite == One(Update("loadtest"))

Modes == {"read", "write", "mixed"}

(* What a worker draws from. *)
Operations(mode) ==
    CASE mode = "read" -> doRead
      [] mode = "write" -> doWrite
      [] mode = "mixed" -> doRead \cup doWrite
=============================================================================
