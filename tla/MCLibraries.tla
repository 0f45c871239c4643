---------------------------- MODULE MCLibraries -----------------------------
(* The library packages for TLC, each on its own: which one a behaviour is of is chosen
   at the start, and the others keep their initial states. *)
EXTENDS PluginLoader, ConnectionSlots, WorkloadManager, TestExecution, PluginRegistry, TLC

(* A plugin, one that shares a type with it, one of the same name, a file that is no
   plugin, one that cannot be opened, and another plugin. *)
MCFiles ==
    LET File(path, opens, exports, name, types) ==
            [path |-> path, opens |-> opens, exports |-> exports, name |-> name, types |-> types]
    IN  <<File("a.so", TRUE, TRUE, "tpcc", {"tpcc"}),
          File("b.so", TRUE, TRUE, "bank", {"bank", "tpcc"}),
          File("c.so", TRUE, TRUE, "tpcc", {"orders"}),
          File("d.so", TRUE, FALSE, "none", {}),
          File("e.so", FALSE, FALSE, "none", {}),
          File("f.so", TRUE, TRUE, "shop", {"shop", "orders"})>>

(* A plugin, and a later one of the same name that wants an earlier one registered. *)
MCPackages ==
    LET Package(file, deps) == [file |-> file, name |-> "tpcc", deps |-> deps]
    IN  {Package("a.so", {}), Package("b.so", {"tpcc"})}

FirstJob == CHOOSE j \in Jobs : TRUE

VARIABLE part

vars == <<part, loaderVars, slotsVars, managerVars, executionVars, registryVars>>

Init ==
    /\ part \in {"loader", "slots", "manager", "restarts", "execution", "registry"}
    /\ LoaderInit /\ SlotsInit /\ ExecutionInit /\ RegistryInit
    /\ ManagerInit
    /\ \A j \in Jobs :
           \/ job[j].priority = CHOOSE p \in Priorities : TRUE
           \/ part = "manager" /\ j # FirstJob   \* the first is of one priority

LoaderStep ==
    /\ part = "loader" /\ LoaderNext
    /\ UNCHANGED <<part, slotsVars, managerVars, executionVars, registryVars>>
SlotsStep ==
    /\ part = "slots" /\ SlotsNext
    /\ UNCHANGED <<part, loaderVars, managerVars, executionVars, registryVars>>
(* The manager with all jobs and one start, and with one job and all starts. *)
ManagerStep ==
    /\ part \in {"manager", "restarts"} /\ ManagerNext
    /\ IF part = "manager" THEN starts' <= 1
                           ELSE \A j \in Jobs \ {FirstJob} : job'[j].at = "new"
    /\ UNCHANGED <<part, loaderVars, slotsVars, executionVars, registryVars>>
ExecutionStep ==
    /\ part = "execution" /\ ExecutionNext
    /\ UNCHANGED <<part, loaderVars, slotsVars, managerVars, registryVars>>
RegistryStep ==
    /\ part = "registry" /\ RegistryNext
    /\ UNCHANGED <<part, loaderVars, slotsVars, managerVars, executionVars>>

Next == LoaderStep \/ SlotsStep \/ ManagerStep \/ ExecutionStep \/ RegistryStep

Fair == ManagerFairness
Spec == Init /\ [][Next]_vars /\ Fair
=============================================================================
