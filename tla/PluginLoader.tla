---------------------------- MODULE PluginLoader ----------------------------
(***************************************************************************)
(* PluginLoader of pkg/plugin: the plugins found in the search paths, the  *)
(* workload types they provide, and their loading and unloading by callers *)
(* that run concurrently.  A step is what a caller does under the lock;    *)
(* only discovery, which holds it for many files, takes one step a file.   *)
(***************************************************************************)
EXTENDS Naturals, Sequences

CONSTANTS Callers,
          Files      \* what lies in the search paths, in the order it is read

(* opens: plugin.Open accepts the file.  exports: it has a WorkloadPlugin with a
   name and at least one workload type. *)
ASSUME FilesAssumption ==
    Files \in Seq([path : STRING, opens : BOOLEAN, exports : BOOLEAN,
                   name : STRING, types : SUBSET STRING])

Names == {Files[i].name : i \in DOMAIN Files}
WorkloadTypes == UNION {Files[i].types : i \in DOMAIN Files}

VARIABLES owner,           \* plugins: the index of the file of a name, 0 for none
          workloadTypes,   \* the set of pairs of a type and the name that provides it
          failedPlugins,   \* paths that could not be opened
          loaded,          \* names with Loaded set, and Plugin not nil
          live,            \* calls of Initialize less those of Cleanup, for each name
          cleaned,         \* names of which Cleanup was ever called
          scan,            \* the next file while DiscoverPlugins holds the lock, else 0
          caller,          \* what each caller has still to do
          loaderCrashed

loaderVars == <<owner, workloadTypes, failedPlugins, loaded, live, cleaned, scan,
                caller, loaderCrashed>>

Discovered == {n \in Names : owner[n] # 0}
Outside == [pc |-> "idle", todo |-> {}]

LoaderTypeOK ==
    /\ owner \in [Names -> 0 .. Len(Files)]
    /\ workloadTypes \subseteq WorkloadTypes \X Names
    /\ failedPlugins \subseteq {Files[i].path : i \in DOMAIN Files}
    /\ loaded \subseteq Names /\ cleaned \subseteq Names
    /\ live \in [Names -> Nat]
    /\ scan \in 0 .. Len(Files) + 1
    /\ caller \in [Callers -> [pc : {"idle", "load", "create", "loadAll", "unloadAll"},
                               todo : SUBSET Names]]
    /\ loaderCrashed \in BOOLEAN

LoaderInit ==
    /\ owner = [n \in Names |-> 0]
    /\ workloadTypes = {} /\ failedPlugins = {} /\ loaded = {} /\ cleaned = {}
    /\ live = [n \in Names |-> 0]
    /\ scan = 0
    /\ caller = [c \in Callers |-> Outside]
    /\ loaderCrashed = FALSE

---------------------------------------------------------------------------
(* Discovery. *)

DiscoverPlugins(c) ==
    /\ caller[c] = Outside
    /\ scan' = 1
    /\ UNCHANGED <<owner, workloadTypes, failedPlugins, loaded, live, cleaned, caller,
                   loaderCrashed>>

MarkAsFailed(f) ==
    /\ ~f.opens
    /\ failedPlugins' = failedPlugins \cup {f.path}
    /\ UNCHANGED <<owner, workloadTypes>>

(* No plugin, or one whose name or one of whose types is taken. *)
RefuseFile(f) ==
    /\ f.opens
    /\ ~f.exports \/ owner[f.name] # 0 \/ \E p \in workloadTypes : p[1] \in f.types
    /\ UNCHANGED <<owner, workloadTypes, failedPlugins>>

RegisterFile(f) ==
    /\ f.opens /\ f.exports /\ owner[f.name] = 0
    /\ \A p \in workloadTypes : p[1] \notin f.types
    /\ owner' = [owner EXCEPT ![f.name] = scan]
    /\ workloadTypes' = workloadTypes \cup (f.types \X {f.name})
    /\ UNCHANGED failedPlugins

LoadPluginMetadata ==
    /\ scan \in DOMAIN Files
    /\ MarkAsFailed(Files[scan]) \/ RefuseFile(Files[scan]) \/ RegisterFile(Files[scan])
    /\ scan' = scan + 1
    /\ UNCHANGED <<loaded, live, cleaned, caller, loaderCrashed>>

Discovery ==
    \/ LoadPluginMetadata
    \/ /\ scan = Len(Files) + 1 /\ scan' = 0
       /\ UNCHANGED <<owner, workloadTypes, failedPlugins, loaded, live, cleaned, caller,
                      loaderCrashed>>

---------------------------------------------------------------------------
(* Loading and unloading of a discovered plugin, under the lock. *)

LoadsUnchecked(n) ==
    /\ loaded' = loaded \cup {n}
    /\ live' = [live EXCEPT ![n] = @ + 1]
    /\ UNCHANGED cleaned

Loads(n) ==
    /\ loaded' = loaded \cup {n}
    /\ live' = IF n \in loaded THEN live ELSE [live EXCEPT ![n] = @ + 1]
    /\ UNCHANGED cleaned

(* Initialize returns an error. *)
LoadFails(n) == n \notin loaded /\ UNCHANGED <<loaded, live, cleaned>>

Unloads(n) ==
    IF n \in loaded
    THEN /\ loaded' = loaded \ {n}
         /\ live' = [live EXCEPT ![n] = @ - 1]
         /\ cleaned' = cleaned \cup {n}
    ELSE UNCHANGED <<loaded, live, cleaned>>

Continue(c, pc, todo) ==
    /\ caller' = [caller EXCEPT ![c] = IF todo = {} THEN Outside ELSE [pc |-> pc, todo |-> todo]]
    /\ UNCHANGED <<owner, workloadTypes, failedPlugins, scan>>

LoadPlugin(c) ==
    /\ caller[c] = Outside
    /\ \E n \in Discovered : Loads(n) \/ LoadFails(n)
    /\ UNCHANGED <<owner, workloadTypes, failedPlugins, scan, caller, loaderCrashed>>

UnloadPlugin(c) ==
    /\ caller[c] = Outside
    /\ \E n \in Discovered : Unloads(n)
    /\ UNCHANGED <<owner, workloadTypes, failedPlugins, scan, caller, loaderCrashed>>

(* The names are collected first, and each is then loaded, or unloaded, on its own. *)
LoadAllPlugins(c) ==
    \/ /\ caller[c] = Outside
       /\ Continue(c, "loadAll", Discovered)
       /\ UNCHANGED <<loaded, live, cleaned, loaderCrashed>>
    \/ /\ caller[c].pc = "loadAll"
       /\ \E n \in caller[c].todo : /\ Loads(n) \/ LoadFails(n)
                                    /\ Continue(c, "loadAll", caller[c].todo \ {n})
       /\ UNCHANGED loaderCrashed

UnloadAllPlugins(c) ==
    \/ /\ caller[c] = Outside
       /\ Continue(c, "unloadAll", loaded)
       /\ UNCHANGED <<loaded, live, cleaned, loaderCrashed>>
    \/ /\ caller[c].pc = "unloadAll"
       /\ \E n \in caller[c].todo : /\ Unloads(n)
                                    /\ Continue(c, "unloadAll", caller[c].todo \ {n})
       /\ UNCHANGED loaderCrashed

(* A plugin that is loaded gives its workload at once; any other is loaded first,
   and for that the read lock is given up. *)
GetWorkload(c) ==
    /\ caller[c] = Outside
    /\ \E p \in workloadTypes :
           Continue(c, "load", {p[2]} \ loaded)
    /\ UNCHANGED <<loaded, live, cleaned, loaderCrashed>>

AutoLoad(c) ==
    /\ caller[c].pc = "load"
    /\ \E n \in caller[c].todo : \/ Loads(n) /\ Continue(c, "create", {n})
                                 \/ LoadFails(n) /\ Continue(c, "idle", {})
    /\ UNCHANGED loaderCrashed

(* CreateWorkload of a Plugin that is nil again ends the program. *)
CreateWorkload(c) ==
    /\ caller[c].pc = "create"
    /\ IF caller[c].todo \subseteq loaded
       THEN Continue(c, "idle", {}) /\ UNCHANGED loaderCrashed
       ELSE loaderCrashed' = TRUE
            /\ UNCHANGED <<owner, workloadTypes, failedPlugins, scan, caller>>
    /\ UNCHANGED <<loaded, live, cleaned>>

LoaderCalls(c) ==
    \/ DiscoverPlugins(c) \/ LoadPlugin(c) \/ UnloadPlugin(c)
    \/ LoadAllPlugins(c) \/ UnloadAllPlugins(c)
    \/ GetWorkload(c) \/ AutoLoad(c) \/ CreateWorkload(c)

LoaderNext ==
    /\ ~loaderCrashed
    /\ \/ scan # 0 /\ Discovery
       \/ scan = 0 /\ \E c \in Callers : LoaderCalls(c)

LoaderSpec == LoaderInit /\ [][LoaderNext]_loaderVars

---------------------------------------------------------------------------
(* Every workload type of a discovered plugin is provided by that plugin and by no
   other: of two files in conflict one is refused with all its types. *)
TypesHaveOneOwner ==
    /\ \A n \in Discovered : \A t \in Files[owner[n]].types : <<t, n>> \in workloadTypes
    /\ \A p, q \in workloadTypes : p[1] = q[1] => p = q
    /\ \A p \in workloadTypes : p[2] \in Discovered

(* However callers race to load one plugin, it is initialised once until it is cleaned
   up, and cleaned up only after it was initialised. *)
InitializedOnce == \A n \in Names : live[n] = IF n \in loaded THEN 1 ELSE 0

(* GetWorkload calls the plugin it has loaded only after it took the lock again: the
   program ends there only if somebody unloaded that plugin. *)
CrashNeedsUnload ==
    loaderCrashed => \E c \in Callers : /\ caller[c].pc = "create"
                                        /\ caller[c].todo \cap cleaned # {}

(* The plugin loader under concurrent callers (loader.go). *)
LoaderConsistent ==
    LoaderTypeOK /\ TypesHaveOneOwner /\ InitializedOnce /\ CrashNeedsUnload
=============================================================================
