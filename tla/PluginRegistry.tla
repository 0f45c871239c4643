--------------------------- MODULE PluginRegistry ---------------------------
(***************************************************************************)
(* The plugin registry of pkg/plugin with the context-aware loader in      *)
(* front of it, which tries to load a file several times until its context *)
(* ends.  plugin.Open gives all who load a file the same instance: what    *)
(* one of them initialises and cleans up is what the others have.          *)
(***************************************************************************)
EXTENDS Naturals

CONSTANTS Loaders,           \* callers of LoadPluginWithContext
          Packages,          \* plugin files, each with one instance
          MaxRetryAttempts

ASSUME PackagesAssumption ==
    /\ \A p \in Packages : p.deps \subseteq {q.name : q \in Packages}
    /\ MaxRetryAttempts \in Nat \ {0}

PackageNames == {p.name : p \in Packages}
NoPackage == [file |-> "none"]

VARIABLES plugins,       \* of each name: the package registered last, Loaded, FilePath
          instance,      \* of each package: whether Initialize or Cleanup came last
          loading,       \* what each caller is doing
          ended,         \* callers whose loadCtx has ended
          late,          \* attempts each has made since
          overlapped,    \* loaded packages that another caller has in its hands as well
          cutShort       \* names unloaded before SafeLoad had recorded the path

registryVars == <<plugins, instance, loading, ended, late, overlapped, cutShort>>

Absent == [package |-> NoPackage, loaded |-> FALSE, path |-> NoPackage]
NotLoading == [pc |-> "out", package |-> NoPackage, attempt |-> 0]

RegistryTypeOK ==
    /\ plugins \in [PackageNames -> [package : Packages \cup {NoPackage}, loaded : BOOLEAN,
                                     path : Packages \cup {NoPackage}]]
    /\ instance \in [Packages -> {"raw", "ready", "clean"}]
    /\ loading \in [Loaders -> [pc : {"out", "check", "open", "register", "cleanup", "path", "backoff"},
                                package : Packages \cup {NoPackage}, attempt : 0 .. MaxRetryAttempts]]
    /\ \A l \in Loaders : loading[l].pc # "out" => loading[l].package \in Packages
    /\ ended \subseteq Loaders
    /\ late \in [Loaders -> Nat]
    /\ overlapped \subseteq Packages /\ cutShort \subseteq PackageNames

RegistryInit ==
    /\ plugins = [n \in PackageNames |-> Absent]
    /\ instance = [p \in Packages |-> "raw"]
    /\ loading = [l \in Loaders |-> NotLoading]
    /\ ended = {} /\ overlapped = {} /\ cutShort = {}
    /\ late = [l \in Loaders |-> 0]

LoadedAs(p) == plugins[p.name].loaded /\ plugins[p.name].package = p

---------------------------------------------------------------------------
(* LoadPluginWithContext and its attempts. *)

Wanted(l) == loading[l].package
At(l, pc) == loading[l].pc = pc
Holds(l, p) == Wanted(l) = p /\ loading[l].pc \in {"register", "cleanup"}
GoTo(l, pc) == loading' = [loading EXCEPT ![l].pc = pc]

LoadPluginWithContext(l, p) ==
    /\ At(l, "out")
    /\ loading' = [loading EXCEPT ![l] = [pc |-> "check", package |-> p, attempt |-> 1]]
    /\ UNCHANGED <<plugins, instance, ended, late, overlapped, cutShort>>

ReturnFromLoad(l) ==
    /\ loading' = [loading EXCEPT ![l] = NotLoading]
    /\ ended' = ended \ {l} /\ late' = [late EXCEPT ![l] = 0]

CheckDone(l) ==
    /\ At(l, "check")
    /\ IF l \in ended THEN ReturnFromLoad(l)
                      ELSE GoTo(l, "open") /\ UNCHANGED <<ended, late>>
    /\ UNCHANGED <<plugins, instance, overlapped, cutShort>>

Tried(l) == IF l \in ended THEN [late EXCEPT ![l] = @ + 1] ELSE late

(* An attempt has failed.  After the last there is nothing to wait for. *)
AttemptFails(l, tries) ==
    IF loading[l].attempt < MaxRetryAttempts
    THEN GoTo(l, "backoff") /\ late' = tries /\ UNCHANGED ended
    ELSE ReturnFromLoad(l)

(* Of a timer and a context that are both over, select takes any. *)
Backoff(l) ==
    /\ At(l, "backoff")
    /\ \/ /\ loading' = [loading EXCEPT ![l].pc = "check", ![l].attempt = @ + 1]
          /\ UNCHANGED <<ended, late>>
       \/ l \in ended /\ ReturnFromLoad(l)
    /\ UNCHANGED <<plugins, instance, overlapped, cutShort>>

(* SafeLoad up to its Initialize: the file may not open, export no WorkloadPlugin, or
   fail to initialise. *)
OpenFails(l) ==
    /\ At(l, "open")
    /\ AttemptFails(l, Tried(l))
    /\ UNCHANGED <<plugins, instance, overlapped, cutShort>>

Open(l) ==
    LET p == Wanted(l) IN
    /\ At(l, "open")
    /\ late' = Tried(l)
    /\ instance' = [instance EXCEPT ![p] = "ready"]
    /\ overlapped' = IF LoadedAs(p) THEN overlapped \cup {p} ELSE overlapped
    /\ GoTo(l, "register")
    /\ UNCHANGED <<plugins, ended, cutShort>>

(* Register, under the lock: a dependency need only have been registered once. *)
RegisterAccepts(l) ==
    LET p == Wanted(l) IN
    /\ At(l, "register")
    /\ \A d \in p.deps : plugins[d].package # NoPackage
    /\ ~plugins[p.name].loaded
    /\ instance' = [instance EXCEPT ![p] = "ready"]
    /\ plugins' = [plugins EXCEPT ![p.name] = [package |-> p, loaded |-> TRUE, path |-> NoPackage]]
    /\ overlapped' = IF \E k \in Loaders \ {l} : Holds(k, p) THEN overlapped \cup {p} ELSE overlapped
    /\ GoTo(l, "path")
    /\ UNCHANGED <<ended, late, cutShort>>

(* For the metadata, the dependencies, the name, or because the second Initialize fails. *)
RegisterRefuses(l) ==
    /\ At(l, "register")
    /\ GoTo(l, "cleanup")
    /\ UNCHANGED <<plugins, instance, ended, late, overlapped, cutShort>>

(* A plausible mistake: what was refused is left initialised. *)
CleanUpForgotten(l) ==
    /\ At(l, "cleanup")
    /\ AttemptFails(l, late)
    /\ UNCHANGED <<plugins, instance, overlapped, cutShort>>

(* Without the lock. *)
CleanUpRefused(l) ==
    /\ At(l, "cleanup")
    /\ instance' = [instance EXCEPT ![Wanted(l)] = "clean"]
    /\ AttemptFails(l, late)
    /\ UNCHANGED <<plugins, overlapped, cutShort>>

RecordPath(l) ==
    /\ At(l, "path")
    /\ plugins' = [plugins EXCEPT ![Wanted(l).name].path = Wanted(l)]
    /\ ReturnFromLoad(l)
    /\ UNCHANGED <<instance, overlapped, cutShort>>

---------------------------------------------------------------------------
(* The operator: Stop of the loader, contexts that end, UnloadPlugin. *)

ContextEnds(l) ==
    /\ ~At(l, "out") /\ ended' = ended \cup {l}
    /\ UNCHANGED <<plugins, instance, loading, late, overlapped, cutShort>>

StopLoader ==
    /\ ended' = ended \cup {l \in Loaders : ~At(l, "out")}
    /\ UNCHANGED <<plugins, instance, loading, late, overlapped, cutShort>>

UnloadFromRegistry(n) ==
    LET p == plugins[n].package IN
    /\ p # NoPackage
    /\ instance' = IF plugins[n].loaded THEN [instance EXCEPT ![p] = "clean"] ELSE instance
    /\ plugins' = [plugins EXCEPT ![n].loaded = FALSE]
    /\ overlapped' = overlapped \ {p}
    /\ cutShort' = IF plugins[n].loaded /\ \E l \in Loaders : At(l, "path") /\ Wanted(l) = p
                   THEN cutShort \cup {n} ELSE cutShort
    /\ UNCHANGED <<loading, ended, late>>

RegistryNext ==
    \/ \E l \in Loaders : \/ \E p \in Packages : LoadPluginWithContext(l, p)
                          \/ CheckDone(l) \/ Backoff(l) \/ OpenFails(l) \/ Open(l)
                          \/ RegisterAccepts(l) \/ RegisterRefuses(l) \/ CleanUpRefused(l)
                          \/ RecordPath(l) \/ ContextEnds(l)
    \/ \E n \in PackageNames : UnloadFromRegistry(n)
    \/ StopLoader

RegistrySpec == RegistryInit /\ [][RegistryNext]_registryVars

---------------------------------------------------------------------------
(* No instance is left initialised: it is registered and loaded, or in the hands of a
   caller who will register it or clean it up. *)
InitialisedAreOwned ==
    \A p \in Packages : instance[p] = "ready" =>
        LoadedAs(p) \/ \E l \in Loaders : Holds(l, p)

(* A plugin that is handed out is ready, unless another caller had it in its
   hands as well: who is refused cleans up what the others use. *)
LoadedAreReady ==
    \A p \in Packages : LoadedAs(p) /\ p \notin overlapped => instance[p] = "ready"

(* The path recorded with a plugin is that of its file, unless that plugin was unloaded
   before SafeLoad had recorded the path: it may be recorded with the next of the name. *)
PathsAreTrue ==
    \A n \in PackageNames : plugins[n].path \in {NoPackage, plugins[n].package} \/ n \in cutShort

(* A caller whose context has ended, by Stop or otherwise, makes one more attempt at
   most: the one it was already let into. *)
EndedStopTrying == \A l \in Loaders : late[l] <= 1

(* The registry and its loader under concurrent callers (registry.go, context_loader.go). *)
RegistryConsistent ==
    /\ RegistryTypeOK /\ InitialisedAreOwned /\ LoadedAreReady /\ PathsAreTrue
    /\ EndedStopTrying
=============================================================================
