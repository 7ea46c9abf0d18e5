----------------------------- MODULE LiluPlugin -----------------------------
(***************************************************************************)
(* The life of Lilu plugins (plugin_start.cpp, built into each of them).   *)
(* The kernel loads the kext and calls kern_start, which registers the     *)
(* plugin's callbacks with Lilu under the API lock; I/O Kit then matches   *)
(* the plugin's service, which decides the kext's fate; Lilu closes        *)
(* registration at some point of the boot.                                 *)
(* Lilu itself is only there as the headers show it: requestAccess waits   *)
(* for the lock, finaliseRequests takes it, and shouldLoad and the         *)
(* registrations fail once apiRequestsOver is set.                         *)
(***************************************************************************)
CONSTANTS
  Plugins

VARIABLES
  kext,              \* absent, or what its kern_start is at, or loaded
  startSuccess,
  service,           \* the plugin's object in I/O Kit
  selfInstance,      \* whether it points to that object, to none, to a freed one
  registered,        \* its callbacks are in Lilu's lists
  access,            \* owner of the API lock
  apiRequestsOver

iokit == <<service, selfInstance>>
lilu  == <<registered, access, apiRequestsOver>>
vars  == <<kext, startSuccess, iokit, lilu>>

Init ==
  /\ kext = [p \in Plugins |-> "absent"]
  /\ startSuccess = [p \in Plugins |-> FALSE]
  /\ service = [p \in Plugins |-> "none"] /\ selfInstance = [p \in Plugins |-> "null"]
  /\ registered = {} /\ access = "free" /\ apiRequestsOver = FALSE

At(p, place) == kext' = [kext EXCEPT ![p] = place]

-----------------------------------------------------------------------------
(* kern_start.                                                             *)

Load(p) ==
  /\ kext[p] = "absent"
  /\ At(p, "request")
  /\ startSuccess' = [startSuccess EXCEPT ![p] = FALSE]
  /\ selfInstance' = [selfInstance EXCEPT ![p] = "null"]
  /\ UNCHANGED <<service, lilu>>

RequestAccess(p) ==
  /\ kext[p] = "request"
  /\ access = "free" /\ access' = p
  /\ At(p, "decide")
  /\ UNCHANGED <<startSuccess, iokit, registered, apiRequestsOver>>

\* The plugin asks for a version of the API that Lilu does not have.
Unsupported(p) ==
  /\ kext[p] = "request"
  /\ At(p, "loaded")
  /\ UNCHANGED <<startSuccess, iokit, lilu>>

\* Wrong variant: the lock is given back before the plugin registers.
ShouldLoadEarly(p) ==
  /\ kext[p] = "decide"
  /\ \/ /\ ~apiRequestsOver
        /\ startSuccess' = [startSuccess EXCEPT ![p] = TRUE]
        /\ At(p, "register") /\ access' = "free"
     \/ At(p, "release") /\ UNCHANGED <<startSuccess, access>>
  /\ UNCHANGED <<iokit, registered, apiRequestsOver>>

\* shouldLoad: by the boot arguments, the kernel's version, the run mode.
ShouldLoad(p) ==
  /\ kext[p] = "decide"
  /\ \/ /\ ~apiRequestsOver
        /\ startSuccess' = [startSuccess EXCEPT ![p] = TRUE]
        /\ At(p, "register")
     \/ At(p, "release") /\ UNCHANGED startSuccess
  /\ UNCHANGED <<iokit, lilu>>

\* pluginStart, with the registrations that panic when they fail.
PluginStart(p) ==
  /\ kext[p] = "register"
  /\ IF apiRequestsOver
       THEN At(p, "panic") /\ UNCHANGED registered
       ELSE At(p, "release") /\ registered' = registered \cup {p}
  /\ UNCHANGED <<startSuccess, iokit, access, apiRequestsOver>>

ReleaseAccess(p) ==
  /\ kext[p] = "release"
  /\ access' = "free"
  /\ At(p, "loaded")
  /\ UNCHANGED <<startSuccess, iokit, registered, apiRequestsOver>>

-----------------------------------------------------------------------------
(* I/O Kit: matching of the service.                                       *)

Object(p, state, self) ==
  /\ service' = [service EXCEPT ![p] = state]
  /\ selfInstance' = [selfInstance EXCEPT ![p] = self]
  /\ UNCHANGED <<kext, startSuccess, lilu>>

Probe(p) ==
  /\ kext[p] = "loaded" /\ service[p] = "none"
  /\ IF startSuccess[p] THEN Object(p, "probed", "it") ELSE Object(p, "none", "freed")

\* IOService::probe finds nothing, or another driver wins.
ProbeLost(p) ==
  /\ \/ kext[p] = "loaded" /\ service[p] = "none"
     \/ service[p] = "probed"
  /\ Object(p, "none", "freed")

Start(p) ==
  /\ service[p] = "probed" /\ startSuccess[p]
  /\ Object(p, "active", "it")

StartFails(p) ==
  /\ service[p] = "probed"
  /\ Object(p, "none", "freed")

Stop(p) ==
  /\ service[p] = "active"
  /\ Object(p, "none", "null")

\* Wrong variant: kern_stop always agrees.
KernStopAgrees(p) ==
  /\ kext[p] = "loaded" /\ service[p] = "none"
  /\ At(p, "absent")
  /\ UNCHANGED <<startSuccess, iokit, lilu>>

\* The kext is to be unloaded: kern_stop refuses once the plugin has started.
KernStop(p) ==
  /\ kext[p] = "loaded" /\ service[p] = "none"
  /\ ~startSuccess[p]
  /\ At(p, "absent")
  /\ UNCHANGED <<startSuccess, iokit, lilu>>

-----------------------------------------------------------------------------
(* Lilu.                                                                   *)

FinaliseRequests ==
  /\ access = "free" /\ ~apiRequestsOver
  /\ apiRequestsOver' = TRUE
  /\ UNCHANGED <<kext, startSuccess, iokit, registered, access>>

-----------------------------------------------------------------------------
Body(p) == ShouldLoad(p) \/ PluginStart(p) \/ ReleaseAccess(p)
Match(p) == Probe(p) \/ ProbeLost(p) \/ Start(p) \/ StartFails(p) \/ Stop(p)

Next ==
  \/ \E p \in Plugins :
       Load(p) \/ RequestAccess(p) \/ Unsupported(p) \/ Body(p) \/ Match(p) \/ KernStop(p)
  \/ FinaliseRequests

Spec == Init /\ [][Next]_vars

-----------------------------------------------------------------------------
(* Properties.                                                             *)

(* A kext whose callbacks Lilu holds is never unloaded ("It is not safe to *)
(* unload Lilu plugins unless they were disabled!"), whatever its service  *)
(* goes through.                                                           *)
RegisteredStays == \A p \in registered : kext[p] \in {"release", "loaded"}

(* A plugin that may load never panics in its registrations: registration  *)
(* does not close between shouldLoad and pluginStart.                      *)
NoPanic == \A p \in Plugins : kext[p] # "panic"

TypeOK ==
  /\ kext \in [Plugins -> {"absent", "request", "decide", "register", "release", "loaded", "panic"}]
  /\ startSuccess \in [Plugins -> BOOLEAN]
  /\ registered \subseteq Plugins
  /\ access \in Plugins \cup {"free"}

\* A plugin that decides or registers has the API lock, so that what it was
\* told about registration still holds.
Locked ==
  \A p \in Plugins :
    /\ kext[p] \in {"decide", "register", "release"} => access = p
    /\ kext[p] = "register" => startSuccess[p] /\ ~apiRequestsOver

\* Whoever is registered was told that it may load.
Told == \A p \in registered : startSuccess[p]

IInv == TypeOK /\ Locked /\ Told /\ RegisteredStays /\ NoPanic

=============================================================================
