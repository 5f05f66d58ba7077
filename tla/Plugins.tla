------------------------------- MODULE Plugins ------------------------------
(***************************************************************************)
(* The plugin manager (plugins/system/manager.py) and the operations that  *)
(* requests call (api/v1/plugins.py, plugins/system/api.py).  An operation *)
(* takes the PluginInfo that is registered when it begins, waits for the   *)
(* initialize or shutdown of the plugin, and writes into that PluginInfo;  *)
(* registering a plugin again puts another one in its place.               *)
(***************************************************************************)
EXTENDS Naturals, FiniteSets

CONSTANTS
  PlPlugin,       \* plugins
  PlNeeds,        \* plugin to the plugins it depends on, not optionally
  PlVersion,      \* versions
  PlAccepts,      \* plugin to the versions of each plugin that it is compatible with
  PlOp,           \* operations under way
  PlRegistrations \* how often each plugin is registered

ASSUME PlAssumption ==
  /\ PlRegistrations \in [PlPlugin -> Nat]
  /\ PlNeeds \in [PlPlugin -> SUBSET PlPlugin]
  /\ PlVersion \subseteq Nat /\ PlAccepts \in [PlPlugin -> [PlPlugin -> SUBSET Nat]]

VARIABLES
  plThere,  \* the keys of _plugins
  plInfo,   \* the PluginInfo of each: the how many-th, version, status, whether it has an instance
  plUp,     \* what the instance finished last
  plOp,     \* the operations
  plBase    \* the plugins that each was registered on: needed, there, and not leaving

plVars == <<plThere, plInfo, plUp, plOp, plBase>>

PlNoOp == [kind |-> "none", at |-> "idle"]

PlInit ==
  /\ plThere = {}
  /\ plInfo = [p \in PlPlugin |-> [nth |-> 0, version |-> 0, status |-> "installed", instance |-> FALSE]]
  /\ plUp = [p \in PlPlugin |-> "new"]
  /\ plOp = [o \in PlOp |-> PlNoOp]
  /\ plBase = [p \in PlPlugin |-> {}]

PlLeaving(p) == \E o \in PlOp : plOp[o].kind = "uninstall" /\ plOp[o].plugin = p /\ plOp[o].at = "shutdown"

\* register_plugin, by a request without an instance, or by load_from_directory, which
\* leaves a plugin that is there as it is.
PlRegister(p, version, instance) ==
  /\ plInfo[p].nth < PlRegistrations[p]
  /\ instance => p \notin plThere
  /\ plThere' = plThere \cup {p}
  /\ plInfo' = [plInfo EXCEPT ![p] =
                 [nth |-> @.nth + 1, version |-> version, status |-> "installed", instance |-> instance]]
  /\ plUp' = [plUp EXCEPT ![p] = "new"]
  /\ plBase' = [plBase EXCEPT ![p] = {q \in (PlNeeds[p] \cap plThere) \ {p} : ~PlLeaving(q)}]
  /\ UNCHANGED plOp

PlIs(o, p) == p \in plThere /\ plInfo[p].nth = plOp[o].nth

PlAwaits(o, kind, p, at) ==
  plOp' = [plOp EXCEPT ![o] = [kind |-> kind, plugin |-> p, nth |-> plInfo[p].nth, at |-> at]]

PlStatus(p, status) == plInfo' = [plInfo EXCEPT ![p].status = status]

\* _check_dependencies: one that is missing, or not enabled, unless it is optional; or
\* there with a version that does not fit, optional or not.
PlDependenciesMet(p) ==
  /\ \A q \in PlNeeds[p] : q \in plThere /\ plInfo[q].status = "enabled"
  /\ \A q \in plThere : plInfo[q].version \in PlAccepts[p][q]

\* enable_plugin and load_plugin, which differ in config.enabled; nothing reads that.
PlEnable(o, p) ==
  /\ plOp[o].at = "idle" /\ p \in plThere /\ plInfo[p].status # "enabled"
  /\ IF PlDependenciesMet(p) /\ plInfo[p].instance
       THEN PlAwaits(o, "enable", p, "initialize") /\ UNCHANGED plInfo
       ELSE PlStatus(p, IF PlDependenciesMet(p) THEN "enabled" ELSE "error") /\ UNCHANGED plOp
  /\ UNCHANGED <<plThere, plUp, plBase>>

\* disable_plugin and unload_plugin.  They ask nobody who depends on the plugin.
PlDisable(o, p) ==
  /\ plOp[o].at = "idle" /\ p \in plThere
  /\ IF plInfo[p].instance
       THEN PlAwaits(o, "disable", p, "shutdown") /\ UNCHANGED plInfo
       ELSE PlStatus(p, "disabled") /\ UNCHANGED plOp
  /\ UNCHANGED <<plThere, plUp, plBase>>

PlReload(o, p) ==
  /\ plOp[o].at = "idle" /\ p \in plThere
  /\ IF plInfo[p].instance
       THEN PlAwaits(o, "reload", p, "shutdown") /\ PlStatus(p, "updating")
       ELSE PlStatus(p, "enabled") /\ UNCHANGED plOp
  /\ UNCHANGED <<plThere, plUp, plBase>>

\* uninstall_plugin refuses when another plugin that is registered needs this one.
PlDependents(p) == {q \in plThere \ {p} : p \in PlNeeds[q]}

PlUninstall(o, p) ==
  /\ plOp[o].at = "idle" /\ p \in plThere
  /\ PlDependents(p) = {}
  /\ IF plInfo[p].instance
       THEN PlAwaits(o, "uninstall", p, "shutdown") /\ UNCHANGED plThere
       ELSE plThere' = plThere \ {p} /\ UNCHANGED plOp
  /\ UNCHANGED <<plInfo, plUp, plBase>>

\* The hook that an operation awaits ends.  An exception makes the status ERROR; what
\* is written goes to the PluginInfo the operation began with, which may be replaced.
\* An uninstallation then removes what is registered now, whichever that is.
PlHookEnds(o, good) ==
  LET op == plOp[o]
      p == op.plugin
      again == op.kind = "reload" /\ op.at = "shutdown" /\ good
      status == IF ~good THEN "error" ELSE IF op.at = "initialize" THEN "enabled" ELSE "disabled"
  IN
  /\ op.at \in {"initialize", "shutdown"}
  /\ plOp' = [plOp EXCEPT ![o] = IF again THEN [@ EXCEPT !.at = "initialize"] ELSE PlNoOp]
  /\ plUp' = IF PlIs(o, p) /\ good
               THEN [plUp EXCEPT ![p] = IF op.at = "initialize" THEN "up" ELSE "down"] ELSE plUp
  /\ IF PlIs(o, p) /\ ~again THEN PlStatus(p, status) ELSE UNCHANGED plInfo
  /\ plThere' = IF op.kind = "uninstall" /\ good THEN plThere \ {p} ELSE plThere
  /\ UNCHANGED plBase

PlNext ==
  \/ \E p \in PlPlugin, v \in PlVersion, b \in BOOLEAN : PlRegister(p, v, b)
  \/ \E o \in PlOp, p \in PlPlugin : PlEnable(o, p) \/ PlDisable(o, p) \/ PlReload(o, p) \/ PlUninstall(o, p)
  \/ \E o \in PlOp, b \in BOOLEAN : PlHookEnds(o, b)
-----------------------------------------------------------------------------
PlOperation == [kind : {"enable", "disable", "reload", "uninstall"}, plugin : PlPlugin, nth : Nat,
                at : {"initialize", "shutdown"}]

PlTypeOK ==
  /\ plThere \subseteq PlPlugin
  /\ plInfo \in [PlPlugin -> [nth : Nat, version : Nat, instance : BOOLEAN,
                              status : {"installed", "enabled", "disabled", "error", "updating"}]]
  /\ plUp \in [PlPlugin -> {"new", "up", "down"}]
  /\ plOp \in [PlOp -> PlOperation \cup {PlNoOp}]
  /\ plBase \in [PlPlugin -> SUBSET PlPlugin]

PlReloads(p) == \E o \in PlOp : plOp[o].kind = "reload" /\ plOp[o].plugin = p /\ PlIs(o, p)

\* Whichever operations overlap: an enabled plugin with an instance is initialized and
\* not shut down again, unless it is being reloaded, and one that says it is updating is.
\* Nothing is said of the plugins it depends on: disable asks nobody who needs the
\* plugin, and reload checks no dependency.
PlEnabledIsUp ==
  \A p \in plThere :
    /\ plInfo[p].instance /\ plInfo[p].status = "enabled" => plUp[p] = "up" \/ PlReloads(p)
    /\ plInfo[p].status = "updating" => PlReloads(p)

\* A plugin is not removed under one that needs it, except one that was registered
\* while it was being removed.
PlUninstallSafe == \A p \in plThere : plBase[p] \subseteq plThere

PlSound == PlEnabledIsUp /\ PlUninstallSafe
=============================================================================
