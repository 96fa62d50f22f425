------------------------------- MODULE Deploy -------------------------------
(***************************************************************************)
(* deploy/systemd.go and deploy/release.go: InstallService,                *)
(* UninstallService and UpdateService, one invocation of the binary at a   *)
(* time, as sequences of commands to systemd and dpkg.  An invocation can  *)
(* be interrupted between two commands, the host can reboot, the service   *)
(* can die and be restarted by systemd (Restart=on-failure) or be stopped, *)
(* the package can be put on hold, and a new release can be published at   *)
(* any time.  The binary is the packaged one, so nothing can be invoked    *)
(* while the package is not installed.                                     *)
(***************************************************************************)
EXTENDS Integers

CONSTANTS
    Configs,     \* ServiceConfigs: port, interval, user, config path
    NoUnit,      \* no unit file, or no unit known to systemd
    Torn,        \* a unit file whose writing failed half way
    MaxRelease,  \* bound on published releases
    Failing      \* the commands that may fail

Commands == {"check", "write", "reload", "enable", "disable", "remove", "unload", "status",
             "dpkg", "fetch", "restart"}

ASSUME UnitAssumption == NoUnit \notin Configs /\ Torn \notin Configs /\ NoUnit # Torn
ASSUME DeployBoundsAssumption == MaxRelease \in Nat \ {0} /\ Failing \subseteq Commands

VARIABLES
    unit,     \* content of the unit file
    loaded,   \* the unit as systemd last loaded it
    enabled,  \* whether the unit is enabled
    service,  \* the running exporter, [cfg, ver], or NoService
    pkg,      \* version of the package's files, 0 for none
    odd,      \* whether dpkg's status of it is not "install ok installed"
    release,  \* latest published version
    op,       \* the invocation: "install", "uninstall", "update"
    cfg,      \* its ServiceConfig
    target,   \* the version UpdateService downloaded
    pc,       \* the next command, "done" (success was printed) or "idle"
    ignored   \* history: failures UninstallService went past, until made good

host == <<unit, loaded, enabled, service, pkg, odd>>
deployVars == <<host, release, op, cfg, target, pc, ignored>>

NoService == [cfg |-> NoUnit, ver |-> 0]

\* The unit systemd starts the service from: it keeps a unit loaded while it
\* runs or is enabled, and reads the file of one that is not loaded.
Known == IF loaded = NoUnit \/ (service = NoService /\ ~enabled) THEN unit ELSE loaded

Running(u, v) == IF u \in Configs /\ v # 0 THEN [cfg |-> u, ver |-> v] ELSE NoService

CanFail(c) == c \in Failing

DeployTypeOK ==
    /\ unit \in Configs \union {NoUnit, Torn}
    /\ loaded \in Configs \union {NoUnit, Torn}
    /\ enabled \in BOOLEAN
    /\ service = NoService \/ service \in [cfg : Configs, ver : 1..MaxRelease]
    /\ pkg \in 0..MaxRelease /\ release \in 1..MaxRelease /\ target \in 0..MaxRelease
    /\ odd \in BOOLEAN
    /\ pc \in {"idle", "done"} \union Commands
    /\ ignored \subseteq {"disable", "unload", "status"}

DeployInit ==
    /\ unit = NoUnit /\ loaded = NoUnit /\ enabled = FALSE /\ service = NoService
    /\ pkg = 1 /\ odd = FALSE /\ release = 1
    /\ op = "install" /\ cfg = NoUnit /\ target = 0 /\ pc = "idle" /\ ignored = {}

-----------------------------------------------------------------------------
(* The host *)

Publish ==
    /\ release < MaxRelease
    /\ release' = release + 1
    /\ UNCHANGED <<host, op, cfg, target, pc, ignored>>

\* The administrator installs the latest package.
DpkgInstall ==
    /\ pkg = 0 /\ pc = "idle"
    /\ pkg' = release
    /\ odd' = FALSE
    /\ UNCHANGED <<unit, loaded, enabled, service, release, op, cfg, target, pc, ignored>>

\* The administrator puts the package on hold or releases it, or dpkg leaves it
\* half-configured or repairs it.
SetPackageStatus ==
    /\ pkg # 0 /\ pc = "idle"
    /\ odd' = ~odd
    /\ UNCHANGED <<unit, loaded, enabled, service, pkg, release, op, cfg, target, pc, ignored>>

\* The exporter is stopped by hand or exits cleanly, which Restart=on-failure
\* does not undo; not between a reported success and its reader.
Stop ==
    /\ service # NoService /\ pc # "done"
    /\ service' = NoService
    /\ UNCHANGED <<unit, loaded, enabled, pkg, odd, release, op, cfg, target, pc, ignored>>

\* systemd restarts an exporter that died, from the unit it has loaded.  The
\* five seconds it waits are not told from running: a start or a restart in
\* them is one right after the respawn, a stop one right before it.
Respawn ==
    /\ service # NoService
    /\ service' = Running(loaded, pkg)
    /\ UNCHANGED <<unit, loaded, enabled, pkg, odd, release, op, cfg, target, pc, ignored>>

Reboot ==
    /\ loaded' = unit
    /\ service' = IF enabled THEN Running(unit, pkg) ELSE NoService
    /\ pc' = "idle"
    /\ ignored' = ignored \ {"unload"}
    /\ UNCHANGED <<unit, enabled, pkg, odd, release, op, cfg, target>>

\* The invocation is interrupted.
InterruptCommand ==
    /\ pc # "idle"
    /\ pc' = "idle"
    /\ UNCHANGED <<host, release, op, cfg, target, ignored>>

-----------------------------------------------------------------------------
(* An invocation *)

Invoke(o, c) ==
    /\ pc = "idle"
    /\ pkg # 0
    /\ op' = o /\ cfg' = c /\ target' = 0
    /\ pc' = "check"
    /\ UNCHANGED <<host, release, ignored>>

\* The command fails, which changes nothing, and the function returns its error.
FailAt(c) ==
    /\ pc = c
    /\ CanFail(c)
    /\ pc' = "idle"
    /\ UNCHANGED <<host, release, op, cfg, target, ignored>>

\* Platform, privileges, tools and the service user.
Check ==
    /\ pc = "check"
    /\ pc' = CASE op = "install" -> "write" [] op = "uninstall" -> "disable" [] op = "update" -> "fetch"
    /\ UNCHANGED <<host, release, op, cfg, target, ignored>>

writeUnit ==
    /\ pc = "write"
    /\ unit' = cfg
    /\ pc' = "reload"
    /\ UNCHANGED <<loaded, enabled, service, pkg, odd, release, op, cfg, target, ignored>>

\* os.WriteFile truncates first: a failed write leaves part of the file.
writeUnitFails ==
    /\ pc = "write"
    /\ CanFail("write")
    /\ unit' = Torn
    /\ pc' = "idle"
    /\ UNCHANGED <<loaded, enabled, service, pkg, odd, release, op, cfg, target, ignored>>

\* Mutation: the file is written and enabled without daemon-reload.
DaemonReload_Skipped ==
    /\ pc = "reload"
    /\ pc' = "enable"
    /\ UNCHANGED <<host, release, op, cfg, target, ignored>>

\* systemctl enable reloads the units too; InstallService does not rely on it
\* and neither does EnableNow.
DaemonReload ==
    /\ pc = "reload"
    /\ loaded' = unit
    /\ pc' = "enable"
    /\ ignored' = ignored \ {"unload"}
    /\ UNCHANGED <<unit, enabled, service, pkg, odd, release, op, cfg, target>>

\* enable --now: a service that is already running is left alone.
EnableNow ==
    /\ pc = "enable"
    /\ enabled' = TRUE
    /\ service' = IF service = NoService THEN Running(loaded, pkg) ELSE service
    /\ pc' = "done"
    /\ UNCHANGED <<unit, loaded, pkg, odd, release, op, cfg, target, ignored>>

\* enable --now fails before or after it has enabled the unit.
EnableFails ==
    /\ pc = "enable"
    /\ CanFail("enable")
    /\ enabled' \in {enabled, TRUE}
    /\ pc' = "idle"
    /\ UNCHANGED <<unit, loaded, service, pkg, odd, release, op, cfg, target, ignored>>

\* Mutation: the unit is only disabled; the service runs on.
DisableNow_NotNow ==
    /\ pc = "disable"
    /\ enabled' = FALSE
    /\ pc' = "remove"
    /\ UNCHANGED <<unit, loaded, service, pkg, odd, release, op, cfg, target, ignored>>

\* disable --now
DisableNow ==
    /\ pc = "disable"
    /\ unit # NoUnit
    /\ enabled' = FALSE
    /\ service' = NoService
    /\ pc' = "remove"
    /\ ignored' = ignored \ {"disable"}
    /\ UNCHANGED <<unit, loaded, pkg, odd, release, op, cfg, target>>

\* disable --now fails for a unit without a file; it can fail for any other,
\* before or after it has disabled the unit.  UninstallService goes on.
DisableFails ==
    /\ pc = "disable"
    /\ \/ unit = NoUnit /\ UNCHANGED <<enabled, ignored>>
       \/ /\ CanFail("disable")
          /\ enabled' \in {enabled, FALSE}
          /\ ignored' = ignored \union {"disable"}
    /\ pc' = "remove"
    /\ UNCHANGED <<unit, loaded, service, pkg, odd, release, op, cfg, target>>

removeIfPresent ==
    /\ pc = "remove"
    /\ unit' = NoUnit
    /\ pc' = "unload"
    /\ UNCHANGED <<loaded, enabled, service, pkg, odd, release, op, cfg, target, ignored>>

\* daemon-reload and reset-failed after the removal; errors are ignored.
ReloadRemoved ==
    /\ pc = "unload"
    /\ \/ loaded' = unit /\ ignored' = ignored \ {"unload"}
       \/ CanFail("unload") /\ ignored' = ignored \union {"unload"} /\ UNCHANGED loaded
    /\ pc' = "status"
    /\ UNCHANGED <<unit, enabled, service, pkg, odd, release, op, cfg, target>>

\* dpkg -s says "install ok installed".
dpkgInstalled ==
    /\ pc = "status"
    /\ ~odd
    /\ pc' = "dpkg"
    /\ UNCHANGED <<host, release, op, cfg, target, ignored>>

\* dpkg is not found, dpkg -s fails or prints another status: the removal is
\* skipped and success is reported all the same.
KeepPackage ==
    /\ pc = "status"
    /\ \/ odd /\ ignored' = ignored \ {"status"}
       \/ CanFail("status") /\ ignored' = ignored \union {"status"}
    /\ pc' = "done"
    /\ UNCHANGED <<host, release, op, cfg, target>>

DpkgRemove ==
    /\ pc = "dpkg" /\ op = "uninstall"
    /\ pkg' = 0
    /\ pc' = "done"
    /\ ignored' = ignored \ {"status"}
    /\ UNCHANGED <<unit, loaded, enabled, service, odd, release, op, cfg, target>>

\* latestRelease, pickDebAsset and downloadFile.
Fetch ==
    /\ pc = "fetch"
    /\ target' = release
    /\ pc' = "dpkg"
    /\ UNCHANGED <<host, release, op, cfg, ignored>>

\* dpkg -i may set a package on hold to be installed again.
DpkgUpdate ==
    /\ pc = "dpkg" /\ op = "update"
    /\ pkg' = target
    /\ odd' \in {odd, FALSE}
    /\ pc' = "restart"
    /\ UNCHANGED <<unit, loaded, enabled, service, release, op, cfg, target, ignored>>

\* dpkg -i or dpkg -r fails, perhaps half way: the files may be the new ones,
\* or gone, and the package half-configured.
DpkgFails ==
    /\ pc = "dpkg"
    /\ CanFail("dpkg")
    /\ pkg' \in {pkg, IF op = "update" THEN target ELSE 0}
    /\ odd' \in {odd, TRUE}
    /\ pc' = "idle"
    /\ UNCHANGED <<unit, loaded, enabled, service, release, op, cfg, target, ignored>>

\* Mutation: the service is started, which does nothing if it runs.
Restart_StartOnly ==
    /\ pc = "restart"
    /\ Known \in Configs
    /\ loaded' = Known
    /\ service' = IF service = NoService THEN Running(Known, pkg) ELSE service
    /\ pc' = "done"
    /\ UNCHANGED <<unit, enabled, pkg, odd, release, op, cfg, target, ignored>>

Restart ==
    /\ pc = "restart"
    /\ Known \in Configs
    /\ loaded' = Known
    /\ service' = Running(Known, pkg)
    /\ pc' = "done"
    /\ UNCHANGED <<unit, enabled, pkg, odd, release, op, cfg, target, ignored>>

\* systemd knows no usable unit of that name: the restart fails.
RestartUnknown ==
    /\ pc = "restart"
    /\ Known \notin Configs
    /\ pc' = "idle"
    /\ UNCHANGED <<host, release, op, cfg, target, ignored>>

\* The restart fails before or after it has stopped the service.
RestartFails ==
    /\ pc = "restart"
    /\ CanFail("restart")
    /\ service' \in {service, NoService}
    /\ pc' = "idle"
    /\ UNCHANGED <<unit, loaded, enabled, pkg, odd, release, op, cfg, target, ignored>>

DeployNext ==
    \/ Publish \/ DpkgInstall \/ SetPackageStatus
    \/ Stop \/ Respawn \/ Reboot \/ InterruptCommand
    \/ \E c \in Configs : Invoke("install", c)
    \/ Invoke("uninstall", NoUnit) \/ Invoke("update", NoUnit)
    \/ \E c \in {"check", "reload", "remove", "fetch"} : FailAt(c)
    \/ Check
    \/ writeUnit \/ writeUnitFails \/ DaemonReload \/ EnableNow \/ EnableFails
    \/ DisableNow \/ DisableFails \/ removeIfPresent \/ ReloadRemoved
    \/ dpkgInstalled \/ KeepPackage \/ DpkgRemove
    \/ Fetch \/ DpkgUpdate \/ DpkgFails \/ Restart \/ RestartUnknown \/ RestartFails

DeploySpec == DeployInit /\ [][DeployNext]_deployVars

-----------------------------------------------------------------------------
(* Properties *)

\* When InstallService reports success the unit of this invocation is on disk,
\* loaded and enabled, and the service runs, whatever earlier invocations left
\* behind (systemd.go:157-173).
InstallTakesHold ==
    (pc = "done" /\ op = "install") =>
        unit = cfg /\ loaded = cfg /\ enabled /\ service # NoService

\* When UpdateService reports success the running exporter is the version it
\* downloaded (release.go:131-135).
UpdateTakesEffect ==
    (pc = "done" /\ op = "update") => service.ver = target /\ pkg = target

\* When UninstallService reports success the unit file is gone, and whatever
\* else is left is left for a reason the function went past: the running
\* service, its enablement or the loaded unit by a command whose failure was
\* ignored, the package by a status that is not "install ok installed" or could
\* not be read.  None is left by an interruption or by what earlier invocations
\* did (systemd.go:190-194, 213-237; release.go:191-202).
UninstallLeavesNothing ==
    (pc = "done" /\ op = "uninstall") =>
        /\ unit = NoUnit
        /\ "disable" \in ignored \/ (~enabled /\ service = NoService)
        /\ "unload" \in ignored \/ loaded = NoUnit
        /\ pkg = 0 \/ odd \/ "status" \in ignored

\* "The exporter is running on port %d": the service runs with the
\* configuration of the invocation that says so (systemd.go:170).
InstallRunsConfig ==
    (pc = "done" /\ op = "install") => service.cfg = cfg
=============================================================================
