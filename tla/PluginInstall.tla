---------------------------- MODULE PluginInstall ----------------------------
(***************************************************************************)
(* A plugin of a Worker, on its disk and in its memory: what the jobs      *)
(* plugin_install, plugin_uninstall and plugin_set_enabled do              *)
(* (worker/src/runner.ts, plugins/manager.ts, plugins/installer.ts), what  *)
(* the registry holds (plugins/registry.ts), and what a restart makes of   *)
(* the disk (plugins/defaults.ts, plugins/manifest.ts).                    *)
(*                                                                         *)
(* Plugins share nothing but the Worker's life, so one is enough.  The     *)
(* jobs run side by side in one Node process: what a job does between two  *)
(* awaits is one step.  An entry of the registry is an object, its         *)
(* adapter, that a job may still hold when the registry has another one.   *)
(***************************************************************************)
EXTENDS Naturals, FiniteSets

CONSTANTS
    Jobs,        \* the jobs that may run at once
    Versions,    \* versions that may be installed
    MaxCrashes   \* bound on ends of the Worker in the middle of anything

ASSUME InstallAssumption ==
    /\ IsFiniteSet(Jobs) /\ Jobs # {} /\ MaxCrashes \in Nat
    /\ {"none", "packaged"} \cap Versions = {}

Packaged == "packaged"  \* the version of the bundled plugin, its files the Worker's own
None == "none"
Slots == 1 .. 2 + Cardinality(Jobs)  \* a bound on the adapters of one plugin

VARIABLES
    bundled,     \* the plugin is the one that comes with the Worker
    boot,        \* the Worker: "down", "provision", "mark", "load", "up"
    manifest,    \* plugins.d/<id>.json
    dir,         \* plugins/<id>: the versions whose files are in it
    tmp,         \* plugins.d/<id>.json.tmp-<pid>, a manifest
    provisioned, \* plugin-defaults.json names the bundled plugin
    registry,    \* the registered adapter, or 0
    entry,       \* the adapters: version, enabled, has a process
    job,         \* the jobs
    crashes,
    tangled,     \* history: two jobs ran at once
    hurt         \* history: a job failed or was interrupted on the way

vars == <<bundled, boot, manifest, dir, tmp, provisioned, registry, entry, job, crashes,
          tangled, hurt>>
disk == <<bundled, manifest, dir, tmp, provisioned>>
worker == <<bundled, boot, provisioned, crashes>>

AllVersions == Versions \cup {Packaged}
\* What may be wrong with the manifest of a package.
Flaws == {None, "schema", "path"}
Manifest(version, enabled, flaw) == [version |-> version, enabled |-> enabled, flaw |-> flaw]
NoManifest == Manifest(None, FALSE, None)
NoEntry == [version |-> None, enabled |-> FALSE, up |-> FALSE]
Idle == [op |-> None, version |-> None, flaw |-> None, pc |-> "idle", held |-> 0,
         canceled |-> FALSE]

Active(j) == job[j].pc # "idle"
Quiet == \A j \in Jobs : ~Active(j)
\* The files a manifest of this version needs are there, and no others.
Whole(v) == v = Packaged \/ dir = {v}

Goto(j, pc) == job' = [job EXCEPT ![j].pc = pc]
Finish(j) == job' = [job EXCEPT ![j] = Idle]
Stopped(e) == IF e = 0 THEN entry ELSE [entry EXCEPT ![e].up = FALSE]
Held(j) == entry[job[j].held]
Free(e) == entry[e] = NoEntry

\* validateManifest: of a package when its manifest is rendered, and of what is
\* on the disk at every start.
ValidManifest(flaw) == flaw # "schema"
RendersManifest(flaw) == ValidManifest(flaw)
\* enforceCommandPaths.
CommandPathsInside(flaw) == flaw # "path"

\* What is left of adapters when those that nothing refers to are forgotten.
Adapters(en) == entry' = [e \in Slots |->
    IF en[e].up \/ registry' = e \/ \E j \in Jobs : job'[j].held = e THEN en[e] ELSE NoEntry]

Init ==
    /\ boot = "down"
    /\ bundled \in BOOLEAN
    /\ manifest = NoManifest /\ dir = {} /\ tmp = NoManifest /\ provisioned = FALSE
    /\ registry = 0 /\ entry = [e \in Slots |-> NoEntry]
    /\ job = [j \in Jobs |-> Idle]
    /\ crashes = 0 /\ tangled = FALSE /\ hurt = FALSE

(***************************************************************************)
(* The start of the Worker: provisionDefaultPlugins, loadManifests.        *)
(***************************************************************************)
Start ==
    /\ boot = "down"
    /\ boot' = IF provisioned \/ ~bundled THEN "load"
               ELSE IF manifest # NoManifest THEN "mark" ELSE "provision"
    /\ UNCHANGED <<disk, registry, entry, job, crashes, tangled, hurt>>

Provision ==
    /\ boot = "provision" /\ boot' = "mark"
    /\ manifest' = Manifest(Packaged, TRUE, None)
    /\ UNCHANGED <<bundled, dir, tmp, provisioned, registry, entry, job, crashes, tangled,
                   hurt>>

MarkProvisioned ==
    /\ boot = "mark" /\ boot' = "load"
    /\ provisioned' = TRUE
    /\ UNCHANGED <<bundled, manifest, dir, tmp, registry, entry, job, crashes, tangled, hurt>>

Loadable == manifest # NoManifest /\ ValidManifest(manifest.flaw)

\* A valid manifest gets an entry; enabled, its adapter starts if its files are
\* there.
Load ==
    /\ boot = "load" /\ boot' = "up"
    /\ registry' = IF Loadable THEN 1 ELSE 0
    /\ entry' = [e \in Slots |->
          IF e # registry' THEN NoEntry
          ELSE [version |-> manifest.version, enabled |-> manifest.enabled,
                up |-> manifest.enabled /\ Whole(manifest.version)]]
    /\ UNCHANGED <<disk, job, crashes, tangled, hurt>>

\* The Worker ends, with its jobs, its memory and its plugins' processes; the
\* next one has another pid and never looks at the temporary manifests.
Crash ==
    /\ boot # "down" /\ crashes < MaxCrashes
    /\ boot' = "down" /\ crashes' = crashes + 1
    /\ job' = [j \in Jobs |-> Idle] /\ tmp' = NoManifest
    /\ registry' = 0 /\ entry' = [e \in Slots |-> NoEntry]
    /\ hurt' = (hurt \/ ~Quiet)
    /\ UNCHANGED <<bundled, manifest, dir, provisioned, tangled>>

(***************************************************************************)
(* A job is claimed, and may be canceled while it runs.                    *)
(***************************************************************************)
Claim(j) ==
    /\ boot = "up" /\ ~Active(j)
    /\ \/ \E op \in {"uninstall", "enable", "disable"} :
             job' = [job EXCEPT ![j] = [Idle EXCEPT !.op = op, !.pc = "claimed"]]
       \/ \E v \in Versions, flaw \in Flaws :
             job' = [job EXCEPT ![j] = [Idle EXCEPT !.op = "install", !.pc = "claimed",
                                          !.version = v, !.flaw = flaw]]
    /\ tangled' = (tangled \/ ~Quiet)
    /\ Quiet \/ ~tangled  \* a bound: jobs overlap once
    /\ UNCHANGED <<disk, boot, registry, entry, crashes, hurt>>

\* A set_enabled job takes no notice of it.
Cancel(j) ==
    /\ job[j].op \in {"install", "uninstall"} /\ ~job[j].canceled
    /\ job' = [job EXCEPT ![j].canceled = TRUE]
    /\ UNCHANGED <<disk, boot, registry, entry, crashes, tangled, hurt>>

\* A mutant: the old adapter is not stopped.
BeginInstallBesides(j) ==
    /\ job[j].pc = "claimed" /\ job[j].op = "install"
    /\ IF job[j].canceled THEN Finish(j)
       ELSE job' = [job EXCEPT ![j].pc = "check", ![j].held = registry]
    /\ UNCHANGED <<disk, worker, registry, tangled, hurt>>
    /\ Adapters(entry)

(***************************************************************************)
(* install: the old adapter stops, then installPlugin, then the registry.  *)
(***************************************************************************)
BeginInstall(j) ==
    /\ job[j].pc = "claimed" /\ job[j].op = "install"
    /\ IF job[j].canceled THEN Finish(j)
       ELSE job' = [job EXCEPT ![j].pc = "check", ![j].held = registry]
    /\ UNCHANGED <<disk, worker, registry, tangled, hurt>>
    /\ Adapters(IF job[j].canceled THEN entry ELSE Stopped(registry))

\* The URL and the checksum are looked at when the adapter has stopped: a job
\* that ends here has touched nothing on the disk.
Check(j) ==
    /\ job[j].pc = "check"
    /\ \/ ~job[j].canceled /\ Goto(j, "download")
       \/ Finish(j)
    /\ UNCHANGED <<disk, worker, registry, tangled, hurt>>
    /\ Adapters(entry)

\* A step in a temporary directory of the job's own, which may fail.
Attempt(j, pc, next, canceled) ==
    /\ job[j].pc = pc
    /\ \/ ~canceled /\ Goto(j, next)
       \/ Goto(j, "cleanup")
    /\ UNCHANGED <<disk, worker, registry, tangled, hurt>>
    /\ Adapters(entry)

\* Redirects, the size and the 60 seconds are limited, and an abort ends it.
Download(j) == Attempt(j, "download", "verify", job[j].canceled)
\* The checksum is compared; an abort is not looked at.
Verify(j) == Attempt(j, "verify", "extract", FALSE)
Extract(j) == Attempt(j, "extract", "inspect", job[j].canceled)
\* No member and no link of the tree leads out of it.
AssertNoPathTraversal(j) == Attempt(j, "inspect", "remove", FALSE)

\* A mutant: the new files go into the directory of the old ones.
RemoveNothing(j) ==
    /\ job[j].pc = "remove"
    /\ Goto(j, "promote")
    /\ UNCHANGED <<disk, worker, registry, tangled, hurt>>
    /\ Adapters(entry)

RemoveOld(j) ==
    /\ job[j].pc = "remove"
    /\ dir' = {}
    /\ Goto(j, "promote")
    /\ UNCHANGED <<manifest, tmp, worker, registry, tangled, hurt>>
    /\ Adapters(entry)

\* The extracted tree is renamed, or copied into what is there by now.
Promote(j) ==
    /\ job[j].pc = "promote"
    /\ dir' = dir \cup {job[j].version}
    /\ Goto(j, "render")
    /\ UNCHANGED <<manifest, tmp, worker, registry, tangled, hurt>>
    /\ Adapters(entry)

\* The manifest of the package is accepted and written beside its place; all
\* jobs of a plugin use one name there.
Render(j) ==
    /\ job[j].pc = "render"
    /\ IF RendersManifest(job[j].flaw) /\ CommandPathsInside(job[j].flaw)
       THEN Goto(j, "publish") /\ tmp' = Manifest(job[j].version, TRUE, job[j].flaw)
       ELSE Goto(j, "cleanup") /\ tmp' = tmp
    /\ UNCHANGED <<manifest, dir, worker, registry, tangled, hurt>>
    /\ Adapters(entry)

Publish(j) ==
    /\ job[j].pc = "publish"
    /\ IF tmp = NoManifest
       THEN Goto(j, "cleanup") /\ UNCHANGED <<manifest, tmp>>
       ELSE /\ manifest' = tmp
            /\ tmp' = NoManifest
            /\ Goto(j, "register")
    /\ UNCHANGED <<dir, worker, registry, tangled, hurt>>
    /\ Adapters(entry)

\* The entry of the plugin goes if there was one when the job began; with one
\* that came since, register throws, and the job fails with the plugin on disk.
Register(j) ==
    /\ job[j].pc = "register"
    /\ IF job[j].held = 0 /\ registry # 0
       THEN Finish(j) /\ registry' = registry /\ Adapters(entry)
       ELSE \E e \in Slots :
               /\ Free(e) /\ \A f \in Slots : Free(f) => e <= f
               /\ registry' = e
               /\ job' = [job EXCEPT ![j].pc = "starting", ![j].held = e]
               /\ Adapters([entry EXCEPT ![e] =
                              [version |-> job[j].version, enabled |-> TRUE, up |-> TRUE]])
    /\ UNCHANGED <<disk, worker, tangled, hurt>>

\* The handshake of the adapter of an install or an enable job succeeds, or
\* fails and leaves no process; what is installed stays either way.
Started(j) ==
    /\ job[j].pc = "starting"
    /\ Finish(j)
    /\ UNCHANGED <<disk, worker, registry, tangled, hurt>>
    /\ \/ Held(j).up /\ Whole(Held(j).version) /\ Adapters(entry)
       \/ Adapters(Stopped(job[j].held))

\* Any error since the download began removes the installation directory.
Cleanup(j) ==
    /\ job[j].pc = "cleanup"
    /\ dir' = {}
    /\ hurt' = TRUE
    /\ Finish(j)
    /\ UNCHANGED <<manifest, tmp, worker, registry, tangled>>
    /\ Adapters(entry)

(***************************************************************************)
(* uninstall: refused for the bundled plugin.                              *)
(***************************************************************************)
BeginUninstall(j) ==
    /\ job[j].pc = "claimed" /\ job[j].op = "uninstall"
    /\ IF job[j].canceled \/ bundled
       THEN Finish(j) /\ registry' = registry /\ Adapters(entry)
       ELSE Goto(j, "unpublish") /\ registry' = 0 /\ Adapters(Stopped(registry))
    /\ UNCHANGED <<disk, worker, tangled, hurt>>

RemoveManifest(j) ==
    /\ job[j].pc = "unpublish"
    /\ manifest' = NoManifest
    /\ Goto(j, "rmdir")
    /\ UNCHANGED <<dir, tmp, worker, registry, tangled, hurt>>
    /\ Adapters(entry)

RemoveDir(j) ==
    /\ job[j].pc = "rmdir"
    /\ dir' = {}
    /\ Finish(j)
    /\ UNCHANGED <<manifest, tmp, worker, registry, tangled, hurt>>
    /\ Adapters(entry)

(***************************************************************************)
(* setPluginEnabled: the manifest is read and written back, then the       *)
(* adapter the job holds starts or stops.                                  *)
(***************************************************************************)
BeginSetEnabled(j) ==
    /\ job[j].pc = "claimed" /\ job[j].op \in {"enable", "disable"}
    /\ IF registry = 0 THEN Finish(j)
       ELSE job' = [job EXCEPT ![j].pc = "read", ![j].held = registry]
    /\ UNCHANGED <<disk, worker, registry, tangled, hurt>>
    /\ Adapters(entry)

ReadManifest(j) ==
    /\ job[j].pc = "read"
    /\ IF manifest = NoManifest THEN Finish(j)
       ELSE job' = [job EXCEPT ![j].pc = "write", ![j].version = manifest.version,
                                    ![j].flaw = manifest.flaw]
    /\ UNCHANGED <<disk, worker, registry, tangled, hurt>>
    /\ Adapters(entry)

\* A mutant: the adapter starts or stops, and the entry keeps its old flag.
WriteEnabledOnDisk(j) ==
    /\ job[j].pc = "write"
    /\ LET on == job[j].op = "enable" IN
       /\ manifest' = Manifest(job[j].version, on, job[j].flaw)
       /\ IF on /\ ~Held(j).up THEN Goto(j, "starting") ELSE Finish(j)
       /\ registry' = registry
       /\ Adapters([entry EXCEPT ![job[j].held].up = on])
    /\ UNCHANGED <<dir, tmp, worker, tangled, hurt>>

WriteEnabled(j) ==
    /\ job[j].pc = "write"
    /\ LET on == job[j].op = "enable" IN
       /\ manifest' = Manifest(job[j].version, on, job[j].flaw)
       /\ IF on /\ ~Held(j).up THEN Goto(j, "starting") ELSE Finish(j)
       /\ registry' = registry
       /\ Adapters([entry EXCEPT ![job[j].held].enabled = on, ![job[j].held].up = on])
    /\ UNCHANGED <<dir, tmp, worker, tangled, hurt>>

(***************************************************************************)
(* The next-state relation.                                                *)
(***************************************************************************)
JobStep(j) ==
    \/ BeginInstall(j) \/ Check(j) \/ Download(j) \/ Verify(j) \/ Extract(j)
    \/ AssertNoPathTraversal(j) \/ RemoveOld(j) \/ Promote(j) \/ Render(j)
    \/ Publish(j) \/ Register(j) \/ Started(j) \/ Cleanup(j)
    \/ BeginUninstall(j) \/ RemoveManifest(j) \/ RemoveDir(j)
    \/ BeginSetEnabled(j) \/ ReadManifest(j) \/ WriteEnabled(j)

Next == \/ Start \/ Provision \/ MarkProvisioned \/ Load \/ Crash
        \/ \E j \in Jobs : Claim(j) \/ Cancel(j) \/ JobStep(j)

Spec == Init /\ [][Next]_vars
-----------------------------------------------------------------------------
JobRecord ==
    [op : {None, "install", "uninstall", "enable", "disable"}, flaw : Flaws,
     version : AllVersions \cup {None}, held : {0} \cup Slots, canceled : BOOLEAN,
     pc : {"idle", "claimed", "check", "download", "verify", "extract", "inspect", "remove",
           "promote", "render", "publish", "register", "starting", "cleanup", "unpublish",
           "rmdir", "read", "write"}]

TypeOK ==
    /\ boot \in {"down", "provision", "mark", "load", "up"} /\ job \in [Jobs -> JobRecord]
    /\ {bundled, provisioned, tangled, hurt} \subseteq BOOLEAN
    /\ {manifest, tmp} \subseteq
          {NoManifest} \cup [version : AllVersions, enabled : BOOLEAN, flaw : Flaws]
    /\ dir \subseteq Versions /\ registry \in {0} \cup Slots
    /\ entry \in [Slots -> {NoEntry} \cup
                   [version : AllVersions, enabled : BOOLEAN, up : BOOLEAN]]

Settled == boot = "up" /\ Quiet /\ ~tangled

\* What the registry offers is what a restart would load: a manifest has an
\* entry of its version and its enabled flag and an entry its manifest,
\* unless two jobs of the plugin ran at once.
RegistryMatchesDisk ==
    Settled => IF registry = 0 THEN manifest = NoManifest
               ELSE /\ manifest.version = entry[registry].version
                    /\ manifest.enabled = entry[registry].enabled

\* A plugin process belongs to the registered adapter of an enabled plugin: no
\* job leaves a process that stopPlugins does not reach.
NoStrayProcess ==
    ~tangled => \A e \in Slots : entry[e].up => registry = e /\ entry[e].enabled

\* A manifest has the files of its version and runs none but these, and files
\* without a manifest are left only where an installation failed or a job was
\* interrupted.
ManifestHasFiles ==
    Settled /\ ~hurt => IF manifest = NoManifest THEN dir = {}
                        ELSE Whole(manifest.version) /\ CommandPathsInside(manifest.flaw)
=============================================================================
