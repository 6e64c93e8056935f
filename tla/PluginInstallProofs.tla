------------------------- MODULE PluginInstallProofs -------------------------
(***************************************************************************)
(* Proofs about PluginInstall: one job of a plugin at a time, canceled,    *)
(* failing or cut off anywhere, leaves registry, manifest, files and       *)
(* processes in agreement, for any jobs, versions and ends of the Worker.  *)
(***************************************************************************)
EXTENDS PluginInstall, FiniteSetTheorems, TLAPS

Entry == [version : AllVersions, enabled : BOOLEAN, up : BOOLEAN]
InstallPc == {"check", "download", "verify", "extract", "inspect", "remove", "promote",
              "render", "publish", "register", "cleanup"}
HoldPc == {"read", "write", "starting"}

(***************************************************************************)
(* The inductive invariant.  First what holds whatever runs side by side.  *)
(***************************************************************************)
\* A job knows the version it installs or writes; an idle one knows nothing.
Informed ==
    \A j \in Jobs :
        /\ job[j].pc = "idle" => job[j] = Idle
        /\ job[j].pc \in InstallPc \/ (job[j].pc = "claimed" /\ job[j].op = "install")
              => job[j].version \in Versions
        /\ job[j].pc = "write" => job[j].version \in AllVersions /\ job[j].flaw = None
        /\ job[j].pc \in HoldPc => job[j].held # 0

\* An adapter that is registered or held by a job is not forgotten.
Kept ==
    /\ registry # 0 => entry[registry] \in Entry
    /\ \A j \in Jobs : job[j].held # 0 => entry[job[j].held] \in Entry

\* No manifest with a flaw gets onto the disk.
Flawless == manifest.flaw = None /\ tmp.flaw = None

\* A Worker that is not up has no jobs and no plugins in memory.
Blank ==
    boot # "up" => /\ \A j \in Jobs : job[j] = Idle
                   /\ registry = 0
                   /\ \A e \in Slots : entry[e] = NoEntry

(***************************************************************************)
(* Then what holds while jobs run one after another.                       *)
(***************************************************************************)
Alone == ~tangled => \A i, j \in Jobs : Active(i) /\ Active(j) => i = j

\* What a job has made true on its way.
Progress(j) ==
    /\ job[j].pc \in InstallPc => /\ job[j].held = registry
                                  /\ \A e \in Slots : ~entry[e].up
    /\ job[j].pc \in HoldPc => job[j].held = registry
    /\ job[j].pc = "write" => /\ manifest # NoManifest
                              /\ job[j].version = manifest.version
    /\ job[j].pc = "publish" => tmp = Manifest(job[j].version, TRUE, None)
    /\ job[j].pc = "register" => manifest = Manifest(job[j].version, TRUE, None)
    /\ job[j].pc \in {"unpublish", "rmdir"} => registry = 0
    /\ job[j].pc = "rmdir" => manifest = NoManifest
    /\ job[j].pc = "promote" /\ ~hurt => dir = {}
    /\ job[j].pc \in {"render", "publish", "register"} /\ ~hurt => dir = {job[j].version}

Agreed ==
    IF registry = 0 THEN manifest = NoManifest
    ELSE /\ manifest.version = entry[registry].version
         /\ manifest.enabled = entry[registry].enabled

Filed == IF manifest = NoManifest THEN dir = {} ELSE Whole(manifest.version)

\* Registry and manifest disagree, and files are missing, only while a job is
\* at certain places.
Orderly ==
    ~tangled =>
        /\ \A j \in Jobs : Progress(j)
        /\ boot = "up" => Agreed \/ \E j \in Jobs : job[j].pc \in {"register", "unpublish"}
        /\ \/ Filed \/ hurt
           \/ \E j \in Jobs : job[j].pc \in {"promote", "render", "publish", "cleanup",
                                            "unpublish", "rmdir"}
        /\ NoStrayProcess

InstallInv ==
    TypeOK /\ Informed /\ Kept /\ Flawless /\ Blank /\ Alone /\ Orderly

Entries == [Slots -> {NoEntry} \cup Entry]
Pcs == {"idle", "claimed", "starting", "unpublish", "rmdir", "read", "write"} \cup InstallPc
ManifestSet == {NoManifest} \cup [version : AllVersions, enabled : BOOLEAN, flaw : Flaws]

-----------------------------------------------------------------------------
(* Lemmas about slots, adapters and jobs. *)

(* Slots are numbered from one. *)
LEMMA SlotsFrom1 == 1 \in Slots /\ 0 \notin Slots
<1>1. Cardinality(Jobs) \in Nat
  BY InstallAssumption, FS_CardinalityType
<1>2. QED
  BY <1>1 DEF Slots

(* No version is that of a manifest or an entry that is not there. *)
LEMMA NoneIsNoVersion == None \notin AllVersions /\ NoEntry \notin Entry
BY InstallAssumption DEF None, Packaged, AllVersions, NoEntry, Entry

(* TypeOK with the sets above. *)
LEMMA Types ==
    ASSUME TypeOK
    PROVE  /\ entry \in Entries /\ job \in [Jobs -> JobRecord]
           /\ registry \in {0} \cup Slots /\ manifest \in ManifestSet /\ tmp \in ManifestSet
           /\ dir \subseteq Versions /\ hurt \in BOOLEAN
BY DEF TypeOK, Entries, Entry, ManifestSet

(* Adapters forgets what is neither registered nor held nor runs. *)
LEMMA AdaptersForget ==
    ASSUME NEW en \in Entries, Adapters(en)
    PROVE  /\ entry' \in Entries
           /\ \A e \in Slots : entry'[e].up = en[e].up
           /\ \A e \in Slots : registry' = e => entry'[e] = en[e]
           /\ \A j \in Jobs :
                 job'[j].held \in Slots => entry'[job'[j].held] = en[job'[j].held]
<1>1. NoEntry.up = FALSE
  BY DEF NoEntry
<1>2. \A e \in Slots : en[e].up \in BOOLEAN
  BY <1>1 DEF Entries, Entry
<1>3. QED
  BY <1>1, <1>2 DEF Adapters, Entries

(* Stopping an adapter changes nothing else of it. *)
LEMMA StoppedStops ==
    ASSUME entry \in Entries, NEW e \in {0} \cup Slots, e # 0 => entry[e] \in Entry
    PROVE  /\ Stopped(e) \in Entries
           /\ \A f \in Slots : f # e => Stopped(e)[f] = entry[f]
           /\ e # 0 => /\ Stopped(e)[e] \in Entry /\ ~Stopped(e)[e].up
                       /\ Stopped(e)[e].version = entry[e].version
                       /\ Stopped(e)[e].enabled = entry[e].enabled
<1>1. CASE e = 0
  BY <1>1, SlotsFrom1 DEF Stopped
<1>2. CASE e # 0
  <2>1. PICK s \in Entry : s = [entry[e] EXCEPT !.up = FALSE]
    BY <1>2 DEF Entry
  <2>2. Stopped(e) = [entry EXCEPT ![e] = s]
    BY <1>2, <2>1 DEF Stopped
  <2>3. s.up = FALSE /\ s.version = entry[e].version /\ s.enabled = entry[e].enabled
    BY <1>2, <2>1 DEF Entry
  <2>4. QED
    BY <1>2, <2>2, <2>3 DEF Entries
<1>3. QED
  BY <1>1, <1>2

(* A job goes on ... *)
LEMMA GotoMoves ==
    ASSUME TypeOK, NEW j \in Jobs, NEW pc \in Pcs, Goto(j, pc)
    PROVE  /\ job' = [job EXCEPT ![j] = job'[j]] /\ job'[j] \in JobRecord
           /\ job'[j].pc = pc /\ job'[j].op = job[j].op
      /\ job'[j].version = job[j].version
           /\ job'[j].flaw = job[j].flaw /\ job'[j].held = job[j].held
<1>1. job[j] \in JobRecord /\ job \in [Jobs -> JobRecord]
  BY DEF TypeOK
<1>2. PICK k \in JobRecord : k = [job[j] EXCEPT !.pc = pc]
  BY <1>1 DEF JobRecord, Pcs, InstallPc
<1>3. job' = [job EXCEPT ![j] = k]
  BY <1>2 DEF Goto
<1>4. /\ k.pc = pc /\ k.op = job[j].op /\ k.version = job[j].version
      /\ k.flaw = job[j].flaw /\ k.held = job[j].held
  BY <1>1, <1>2 DEF JobRecord
<1>5. QED
  BY <1>1, <1>3, <1>4

(* ... or ends. *)
LEMMA FinishMoves ==
    ASSUME TypeOK, NEW j \in Jobs, Finish(j)
    PROVE  /\ job' = [job EXCEPT ![j] = job'[j]] /\ job'[j] \in JobRecord
           /\ job'[j] = Idle /\ job'[j].pc = "idle" /\ job'[j].held = 0
<1>1. Idle \in JobRecord /\ Idle.pc = "idle" /\ Idle.held = 0
  BY DEF Idle, JobRecord, Flaws, None
<1>2. job \in [Jobs -> JobRecord] /\ job' = [job EXCEPT ![j] = Idle]
  BY DEF TypeOK, Finish
<1>3. QED
  BY <1>1, <1>2

(***************************************************************************)
(* A step of the job j that leaves the other jobs alone, with the adapters *)
(* en before Adapters forgets any: what has to be shown of it.             *)
(***************************************************************************)
StepOf(j, en) ==
    /\ job' = [job EXCEPT ![j] = job'[j]] /\ job'[j] \in JobRecord
    /\ Adapters(en) /\ UNCHANGED <<bundled, boot, provisioned, tangled>>
    /\ registry' \in {0} \cup Slots
    /\ manifest' \in ManifestSet /\ tmp' \in ManifestSet /\ dir' \subseteq Versions
    /\ hurt' \in BOOLEAN /\ (hurt => hurt')
    /\ manifest'.flaw = None /\ tmp'.flaw = None
    /\ job'[j].pc = "idle" => job'[j] = Idle
    /\ job'[j].pc \in InstallPc \/ (job'[j].pc = "claimed" /\ job'[j].op = "install")
          => job'[j].version \in Versions
    /\ job'[j].pc = "write" => job'[j].version \in AllVersions /\ job'[j].flaw = None
    /\ job'[j].pc \in HoldPc => job'[j].held # 0
    /\ registry' # 0 => en[registry'] \in Entry
    /\ job'[j].held # 0 => en[job'[j].held] \in Entry
    /\ \A i \in Jobs \ {j} : job[i].held # 0 => en[job[i].held] \in Entry

OrderlyStepOf(j, en) ==
    /\ Progress(j)'
    /\ Agreed' \/ job'[j].pc \in {"register", "unpublish"}
    /\ Filed' \/ hurt' \/ job'[j].pc \in {"promote", "render", "publish", "cleanup",
                                          "unpublish", "rmdir"}
    /\ \A e \in Slots : en[e].up => registry' = e /\ en[e].enabled

(* A job under way that takes such a step keeps the invariant. *)
LEMMA Frame ==
    ASSUME InstallInv, NEW j \in Jobs, Active(j), NEW en \in Entries, StepOf(j, en),
           ~tangled => OrderlyStepOf(j, en)
    PROVE  InstallInv'
<1>1. /\ entry' \in Entries
      /\ \A e \in Slots : entry'[e].up = en[e].up
      /\ \A e \in Slots : registry' = e => entry'[e] = en[e]
      /\ \A i \in Jobs : job'[i].held \in Slots => entry'[job'[i].held] = en[job'[i].held]
  BY AdaptersForget DEF StepOf
<1>2. job \in [Jobs -> JobRecord] /\ job' \in [Jobs -> JobRecord]
  BY DEF StepOf, InstallInv, TypeOK
<1>3. \A i \in Jobs \ {j} : job'[i] = job[i]
  BY <1>2 DEF StepOf
<1>4. boot = "up" /\ boot' = "up"
  BY DEF Active, InstallInv, Blank, Idle, StepOf
<1>5. TypeOK'
  BY <1>1, <1>2, <1>4 DEF StepOf, InstallInv, TypeOK, Entries, Entry, ManifestSet
<1>6. Informed'
  BY <1>3 DEF StepOf, InstallInv, Informed
<1>7. Kept'
  <2>1. registry' # 0 => entry'[registry'] \in Entry
    BY <1>1 DEF StepOf
  <2>2. \A i \in Jobs : job'[i].held \in {0} \cup Slots
    BY <1>2 DEF JobRecord
  <2>3. \A i \in Jobs : job'[i].held # 0 => en[job'[i].held] \in Entry
    BY <1>3 DEF StepOf
  <2>4. QED
    BY <1>1, <2>1, <2>2, <2>3 DEF Kept
<1>8. Flawless' /\ Blank'
  BY <1>4 DEF StepOf, Flawless, Blank
<1>9. Alone'
  BY <1>3 DEF StepOf, InstallInv, Alone, Active
<1>10. Orderly'
  <2>1. SUFFICES ASSUME ~tangled PROVE Orderly'
    BY DEF Orderly, StepOf
  <2>2. OrderlyStepOf(j, en)
    BY <2>1
  <2>3. \A i \in Jobs \ {j} : job'[i].pc = "idle"
    BY <1>3, <2>1 DEF InstallInv, Alone, Active
  <2>4. \A i \in Jobs : Progress(i)'
    BY <2>2, <2>3 DEF OrderlyStepOf, Progress, InstallPc, HoldPc
  <2>5. NoStrayProcess'
    BY <1>1, <2>2, SlotsFrom1 DEF OrderlyStepOf, NoStrayProcess
  <2>6. QED
    BY <2>2, <2>4, <2>5 DEF OrderlyStepOf, Orderly
<1>11. QED
  BY <1>5, <1>6, <1>7, <1>8, <1>9, <1>10 DEF InstallInv

(* What the invariant says of a job under way that is the only one. *)
LEMMA Lone ==
    ASSUME InstallInv, NEW j \in Jobs, Active(j), ~tangled
    PROVE  /\ boot = "up" /\ Progress(j)
           /\ Agreed \/ job[j].pc \in {"register", "unpublish"}
           /\ Filed \/ hurt \/ job[j].pc \in {"promote", "render", "publish", "cleanup",
                                               "unpublish", "rmdir"}
           /\ \A e \in Slots : entry[e].up => registry = e /\ entry[e].enabled
<1>1. boot = "up"
  BY DEF Active, InstallInv, Blank, Idle
<1>2. \A i \in Jobs : Active(i) => i = j
  BY DEF InstallInv, Alone
<1>3. QED
  BY <1>1, <1>2 DEF InstallInv, Orderly, NoStrayProcess, Active

-----------------------------------------------------------------------------
(* Checks, the download and what follows in the temporary directory. *)
LEMMA PrepareSound ==
    ASSUME InstallInv, NEW j \in Jobs,
           job[j].pc \in {"check", "download", "verify", "extract", "inspect"},
           NEW pc \in {"download", "verify", "extract", "inspect", "remove", "cleanup"},
           Goto(j, pc), UNCHANGED <<disk, worker, registry, tangled, hurt>>, Adapters(entry)
    PROVE  InstallInv'
<1>1. Active(j) /\ TypeOK
  BY DEF Active, InstallInv
<1>2. /\ job' = [job EXCEPT ![j] = job'[j]] /\ job'[j] \in JobRecord
      /\ job'[j].pc = pc /\ job'[j].op = job[j].op
      /\ job'[j].version = job[j].version
      /\ job'[j].flaw = job[j].flaw /\ job'[j].held = job[j].held
  BY <1>1, GotoMoves DEF Pcs, InstallPc
<1>3. entry \in Entries
  BY <1>1, Types
<1>4. StepOf(j, entry)
  BY <1>1, <1>2, Types, NoneIsNoVersion, SlotsFrom1
     DEF StepOf, InstallInv, Informed, Kept, Flawless, disk, worker, InstallPc, HoldPc
<1>5. ASSUME ~tangled PROVE OrderlyStepOf(j, entry)
  <2>1. /\ registry' # 0 => entry'[registry'] = entry[registry']
        /\ \A e \in Slots : entry'[e].up = entry[e].up
    BY <1>3, <1>4, AdaptersForget DEF StepOf
  <2>2. QED
    BY <1>1, <1>2, <1>3, <1>4, <1>5, <2>1, Lone, NoneIsNoVersion
       DEF OrderlyStepOf, Progress, Agreed, Filed, Whole, InstallPc, HoldPc, disk, worker,
           StepOf
<1>6. QED
  BY <1>1, <1>3, <1>4, <1>5, Frame

(* A job ends where it has changed nothing yet. *)
LEMMA GiveUpSound ==
    ASSUME InstallInv, NEW j \in Jobs,
           job[j].pc \in {"claimed", "check", "read"}, Finish(j),
           UNCHANGED <<disk, worker, registry, tangled, hurt>>, Adapters(entry)
    PROVE  InstallInv'
<1>1. Active(j) /\ TypeOK
  BY DEF Active, InstallInv
<1>2. /\ job' = [job EXCEPT ![j] = job'[j]] /\ job'[j] \in JobRecord
      /\ job'[j] = Idle /\ job'[j].pc = "idle" /\ job'[j].held = 0
  BY <1>1, FinishMoves
<1>3. entry \in Entries
  BY <1>1, Types
<1>4. StepOf(j, entry)
  BY <1>1, <1>2, Types, NoneIsNoVersion, SlotsFrom1
     DEF StepOf, InstallInv, Informed, Kept, Flawless, disk, worker, InstallPc, HoldPc
<1>5. ASSUME ~tangled PROVE OrderlyStepOf(j, entry)
  <2>1. /\ registry' # 0 => entry'[registry'] = entry[registry']
        /\ \A e \in Slots : entry'[e].up = entry[e].up
    BY <1>3, <1>4, AdaptersForget DEF StepOf
  <2>2. QED
    BY <1>1, <1>2, <1>3, <1>4, <1>5, <2>1, Lone, NoneIsNoVersion
       DEF OrderlyStepOf, Progress, Agreed, Filed, Whole, InstallPc, HoldPc, disk, worker,
           StepOf
<1>6. QED
  BY <1>1, <1>3, <1>4, <1>5, Frame

(* The old files go. *)
LEMMA RemoveOldSound ==
    ASSUME InstallInv, NEW j \in Jobs, RemoveOld(j)
    PROVE  InstallInv'
<1>1. Active(j) /\ TypeOK
  BY DEF RemoveOld, Active, InstallInv
<1>2. /\ job' = [job EXCEPT ![j] = job'[j]] /\ job'[j] \in JobRecord
      /\ job'[j].pc = "promote" /\ job'[j].op = job[j].op
      /\ job'[j].version = job[j].version
      /\ job'[j].flaw = job[j].flaw /\ job'[j].held = job[j].held
  BY <1>1, GotoMoves DEF RemoveOld, Pcs, InstallPc
<1>3. entry \in Entries
  BY <1>1, Types
<1>4. StepOf(j, entry)
  BY <1>1, <1>2, Types, NoneIsNoVersion, SlotsFrom1
     DEF RemoveOld, StepOf, InstallInv, Informed, Kept, Flawless, disk, worker, InstallPc,
         HoldPc
<1>5. ASSUME ~tangled PROVE OrderlyStepOf(j, entry)
  <2>1. /\ registry' # 0 => entry'[registry'] = entry[registry']
        /\ \A e \in Slots : entry'[e].up = entry[e].up
    BY <1>3, <1>4, AdaptersForget DEF StepOf
  <2>2. QED
    BY <1>1, <1>2, <1>3, <1>4, <1>5, <2>1, Lone, NoneIsNoVersion
       DEF RemoveOld, OrderlyStepOf, Progress, Agreed, Filed, Whole, InstallPc, HoldPc,
           disk, worker, StepOf
<1>6. QED
  BY <1>1, <1>3, <1>4, <1>5, Frame

(* The new files are there, and no others if the job is alone. *)
LEMMA PromoteSound ==
    ASSUME InstallInv, NEW j \in Jobs, Promote(j)
    PROVE  InstallInv'
<1>1. Active(j) /\ TypeOK
  BY DEF Promote, Active, InstallInv
<1>2. /\ job' = [job EXCEPT ![j] = job'[j]] /\ job'[j] \in JobRecord
      /\ job'[j].pc = "render" /\ job'[j].op = job[j].op
      /\ job'[j].version = job[j].version
      /\ job'[j].flaw = job[j].flaw /\ job'[j].held = job[j].held
  BY <1>1, GotoMoves DEF Promote, Pcs, InstallPc
<1>3. entry \in Entries
  BY <1>1, Types
<1>4. StepOf(j, entry)
  BY <1>1, <1>2, Types, NoneIsNoVersion, SlotsFrom1
     DEF Promote, StepOf, InstallInv, Informed, Kept, Flawless, disk, worker, InstallPc,
         HoldPc
<1>5. ASSUME ~tangled PROVE OrderlyStepOf(j, entry)
  <2>1. /\ registry' # 0 => entry'[registry'] = entry[registry']
        /\ \A e \in Slots : entry'[e].up = entry[e].up
    BY <1>3, <1>4, AdaptersForget DEF StepOf
  <2>2. QED
    BY <1>1, <1>2, <1>3, <1>4, <1>5, <2>1, Lone, NoneIsNoVersion
       DEF Promote, OrderlyStepOf, Progress, Agreed, Filed, Whole, InstallPc, HoldPc,
           disk, worker, StepOf
<1>6. QED
  BY <1>1, <1>3, <1>4, <1>5, Frame

(* The manifest is written beside its place. *)
LEMMA RenderWritesSound ==
    ASSUME InstallInv, NEW j \in Jobs, Render(j),
           RendersManifest(job[j].flaw) /\ CommandPathsInside(job[j].flaw)
    PROVE  InstallInv'
<1>1. Active(j) /\ TypeOK
  BY DEF Render, Active, InstallInv
<1>2. /\ job' = [job EXCEPT ![j] = job'[j]] /\ job'[j] \in JobRecord
      /\ job'[j].pc = "publish" /\ job'[j].op = job[j].op
      /\ job'[j].version = job[j].version
      /\ job'[j].flaw = job[j].flaw /\ job'[j].held = job[j].held
  BY <1>1, GotoMoves DEF Render, Pcs, InstallPc
<1>3. job[j].version \in Versions
  BY DEF Render, InstallInv, Informed, InstallPc
<1>4. tmp' = Manifest(job[j].version, TRUE, None)
  <2>1. job[j].flaw \in Flaws
    BY <1>1, Types DEF JobRecord
  <2>2. job[j].flaw = None
    BY <2>1 DEF Flaws, RendersManifest, ValidManifest, CommandPathsInside
  <2>3. QED
    BY <2>2 DEF Render
<1>5. tmp' \in ManifestSet /\ tmp'.flaw = None
  BY <1>3, <1>4 DEF ManifestSet, Manifest, AllVersions, Flaws
<1>6. entry \in Entries
  BY <1>1, <1>3, <1>4, <1>5, Types
<1>7. StepOf(j, entry)
  BY <1>1, <1>2, <1>3, <1>4, <1>5, Types, NoneIsNoVersion, SlotsFrom1
     DEF Render, StepOf, InstallInv, Informed, Kept, Flawless, disk, worker, InstallPc,
         HoldPc
<1>8. ASSUME ~tangled PROVE OrderlyStepOf(j, entry)
  <2>1. /\ registry' # 0 => entry'[registry'] = entry[registry']
        /\ \A e \in Slots : entry'[e].up = entry[e].up
    BY <1>6, <1>7, AdaptersForget DEF StepOf
  <2>2. QED
    BY <1>1, <1>2, <1>3, <1>4, <1>5, <1>6, <1>7, <1>8, <2>1, Lone, NoneIsNoVersion
       DEF Render, OrderlyStepOf, Progress, Agreed, Filed, Whole, InstallPc, HoldPc, disk,
           worker, StepOf
<1>9. QED
  BY <1>1, <1>6, <1>7, <1>8, Frame

(* The manifest is refused. *)
LEMMA RenderFailsSound ==
    ASSUME InstallInv, NEW j \in Jobs, Render(j),
           ~(RendersManifest(job[j].flaw) /\ CommandPathsInside(job[j].flaw))
    PROVE  InstallInv'
<1>1. Active(j) /\ TypeOK
  BY DEF Render, Active, InstallInv
<1>2. /\ job' = [job EXCEPT ![j] = job'[j]] /\ job'[j] \in JobRecord
      /\ job'[j].pc = "cleanup" /\ job'[j].op = job[j].op
      /\ job'[j].version = job[j].version
      /\ job'[j].flaw = job[j].flaw /\ job'[j].held = job[j].held
  BY <1>1, GotoMoves DEF Render, Pcs, InstallPc
<1>3. entry \in Entries
  BY <1>1, Types
<1>4. StepOf(j, entry)
  BY <1>1, <1>2, Types, NoneIsNoVersion, SlotsFrom1
     DEF Render, StepOf, InstallInv, Informed, Kept, Flawless, disk, worker, InstallPc,
         HoldPc
<1>5. ASSUME ~tangled PROVE OrderlyStepOf(j, entry)
  <2>1. /\ registry' # 0 => entry'[registry'] = entry[registry']
        /\ \A e \in Slots : entry'[e].up = entry[e].up
    BY <1>3, <1>4, AdaptersForget DEF StepOf
  <2>2. QED
    BY <1>1, <1>2, <1>3, <1>4, <1>5, <2>1, Lone, NoneIsNoVersion
       DEF Render, OrderlyStepOf, Progress, Agreed, Filed, Whole, InstallPc, HoldPc, disk,
           worker, StepOf
<1>6. QED
  BY <1>1, <1>3, <1>4, <1>5, Frame

(* Another job has taken the file. *)
LEMMA PublishFailsSound ==
    ASSUME InstallInv, NEW j \in Jobs, Publish(j), tmp = NoManifest
    PROVE  InstallInv'
<1>1. Active(j) /\ TypeOK
  BY DEF Publish, Active, InstallInv
<1>2. /\ job' = [job EXCEPT ![j] = job'[j]] /\ job'[j] \in JobRecord
      /\ job'[j].pc = "cleanup" /\ job'[j].op = job[j].op
      /\ job'[j].version = job[j].version
      /\ job'[j].flaw = job[j].flaw /\ job'[j].held = job[j].held
  BY <1>1, GotoMoves DEF Publish, Pcs, InstallPc
<1>3. entry \in Entries
  BY <1>1, Types
<1>4. StepOf(j, entry)
  BY <1>1, <1>2, Types, NoneIsNoVersion, SlotsFrom1
     DEF Publish, StepOf, InstallInv, Informed, Kept, Flawless, disk, worker, InstallPc,
         HoldPc
<1>5. ASSUME ~tangled PROVE OrderlyStepOf(j, entry)
  <2>1. /\ registry' # 0 => entry'[registry'] = entry[registry']
        /\ \A e \in Slots : entry'[e].up = entry[e].up
    BY <1>3, <1>4, AdaptersForget DEF StepOf
  <2>2. QED
    BY <1>1, <1>2, <1>3, <1>4, <1>5, <2>1, Lone, NoneIsNoVersion
       DEF Publish, OrderlyStepOf, Progress, Agreed, Filed, Whole, InstallPc, HoldPc,
           disk, worker, StepOf
<1>6. QED
  BY <1>1, <1>3, <1>4, <1>5, Frame

(* The manifest gets to its place. *)
LEMMA PublishSound ==
    ASSUME InstallInv, NEW j \in Jobs, Publish(j), tmp # NoManifest
    PROVE  InstallInv'
<1>1. Active(j) /\ TypeOK
  BY DEF Publish, Manifest, NoManifest, ManifestSet, None, Active, InstallInv
<1>2. /\ job' = [job EXCEPT ![j] = job'[j]] /\ job'[j] \in JobRecord
      /\ job'[j].pc = "register" /\ job'[j].op = job[j].op
      /\ job'[j].version = job[j].version
      /\ job'[j].flaw = job[j].flaw /\ job'[j].held = job[j].held
  BY <1>1, GotoMoves DEF Publish, Pcs, InstallPc
<1>3. entry \in Entries
  BY <1>1, Types
<1>4. StepOf(j, entry)
  BY <1>1, <1>2, Types, NoneIsNoVersion, SlotsFrom1
     DEF Publish, Manifest, NoManifest, ManifestSet, None, StepOf, InstallInv, Informed,
         Kept, Flawless, disk, worker, InstallPc, HoldPc
<1>5. ASSUME ~tangled PROVE OrderlyStepOf(j, entry)
  <2>1. /\ registry' # 0 => entry'[registry'] = entry[registry']
        /\ \A e \in Slots : entry'[e].up = entry[e].up
    BY <1>3, <1>4, AdaptersForget DEF StepOf
  <2>2. QED
    BY <1>1, <1>2, <1>3, <1>4, <1>5, <2>1, Lone, NoneIsNoVersion
       DEF Publish, Manifest, NoManifest, ManifestSet, None, OrderlyStepOf, Progress,
           Agreed, Filed, Whole, InstallPc, HoldPc, disk, worker, StepOf
<1>6. QED
  BY <1>1, <1>3, <1>4, <1>5, Frame

(* A failed installation removes its directory. *)
LEMMA CleanupSound ==
    ASSUME InstallInv, NEW j \in Jobs, Cleanup(j)
    PROVE  InstallInv'
<1>1. Active(j) /\ TypeOK
  BY DEF Cleanup, Active, InstallInv
<1>2. /\ job' = [job EXCEPT ![j] = job'[j]] /\ job'[j] \in JobRecord
      /\ job'[j] = Idle /\ job'[j].pc = "idle" /\ job'[j].held = 0
  BY <1>1, FinishMoves DEF Cleanup
<1>3. entry \in Entries
  BY <1>1, Types
<1>4. StepOf(j, entry)
  BY <1>1, <1>2, Types, NoneIsNoVersion, SlotsFrom1
     DEF Cleanup, StepOf, InstallInv, Informed, Kept, Flawless, disk, worker, InstallPc,
         HoldPc
<1>5. ASSUME ~tangled PROVE OrderlyStepOf(j, entry)
  <2>1. /\ registry' # 0 => entry'[registry'] = entry[registry']
        /\ \A e \in Slots : entry'[e].up = entry[e].up
    BY <1>3, <1>4, AdaptersForget DEF StepOf
  <2>2. QED
    BY <1>1, <1>2, <1>3, <1>4, <1>5, <2>1, Lone, NoneIsNoVersion
       DEF Cleanup, OrderlyStepOf, Progress, Agreed, Filed, Whole, InstallPc, HoldPc,
           disk, worker, StepOf
<1>6. QED
  BY <1>1, <1>3, <1>4, <1>5, Frame

(* The manifest goes. *)
LEMMA RemoveManifestSound ==
    ASSUME InstallInv, NEW j \in Jobs, RemoveManifest(j)
    PROVE  InstallInv'
<1>1. Active(j) /\ TypeOK
  BY DEF RemoveManifest, ManifestSet, NoManifest, Manifest, Active, InstallInv
<1>2. /\ job' = [job EXCEPT ![j] = job'[j]] /\ job'[j] \in JobRecord
      /\ job'[j].pc = "rmdir" /\ job'[j].op = job[j].op
      /\ job'[j].version = job[j].version
      /\ job'[j].flaw = job[j].flaw /\ job'[j].held = job[j].held
  BY <1>1, GotoMoves DEF RemoveManifest, Pcs, InstallPc
<1>3. entry \in Entries
  BY <1>1, Types
<1>4. StepOf(j, entry)
  BY <1>1, <1>2, Types, NoneIsNoVersion, SlotsFrom1
     DEF RemoveManifest, ManifestSet, NoManifest, Manifest, StepOf, InstallInv, Informed,
         Kept, Flawless, disk, worker, InstallPc, HoldPc
<1>5. ASSUME ~tangled PROVE OrderlyStepOf(j, entry)
  <2>1. /\ registry' # 0 => entry'[registry'] = entry[registry']
        /\ \A e \in Slots : entry'[e].up = entry[e].up
    BY <1>3, <1>4, AdaptersForget DEF StepOf
  <2>2. QED
    BY <1>1, <1>2, <1>3, <1>4, <1>5, <2>1, Lone, NoneIsNoVersion
       DEF RemoveManifest, ManifestSet, NoManifest, Manifest, OrderlyStepOf, Progress,
           Agreed, Filed, Whole, InstallPc, HoldPc, disk, worker, StepOf
<1>6. QED
  BY <1>1, <1>3, <1>4, <1>5, Frame

(* The files go after it. *)
LEMMA RemoveDirSound ==
    ASSUME InstallInv, NEW j \in Jobs, RemoveDir(j)
    PROVE  InstallInv'
<1>1. Active(j) /\ TypeOK
  BY DEF RemoveDir, Active, InstallInv
<1>2. /\ job' = [job EXCEPT ![j] = job'[j]] /\ job'[j] \in JobRecord
      /\ job'[j] = Idle /\ job'[j].pc = "idle" /\ job'[j].held = 0
  BY <1>1, FinishMoves DEF RemoveDir
<1>3. entry \in Entries
  BY <1>1, Types
<1>4. StepOf(j, entry)
  BY <1>1, <1>2, Types, NoneIsNoVersion, SlotsFrom1
     DEF RemoveDir, StepOf, InstallInv, Informed, Kept, Flawless, disk, worker, InstallPc,
         HoldPc
<1>5. ASSUME ~tangled PROVE OrderlyStepOf(j, entry)
  <2>1. /\ registry' # 0 => entry'[registry'] = entry[registry']
        /\ \A e \in Slots : entry'[e].up = entry[e].up
    BY <1>3, <1>4, AdaptersForget DEF StepOf
  <2>2. QED
    BY <1>1, <1>2, <1>3, <1>4, <1>5, <2>1, Lone, NoneIsNoVersion
       DEF RemoveDir, OrderlyStepOf, Progress, Agreed, Filed, Whole, InstallPc, HoldPc,
           disk, worker, StepOf
<1>6. QED
  BY <1>1, <1>3, <1>4, <1>5, Frame

(* The old adapter stops. *)
LEMMA BeginInstallSound ==
    ASSUME InstallInv, NEW j \in Jobs, BeginInstall(j), ~job[j].canceled
    PROVE  InstallInv'
<1>1. Active(j) /\ TypeOK
  BY DEF BeginInstall, Active, InstallInv
<1>2. /\ Stopped(registry) \in Entries
      /\ \A f \in Slots : f # registry => Stopped(registry)[f] = entry[f]
      /\ registry # 0 => /\ Stopped(registry)[registry] \in Entry
                         /\ ~Stopped(registry)[registry].up
                         /\ Stopped(registry)[registry].version = entry[registry].version
                         /\ Stopped(registry)[registry].enabled = entry[registry].enabled
  BY <1>1, Types, StoppedStops DEF InstallInv, Kept
<1>3. \A i \in Jobs : job[i].held # 0 => Stopped(registry)[job[i].held] \in Entry
  BY <1>1, <1>2, Types DEF InstallInv, Kept, JobRecord
<1>4. /\ job' = [job EXCEPT ![j] = job'[j]] /\ job'[j] \in JobRecord
      /\ job'[j].pc = "check" /\ job'[j].op = job[j].op /\ job'[j].held = registry
      /\ job'[j].version = job[j].version /\ job'[j].flaw = job[j].flaw
  <2>1. job[j] \in JobRecord /\ job \in [Jobs -> JobRecord] /\ registry \in {0} \cup Slots
    BY <1>1, Types
  <2>2. PICK k \in JobRecord : k = [job[j] EXCEPT !.pc = "check", !.held = registry]
    BY <2>1 DEF JobRecord
  <2>3. job' = [job EXCEPT ![j] = k]
    BY <2>2 DEF BeginInstall
  <2>4. QED
    BY <2>1, <2>2, <2>3 DEF JobRecord
<1>5. Stopped(registry) \in Entries
  BY <1>1, <1>2, <1>3, Types
<1>6. StepOf(j, Stopped(registry))
  BY <1>1, <1>2, <1>3, <1>4, Types, NoneIsNoVersion, SlotsFrom1
     DEF BeginInstall, StepOf, InstallInv, Informed, Kept, Flawless, disk, worker,
         InstallPc, HoldPc
<1>7. ASSUME ~tangled PROVE OrderlyStepOf(j, Stopped(registry))
  <2>1. /\ registry' # 0 => entry'[registry'] = Stopped(registry)[registry']
        /\ \A e \in Slots : entry'[e].up = Stopped(registry)[e].up
    BY <1>5, <1>6, AdaptersForget DEF StepOf
  <2>2. /\ Progress(j) /\ registry \in {0} \cup Slots
        /\ Agreed \/ job[j].pc \in {"register", "unpublish"}
        /\ Filed \/ hurt
        /\ \A e \in Slots : entry[e].up => registry = e
    BY <1>1, <1>7, Lone, Types DEF BeginInstall
  <2>3. \A e \in Slots : ~Stopped(registry)[e].up
    BY <1>2, <2>2, SlotsFrom1 DEF BeginInstall, Progress, HoldPc
  <2>4. Agreed' \/ job'[j].pc = "unpublish"
    BY <1>2, <1>4, <2>1, <2>2 DEF BeginInstall, Agreed, Progress, HoldPc, disk
  <2>5. Filed' \/ hurt' \/ job'[j].pc = "unpublish"
    BY <1>4, <2>2 DEF BeginInstall, Filed, Whole, disk
  <2>6. Progress(j)'
    BY <1>4, <2>1, <2>3 DEF BeginInstall, Progress, InstallPc, HoldPc, disk
  <2>7. QED
    BY <2>3, <2>4, <2>5, <2>6 DEF OrderlyStepOf
<1>8. QED
  BY <1>1, <1>5, <1>6, <1>7, Frame

(* The old adapter stops and its entry goes. *)
LEMMA BeginUninstallSound ==
    ASSUME InstallInv, NEW j \in Jobs, BeginUninstall(j), ~(job[j].canceled \/ bundled)
    PROVE  InstallInv'
<1>1. Active(j) /\ TypeOK
  BY DEF BeginUninstall, Active, InstallInv
<1>2. /\ Stopped(registry) \in Entries
      /\ \A f \in Slots : f # registry => Stopped(registry)[f] = entry[f]
      /\ registry # 0 => /\ Stopped(registry)[registry] \in Entry
                         /\ ~Stopped(registry)[registry].up
                         /\ Stopped(registry)[registry].version = entry[registry].version
                         /\ Stopped(registry)[registry].enabled = entry[registry].enabled
  BY <1>1, Types, StoppedStops DEF InstallInv, Kept
<1>3. \A i \in Jobs : job[i].held # 0 => Stopped(registry)[job[i].held] \in Entry
  BY <1>1, <1>2, Types DEF InstallInv, Kept, JobRecord
<1>4. /\ job' = [job EXCEPT ![j] = job'[j]] /\ job'[j] \in JobRecord
      /\ job'[j].pc = "unpublish" /\ job'[j].op = job[j].op
      /\ job'[j].version = job[j].version
      /\ job'[j].flaw = job[j].flaw /\ job'[j].held = job[j].held
  BY <1>1, GotoMoves DEF BeginUninstall, Pcs, InstallPc
<1>5. Stopped(registry) \in Entries
  BY <1>1, <1>2, <1>3, Types
<1>6. StepOf(j, Stopped(registry))
  BY <1>1, <1>2, <1>3, <1>4, Types, NoneIsNoVersion, SlotsFrom1
     DEF BeginUninstall, StepOf, InstallInv, Informed, Kept, Flawless, disk, worker,
         InstallPc, HoldPc
<1>7. ASSUME ~tangled PROVE OrderlyStepOf(j, Stopped(registry))
  <2>1. /\ registry' # 0 => entry'[registry'] = Stopped(registry)[registry']
        /\ \A e \in Slots : entry'[e].up = Stopped(registry)[e].up
    BY <1>5, <1>6, AdaptersForget DEF StepOf
  <2>2. /\ Progress(j) /\ registry \in {0} \cup Slots
        /\ Agreed \/ job[j].pc \in {"register", "unpublish"}
        /\ Filed \/ hurt
        /\ \A e \in Slots : entry[e].up => registry = e
    BY <1>1, <1>7, Lone, Types DEF BeginUninstall
  <2>3. \A e \in Slots : ~Stopped(registry)[e].up
    BY <1>2, <2>2, SlotsFrom1 DEF BeginUninstall, Progress, HoldPc
  <2>4. Agreed' \/ job'[j].pc = "unpublish"
    BY <1>2, <1>4, <2>1, <2>2 DEF BeginUninstall, Agreed, Progress, HoldPc, disk
  <2>5. Filed' \/ hurt' \/ job'[j].pc = "unpublish"
    BY <1>4, <2>2 DEF BeginUninstall, Filed, Whole, disk
  <2>6. Progress(j)'
    BY <1>4, <2>1, <2>3 DEF BeginUninstall, Progress, InstallPc, HoldPc, disk
  <2>7. QED
    BY <2>3, <2>4, <2>5, <2>6 DEF OrderlyStepOf
<1>8. QED
  BY <1>1, <1>5, <1>6, <1>7, Frame

(* The job takes hold of the adapter. *)
LEMMA BeginSetEnabledSound ==
    ASSUME InstallInv, NEW j \in Jobs, BeginSetEnabled(j), registry # 0
    PROVE  InstallInv'
<1>1. Active(j) /\ TypeOK
  BY DEF BeginSetEnabled, Active, InstallInv
<1>2. /\ job' = [job EXCEPT ![j] = job'[j]] /\ job'[j] \in JobRecord
      /\ job'[j].pc = "read" /\ job'[j].op = job[j].op /\ job'[j].held = registry
      /\ job'[j].version = job[j].version /\ job'[j].flaw = job[j].flaw
  <2>1. job[j] \in JobRecord /\ job \in [Jobs -> JobRecord] /\ registry \in {0} \cup Slots
    BY <1>1, Types
  <2>2. PICK k \in JobRecord : k = [job[j] EXCEPT !.pc = "read", !.held = registry]
    BY <2>1 DEF JobRecord
  <2>3. job' = [job EXCEPT ![j] = k]
    BY <2>2 DEF BeginSetEnabled
  <2>4. QED
    BY <2>1, <2>2, <2>3 DEF JobRecord
<1>3. entry \in Entries
  BY <1>1, Types
<1>4. StepOf(j, entry)
  BY <1>1, <1>2, Types, NoneIsNoVersion, SlotsFrom1
     DEF BeginSetEnabled, StepOf, InstallInv, Informed, Kept, Flawless, disk, worker,
         InstallPc, HoldPc
<1>5. ASSUME ~tangled PROVE OrderlyStepOf(j, entry)
  <2>1. /\ registry' # 0 => entry'[registry'] = entry[registry']
        /\ \A e \in Slots : entry'[e].up = entry[e].up
    BY <1>3, <1>4, AdaptersForget DEF StepOf
  <2>2. QED
    BY <1>1, <1>2, <1>3, <1>4, <1>5, <2>1, Lone, NoneIsNoVersion
       DEF BeginSetEnabled, OrderlyStepOf, Progress, Agreed, Filed, Whole, InstallPc,
           HoldPc, disk, worker, StepOf
<1>6. QED
  BY <1>1, <1>3, <1>4, <1>5, Frame

(* It reads the manifest. *)
LEMMA ReadManifestSound ==
    ASSUME InstallInv, NEW j \in Jobs, ReadManifest(j), manifest # NoManifest
    PROVE  InstallInv'
<1>1. Active(j) /\ TypeOK
  BY DEF ReadManifest, Active, InstallInv
<1>2. /\ job' = [job EXCEPT ![j] = job'[j]] /\ job'[j] \in JobRecord
      /\ job'[j].pc = "write" /\ job'[j].op = job[j].op /\ job'[j].held = job[j].held
      /\ job'[j].version = manifest.version /\ job'[j].flaw = manifest.flaw
  <2>1. job[j] \in JobRecord /\ job \in [Jobs -> JobRecord] /\ manifest.flaw \in Flaws
    BY <1>1, Types DEF InstallInv, Flawless, Flaws
  <2>2. manifest.version \in AllVersions
    BY <1>1, Types DEF ManifestSet, ReadManifest
  <2>3. PICK k \in JobRecord : k = [job[j] EXCEPT !.pc = "write", !.version = manifest.version,
                                                 !.flaw = manifest.flaw]
    BY <2>1, <2>2 DEF JobRecord
  <2>4. job' = [job EXCEPT ![j] = k]
    BY <2>3 DEF ReadManifest
  <2>5. QED
    BY <2>1, <2>2, <2>3, <2>4 DEF JobRecord
<1>3. manifest.version \in AllVersions
  BY <1>1, Types DEF ManifestSet, ReadManifest
<1>4. entry \in Entries
  BY <1>1, <1>3, Types
<1>5. StepOf(j, entry)
  BY <1>1, <1>2, <1>3, Types, NoneIsNoVersion, SlotsFrom1
     DEF ReadManifest, StepOf, InstallInv, Informed, Kept, Flawless, disk, worker,
         InstallPc, HoldPc
<1>6. ASSUME ~tangled PROVE OrderlyStepOf(j, entry)
  <2>1. /\ registry' # 0 => entry'[registry'] = entry[registry']
        /\ \A e \in Slots : entry'[e].up = entry[e].up
    BY <1>4, <1>5, AdaptersForget DEF StepOf
  <2>2. QED
    BY <1>1, <1>2, <1>3, <1>4, <1>5, <1>6, <2>1, Lone, NoneIsNoVersion
       DEF ReadManifest, OrderlyStepOf, Progress, Agreed, Filed, Whole, InstallPc, HoldPc,
           disk, worker, StepOf
<1>7. QED
  BY <1>1, <1>4, <1>5, <1>6, Frame

(* The handshake succeeds. *)
LEMMA StartedSound ==
    ASSUME InstallInv, NEW j \in Jobs, Started(j), Adapters(entry)
    PROVE  InstallInv'
<1>1. Active(j) /\ TypeOK
  BY DEF Started, Active, InstallInv
<1>2. /\ job' = [job EXCEPT ![j] = job'[j]] /\ job'[j] \in JobRecord
      /\ job'[j] = Idle /\ job'[j].pc = "idle" /\ job'[j].held = 0
  BY <1>1, FinishMoves DEF Started
<1>3. entry \in Entries
  BY <1>1, Types
<1>4. StepOf(j, entry)
  BY <1>1, <1>2, Types, NoneIsNoVersion, SlotsFrom1
     DEF Started, StepOf, InstallInv, Informed, Kept, Flawless, disk, worker, InstallPc,
         HoldPc
<1>5. ASSUME ~tangled PROVE OrderlyStepOf(j, entry)
  <2>1. /\ registry' # 0 => entry'[registry'] = entry[registry']
        /\ \A e \in Slots : entry'[e].up = entry[e].up
    BY <1>3, <1>4, AdaptersForget DEF StepOf
  <2>2. QED
    BY <1>1, <1>2, <1>3, <1>4, <1>5, <2>1, Lone, NoneIsNoVersion
       DEF Started, OrderlyStepOf, Progress, Agreed, Filed, Whole, InstallPc, HoldPc,
           disk, worker, StepOf
<1>6. QED
  BY <1>1, <1>3, <1>4, <1>5, Frame

(* The handshake fails, and the adapter stops. *)
LEMMA StartFailedSound ==
    ASSUME InstallInv, NEW j \in Jobs, Started(j), Adapters(Stopped(job[j].held))
    PROVE  InstallInv'
<1>1. Active(j) /\ TypeOK
  BY DEF Started, Active, InstallInv
<1>2. /\ Stopped(job[j].held) \in Entries /\ job[j].held # 0 /\ job[j].held \in Slots
      /\ \A f \in Slots : f # job[j].held => Stopped(job[j].held)[f] = entry[f]
      /\ Stopped(job[j].held)[job[j].held] \in Entry
      /\ ~Stopped(job[j].held)[job[j].held].up
      /\ Stopped(job[j].held)[job[j].held].version = entry[job[j].held].version
      /\ Stopped(job[j].held)[job[j].held].enabled = entry[job[j].held].enabled
  <2>1. job[j].held \in {0} \cup Slots
    BY <1>1, Types DEF JobRecord
  <2>2. job[j].held # 0 /\ entry[job[j].held] \in Entry
    BY DEF Started, InstallInv, Informed, HoldPc, Kept
  <2>3. QED
    BY <1>1, <2>1, <2>2, Types, StoppedStops
<1>3. /\ \A i \in Jobs : job[i].held # 0 => Stopped(job[j].held)[job[i].held] \in Entry
      /\ registry # 0 => Stopped(job[j].held)[registry] \in Entry
  BY <1>1, <1>2, Types DEF InstallInv, Kept, JobRecord
<1>4. /\ job' = [job EXCEPT ![j] = job'[j]] /\ job'[j] \in JobRecord
      /\ job'[j] = Idle /\ job'[j].pc = "idle" /\ job'[j].held = 0
  BY <1>1, FinishMoves DEF Started
<1>5. Stopped(job[j].held) \in Entries
  BY <1>1, <1>2, <1>3, Types
<1>6. StepOf(j, Stopped(job[j].held))
  BY <1>1, <1>2, <1>3, <1>4, Types, NoneIsNoVersion, SlotsFrom1
     DEF Started, StepOf, InstallInv, Informed, Kept, Flawless, disk, worker, InstallPc,
         HoldPc
<1>7. ASSUME ~tangled PROVE OrderlyStepOf(j, Stopped(job[j].held))
  <2>1. /\ registry' # 0 => entry'[registry'] = Stopped(job[j].held)[registry']
        /\ \A e \in Slots : entry'[e].up = Stopped(job[j].held)[e].up
    BY <1>5, <1>6, AdaptersForget DEF StepOf
  <2>2. /\ Progress(j) /\ registry \in {0} \cup Slots
        /\ Agreed \/ job[j].pc \in {"register", "unpublish"}
        /\ Filed \/ hurt
        /\ \A e \in Slots : entry[e].up => registry = e
    BY <1>1, <1>7, Lone, Types DEF Started
  <2>3. \A e \in Slots : ~Stopped(job[j].held)[e].up
    BY <1>2, <2>2, SlotsFrom1 DEF Started, Progress, HoldPc
  <2>4. Agreed' \/ job'[j].pc = "unpublish"
    BY <1>2, <1>4, <2>1, <2>2 DEF Started, Agreed, Progress, HoldPc, disk
  <2>5. Filed' \/ hurt' \/ job'[j].pc = "unpublish"
    BY <1>4, <2>2 DEF Started, Filed, Whole, disk
  <2>6. Progress(j)'
    BY <1>4, <2>1, <2>3 DEF Started, Progress, InstallPc, HoldPc, disk
  <2>7. QED
    BY <2>3, <2>4, <2>5, <2>6 DEF OrderlyStepOf
<1>8. QED
  BY <1>1, <1>5, <1>6, <1>7, Frame

(* An entry that came since is in the way. *)
LEMMA RegisterClashSound ==
    ASSUME InstallInv, NEW j \in Jobs, Register(j), job[j].held = 0 /\ registry # 0
    PROVE  InstallInv'
<1>1. Active(j) /\ TypeOK
  BY DEF Register, Active, InstallInv
<1>2. /\ job' = [job EXCEPT ![j] = job'[j]] /\ job'[j] \in JobRecord
      /\ job'[j] = Idle /\ job'[j].pc = "idle" /\ job'[j].held = 0
  BY <1>1, FinishMoves DEF Register
<1>3. entry \in Entries
  BY <1>1, Types
<1>4. StepOf(j, entry)
  BY <1>1, <1>2, Types, NoneIsNoVersion, SlotsFrom1
     DEF Register, StepOf, InstallInv, Informed, Kept, Flawless, disk, worker, InstallPc,
         HoldPc
<1>5. ASSUME ~tangled PROVE OrderlyStepOf(j, entry)
  <2>1. /\ registry' # 0 => entry'[registry'] = entry[registry']
        /\ \A e \in Slots : entry'[e].up = entry[e].up
    BY <1>3, <1>4, AdaptersForget DEF StepOf
  <2>2. QED
    BY <1>1, <1>2, <1>3, <1>4, <1>5, <2>1, Lone, NoneIsNoVersion
       DEF Register, OrderlyStepOf, Progress, Agreed, Filed, Whole, InstallPc, HoldPc,
           disk, worker, StepOf
<1>6. QED
  BY <1>1, <1>3, <1>4, <1>5, Frame

(* Changing an adapter that is there, or filling a free slot. *)
LEMMA EntrySet ==
    ASSUME entry \in Entries, NEW e \in Slots, NEW n \in Entry
    PROVE  /\ [entry EXCEPT ![e] = n] \in Entries
           /\ [entry EXCEPT ![e] = n][e] = n
           /\ \A f \in Slots : f # e => [entry EXCEPT ![e] = n][f] = entry[f]
BY DEF Entries

(* The new adapter is registered and starts. *)
LEMMA RegisterSound ==
    ASSUME InstallInv, NEW j \in Jobs, Register(j), ~(job[j].held = 0 /\ registry # 0)
    PROVE  InstallInv'
<1>1. Active(j) /\ TypeOK
  BY DEF Register, Active, InstallInv
<1> DEFINE n == [version |-> job[j].version, enabled |-> TRUE, up |-> TRUE]
<1>2. PICK e \in Slots :
        /\ Free(e) /\ registry' = e
        /\ job' = [job EXCEPT ![j].pc = "starting", ![j].held = e]
        /\ Adapters([entry EXCEPT ![e] = n])
  BY DEF Register
<1>3. job[j].version \in Versions /\ n \in Entry
  BY DEF Register, InstallInv, Informed, InstallPc, Entry, AllVersions
<1>4. /\ job' = [job EXCEPT ![j] = job'[j]] /\ job'[j] \in JobRecord
      /\ job'[j].pc = "starting" /\ job'[j].op = job[j].op /\ job'[j].held = e
      /\ job'[j].version = job[j].version /\ job'[j].flaw = job[j].flaw
  <2>1. job[j] \in JobRecord /\ job \in [Jobs -> JobRecord]
    BY <1>1, Types
  <2>2. PICK k \in JobRecord : k = [job[j] EXCEPT !.pc = "starting", !.held = e]
    BY <2>1 DEF JobRecord
  <2>3. job' = [job EXCEPT ![j] = k]
    BY <1>2, <2>2
  <2>4. QED
    BY <2>1, <2>2, <2>3 DEF JobRecord
<1> DEFINE en == [entry EXCEPT ![e] = n]
<1>5. en \in Entries /\ en[e] = n /\ \A f \in Slots : f # e => en[f] = entry[f]
  <2> HIDE DEF n
  <2> QED
    BY <1>1, <1>3, Types, EntrySet
<1>6. e # 0 /\ entry[e] \notin Entry
  BY <1>2, SlotsFrom1, NoneIsNoVersion DEF Free
<1>7. Adapters(en) /\ n.version = job[j].version /\ n.enabled = TRUE /\ n.up = TRUE
  BY <1>2
<1> HIDE DEF en, n
<1>8. StepOf(j, en)
  <2>1. \A i \in Jobs : job[i].held # 0 => job[i].held \in Slots /\ job[i].held # e
    BY <1>1, <1>6, Types DEF InstallInv, Kept, JobRecord
  <2>2. \A i \in Jobs : job[i].held # 0 => en[job[i].held] \in Entry
    BY <1>5, <2>1 DEF InstallInv, Kept
  <2>3. UNCHANGED <<disk, worker, tangled, hurt>>
    BY DEF Register
  <2>4. QED
    BY <1>1, <1>2, <1>3, <1>4, <1>5, <1>6, <1>7, <2>2, <2>3, Types
       DEF StepOf, InstallInv, Flawless, disk, worker, InstallPc, HoldPc
<1>9. ASSUME ~tangled PROVE OrderlyStepOf(j, en)
  <2>1. /\ registry' # 0 => entry'[registry'] = en[registry']
        /\ \A f \in Slots : entry'[f].up = en[f].up
    BY <1>5, <1>8, AdaptersForget DEF StepOf
  <2>2. \A f \in Slots : en[f].up => f = e
    BY <1>1, <1>5, <1>9, Lone DEF Register, Progress, InstallPc
  <2>3. manifest' = Manifest(job[j].version, TRUE, None) /\ job[j].version # None
    BY <1>1, <1>3, <1>9, Lone, NoneIsNoVersion DEF Register, Progress, disk, AllVersions
  <2>4. manifest'.version = job[j].version /\ manifest'.enabled = TRUE
        /\ manifest' # NoManifest
    BY <2>3 DEF Manifest, NoManifest
  <2>5. Agreed'
    BY <1>2, <1>5, <1>6, <1>7, <2>1, <2>4 DEF Agreed
  <2>6. Filed' \/ hurt'
    BY <1>1, <1>9, <2>4, Lone DEF Register, Progress, Filed, Whole, disk
  <2>7. QED
    BY <1>2, <1>4, <1>5, <1>7, <2>2, <2>5, <2>6
       DEF OrderlyStepOf, Progress, InstallPc, HoldPc
<1>10. QED
  BY <1>1, <1>5, <1>8, <1>9, Frame

(* The manifest is written back; the entry takes over the flag, and the       *)
(* adapter starts or stops.                                                   *)
LEMMA WriteEnabledSound ==
    ASSUME InstallInv, NEW j \in Jobs, WriteEnabled(j)
    PROVE  InstallInv'
<1>1. Active(j) /\ TypeOK
  BY DEF WriteEnabled, Active, InstallInv
<1> DEFINE on == job[j].op = "enable"
           e == job[j].held
<1>2. e \in Slots /\ e # 0 /\ entry[e] \in Entry
  BY <1>1, Types DEF WriteEnabled, InstallInv, Informed, HoldPc, Kept, JobRecord
<1>3. PICK n \in Entry : n = [entry[e] EXCEPT !.enabled = on, !.up = on]
  BY <1>2 DEF Entry
<1>4. n.version = entry[e].version /\ n.enabled = on /\ n.up = on
  BY <1>2, <1>3 DEF Entry
<1> DEFINE en == [entry EXCEPT ![e] = n]
<1>5. en \in Entries /\ en[e] = n /\ \A f \in Slots : f # e => en[f] = entry[f]
  BY <1>1, <1>2, Types, EntrySet
<1>6. Adapters(en)
  <2>1. [entry EXCEPT ![e].enabled = on, ![e].up = on] = en
    BY <1>1, <1>2, <1>3, Types DEF Entries
  <2>2. QED
    BY <2>1 DEF WriteEnabled
<1>7. /\ job' = [job EXCEPT ![j] = job'[j]] /\ job'[j] \in JobRecord
      /\ \/ job'[j].pc = "starting" /\ job'[j].held = e /\ on
         \/ job'[j] = Idle /\ job'[j].pc = "idle" /\ job'[j].held = 0
  <2>1. (Goto(j, "starting") /\ on) \/ Finish(j)
    BY DEF WriteEnabled
  <2>2. CASE Goto(j, "starting") /\ on
    BY <1>1, <2>2, GotoMoves DEF Pcs
  <2>3. CASE Finish(j)
    BY <1>1, <2>3, FinishMoves
  <2>4. QED
    BY <2>1, <2>2, <2>3
<1>8. /\ job[j].version \in AllVersions
      /\ manifest' = Manifest(job[j].version, on, None) /\ on \in BOOLEAN
  BY DEF WriteEnabled, InstallInv, Informed
<1>9. /\ manifest' \in ManifestSet /\ manifest'.version = job[j].version
      /\ manifest'.enabled = on /\ manifest'.flaw = None /\ manifest' # NoManifest
  BY <1>8, NoneIsNoVersion DEF Manifest, ManifestSet, NoManifest, Flaws
<1>10. /\ registry' = registry /\ hurt' = hurt
       /\ UNCHANGED <<dir, tmp, bundled, boot, provisioned, tangled>>
  BY DEF WriteEnabled, worker
<1> HIDE DEF en, on
<1>11. StepOf(j, en)
  BY <1>1, <1>2, <1>5, <1>6, <1>7, <1>9, <1>10, Types
     DEF StepOf, InstallInv, Informed, Kept, Flawless, JobRecord, InstallPc, HoldPc
<1>12. ASSUME ~tangled PROVE OrderlyStepOf(j, en)
  <2>1. /\ entry'[registry] = en[registry]
        /\ \A f \in Slots : entry'[f].up = en[f].up
        /\ registry = e /\ job[j].version = manifest.version /\ manifest # NoManifest
    <3>1. Progress(j) /\ job[j].pc = "write"
      BY <1>1, <1>12, Lone DEF WriteEnabled
    <3>2. registry = e /\ job[j].version = manifest.version /\ manifest # NoManifest
      BY <3>1 DEF Progress, HoldPc
    <3>3. QED
      BY <1>2, <1>5, <1>10, <1>11, <3>2, AdaptersForget DEF StepOf
  <2>2. Agreed /\ (Filed \/ hurt)
    BY <1>1, <1>12, Lone DEF WriteEnabled
  <2>3. \A f \in Slots : en[f].up => f = e
    BY <1>1, <1>5, <1>12, <2>1, Lone
  <2>4. Agreed'
    BY <1>2, <1>4, <1>5, <1>9, <1>10, <2>1, <2>2 DEF Agreed
  <2>5. Filed' \/ hurt'
    BY <1>9, <1>10, <2>1, <2>2 DEF Filed, Whole
  <2>6. \A f \in Slots : en[f].up => registry' = f /\ en[f].enabled
    BY <1>2, <1>4, <1>5, <1>10, <2>1, <2>3
  <2>7. Progress(j)'
    BY <1>2, <1>7, <1>10, <2>1 DEF Progress, InstallPc, HoldPc
  <2>8. QED
    BY <2>4, <2>5, <2>6, <2>7 DEF OrderlyStepOf
<1>13. QED
  BY <1>1, <1>5, <1>11, <1>12, Frame


-----------------------------------------------------------------------------
(* A job comes, and may be canceled; the Worker starts and ends. *)

(* What a job, an adapter and a manifest that are not there look like. *)
LEMMA Nothing ==
    /\ Idle \in JobRecord /\ Idle.pc = "idle" /\ Idle.held = 0 /\ Idle.op = None
    /\ NoEntry.up = FALSE /\ NoManifest.flaw = None /\ NoManifest.version = None
BY DEF Idle, JobRecord, Flaws, None, NoEntry, NoManifest, Manifest

(* A job is claimed. *)
LEMMA ClaimSound ==
    ASSUME InstallInv, NEW j \in Jobs, Claim(j)
    PROVE  InstallInv'
<1>1. PICK k \in JobRecord :
        /\ job' = [job EXCEPT ![j] = k] /\ k.pc = "claimed" /\ k.held = 0
        /\ k.op = "install" => k.version \in Versions
  <2>1. CASE \E op \in {"uninstall", "enable", "disable"} :
               job' = [job EXCEPT ![j] = [Idle EXCEPT !.op = op, !.pc = "claimed"]]
    <3>1. PICK op \in {"uninstall", "enable", "disable"} :
            job' = [job EXCEPT ![j] = [Idle EXCEPT !.op = op, !.pc = "claimed"]]
      BY <2>1
    <3>2. PICK k \in JobRecord : k = [Idle EXCEPT !.op = op, !.pc = "claimed"]
      BY DEF Idle, JobRecord, Flaws, None
    <3>3. k.pc = "claimed" /\ k.held = 0 /\ k.op # "install"
      BY <3>2 DEF Idle
    <3>4. QED
      BY <3>1, <3>2, <3>3
  <2>2. CASE \E v \in Versions, flaw \in Flaws :
               job' = [job EXCEPT ![j] = [Idle EXCEPT !.op = "install", !.pc = "claimed",
                                            !.version = v, !.flaw = flaw]]
    <3>1. PICK v \in Versions, flaw \in Flaws :
            job' = [job EXCEPT ![j] = [Idle EXCEPT !.op = "install", !.pc = "claimed",
                                         !.version = v, !.flaw = flaw]]
      BY <2>2
    <3>2. PICK k \in JobRecord : k = [Idle EXCEPT !.op = "install", !.pc = "claimed",
                                                !.version = v, !.flaw = flaw]
      BY DEF Idle, JobRecord, Flaws, None, AllVersions
    <3>3. k.pc = "claimed" /\ k.held = 0 /\ k.version = v
      BY <3>2 DEF Idle
    <3>4. QED
      BY <3>1, <3>2, <3>3
  <2>3. QED
    BY <2>1, <2>2 DEF Claim
<1>2. job \in [Jobs -> JobRecord] /\ job' \in [Jobs -> JobRecord] /\ tangled \in BOOLEAN
  BY <1>1 DEF InstallInv, TypeOK
<1>3. job'[j] = k /\ \A i \in Jobs \ {j} : job'[i] = job[i]
  BY <1>1, <1>2
<1>4. UNCHANGED <<bundled, manifest, dir, tmp, provisioned, boot, registry, entry, hurt>>
  BY DEF Claim, disk
<1>5. boot = "up" /\ tangled' = (tangled \/ ~Quiet)
  BY DEF Claim
<1>6. TypeOK'
  BY <1>2, <1>4, <1>5 DEF InstallInv, TypeOK
<1>7. Informed' /\ Kept' /\ Flawless' /\ Blank'
  <2>1. Informed'
    BY <1>1, <1>3 DEF InstallInv, Informed, InstallPc, HoldPc
  <2>2. Kept'
    BY <1>1, <1>3, <1>4 DEF InstallInv, Kept
  <2>3. QED
    BY <1>4, <1>5, <2>1, <2>2 DEF InstallInv, Flawless, Blank
<1>8. ASSUME ~tangled' PROVE ~tangled /\ \A i \in Jobs \ {j} : job'[i].pc = "idle"
  BY <1>3, <1>5, <1>8 DEF Quiet, Active
<1>9. Alone'
  BY <1>8 DEF Alone, Active
<1>10. Orderly'
  <2>1. SUFFICES ASSUME ~tangled' PROVE Orderly'
    BY DEF Orderly
  <2>2. \A i \in Jobs : job[i].pc = "idle"
    BY <1>5, <2>1 DEF Quiet, Active
  <2>3. Agreed /\ (Filed \/ hurt) /\ NoStrayProcess
    BY <1>5, <2>1, <2>2, <1>8 DEF InstallInv, Orderly
  <2>4. Agreed' /\ (Filed' \/ hurt') /\ NoStrayProcess'
    BY <1>4, <2>3, <1>8, <2>1 DEF Agreed, Filed, Whole, NoStrayProcess
  <2>5. \A i \in Jobs : Progress(i)'
    BY <1>1, <1>3, <1>8, <2>1 DEF Progress, InstallPc, HoldPc
  <2>6. QED
    BY <2>4, <2>5 DEF Orderly
<1>11. QED
  BY <1>6, <1>7, <1>9, <1>10 DEF InstallInv

(* A job is canceled: it goes on until it looks. *)
LEMMA CancelSound ==
    ASSUME InstallInv, NEW j \in Jobs, Cancel(j)
    PROVE  InstallInv'
<1>1. job[j] \in JobRecord /\ job \in [Jobs -> JobRecord]
  BY DEF InstallInv, TypeOK
<1>2. PICK k \in JobRecord : k = [job[j] EXCEPT !.canceled = TRUE]
  BY <1>1 DEF JobRecord
<1>3. job' = [job EXCEPT ![j] = k]
  BY <1>2 DEF Cancel
<1>4. /\ k.pc = job[j].pc /\ k.op = job[j].op /\ k.version = job[j].version
      /\ k.flaw = job[j].flaw /\ k.held = job[j].held
  BY <1>1, <1>2 DEF JobRecord
<1>5. \A i \in Jobs : /\ job'[i].pc = job[i].pc /\ job'[i].op = job[i].op
                      /\ job'[i].version = job[i].version /\ job'[i].flaw = job[i].flaw
                      /\ job'[i].held = job[i].held /\ (i # j => job'[i] = job[i])
  BY <1>1, <1>3, <1>4
<1>6. job[j] # Idle /\ boot = "up" /\ job[j].pc # "idle"
  BY Nothing DEF Cancel, None, InstallInv, Blank, Informed
<1>7. /\ UNCHANGED <<bundled, manifest, dir, tmp, provisioned, boot, registry, entry, hurt,
                     tangled>>
  BY DEF Cancel, disk
<1>8. TypeOK'
  BY <1>1, <1>3, <1>7 DEF InstallInv, TypeOK
<1>9. Informed'
  BY <1>5, <1>6 DEF InstallInv, Informed
<1>10. Kept' /\ Flawless' /\ Blank' /\ Alone'
  BY <1>5, <1>6, <1>7 DEF InstallInv, Kept, Flawless, Blank, Alone, Active
<1>11. Orderly'
  <2>1. SUFFICES ASSUME ~tangled PROVE Orderly'
    BY <1>7 DEF Orderly
  <2>2. \A i \in Jobs : Progress(i)'
    <3>1. TAKE i \in Jobs
    <3>2. Progress(i) /\ job'[i].pc = job[i].pc /\ job'[i].held = job[i].held
          /\ job'[i].version = job[i].version
      BY <1>5, <2>1 DEF InstallInv, Orderly
    <3>3. QED
      BY <1>7, <3>2 DEF Progress
  <2>3. Agreed' <=> Agreed
    BY <1>7 DEF Agreed
  <2>4. (Filed' <=> Filed) /\ (NoStrayProcess' <=> NoStrayProcess)
    BY <1>7 DEF Filed, Whole, NoStrayProcess
  <2>5. QED
    BY <1>5, <1>7, <2>1, <2>2, <2>3, <2>4 DEF InstallInv, Orderly
<1>12. QED
  BY <1>8, <1>9, <1>10, <1>11 DEF InstallInv

(* A Worker that is not up yet and does not come up with this step. *)
LEMMA BootSound ==
    ASSUME InstallInv, boot # "up", boot' \in {"provision", "mark", "load"},
           UNCHANGED <<bundled, dir, tmp, registry, entry, job, tangled, hurt>>,
           provisioned' \in BOOLEAN,
           \/ manifest' = manifest
           \/ manifest' = Manifest(Packaged, TRUE, None)
    PROVE  InstallInv'
<1>1. \A j \in Jobs : job[j] = Idle
  BY DEF InstallInv, Blank
<1>2. manifest' \in ManifestSet /\ manifest'.flaw = None
  <2>1. /\ Manifest(Packaged, TRUE, None) \in ManifestSet
        /\ Manifest(Packaged, TRUE, None).flaw = None
    BY DEF Manifest, ManifestSet, AllVersions, Flaws
  <2>2. QED
    BY <2>1, Types DEF InstallInv, Flawless
<1>3. TypeOK'
  BY <1>2 DEF InstallInv, TypeOK, ManifestSet
<1>4. Informed' /\ Kept' /\ Flawless' /\ Blank' /\ Alone'
  BY <1>1, <1>2 DEF InstallInv, Informed, Kept, Flawless, Blank, Alone, Active
<1>5. Orderly'
  <2>1. SUFFICES ASSUME ~tangled PROVE Orderly'
    BY DEF Orderly
  <2>2. \A j \in Jobs : Progress(j)'
    BY <1>1, Nothing DEF Progress, InstallPc, HoldPc
  <2>3. Filed \/ hurt
    BY <1>1, <2>1, Nothing DEF InstallInv, Orderly
  <2>4. Filed' \/ hurt'
    <3>1. Manifest(Packaged, TRUE, None).version = Packaged
          /\ Manifest(Packaged, TRUE, None) # NoManifest
      BY NoneIsNoVersion DEF Manifest, NoManifest, AllVersions
    <3>2. QED
      BY <2>3, <3>1 DEF Filed, Whole
  <2>5. NoStrayProcess'
    BY <2>1 DEF InstallInv, Orderly, NoStrayProcess
  <2>6. QED
    BY <2>2, <2>4, <2>5 DEF Orderly
<1>6. QED
  BY <1>3, <1>4, <1>5 DEF InstallInv

(* The manifest gets its entry, and an enabled plugin its process. *)
LEMMA LoadSound ==
    ASSUME InstallInv, Load
    PROVE  InstallInv'
<1>1. /\ \A j \in Jobs : job[j] = Idle
      /\ boot' = "up"
      /\ UNCHANGED <<bundled, manifest, dir, tmp, provisioned, job, tangled, hurt>>
  BY DEF Load, disk, InstallInv, Blank
<1> DEFINE n == [version |-> manifest.version, enabled |-> manifest.enabled,
                 up |-> manifest.enabled /\ Whole(manifest.version)]
<1>2. /\ registry' = IF manifest # NoManifest THEN 1 ELSE 0
      /\ entry' = [e \in Slots |-> IF e # registry' THEN NoEntry ELSE n]
  BY DEF Load, Loadable, ValidManifest, InstallInv, Flawless, None
<1>3. /\ manifest # NoManifest => n \in Entry
      /\ n.version = manifest.version /\ n.enabled = manifest.enabled
      /\ n.up => n.enabled
  BY DEF InstallInv, TypeOK, Entry
<1> HIDE DEF n
<1>4. registry' \in {0} \cup Slots /\ (registry' # 0 => entry'[registry'] = n)
  BY <1>2, SlotsFrom1
<1>5. entry' \in Entries
  BY <1>2, <1>3, SlotsFrom1 DEF Entries
<1>6. TypeOK'
  BY <1>1, <1>4, <1>5 DEF InstallInv, TypeOK, Entries, Entry
<1>7. Informed' /\ Kept' /\ Flawless' /\ Blank' /\ Alone'
  BY <1>1, <1>2, <1>3, <1>4, Nothing
     DEF InstallInv, Informed, Kept, Flawless, Blank, Alone, Active
<1>8. Orderly'
  <2>1. SUFFICES ASSUME ~tangled PROVE Orderly'
    BY <1>1 DEF Orderly
  <2>2. \A j \in Jobs : Progress(j)'
    BY <1>1, Nothing DEF Progress, InstallPc, HoldPc
  <2>3. Agreed'
    BY <1>1, <1>2, <1>3, <1>4, SlotsFrom1 DEF Agreed
  <2>4. Filed \/ hurt
    BY <1>1, <2>1, Nothing DEF InstallInv, Orderly
  <2>5. Filed' \/ hurt'
    BY <1>1, <2>4 DEF Filed, Whole
  <2>6. NoStrayProcess'
    BY <1>2, <1>3, Nothing DEF NoStrayProcess
  <2>7. QED
    BY <2>2, <2>3, <2>5, <2>6 DEF Orderly
<1>9. QED
  BY <1>6, <1>7, <1>8 DEF InstallInv

(* The Worker ends. *)
LEMMA CrashSound ==
    ASSUME InstallInv, Crash
    PROVE  InstallInv'
<1>1. /\ boot' = "down" /\ job' = [j \in Jobs |-> Idle] /\ tmp' = NoManifest
      /\ registry' = 0 /\ entry' = [e \in Slots |-> NoEntry]
      /\ hurt' = (hurt \/ ~Quiet)
      /\ UNCHANGED <<bundled, manifest, dir, provisioned, tangled>>
  BY DEF Crash
<1>2. TypeOK'
  BY <1>1, Nothing DEF InstallInv, TypeOK
<1>3. Informed' /\ Kept' /\ Flawless' /\ Blank' /\ Alone'
  BY <1>1, Nothing
     DEF InstallInv, Informed, Kept, Flawless, Blank, Alone, Active, InstallPc, HoldPc
<1>4. Orderly'
  <2>1. SUFFICES ASSUME ~tangled PROVE Orderly'
    BY <1>1 DEF Orderly
  <2>2. \A j \in Jobs : Progress(j)'
    BY <1>1, Nothing DEF Progress, InstallPc, HoldPc
  <2>3. Filed \/ hurt \/ ~Quiet
    BY <2>1 DEF InstallInv, Orderly, Quiet, Active
  <2>4. Filed' \/ hurt'
    BY <1>1, <2>3 DEF Filed, Whole
  <2>5. NoStrayProcess'
    BY <1>1, Nothing DEF NoStrayProcess
  <2>6. QED
    BY <1>1, <2>2, <2>4, <2>5 DEF Orderly
<1>5. QED
  BY <1>2, <1>3, <1>4 DEF InstallInv

-----------------------------------------------------------------------------
(* The theorems. *)

(* Every step of a job keeps the invariant. *)
LEMMA JobStepSound ==
    ASSUME InstallInv, NEW j \in Jobs, JobStep(j)
    PROVE  InstallInv'
<1>1. CASE BeginInstall(j)
  <2>1. CASE job[j].canceled
    BY <1>1, <2>1, GiveUpSound DEF BeginInstall
  <2>2. CASE ~job[j].canceled
    BY <1>1, <2>2, BeginInstallSound
  <2>3. QED
    BY <2>1, <2>2
<1>2. CASE Check(j)
  <2>1. CASE Goto(j, "download")
    BY <1>2, <2>1, PrepareSound DEF Check
  <2>2. CASE Finish(j)
    BY <1>2, <2>2, GiveUpSound DEF Check
  <2>3. QED
    BY <1>2, <2>1, <2>2 DEF Check
<1>3. CASE Download(j) \/ Verify(j) \/ Extract(j) \/ AssertNoPathTraversal(j)
  <2>1. /\ job[j].pc \in {"check", "download", "verify", "extract", "inspect"}
        /\ UNCHANGED <<disk, worker, registry, tangled, hurt>> /\ Adapters(entry)
    BY <1>3 DEF Download, Verify, Extract, AssertNoPathTraversal, Attempt
  <2>2. PICK pc \in {"download", "verify", "extract", "inspect", "remove", "cleanup"} :
          Goto(j, pc)
    BY <1>3 DEF Download, Verify, Extract, AssertNoPathTraversal, Attempt
  <2>3. QED
    BY <2>1, <2>2, PrepareSound
<1>4. CASE RemoveOld(j) \/ Promote(j)
  BY <1>4, RemoveOldSound, PromoteSound
<1>5. CASE Render(j)
  BY <1>5, RenderWritesSound, RenderFailsSound
<1>6. CASE Publish(j)
  BY <1>6, PublishSound, PublishFailsSound
<1>7. CASE Register(j)
  BY <1>7, RegisterSound, RegisterClashSound
<1>8. CASE Started(j)
  <2>1. Adapters(entry) \/ Adapters(Stopped(job[j].held))
    BY <1>8 DEF Started
  <2>2. QED
    BY <1>8, <2>1, StartedSound, StartFailedSound
<1>9. CASE Cleanup(j) \/ RemoveManifest(j) \/ RemoveDir(j)
  BY <1>9, CleanupSound, RemoveManifestSound, RemoveDirSound
<1>10. CASE BeginUninstall(j)
  <2>1. CASE job[j].canceled \/ bundled
    BY <1>10, <2>1, GiveUpSound DEF BeginUninstall
  <2>2. CASE ~(job[j].canceled \/ bundled)
    BY <1>10, <2>2, BeginUninstallSound
  <2>3. QED
    BY <2>1, <2>2
<1>11. CASE BeginSetEnabled(j)
  <2>1. CASE registry = 0
    BY <1>11, <2>1, GiveUpSound DEF BeginSetEnabled
  <2>2. CASE registry # 0
    BY <1>11, <2>2, BeginSetEnabledSound
  <2>3. QED
    BY <2>1, <2>2
<1>12. CASE ReadManifest(j)
  <2>1. CASE manifest = NoManifest
    BY <1>12, <2>1, GiveUpSound DEF ReadManifest
  <2>2. CASE manifest # NoManifest
    BY <1>12, <2>2, ReadManifestSound
  <2>3. QED
    BY <2>1, <2>2
<1>13. CASE WriteEnabled(j)
  BY <1>13, WriteEnabledSound
<1>14. QED
  BY <1>1, <1>2, <1>3, <1>4, <1>5, <1>6, <1>7, <1>8, <1>9, <1>10, <1>11, <1>12, <1>13
     DEF JobStep

(* The invariant holds at the beginning. *)
LEMMA InitSound == Init => InstallInv
<1> SUFFICES ASSUME Init PROVE InstallInv
  OBVIOUS
<1>1. TypeOK
  BY Nothing DEF Init, TypeOK
<1>2. Informed /\ Kept /\ Flawless /\ Blank /\ Alone
  BY Nothing DEF Init, Informed, Kept, Flawless, Blank, Alone, Active, InstallPc, HoldPc
<1>3. Orderly
  <2>1. \A j \in Jobs : Progress(j)
    BY Nothing DEF Init, Progress, InstallPc, HoldPc
  <2>2. QED
    BY <2>1, Nothing DEF Init, Orderly, Filed, NoStrayProcess
<1>4. QED
  BY <1>1, <1>2, <1>3 DEF InstallInv

(* Every step keeps it. *)
LEMMA StepSound == InstallInv /\ [Next]_vars => InstallInv'
<1> SUFFICES ASSUME InstallInv, [Next]_vars PROVE InstallInv'
  OBVIOUS
<1>1. CASE Start
  <2>1. boot # "up" /\ boot' \in {"provision", "mark", "load"} /\ provisioned' \in BOOLEAN
    BY <1>1 DEF Start, disk, InstallInv, TypeOK
  <2>2. QED
    BY <1>1, <2>1, BootSound DEF Start, disk
<1>2. CASE Provision
  <2>1. provisioned' \in BOOLEAN
    BY <1>2 DEF Provision, InstallInv, TypeOK
  <2>2. QED
    BY <1>2, <2>1, BootSound DEF Provision
<1>3. CASE MarkProvisioned
  BY <1>3, BootSound DEF MarkProvisioned
<1>4. CASE Load
  BY <1>4, LoadSound
<1>5. CASE Crash
  BY <1>5, CrashSound
<1>6. CASE \E j \in Jobs : Claim(j) \/ Cancel(j) \/ JobStep(j)
  BY <1>6, ClaimSound, CancelSound, JobStepSound
<1>7. CASE UNCHANGED vars
  <2>1. UNCHANGED <<bundled, boot, manifest, dir, tmp, provisioned, registry, entry, job,
                    crashes, tangled, hurt>>
    BY <1>7 DEF vars
  <2>2. TypeOK' /\ Informed' /\ Kept' /\ Flawless' /\ Blank'
    BY <2>1 DEF InstallInv, TypeOK, Informed, Kept, Flawless, Blank
  <2>3. Alone' /\ Orderly'
    BY <2>1 DEF InstallInv, Alone, Active, Orderly, Progress, Agreed, Filed, Whole,
                NoStrayProcess
  <2>4. QED
    BY <2>2, <2>3 DEF InstallInv
<1>8. QED
  BY <1>1, <1>2, <1>3, <1>4, <1>5, <1>6, <1>7 DEF Next

(* Registry, manifest, files and processes of a plugin go together in every   *)
(* state, wherever a job stands, is canceled, fails or is cut off.            *)
THEOREM InstallIsSound == Spec => []InstallInv
<1>1. Init => InstallInv
  BY InitSound
<1>2. InstallInv /\ [Next]_vars => InstallInv'
  BY StepSound
<1>3. QED
  BY <1>1, <1>2, PTL DEF Spec

(* The model keeps to its types. *)
THEOREM InstallIsTyped == Spec => []TypeOK
<1>1. InstallInv => TypeOK
  BY DEF InstallInv
<1>2. QED
  BY <1>1, InstallIsSound, PTL

(* With no job under way, the registry offers the plugin that a restart would *)
(* load, at its version and as enabled as it is, unless two jobs of the       *)
(* plugin ever ran at once.                                                   *)
THEOREM RegistryIsTheDisk == Spec => []RegistryMatchesDisk
<1>1. InstallInv => RegistryMatchesDisk
  BY DEF InstallInv, Orderly, Agreed, RegistryMatchesDisk, Settled, Quiet, Active
<1>2. QED
  BY <1>1, InstallIsSound, PTL

(* A process of the plugin belongs to the registered adapter, enabled: an     *)
(* upgrade, a removal, a failed start leaves none behind.                     *)
THEOREM ProcessesHaveOwners == Spec => []NoStrayProcess
<1>1. InstallInv => NoStrayProcess
  BY DEF InstallInv, Orderly, NoStrayProcess
<1>2. QED
  BY <1>1, InstallIsSound, PTL

(* A manifest has the files of its version and runs no others, and files      *)
(* without one are left only by an installation that failed or was cut off.   *)
THEOREM ManifestsHaveFiles == Spec => []ManifestHasFiles
<1>1. InstallInv => ManifestHasFiles
  BY DEF InstallInv, Orderly, Filed, Flawless, ManifestHasFiles, Settled, Quiet, Active,
         CommandPathsInside, None
<1>2. QED
  BY <1>1, InstallIsSound, PTL
=============================================================================
