----------------------------- MODULE KernelPackage -----------------------------
(***************************************************************************)
(* The kernel package of internal/kernel: Sync copies the allowlisted      *)
(* sources into kernel/, records their digests in kernel/manifest.json and *)
(* packs them into the zip the binary embeds; Verify, which CI runs, says  *)
(* whether the three agree; the release workflow builds the binary without *)
(* waiting for it; Install unpacks the embedded zip into another           *)
(* repository.                                                             *)
(*                                                                         *)
(* A file is its content, and a digest is the content it is the digest of. *)
(* The order in which the sorted lists of paths are walked is left open,   *)
(* and nothing happens at the source once a binary is released.            *)
(***************************************************************************)
EXTENDS FiniteSets, Naturals

CONSTANTS
    Paths,        \* allowlisted paths, present at the source or not
    Contents,     \* what the maintainer may write in a source
    Missing,      \* no such file
    Torn,         \* a file some of whose bytes were written
    Mine,         \* what a user of the consumer repository wrote
    Symlink,      \* a symbolic link in the consumer repository
    Manifest,     \* where Install puts the manifest
    MaxEdits,     \* bound on the edits of one behaviour
    MaxSyncs,     \* bound on the runs of Sync
    MaxInstalls   \* bound on the runs of Install

Image == [Paths -> Contents \cup {Missing}]
Dests == Paths \cup {Manifest}

ASSUME KernelAssumption ==
    /\ Manifest \notin Paths
    /\ Cardinality({Missing, Torn, Mine, Symlink}) = 4
    /\ Contents \cap {Missing, Torn, Mine, Symlink} = {}
    /\ Missing \notin [files : Image, manifest : Image]
    /\ MaxEdits \in Nat /\ MaxSyncs \in Nat /\ MaxInstalls \in Nat

VARIABLES
    source,    \* the allowlisted files at the repository root
    tree,      \* kernel/
    manifest,  \* kernel/manifest.json: an image, Missing or Torn
    zip,       \* kernel.zip: its files and its manifest, or Missing
    sync,      \* what Sync is doing
    found,     \* history: the manifest and the zip when Sync began
    embedded,  \* the zip in the released binary, or Missing
    released,  \* history: the sources the binary was built from
    verified,  \* history: Verify accepts the package the binary was built from
    consumer,  \* the files of the consumer repository
    install,   \* what Install is doing
    steady,    \* history: nobody has edited anything since the last command began
    count      \* edits, syncs and installs so far

package == <<tree, manifest, zip>>
release == <<embedded, released, verified>>
consumption == <<consumer, install>>
vars == <<source, package, sync, found, release, consumption, steady, count>>

Empty == [p \in Paths |-> Missing]
Present(image) == {p \in Paths : image[p] # Missing}

\* There is always some source: a walk of an absent kernel/ is left out.
Sources == {image \in Image : Present(image) # {}}

Nowhere == [d \in Dests |-> Missing]

\* Sync's variables before it has visited any entry, and once it has returned.
SyncState(label, entries) ==
    [pc |-> label, entries |-> entries, todo |-> entries, read |-> Empty,
     previous |-> Missing, stuck |-> FALSE]

-------------------------------------------------------------------------------
Init ==
    /\ source \in Sources
    /\ tree = Empty /\ manifest = Missing /\ zip = Missing
    /\ sync = SyncState("idle", {})
    /\ found = [manifest |-> Missing, zip |-> Missing]
    /\ embedded = Missing /\ released = Empty /\ verified = FALSE
    /\ consumer = Nowhere
    /\ install = [pc |-> "idle", force |-> FALSE, todo |-> {}, written |-> {},
                  previous |-> Nowhere, culprit |-> {}, stuck |-> {}]
    /\ steady = FALSE
    /\ count = [edits |-> 0, syncs |-> 0, installs |-> 0]

Counted(what, bound) ==
    count[what] < bound /\ count' = [count EXCEPT ![what] = @ + 1]

SyncAt(label) == sync.pc = label
Syncing == sync.pc \in {"copy", "hash", "zip"}

\* A source is written or removed, or a file of kernel/ is edited by hand.
Edit ==
    /\ embedded = Missing /\ Counted("edits", MaxEdits)
    /\ \E p \in Paths, c \in Contents \cup {Missing} :
         \/ source' = [source EXCEPT ![p] = c] /\ source' \in Sources /\ UNCHANGED tree
         \/ tree' = [tree EXCEPT ![p] = c] /\ UNCHANGED source
    /\ steady' = FALSE
    /\ UNCHANGED <<manifest, zip, sync, found, release, consumption>>

-------------------------------------------------------------------------------
(* Sync. *)

\* ListSources.
SyncBegin ==
    /\ embedded = Missing /\ ~Syncing
    /\ Counted("syncs", MaxSyncs)
    /\ sync' = SyncState("copy", Present(source))
    /\ found' = [manifest |-> manifest, zip |-> zip]
    /\ steady' = TRUE
    /\ UNCHANGED <<source, package, release, consumption>>

\* One entry of the current loop: a source that has gone since is an error.
Visit(label, p) == SyncAt(label) /\ p \in sync.todo /\ source[p] # Missing

EndOf(label) == SyncAt(label) /\ sync.todo = {}

\* Mutant of Loop: the allowlist is walked afresh.
LoopAllowlist(label) == [sync EXCEPT !.pc = label, !.todo = Paths, !.read = Empty]

Loop(label) == [sync EXCEPT !.pc = label, !.todo = sync.entries, !.read = Empty]

SyncRest == <<source, found, release, consumption, steady, count>>

CopyFile(p) ==
    /\ Visit("copy", p)
    /\ tree' = [tree EXCEPT ![p] = source[p]]
    /\ sync' = [sync EXCEPT !.todo = @ \ {p}]
    /\ UNCHANGED <<manifest, zip, SyncRest>>

\* Mutant of RemoveStale: only what the last manifest lists is removed.
RemoveListed ==
    /\ EndOf("copy")
    /\ tree' = [p \in Paths |->
         IF p \in sync.entries \/ manifest \notin Image \/ manifest[p] = Missing
           THEN tree[p] ELSE Missing]
    /\ sync' = Loop("hash")
    /\ UNCHANGED <<manifest, zip, SyncRest>>

\* The files of kernel/ that are no source any more.
RemoveStale ==
    /\ EndOf("copy")
    /\ tree' = [p \in Paths |-> IF p \in sync.entries THEN tree[p] ELSE Missing]
    /\ sync' = Loop("hash")
    /\ UNCHANGED <<manifest, zip, SyncRest>>

\* buildManifest digests the sources, read again.
HashFile(p) ==
    /\ Visit("hash", p)
    /\ sync' = [sync EXCEPT !.todo = @ \ {p}, !.read[p] = source[p]]
    /\ UNCHANGED <<package, SyncRest>>

WriteManifest ==
    /\ EndOf("hash")
    /\ manifest' = sync.read
    /\ sync' = [Loop("zip") EXCEPT !.previous = manifest]
    /\ UNCHANGED <<tree, zip, SyncRest>>

\* writePayloadZip packs the sources, read a third time, into a buffer ...
PackFile(p) ==
    /\ Visit("zip", p)
    /\ sync' = [sync EXCEPT !.todo = @ \ {p}, !.read[p] = source[p]]
    /\ UNCHANGED <<package, SyncRest>>

\* ... and renames it into place with the manifest just written.
WriteZip ==
    /\ EndOf("zip")
    /\ zip' = [files |-> sync.read, manifest |-> manifest]
    /\ sync' = SyncState("ok", {})
    /\ UNCHANGED <<tree, manifest, SyncRest>>

\* Mutant of RestoreManifest: the new manifest stays when the zip cannot be written.
KeepManifest(stuck) == UNCHANGED manifest

\* The previous manifest is written back in place, or removed where there was none.
\* Errors of that are ignored, one that could not be read is not written back, and
\* a process may die before it or half way: then it is stuck.
RestoreManifest(stuck) ==
    manifest' \in IF ~stuck THEN {sync.previous}
                  ELSE {manifest} \cup (IF sync.previous = Missing THEN {} ELSE {Torn})

\* Sync returns an error or dies: in the middle of a copy, of the removals, of a
\* digest, of the manifest (written in place), or of the zip (renamed into place).
SyncEnds(end) == \E stuck \in BOOLEAN :
    /\ \/ /\ SyncAt("copy")
          /\ \E p \in sync.todo :
               tree' \in {tree} \cup (IF source[p] = Missing THEN {}
                                      ELSE {[tree EXCEPT ![p] = Torn]})
          /\ UNCHANGED manifest
       \/ /\ EndOf("copy")
          /\ \E gone \in SUBSET (Paths \ sync.entries) :
               tree' = [p \in Paths |-> IF p \in gone THEN Missing ELSE tree[p]]
          /\ UNCHANGED manifest
       \/ SyncAt("hash") /\ UNCHANGED <<tree, manifest>>
       \/ EndOf("hash") /\ manifest' = Torn /\ UNCHANGED tree
       \/ SyncAt("zip") /\ RestoreManifest(stuck) /\ UNCHANGED tree
    /\ stuck => SyncAt("zip")
    /\ sync' = [SyncState(end, {}) EXCEPT !.stuck = stuck]
    /\ UNCHANGED <<zip, SyncRest>>

SyncStep ==
    \/ SyncBegin \/ RemoveStale \/ WriteManifest \/ WriteZip
    \/ \E p \in Paths : CopyFile(p) \/ HashFile(p) \/ PackFile(p)
    \/ \E end \in {"failed", "dead"} : SyncEnds(end)

-------------------------------------------------------------------------------
(* Verify, and the build. *)

\* Mutant of PathClean: the manifest is not compared with the source.
PathCleanNoManifest(p) == tree[p] = source[p]

\* No drift at one path: kernel/ and the manifest agree with the source, and
\* neither has what the source does not.
PathClean(p) == tree[p] = source[p] /\ manifest[p] = source[p]

\* verifyPayloadZip: the zip holds the manifest, and the sources it lists.
ZipClean ==
    /\ zip # Missing
    /\ zip.manifest = manifest
    /\ \A p \in Paths : zip.files[p] = IF source[p] = Missing THEN Missing ELSE manifest[p]

VerifyClean ==
    /\ manifest \in Image
    /\ \A p \in Paths : PathClean(p)
    /\ ZipClean

\* The artifacts job embeds whatever zip the released commit has: it does not run
\* Verify and does not wait for the job that does.  go:embed wants the file, and
\* a commit is not taken in the middle of a Sync.
Build ==
    /\ embedded = Missing /\ ~Syncing /\ zip # Missing
    /\ embedded' = zip /\ released' = source /\ verified' = VerifyClean
    /\ UNCHANGED <<source, package, sync, found, consumption, steady, count>>

-------------------------------------------------------------------------------
(* Install. *)

Payload(d) == IF d = Manifest THEN embedded.manifest ELSE embedded.files[d]
Packed == {d \in Dests : Payload(d) # Missing}
InstallRest == <<source, package, sync, found, release, count>>

UserWrites ==
    /\ embedded # Missing /\ Counted("edits", MaxEdits)
    /\ \E d \in Dests, c \in {Missing, Mine, Symlink} : consumer' = [consumer EXCEPT ![d] = c]
    /\ steady' = FALSE
    /\ UNCHANGED <<source, package, sync, found, release, install>>

\* Mutant of Plan: what exists is replaced in any case.
PlanAll(force) == Packed

\* Without --force, what exists is left alone.
Plan(force) == {d \in Packed : force \/ consumer[d] = Missing}

\* Everything is looked at and read before anything is written; a link is refused.
InstallBegin ==
    /\ embedded # Missing /\ install.pc # "write"
    /\ Counted("installs", MaxInstalls)
    /\ \E force \in BOOLEAN :
         install' = [pc |-> IF \E d \in Packed : consumer[d] = Symlink THEN "refused"
                            ELSE IF Plan(force) = {} THEN "ok" ELSE "write",
                     force |-> force, todo |-> Plan(force), written |-> {},
                     previous |-> consumer, culprit |-> {}, stuck |-> {}]
    /\ steady' = TRUE
    /\ UNCHANGED <<source, package, sync, found, release, consumer>>

InstallFile(d) ==
    /\ install.pc = "write" /\ d \in install.todo
    /\ consumer' = [consumer EXCEPT ![d] = Payload(d)]
    /\ install' = [install EXCEPT !.todo = @ \ {d}, !.written = @ \cup {d},
                                  !.pc = IF install.todo = {d} THEN "ok" ELSE "write"]
    /\ UNCHANGED <<InstallRest, steady>>

\* Mutant of Restored: everything Install wrote is removed.
Removed(d) == Missing

\* rollback: what existed gets its content back, the rest is removed.
Restored(d) == install.previous[d]

\* A write fails, maybe half way, and what was written before is rolled back; a
\* file that cannot be rolled back is passed over.
InstallFails(d) ==
    /\ install.pc = "write" /\ d \in install.todo
    /\ \E stuck \in SUBSET install.written, left \in {consumer[d], Torn} :
         /\ consumer' = [x \in Dests |->
              IF x = d THEN left
              ELSE IF x \in install.written \ stuck THEN Restored(x) ELSE consumer[x]]
         /\ install' = [install EXCEPT !.pc = "failed", !.culprit = {d}, !.stuck = stuck]
    /\ UNCHANGED <<InstallRest, steady>>

InstallDies(d) ==
    /\ install.pc = "write" /\ d \in install.todo
    /\ consumer' \in {consumer, [consumer EXCEPT ![d] = Torn]}
    /\ install' = [install EXCEPT !.pc = "dead"]
    /\ UNCHANGED <<InstallRest, steady>>

InstallStep ==
    InstallBegin \/ \E d \in Dests : InstallFile(d) \/ InstallFails(d) \/ InstallDies(d)

Next == Edit \/ SyncStep \/ Build \/ UserWrites \/ InstallStep

Spec == Init /\ [][Next]_vars
-------------------------------------------------------------------------------
File == Contents \cup {Missing, Torn}

\* Types of the package at the source, in the binary and at the consumer.
KernelTypeOK ==
    /\ source \in Sources /\ released \in Image /\ verified \in BOOLEAN
    /\ tree \in [Paths -> File]
    /\ manifest \in Image \cup {Missing, Torn}
    /\ \A z \in {zip, embedded} \ {Missing} : z.files \in Image /\ z.manifest \in Image
    /\ sync.todo \subseteq sync.entries /\ sync.read \in Image
    /\ consumer \in [Dests -> File \cup {Mine, Symlink} \cup Image]

\* Whatever edits, failures and interrupted runs left behind, a Sync that succeeds
\* leaves nothing for Verify to report, unless a file was edited meanwhile.
SyncRepairs == SyncAt("ok") /\ steady /\ embedded = Missing => VerifyClean

\* A Sync that returns an error has not touched the zip, and leaves the manifest it
\* found or one nobody can read.  Where it was stuck putting that back, the new one
\* may stay, of a package that was not built; unless a file was edited, it is the
\* manifest of the sources and of kernel/, so that only the zip disagrees.
FailedSyncKeepsPackage ==
    SyncAt("failed") =>
        /\ zip = found.zip
        /\ ~sync.stuck => manifest \in {Torn, found.manifest}
        /\ sync.stuck /\ steady /\ embedded = Missing =>
               manifest = Torn \/ \A p \in Paths : PathClean(p)

\* What a forced install leaves at the consumer is exactly the sources of the
\* release, if Verify accepts the package the binary was built from, although
\* kernel.zip was read from them at another time than the manifest and kernel/.
\* Of a package Verify reports, nothing is claimed: the release does not ask it.
InstalledIsReleased ==
    install.pc = "ok" /\ install.force /\ steady /\ verified =>
        \A p \in Paths : released[p] # Missing => consumer[p] = released[p]

\* Without --force no file that existed when Install began is changed by it, not
\* even by its rollback.
NoForceKeepsFiles ==
    [][~install'.force /\ install' # install =>
         \A d \in Dests : consumer'[d] # consumer[d] => install'.previous[d] = Missing]_vars

\* A failed install puts back every file except the one it failed on and those
\* whose restoration failed too.
InstallRolledBack ==
    install.pc = "failed" /\ steady =>
        \A d \in Dests \ (install.culprit \cup install.stuck) :
            consumer[d] = install.previous[d]
===============================================================================
