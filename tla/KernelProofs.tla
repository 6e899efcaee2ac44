------------------------------ MODULE KernelProofs ------------------------------
(***************************************************************************)
(* What holds of KernelPackage for every set of paths and contents and any *)
(* number of edits, Syncs and Installs.                                    *)
(*                                                                         *)
(* Sync and Install are loops over a list of files with reads and writes   *)
(* in between.  The inductive invariant says, for each loop, what the part *)
(* of the list already walked looks like, as long as nobody edits a file   *)
(* meanwhile (steady).                                                     *)
(***************************************************************************)
EXTENDS KernelPackage, TLAPS

SyncLabels == {"idle", "copy", "hash", "zip", "ok", "failed", "dead"}
InstallLabels == {"idle", "refused", "write", "ok", "failed", "dead"}

Zips == [files : Image, manifest : Image]
Manifests == Image \cup {Missing, Torn}
Kinds == File \cup {Mine, Symlink} \cup Image
Installed == [Dests -> Kinds]

SyncRecord == [pc : SyncLabels, entries : SUBSET Paths, todo : SUBSET Paths,
               read : Image, previous : Manifests, stuck : BOOLEAN]
InstallRecord == [pc : InstallLabels, force : BOOLEAN, todo : SUBSET Dests,
                  written : SUBSET Dests, previous : Installed,
                  culprit : SUBSET Dests, stuck : SUBSET Dests]

SourceTypes ==
    /\ source \in Sources /\ released \in Image /\ verified \in BOOLEAN
    /\ tree \in [Paths -> File] /\ manifest \in Manifests
    /\ zip \in Zips \cup {Missing} /\ embedded \in Zips \cup {Missing}
    /\ sync \in SyncRecord /\ sync.todo \subseteq sync.entries
    /\ SyncAt("zip") => manifest \in Image

ConsumerTypes == consumer \in Installed /\ install \in InstallRecord

KernelTypes == SourceTypes /\ ConsumerTypes

\* What the list walked so far was read as.
ReadSoFar ==
    \A p \in Paths : sync.read[p] = IF p \in sync.entries \ sync.todo THEN source[p]
                                    ELSE Missing

\* A Sync nobody disturbs: what it has done up to the loop it is in.
Undisturbed ==
    steady /\ embedded = Missing =>
        /\ Syncing => sync.entries = Present(source)
        /\ SyncAt("copy") => \A p \in sync.entries \ sync.todo : tree[p] = source[p]
        /\ SyncAt("hash") => ReadSoFar /\ \A p \in Paths : tree[p] = source[p]
        /\ SyncAt("zip") => ReadSoFar /\ \A p \in Paths : PathClean(p)
        /\ SyncAt("ok") => VerifyClean
        /\ SyncAt("failed") /\ sync.stuck => manifest = Torn \/ \A p \in Paths : PathClean(p)

\* The package a Sync found, until it replaces it, or puts it back when it fails.
KeepsFound ==
    /\ Syncing => zip = found.zip
    /\ sync.pc \in {"copy", "hash"} => manifest = found.manifest
    /\ SyncAt("zip") => sync.previous = found.manifest
    /\ SyncAt("failed") => zip = found.zip
    /\ SyncAt("failed") /\ ~sync.stuck => manifest \in {Torn, found.manifest}

\* The binary holds what it was built from, if that passed Verify, and there is none
\* before an Install.
Genuine ==
    /\ embedded # Missing /\ verified => \A p \in Paths : embedded.files[p] = released[p]
    /\ embedded = Missing => install.pc = "idle"

\* An Install: the files written so far and the rest.
Halfway ==
    /\ install.pc = "write" /\ steady =>
           /\ \A d \in Dests \ install.written : consumer[d] = install.previous[d]
           /\ \A d \in install.written : consumer[d] = Payload(d)
    /\ install.pc = "write" /\ install.force => Packed \subseteq install.todo \cup install.written
    /\ install.pc = "write" /\ ~install.force =>
           \A d \in install.todo \cup install.written : install.previous[d] = Missing
    /\ install.pc = "ok" /\ install.force /\ steady => \A d \in Packed : consumer[d] = Payload(d)
    /\ InstallRolledBack

-------------------------------------------------------------------------------
LEMMA SyncStateType ==
    ASSUME NEW label \in SyncLabels, NEW entries \in SUBSET Paths
    PROVE  /\ SyncState(label, entries) \in SyncRecord
           /\ SyncState(label, entries).pc = label
           /\ SyncState(label, entries).entries = entries
           /\ SyncState(label, entries).todo = entries
  BY DEF SyncState, SyncRecord, Empty, Image, Manifests

LEMMA InitTypes == Init => KernelTypes
<1> SUFFICES ASSUME Init PROVE KernelTypes
  OBVIOUS
<1>1. Empty \in Image /\ Empty \in [Paths -> File]
  BY DEF Empty, Image, File
<1>2. Nowhere \in Installed
  BY DEF Nowhere, Installed, Kinds, File
<1>3. sync \in SyncRecord
  BY SyncStateType DEF Init, SyncLabels
<1>4. install \in InstallRecord
  BY <1>2 DEF Init, InstallRecord, InstallLabels
<1>5. SourceTypes
  <2>1. sync.todo = {} /\ sync.pc = "idle"
    BY SyncStateType DEF Init, SyncLabels
  <2> QED  BY <1>1, <1>3, <2>1 DEF Init, SourceTypes, SyncAt, Manifests
<1>6. ConsumerTypes
  BY <1>2, <1>4 DEF Init, ConsumerTypes
<1> QED  BY <1>5, <1>6 DEF KernelTypes

\* A source that is read is one of the contents.
LEMMA SourceImage == Sources \subseteq Image /\ Image \subseteq [Paths -> File]
  BY DEF Sources, Image, File

\* Sync, the edits and the build keep the types of the source repository.
LEMMA SourceStep == KernelTypes /\ [Next]_vars => SourceTypes'
<1> SUFFICES ASSUME KernelTypes, [Next]_vars PROVE SourceTypes'
  OBVIOUS
<1> USE SourceImage DEF KernelTypes, SourceTypes, package, release, consumption, SyncRest, InstallRest, SyncAt
<1>i. source \in Image /\ source \in [Paths -> Contents \cup {Missing}]
  BY DEF Image
<1>1. CASE UNCHANGED vars
  BY <1>1 DEF vars
<1>2. CASE Edit
  <2>1. tree' \in [Paths -> File] /\ source' \in Sources
    BY <1>2 DEF Edit, File
  <2> QED  BY <1>2, <2>1 DEF Edit
<1>3. CASE SyncBegin
  <2>1. sync' \in SyncRecord /\ sync'.todo = sync'.entries /\ sync'.pc = "copy"
    BY <1>3, SyncStateType DEF SyncBegin, SyncLabels, Present
  <2> QED  BY <1>3, <2>1 DEF SyncBegin
<1>4. ASSUME NEW p \in Paths, CopyFile(p) PROVE SourceTypes'
  <2>1. sync' \in SyncRecord /\ sync'.todo \subseteq sync'.entries /\ sync'.pc = "copy"
    BY <1>4 DEF CopyFile, Visit, SyncRecord
  <2>2. tree' \in [Paths -> File]
    BY <1>4, <1>i DEF CopyFile, File
  <2> QED  BY <1>4, <2>1, <2>2 DEF CopyFile
<1>5. CASE RemoveStale
  <2>1. sync' \in SyncRecord /\ sync'.todo = sync'.entries /\ sync'.pc = "hash"
    BY <1>5 DEF RemoveStale, Loop, SyncRecord, SyncLabels, Empty, Image
  <2>2. tree' \in [Paths -> File]
    BY <1>5 DEF RemoveStale, File
  <2> QED  BY <1>5, <2>1, <2>2 DEF RemoveStale
<1>6. ASSUME NEW p \in Paths, HashFile(p) PROVE SourceTypes'
  <2>1. sync' \in SyncRecord /\ sync'.todo \subseteq sync'.entries /\ sync'.pc = "hash"
    BY <1>6, <1>i DEF HashFile, Visit, SyncRecord, Image
  <2> QED  BY <1>6, <2>1 DEF HashFile
<1>7. CASE WriteManifest
  <2>1. sync' \in SyncRecord /\ sync'.todo = sync'.entries
    BY <1>7 DEF WriteManifest, Loop, SyncRecord, SyncLabels, Empty, Image
  <2>2. manifest' \in Image
    BY <1>7 DEF WriteManifest, SyncRecord
  <2> QED  BY <1>7, <2>1, <2>2 DEF WriteManifest, Manifests
<1>8. ASSUME NEW p \in Paths, PackFile(p) PROVE SourceTypes'
  <2>1. sync' \in SyncRecord /\ sync'.todo \subseteq sync'.entries
    BY <1>8, <1>i DEF PackFile, Visit, SyncRecord, Image
  <2> QED  BY <1>8, <2>1 DEF PackFile, Visit
<1>9. CASE WriteZip
  <2>1. sync' \in SyncRecord /\ sync'.todo = {} /\ sync'.pc = "ok"
    BY <1>9, SyncStateType DEF WriteZip, SyncLabels
  <2>2. zip' \in Zips
    BY <1>9 DEF WriteZip, EndOf, SyncRecord, Zips
  <2> QED  BY <1>9, <2>1, <2>2 DEF WriteZip
<1>10. ASSUME NEW end \in {"failed", "dead"}, SyncEnds(end) PROVE SourceTypes'
  <2>1. sync' \in SyncRecord /\ sync'.todo = {} /\ sync'.pc # "zip"
    <3>1. PICK stuck \in BOOLEAN : sync' = [SyncState(end, {}) EXCEPT !.stuck = stuck]
      BY <1>10 DEF SyncEnds
    <3> QED  BY <3>1, SyncStateType DEF SyncRecord, SyncLabels
  <2>2. tree' \in [Paths -> File]
    <3>1. [p \in Paths |-> Missing] \in [Paths -> File] /\ Torn \in File /\ Missing \in File
      BY DEF File
    <3>2. \A q \in Paths : [tree EXCEPT ![q] = Torn] \in [Paths -> File]
      BY <3>1
    <3>3. \A gone : [q \in Paths |-> IF q \in gone THEN Missing ELSE tree[q]] \in [Paths -> File]
      BY <3>1
    <3> QED  BY <1>10, <3>2, <3>3 DEF SyncEnds
  <2>3. manifest' \in Manifests
    BY <1>10 DEF SyncEnds, RestoreManifest, Manifests, SyncRecord
  <2> QED  BY <1>10, <2>1, <2>2, <2>3 DEF SyncEnds
<1>11. CASE Build
  <2>1. verified' \in BOOLEAN
    BY <1>11 DEF Build, VerifyClean
  <2> QED  BY <1>11, <1>i, <2>1 DEF Build
<1>12. CASE UserWrites
  BY <1>12 DEF UserWrites
<1>13. CASE InstallStep
  BY <1>13 DEF InstallStep, InstallBegin, InstallFile, InstallFails, InstallDies
<1> QED
  BY <1>1, <1>2, <1>3, <1>4, <1>5, <1>6, <1>7, <1>8, <1>9, <1>10, <1>11, <1>12, <1>13
  DEF Next, SyncStep

\* What Install writes is content of the zip or its manifest.
LEMMA PayloadKind ==
    ASSUME KernelTypes, embedded # Missing, NEW d \in Dests
    PROVE  Payload(d) \in Kinds
<1>1. embedded \in Zips
  BY DEF KernelTypes, SourceTypes
<1> QED  BY <1>1 DEF Payload, Zips, Kinds, Dests, Image, File

\* Install and the users of the consumer repository keep the types there.
LEMMA ConsumerStep == KernelTypes /\ Genuine /\ [Next]_vars => ConsumerTypes'
<1> SUFFICES ASSUME KernelTypes, Genuine, [Next]_vars PROVE ConsumerTypes'
  OBVIOUS
<1> USE DEF KernelTypes, ConsumerTypes, consumption, SyncRest, InstallRest
<1>1. CASE UNCHANGED vars
  BY <1>1 DEF vars
<1>2. CASE Edit \/ SyncStep \/ Build
  BY <1>2 DEF Edit, SyncStep, SyncBegin, CopyFile, RemoveStale, HashFile, WriteManifest,
              PackFile, WriteZip, SyncEnds, Build
<1>3. CASE UserWrites
  <2>1. consumer' \in Installed
    BY <1>3 DEF UserWrites, Installed, Kinds, File
  <2> QED  BY <1>3, <2>1 DEF UserWrites
<1>4. CASE InstallBegin
  <2>1. \A force \in BOOLEAN : Plan(force) \in SUBSET Dests
    BY DEF Plan, Packed
  <2>2. install' \in InstallRecord
    BY <1>4, <2>1 DEF InstallBegin, InstallRecord, InstallLabels
  <2> QED  BY <1>4, <2>2 DEF InstallBegin
<1>5. ASSUME NEW d \in Dests, InstallFile(d) PROVE ConsumerTypes'
  <2>1. embedded # Missing
    BY <1>5 DEF InstallFile, Genuine
  <2>2. consumer' \in Installed
    BY <1>5, <2>1, PayloadKind DEF InstallFile, Installed
  <2>3. install' \in InstallRecord
    BY <1>5 DEF InstallFile, InstallRecord, InstallLabels
  <2> QED  BY <2>2, <2>3
<1>6. ASSUME NEW d \in Dests, InstallFails(d) PROVE ConsumerTypes'
  <2>1. PICK stuck \in SUBSET install.written, left \in {consumer[d], Torn} :
            /\ consumer' = [x \in Dests |->
                 IF x = d THEN left
                 ELSE IF x \in install.written \ stuck THEN Restored(x) ELSE consumer[x]]
            /\ install' = [install EXCEPT !.pc = "failed", !.culprit = {d}, !.stuck = stuck]
    BY <1>6 DEF InstallFails
  <2>2. \A x \in Dests : consumer[x] \in Kinds /\ Restored(x) \in Kinds
    BY DEF Installed, Restored, InstallRecord
  <2>3. left \in Kinds
    BY <2>2 DEF Kinds, File
  <2>4. consumer' \in Installed
    BY <2>1, <2>2, <2>3 DEF Installed
  <2>5. install' \in InstallRecord
    BY <2>1 DEF InstallRecord, InstallLabels
  <2> QED  BY <2>4, <2>5
<1>7. ASSUME NEW d \in Dests, InstallDies(d) PROVE ConsumerTypes'
  <2>1. consumer' \in Installed
    BY <1>7 DEF InstallDies, Installed, Kinds, File
  <2>2. install' \in InstallRecord
    BY <1>7 DEF InstallDies, InstallRecord, InstallLabels
  <2> QED  BY <2>1, <2>2
<1> QED
  BY <1>1, <1>2, <1>3, <1>4, <1>5, <1>6, <1>7 DEF Next, InstallStep

-------------------------------------------------------------------------------
\* A Sync that ends has forgotten its lists.
LEMMA EndState ==
    ASSUME NEW end \in {"failed", "dead"}, NEW stuck \in BOOLEAN
    PROVE  /\ [SyncState(end, {}) EXCEPT !.stuck = stuck].pc = end
           /\ [SyncState(end, {}) EXCEPT !.stuck = stuck].stuck = stuck
  BY DEF SyncState

\* No step of Sync changes what it found, and a failed one has put it back.
LEMMA FoundStep == KernelTypes /\ KeepsFound /\ [Next]_vars => KeepsFound'
<1> SUFFICES ASSUME KernelTypes, KeepsFound, [Next]_vars PROVE KeepsFound'
  OBVIOUS
<1> USE DEF KeepsFound, Syncing, SyncAt, KernelTypes, SourceTypes,
            SyncRest, InstallRest, package
<1>1. CASE UNCHANGED vars
  BY <1>1 DEF vars
<1>2. CASE Edit
  BY <1>2 DEF Edit
<1>3. CASE SyncBegin
  <2>1. sync'.pc = "copy"
    BY <1>3, SyncStateType DEF SyncBegin, SyncLabels, Present
  <2> QED  BY <1>3, <2>1 DEF SyncBegin
<1>4. ASSUME NEW p \in Paths, CopyFile(p) \/ HashFile(p) \/ PackFile(p) PROVE KeepsFound'
  <2>1. sync'.pc = sync.pc /\ sync'.previous = sync.previous /\ sync.pc # "failed"
    BY <1>4 DEF CopyFile, HashFile, PackFile, Visit, SyncRecord
  <2>2. UNCHANGED <<manifest, zip, found>>
    BY <1>4 DEF CopyFile, HashFile, PackFile
  <2> QED  BY <2>1, <2>2
<1>5. CASE RemoveStale
  <2>1. sync'.pc = "hash"
    BY <1>5 DEF RemoveStale, Loop, SyncRecord
  <2> QED  BY <1>5, <2>1 DEF RemoveStale, EndOf
<1>6. CASE WriteManifest
  <2>1. sync'.pc = "zip" /\ sync'.previous = manifest
    BY <1>6 DEF WriteManifest, Loop, SyncRecord
  <2> QED  BY <1>6, <2>1 DEF WriteManifest, EndOf
<1>7. CASE WriteZip
  <2>1. sync'.pc = "ok"
    BY <1>7, SyncStateType DEF WriteZip, SyncLabels
  <2> QED  BY <2>1
<1>8. ASSUME NEW end \in {"failed", "dead"}, SyncEnds(end) PROVE KeepsFound'
  <2>1. sync'.pc = end /\ sync.pc \in {"copy", "hash", "zip"}
    BY <1>8, EndState DEF SyncEnds, EndOf
  <2>2. ~sync'.stuck => manifest' \in {Torn, found.manifest}
    BY <1>8, EndState DEF SyncEnds, EndOf, RestoreManifest
  <2>3. UNCHANGED <<zip, found>>
    BY <1>8 DEF SyncEnds
  <2> QED  BY <2>1, <2>2, <2>3
<1>9. CASE Build \/ UserWrites
  BY <1>9 DEF Build, UserWrites
<1>10. CASE InstallStep
  BY <1>10 DEF InstallStep, InstallBegin, InstallFile, InstallFails, InstallDies
<1> QED
  BY <1>1, <1>2, <1>3, <1>4, <1>5, <1>6, <1>7, <1>8, <1>9, <1>10 DEF Next, SyncStep

\* A Sync nobody disturbs has, in each loop, what Verify will look for.
LEMMA UndisturbedStep == KernelTypes /\ Undisturbed /\ [Next]_vars => Undisturbed'
<1> SUFFICES ASSUME KernelTypes, Undisturbed, [Next]_vars, steady', embedded' = Missing
             PROVE  /\ Syncing' => sync'.entries = Present(source')
                    /\ SyncAt("copy")' =>
                         \A p \in sync'.entries \ sync'.todo : tree'[p] = source'[p]
                    /\ SyncAt("hash")' => ReadSoFar' /\ \A p \in Paths : tree'[p] = source'[p]
                    /\ SyncAt("zip")' => ReadSoFar' /\ \A p \in Paths : PathClean(p)'
                    /\ SyncAt("ok")' => VerifyClean'
                    /\ SyncAt("failed")' /\ sync'.stuck =>
                         manifest' = Torn \/ \A p \in Paths : PathClean(p)'
  BY DEF Undisturbed
<1> USE DEF Syncing, SyncAt, KernelTypes, SourceTypes, SyncRest, InstallRest, package, release
<1>1. CASE UNCHANGED vars
  BY <1>1 DEF vars, Undisturbed, ReadSoFar, PathClean, VerifyClean, ZipClean
<1>2. CASE Edit \/ UserWrites
  BY <1>2 DEF Edit, UserWrites
<1>3. CASE Build
  <2>1. embedded' # Missing
    BY <1>3 DEF Build
  <2> QED  BY <2>1
<1>4. CASE SyncBegin
  <2>1. sync'.pc = "copy" /\ sync'.entries = Present(source) /\ sync'.todo = Present(source)
    BY <1>4, SyncStateType DEF SyncBegin, SyncLabels, Present
  <2> QED  BY <1>4, <2>1 DEF SyncBegin
<1>5. ASSUME NEW q \in Paths, CopyFile(q)
      PROVE  /\ sync'.pc = "copy" /\ sync'.entries = Present(source')
             /\ \A p \in sync'.entries \ sync'.todo : tree'[p] = source'[p]
  <2>1. /\ sync.pc = "copy" /\ sync'.pc = "copy" /\ sync'.entries = sync.entries
        /\ sync'.todo = sync.todo \ {q} /\ UNCHANGED <<source, steady, embedded>>
    BY <1>5 DEF CopyFile, Visit, SyncRecord
  <2>2. \A p \in sync.entries \ sync.todo : tree[p] = source[p]
    BY <2>1 DEF Undisturbed
  <2>3. sync.entries = Present(source)
    BY <2>1 DEF Undisturbed
  <2>4. \A p \in Paths : tree'[p] = IF p = q THEN source[q] ELSE tree[p]
    BY <1>5 DEF CopyFile
  <2>5. sync.entries \subseteq Paths
    BY DEF SyncRecord
  <2> QED  BY <2>1, <2>2, <2>3, <2>4, <2>5
<1>6. CASE RemoveStale
  <2>1. /\ sync.pc = "copy" /\ sync.todo = {} /\ sync'.pc = "hash" /\ sync'.read = Empty
        /\ sync'.entries = sync.entries /\ sync'.todo = sync.entries
        /\ UNCHANGED <<source, steady, embedded>>
    BY <1>6 DEF RemoveStale, EndOf, Loop, SyncRecord
  <2>2. sync.entries = Present(source) /\ \A p \in sync.entries : tree[p] = source[p]
    BY <2>1 DEF Undisturbed
  <2>3. \A p \in Paths : tree'[p] = source[p]
    BY <1>6, <2>2 DEF RemoveStale, Present
  <2>4. ReadSoFar'
    BY <2>1 DEF ReadSoFar, Empty
  <2> QED  BY <2>1, <2>2, <2>3, <2>4
<1>7. ASSUME NEW q \in Paths, HashFile(q) \/ PackFile(q)
      PROVE  /\ sync'.pc = sync.pc /\ sync'.entries = Present(source') /\ ReadSoFar'
             /\ sync.pc \in {"hash", "zip"}
             /\ UNCHANGED <<source, tree, manifest>>
             /\ \A p \in Paths : tree[p] = source[p]
             /\ sync.pc = "zip" => \A p \in Paths : PathClean(p)
  <2>1. /\ sync'.pc = sync.pc /\ sync.pc \in {"hash", "zip"} /\ sync'.entries = sync.entries
        /\ sync'.todo = sync.todo \ {q} /\ UNCHANGED <<source, tree, manifest, steady, embedded>>
        /\ q \in sync.todo
    BY <1>7 DEF HashFile, PackFile, Visit, SyncRecord
  <2>2. \A p \in Paths : sync'.read[p] = IF p = q THEN source[q] ELSE sync.read[p]
    BY <1>7 DEF HashFile, PackFile, SyncRecord, Image
  <2>3. sync.entries = Present(source) /\ ReadSoFar
    BY <2>1 DEF Undisturbed
  <2>4. ReadSoFar'
    BY <2>1, <2>2, <2>3 DEF ReadSoFar
  <2> QED  BY <2>1, <2>3, <2>4 DEF Undisturbed, PathClean
<1>8. CASE WriteManifest
  <2>1. /\ sync.pc = "hash" /\ sync.todo = {} /\ sync'.pc = "zip" /\ sync'.read = Empty
        /\ sync'.entries = sync.entries /\ sync'.todo = sync.entries
        /\ manifest' = sync.read /\ UNCHANGED <<source, tree, steady, embedded>>
    BY <1>8 DEF WriteManifest, EndOf, Loop, SyncRecord
  <2>2. sync.entries = Present(source) /\ ReadSoFar /\ \A p \in Paths : tree[p] = source[p]
    BY <2>1 DEF Undisturbed
  <2>3. \A p \in Paths : PathClean(p)'
    BY <2>1, <2>2 DEF ReadSoFar, Present, PathClean
  <2>4. ReadSoFar'
    BY <2>1 DEF ReadSoFar, Empty
  <2> QED  BY <2>1, <2>2, <2>3, <2>4
<1>9. CASE WriteZip
  <2>1. /\ sync.pc = "zip" /\ sync.todo = {} /\ sync'.pc = "ok"
        /\ zip' = [files |-> sync.read, manifest |-> manifest]
        /\ UNCHANGED <<source, tree, manifest, steady, embedded>>
    BY <1>9, SyncStateType DEF WriteZip, EndOf, SyncLabels
  <2>2. sync.entries = Present(source) /\ ReadSoFar /\ \A p \in Paths : PathClean(p)
    BY <2>1 DEF Undisturbed
  <2>3. manifest \in Image
    BY <2>1
  <2>4. zip' # Missing
    <3>1. zip' \in [files : Image, manifest : Image]
      BY <2>1, <2>3 DEF SyncRecord
    <3> QED  BY <3>1, KernelAssumption
  <2>5. \A p \in Paths : zip'.files[p] = IF source[p] = Missing THEN Missing ELSE manifest[p]
    BY <2>1, <2>2 DEF ReadSoFar, Present, PathClean
  <2> QED  BY <2>1, <2>2, <2>3, <2>4, <2>5 DEF VerifyClean, ZipClean, PathClean
<1>10. ASSUME NEW end \in {"failed", "dead"}, SyncEnds(end)
       PROVE  /\ sync'.pc \in {"failed", "dead"}
              /\ sync'.stuck => manifest' = Torn \/ \A p \in Paths : PathClean(p)'
  <2>1. PICK stuck \in BOOLEAN :
          /\ stuck => sync.pc = "zip" /\ RestoreManifest(stuck) /\ UNCHANGED tree
          /\ sync' = [SyncState(end, {}) EXCEPT !.stuck = stuck]
    BY <1>10 DEF SyncEnds, EndOf
  <2>2. sync'.pc = end /\ sync'.stuck = stuck /\ UNCHANGED <<source, steady, embedded>>
    BY <1>10, <2>1, EndState DEF SyncEnds
  <2>3. CASE stuck
    <3>1. \A p \in Paths : PathClean(p)
      BY <2>1, <2>2, <2>3 DEF Undisturbed
    <3>2. manifest' \in {manifest, Torn} /\ UNCHANGED tree
      BY <2>1, <2>3 DEF RestoreManifest
    <3> QED  BY <2>2, <3>1, <3>2 DEF PathClean
  <2> QED  BY <2>2, <2>3
<1>11. CASE InstallStep
  <2>1. CASE InstallBegin
    BY <2>1 DEF InstallBegin
  <2>2. ASSUME NEW d \in Dests, InstallFile(d) \/ InstallFails(d) \/ InstallDies(d)
        PROVE  UNCHANGED <<source, tree, manifest, zip, sync, embedded, steady>>
    BY <2>2 DEF InstallFile, InstallFails, InstallDies
  <2>3. CASE UNCHANGED <<source, tree, manifest, zip, sync, embedded, steady>>
    BY <2>3 DEF Undisturbed, ReadSoFar, PathClean, VerifyClean, ZipClean
  <2> QED  BY <1>11, <2>1, <2>2, <2>3 DEF InstallStep
<1> QED
  <2>1. CASE \E q \in Paths : CopyFile(q)
    BY <1>5, <2>1
  <2>2. CASE \E q \in Paths : HashFile(q) \/ PackFile(q)
    BY <1>7, <2>2 DEF PathClean
  <2>3. CASE \E end \in {"failed", "dead"} : SyncEnds(end)
    BY <1>10, <2>3
  <2> QED
    BY <1>1, <1>2, <1>3, <1>4, <1>6, <1>8, <1>9, <1>11, <2>1, <2>2, <2>3 DEF Next, SyncStep

-------------------------------------------------------------------------------
\* Only the build changes the binary, and only once: from a package Verify passes.
LEMMA GenuineStep == KernelTypes /\ Genuine /\ [Next]_vars => Genuine'
<1> SUFFICES ASSUME KernelTypes, Genuine, [Next]_vars PROVE Genuine'
  OBVIOUS
<1> USE DEF SyncRest, InstallRest, release, consumption
<1>1. CASE UNCHANGED <<release, install>> \/ UNCHANGED vars
  BY <1>1 DEF Genuine, vars
<1>2. CASE Edit \/ UserWrites
  BY <1>2, <1>1 DEF Edit, UserWrites
<1>3. CASE SyncStep
  BY <1>3, <1>1 DEF SyncStep, SyncBegin, CopyFile, RemoveStale, HashFile, WriteManifest,
                    PackFile, WriteZip, SyncEnds
<1>4. CASE Build
  <2>1. embedded' = zip /\ released' = source /\ zip # Missing /\ UNCHANGED install
    BY <1>4 DEF Build
  <2>2. verified' => \A p \in Paths : zip.files[p] = source[p]
    BY <1>4 DEF Build, VerifyClean, ZipClean, PathClean
  <2> QED  BY <2>1, <2>2 DEF Genuine
<1>5. CASE InstallStep
  <2>1. embedded # Missing
    BY <1>5 DEF InstallStep, InstallBegin, InstallFile, InstallFails, InstallDies, Genuine
  <2>2. UNCHANGED <<embedded, released, verified>>
    BY <1>5 DEF InstallStep, InstallBegin, InstallFile, InstallFails, InstallDies
  <2> QED  BY <2>1, <2>2 DEF Genuine
<1> QED  BY <1>1, <1>2, <1>3, <1>4, <1>5 DEF Next

\* Every step keeps what an Install has done and what it can undo.
LEMMA HalfwayStep == KernelTypes /\ Genuine /\ Halfway /\ [Next]_vars => Halfway'
<1> SUFFICES ASSUME KernelTypes, Genuine, Halfway, [Next]_vars PROVE Halfway'
  OBVIOUS
<1> USE DEF SyncRest, InstallRest, release, consumption, KernelTypes, ConsumerTypes
<1>1. CASE UNCHANGED vars
  BY <1>1 DEF Halfway, InstallRolledBack, Payload, Packed, vars
<1>2. CASE Edit \/ SyncStep
  <2>1. UNCHANGED <<consumer, install, embedded>>
    BY <1>2 DEF Edit, SyncStep, SyncBegin, CopyFile, RemoveStale, HashFile, WriteManifest,
                PackFile, WriteZip, SyncEnds
  <2>2. steady' /\ ~steady => embedded = Missing
    BY <1>2 DEF Edit, SyncStep, SyncBegin, CopyFile, RemoveStale, HashFile, WriteManifest,
                PackFile, WriteZip, SyncEnds
  <2>3. CASE embedded = Missing
    BY <2>1, <2>3 DEF Genuine, Halfway, InstallRolledBack
  <2>4. CASE steady' => steady
    BY <2>1, <2>4 DEF Halfway, InstallRolledBack, Payload, Packed
  <2> QED  BY <2>2, <2>3, <2>4
<1>3. CASE Build
  BY <1>3 DEF Build, Genuine, Halfway, InstallRolledBack
<1>4. CASE UserWrites
  BY <1>4 DEF UserWrites, Halfway, InstallRolledBack, Payload, Packed
<1>5. CASE InstallBegin
  <2>1. PICK force \in BOOLEAN :
          install' = [pc |-> IF \E d \in Packed : consumer[d] = Symlink THEN "refused"
                             ELSE IF Plan(force) = {} THEN "ok" ELSE "write",
                      force |-> force, todo |-> Plan(force), written |-> {},
                      previous |-> consumer, culprit |-> {}, stuck |-> {}]
    BY <1>5 DEF InstallBegin
  <2>2. UNCHANGED <<consumer, embedded>>
    BY <1>5 DEF InstallBegin
  <2>3. Packed' = Packed
    BY <2>2 DEF Packed, Payload
  <2>4. force => Plan(force) = Packed
    BY DEF Plan
  <2>5. ~force => \A d \in Plan(force) : consumer[d] = Missing
    BY DEF Plan
  <2> QED  BY <2>1, <2>2, <2>3, <2>4, <2>5 DEF Halfway, InstallRolledBack
<1>6. ASSUME NEW d \in Dests, InstallFile(d) PROVE Halfway'
  <2>1. /\ install.pc = "write" /\ d \in install.todo /\ UNCHANGED <<embedded, steady>>
        /\ consumer' = [consumer EXCEPT ![d] = Payload(d)]
    BY <1>6 DEF InstallFile
  <2>2. /\ install'.pc = IF install.todo = {d} THEN "ok" ELSE "write"
        /\ install'.todo = install.todo \ {d} /\ install'.written = install.written \cup {d}
        /\ install'.force = install.force /\ install'.previous = install.previous
    BY <1>6 DEF InstallFile, InstallRecord
  <2>3. Packed' = Packed /\ \A x \in Dests : Payload(x)' = Payload(x)
    BY <2>1 DEF Packed, Payload
  <2>4. \A x \in Dests : consumer'[x] = IF x = d THEN Payload(d) ELSE consumer[x]
    BY <2>1 DEF Installed
  <2>5. install.written \subseteq Dests /\ Packed \subseteq Dests
    BY DEF InstallRecord, Packed
  <2>6. steady => \A x \in install'.written : consumer'[x] = Payload(x)
    BY <2>1, <2>2, <2>4, <2>5 DEF Halfway
  <2>7. install.force /\ install'.pc = "ok" => Packed \subseteq install'.written
    BY <2>1, <2>2 DEF Halfway
  <2>8. install'.pc = "write" /\ steady =>
           \A x \in Dests \ install'.written : consumer'[x] = install'.previous[x]
    BY <2>1, <2>2, <2>4 DEF Halfway
  <2>9. install'.pc = "write" /\ install'.force => Packed \subseteq install'.todo \cup install'.written
    BY <2>1, <2>2 DEF Halfway
  <2>10. install'.pc = "write" /\ ~install'.force =>
           \A x \in install'.todo \cup install'.written : install'.previous[x] = Missing
    BY <2>1, <2>2 DEF Halfway
  <2>11. install'.pc # "failed" /\ \A x \in install'.written : x \in Dests
    BY <2>1, <2>2, <2>5
  <2> QED
    BY <2>1, <2>2, <2>3, <2>5, <2>6, <2>7, <2>8, <2>9, <2>10, <2>11
    DEF Halfway, InstallRolledBack
<1>7. ASSUME NEW d \in Dests, InstallFails(d) PROVE Halfway'
  <2>1. PICK stuck \in SUBSET install.written, left \in {consumer[d], Torn} :
            /\ consumer' = [x \in Dests |->
                 IF x = d THEN left
                 ELSE IF x \in install.written \ stuck THEN Restored(x) ELSE consumer[x]]
            /\ install' = [install EXCEPT !.pc = "failed", !.culprit = {d}, !.stuck = stuck]
    BY <1>7 DEF InstallFails
  <2>2. /\ install'.pc = "failed" /\ install'.culprit = {d} /\ install'.stuck = stuck
        /\ install'.previous = install.previous
    BY <2>1 DEF InstallRecord
  <2>3. install.pc = "write" /\ UNCHANGED steady
    BY <1>7 DEF InstallFails
  <2>4. steady => \A x \in Dests \ ({d} \cup stuck) : consumer'[x] = install.previous[x]
    BY <2>1, <2>3 DEF Restored, Halfway
  <2> QED  BY <2>2, <2>3, <2>4 DEF Halfway, InstallRolledBack
<1>8. ASSUME NEW d \in Dests, InstallDies(d) PROVE Halfway'
  <2>1. install'.pc = "dead"
    BY <1>8 DEF InstallDies, InstallRecord
  <2> QED  BY <2>1 DEF Halfway, InstallRolledBack
<1> QED
  BY <1>1, <1>2, <1>3, <1>4, <1>5, <1>6, <1>7, <1>8 DEF Next, InstallStep

-------------------------------------------------------------------------------
KernelInv == KernelTypes /\ Undisturbed /\ KeepsFound /\ Genuine /\ Halfway

LEMMA KernelInvariant == Spec => []KernelInv
<1>1. Init => KernelInv
  <2>1. Init => Undisturbed
    BY SyncStateType DEF Init, Undisturbed, Syncing, SyncAt, SyncLabels
  <2>2. Init => KeepsFound
    BY SyncStateType DEF Init, KeepsFound, Syncing, SyncAt, SyncLabels
  <2>3. Init => Genuine /\ Halfway
    BY DEF Init, Genuine, Halfway, InstallRolledBack
  <2> QED  BY <2>1, <2>2, <2>3, InitTypes DEF KernelInv
<1>2. KernelInv /\ [Next]_vars => KernelInv'
  BY SourceStep, ConsumerStep, FoundStep, UndisturbedStep, GenuineStep, HalfwayStep
  DEF KernelInv, KernelTypes
<1> QED  BY <1>1, <1>2, PTL DEF Spec

\* The sources, the package, the binary and the consumer's files keep their types
\* (internal/kernel/package.go, payload.go), for any paths and contents.
THEOREM KernelTypeCorrect == Spec => []KernelTypeOK
<1>1. KernelInv => KernelTypeOK
  <2> SUFFICES ASSUME KernelInv PROVE KernelTypeOK
    OBVIOUS
  <2>1. \A z \in {zip, embedded} \ {Missing} : z.files \in Image /\ z.manifest \in Image
    BY DEF KernelInv, KernelTypes, SourceTypes, Zips
  <2>2. sync.todo \subseteq sync.entries /\ sync.read \in Image
    BY DEF KernelInv, KernelTypes, SourceTypes, SyncRecord
  <2> QED  BY <2>1, <2>2 DEF KernelInv, KernelTypes, SourceTypes, ConsumerTypes, KernelTypeOK,
              Manifests, Installed, Kinds
<1> QED  BY <1>1, KernelInvariant, PTL

\* A Sync that succeeds while nobody edits leaves nothing for Verify to report,
\* whatever the failed, dead and disturbed runs before it left (package.go, Sync).
THEOREM SyncSucceeds == Spec => []SyncRepairs
<1>1. KernelInv => SyncRepairs
  BY DEF KernelInv, Undisturbed, SyncRepairs
<1> QED  BY <1>1, KernelInvariant, PTL

\* A Sync that returns an error keeps the zip, and the manifest it found unless putting
\* that back failed too; then it leaves one of the sources and of kernel/, as long as
\* nobody edits them (package.go, Sync; payload.go, writePayloadZip).
THEOREM FailedSyncHarmless == Spec => []FailedSyncKeepsPackage
<1>1. KernelInv => FailedSyncKeepsPackage
  BY DEF KernelInv, KeepsFound, Undisturbed, FailedSyncKeepsPackage
<1> QED  BY <1>1, KernelInvariant, PTL

\* What a forced Install writes is what the release was built from, although Sync
\* read every source three times, if Verify accepts the package of that release
\* (package.go, Verify; payload.go, Install).
THEOREM ReleaseArrives == Spec => []InstalledIsReleased
<1>1. KernelInv => InstalledIsReleased
  <2> SUFFICES ASSUME KernelInv, install.pc = "ok", install.force, steady, verified,
                      NEW p \in Paths, released[p] # Missing
               PROVE  consumer[p] = released[p]
    BY DEF InstalledIsReleased
  <2>1. p \in Dests /\ p # Manifest
    BY KernelAssumption DEF Dests
  <2>2. embedded # Missing /\ embedded.files[p] = released[p]
    BY <2>1 DEF KernelInv, Genuine
  <2>3. Payload(p) = released[p] /\ p \in Packed
    BY <2>1, <2>2 DEF Payload, Packed
  <2> QED  BY <2>3 DEF KernelInv, Halfway
<1> QED  BY <1>1, KernelInvariant, PTL

\* A failed Install has put back every file but the one it failed on and those it
\* could not restore (payload.go, Install's rollback).
THEOREM RollbackRestores == Spec => []InstallRolledBack
<1>1. KernelInv => InstallRolledBack
  BY DEF KernelInv, Halfway
<1> QED  BY <1>1, KernelInvariant, PTL

\* No step of an Install without --force, its rollback included, changes a file that
\* was there when it began (payload.go, Install).
THEOREM ExistingKept == Spec => NoForceKeepsFiles
<1>1. ASSUME KernelInv, [Next]_vars
      PROVE  ~install'.force /\ install' # install =>
               \A d \in Dests : consumer'[d] # consumer[d] => install'.previous[d] = Missing
  <2> SUFFICES ASSUME ~install'.force, install' # install,
                      NEW d \in Dests, consumer'[d] # consumer[d]
               PROVE  install'.previous[d] = Missing
    OBVIOUS
  <2> USE DEF SyncRest, consumption
  <2>1. InstallStep
    BY <1>1 DEF Next, vars, Edit, SyncStep, SyncBegin, CopyFile, RemoveStale, HashFile,
                WriteManifest, PackFile, WriteZip, SyncEnds, Build, UserWrites
  <2>2. ~InstallBegin
    BY DEF InstallBegin
  <2>3. PICK e \in Dests : InstallFile(e) \/ InstallFails(e) \/ InstallDies(e)
    BY <2>1, <2>2 DEF InstallStep
  <2>4. install.pc = "write" /\ e \in install.todo
    BY <2>3 DEF InstallFile, InstallFails, InstallDies
  <2>5. install'.force = install.force /\ install'.previous = install.previous
    BY <1>1, <2>3 DEF InstallFile, InstallFails, InstallDies, KernelInv, KernelTypes,
                      ConsumerTypes, InstallRecord
  <2>6. d = e \/ d \in install.written
    BY <1>1, <2>3 DEF InstallFile, InstallFails, InstallDies, KernelInv, KernelTypes,
                      ConsumerTypes, Installed
  <2> QED  BY <1>1, <2>4, <2>5, <2>6 DEF KernelInv, Halfway
<1> QED  BY <1>1, KernelInvariant, PTL DEF Spec, NoForceKeepsFiles
===============================================================================
