--------------------------- MODULE EvidenceArchive ---------------------------
(***************************************************************************)
(* synthran/archive.py: one unit of evidence (a run, a campaign snapshot or *)
(* a result directory) and its prefix in the object store.  An attempt puts *)
(* the files, then their manifest, then the marker, one mc command after    *)
(* the other, and writes how it ended to archive-status.json, by way of a   *)
(* temporary file that lies among the evidence.  It may fail or be killed at *)
(* any of these steps and be tried again.                                    *)
(***************************************************************************)
EXTENDS Naturals

CONSTANTS
    Files,      \* what the unit consists of
    Versions,   \* contents a file can have
    Original,   \* the contents the experiment gave every file
    Temporary,  \* archive-status.json.tmp
    Leftovers,  \* contents of such a file whose writer failed or was killed
    Kinds,      \* front ends: archive_run, archive_campaign_snapshot, archive_cli
    Outliving,  \* kinds whose mc command may outlive a killed controller
    Stamps,     \* values of archived_at_utc: enough that a fresh one exists
    Manifest, Marker,  \* archive-manifest.json and _ARCHIVED.json
    None,       \* no such file or object
    Torn        \* a file whose writer was killed

ASSUME OriginalAssumption == Original \in Versions
ASSUME KindsAssumption == Kinds \subseteq {"run", "snapshot", "result"}
ASSUME OutlivingAssumption == Outliving \subseteq {"run", "snapshot"}
ASSUME LeftoversAssumption == Leftovers # {}
ASSUME ObjectsAssumption ==
    /\ Temporary \notin Files /\ Manifest \notin Files /\ Marker \notin Files
    /\ Temporary # Manifest /\ Temporary # Marker /\ Manifest # Marker

\* What _safe_files takes: it leaves out the status, not its temporary file.
Evidence  == Files \cup {Temporary}
Objects   == Evidence \cup {Manifest, Marker}
Manifests == {m \in [Evidence -> Versions \cup Leftovers \cup {None}] :
                 /\ \A f \in Files : m[f] \in Versions
                 /\ m[Temporary] \in Leftovers \cup {None}}
Markers   == [stamp : Stamps, manifest : Manifests]
OriginalManifest == [e \in Evidence |-> IF e = Temporary THEN None ELSE Original]

ASSUME NoneAssumption ==
    /\ None \notin Versions \cup Leftovers \cup Manifests \cup Markers
    /\ Torn \notin Versions \cup Manifests \cup Markers \cup {None}
    /\ None \notin Objects

VARIABLES
    kind,     \* the front end that archives this unit
    root,     \* the files in the evidence root
    marker,   \* _ARCHIVED.json in the evidence root
    status,   \* archive-status.json
    attempt,  \* the present attempt: pc, object in hand, objects to do, manifest
              \* and, once it has ended, the verdict to be written
    told,     \* how the last attempt ended for its caller
    remote,   \* the object store
    orphan    \* an upload that outlived its controller

archiveVars == <<kind, root, marker, status, attempt, told, remote, orphan>>

AttemptAt(pc) == attempt.pc = pc
AttemptGoes(pc) == attempt' = [attempt EXCEPT !.pc = pc]
Idle == [pc |-> "idle", object |-> None, todo |-> {}, manifest |-> None, verdict |-> "none"]

\* The original files, or nothing where a snapshot is still to be copied.
ArchiveInit ==
    /\ kind \in Kinds
    /\ root = [e \in Evidence |-> IF kind = "snapshot" THEN None ELSE OriginalManifest[e]]
    /\ marker = None /\ status = "none" /\ told = "none"
    /\ attempt = Idle
    /\ remote = [o \in Objects |-> None]
    /\ orphan = None

----------------------------------------------------------------------------
(* An attempt begins.                                                       *)

\* archive_directory: the manifest of what the evidence root holds, a temporary
\* file of an earlier attempt included.
BeginUpload ==
    attempt' = [Idle EXCEPT !.pc = "between", !.manifest = root,
                            !.todo = {e \in Evidence : root[e] # None} \cup {Manifest, Marker}]

\* archive_run, archive_cli: straight to archive_directory.
Start ==
    /\ AttemptAt("idle") /\ kind # "snapshot"
    /\ BeginUpload
    /\ told' = "none"
    /\ UNCHANGED <<kind, root, marker, status, remote, orphan>>

\* archive_campaign_snapshot: a marker in the snapshot is returned as it is,
\* or is no JSON.
SnapshotReturnsMarker ==
    /\ AttemptAt("idle") /\ kind = "snapshot" /\ marker # None
    /\ told' = IF marker = Torn THEN "unreadable" ELSE "VERIFIED"
    /\ UNCHANGED <<kind, root, marker, status, attempt, remote, orphan>>

SnapshotStarts ==
    /\ AttemptAt("idle") /\ kind = "snapshot" /\ marker = None
    /\ attempt' = [Idle EXCEPT !.pc = "copying"]
    /\ told' = "none"
    /\ UNCHANGED <<kind, root, marker, status, remote, orphan>>

\* The artifacts of a finished phase do not change; only the copy may differ.
CopyFile(f) ==
    /\ AttemptAt("copying") /\ root[f] = None
    /\ root' = [root EXCEPT ![f] = Original]
    /\ UNCHANGED <<kind, marker, status, attempt, told, remote, orphan>>

SnapshotChanged ==
    /\ AttemptAt("copying") /\ \E f \in Files : root[f] \notin {None, Original}
    /\ attempt' = Idle /\ told' = "changed"
    /\ UNCHANGED <<kind, root, marker, status, remote, orphan>>

\* Mutant of SnapshotCopied: an existing copy is not compared.
SnapshotUnchecked ==
    /\ AttemptAt("copying") /\ \A f \in Files : root[f] # None
    /\ BeginUpload
    /\ UNCHANGED <<kind, root, marker, status, told, remote, orphan>>

SnapshotCopied ==
    /\ AttemptAt("copying") /\ \A f \in Files : root[f] = Original
    /\ BeginUpload
    /\ UNCHANGED <<kind, root, marker, status, told, remote, orphan>>

----------------------------------------------------------------------------
(* _put_immutable, object after object.                                     *)

\* What the manifest or the marker file says an object must be, and what mc
\* reads from the disk.
Expected(o) == IF o \in Evidence THEN attempt.manifest[o]
               ELSE IF o = Manifest THEN attempt.manifest ELSE marker
OnDisk(o)   == IF o \in Evidence THEN root[o] ELSE Expected(o)

\* Every file before the manifest, the manifest before the marker.
Due(o) ==
    \/ AttemptAt("between") /\ o \in attempt.todo \cap Evidence
    \/ AttemptAt("between") /\ o = Manifest /\ attempt.todo = {Manifest, Marker}
    \/ AttemptAt("marked") /\ o = Marker

Settled(o) == attempt' = [attempt EXCEPT !.pc = "between", !.todo = @ \ {o}]

\* The object is there already, with the expected content.
FindsSame(o) ==
    /\ Due(o) /\ remote[o] = Expected(o)
    /\ Settled(o)
    /\ UNCHANGED <<kind, root, marker, status, told, remote, orphan>>

\* Mutant of FindsNothing: an object that differs is put again.
FindsNothingOrOther(o) ==
    /\ Due(o) /\ remote[o] # Expected(o)
    /\ attempt' = [attempt EXCEPT !.pc = "uploading", !.object = o]
    /\ UNCHANGED <<kind, root, marker, status, told, remote, orphan>>

FindsNothing(o) ==
    /\ Due(o) /\ remote[o] = None
    /\ attempt' = [attempt EXCEPT !.pc = "uploading", !.object = o]
    /\ UNCHANGED <<kind, root, marker, status, told, remote, orphan>>

\* archive_directory has its verdict and _status writes the temporary file; any
\* exception is a verdict, its handler writes FAILED.
Concludes(verdict) ==
    /\ attempt' = [Idle EXCEPT !.pc = "reporting", !.verdict = verdict]
    /\ \E l \in Leftovers : root' = [root EXCEPT ![Temporary] = l]

\* Mutant of Refuses: whatever is there is refused.
RefusesAnything(o) ==
    /\ Due(o) /\ remote[o] # None
    /\ Concludes("refused")
    /\ UNCHANGED <<kind, marker, status, told, remote, orphan>>

\* Refusing to overwrite remote evidence with different content.
Refuses(o) ==
    /\ Due(o) /\ remote[o] \notin {None, Expected(o)}
    /\ Concludes("refused")
    /\ UNCHANGED <<kind, marker, status, told, remote, orphan>>

Upload ==
    /\ AttemptAt("uploading")
    /\ remote' = [remote EXCEPT ![attempt.object] = OnDisk(attempt.object)]
    /\ AttemptGoes("verifying")
    /\ UNCHANGED <<kind, root, marker, status, told, orphan>>

\* Mutant of Verify: mc cp is trusted.
VerifyNothing ==
    /\ AttemptAt("verifying")
    /\ Settled(attempt.object)
    /\ UNCHANGED <<kind, root, marker, status, told, remote, orphan>>

Verify ==
    /\ AttemptAt("verifying") /\ remote[attempt.object] = Expected(attempt.object)
    /\ Settled(attempt.object)
    /\ UNCHANGED <<kind, root, marker, status, told, remote, orphan>>

VerificationFails ==
    /\ AttemptAt("verifying") /\ remote[attempt.object] # Expected(attempt.object)
    /\ Concludes("unverified")
    /\ UNCHANGED <<kind, marker, status, told, remote, orphan>>

\* The marker carries the time: each attempt writes another one.
WriteMarker ==
    /\ AttemptAt("between") /\ attempt.todo = {Marker}
    /\ \E s \in Stamps :
          /\ \A m \in {marker, remote[Marker]} : m \in Markers => m.stamp # s
          /\ orphan # None /\ orphan.object = Marker => orphan.content.stamp # s
          /\ marker' = [stamp |-> s, manifest |-> attempt.manifest]
    /\ AttemptGoes("marked")
    /\ UNCHANGED <<kind, root, status, told, remote, orphan>>

Finish ==
    /\ AttemptAt("between") /\ attempt.todo = {}
    /\ Concludes("VERIFIED")
    /\ UNCHANGED <<kind, marker, status, told, remote, orphan>>

\* The temporary file becomes the status, and the caller learns the verdict.
Report ==
    /\ AttemptAt("reporting")
    /\ root' = [root EXCEPT ![Temporary] = None]
    /\ status' = IF attempt.verdict = "VERIFIED" THEN "VERIFIED" ELSE "FAILED"
    /\ told' = attempt.verdict /\ attempt' = Idle
    /\ UNCHANGED <<kind, marker, remote, orphan>>

----------------------------------------------------------------------------
(* What goes wrong.                                                         *)

\* No mc, no answer, or an answer that is lost although the object was put.
StoreFails ==
    /\ attempt.pc \in {"between", "marked", "uploading", "verifying"}
    /\ \/ UNCHANGED remote
       \/ AttemptAt("uploading")
          /\ remote' = [remote EXCEPT ![attempt.object] = OnDisk(attempt.object)]
    /\ Concludes("unavailable")
    /\ UNCHANGED <<kind, marker, status, told, orphan>>

\* _status raises, on a full disk: of VERIFIED the handler makes FAILED, which it
\* tries to write in turn; otherwise the file stays where it is.
ReportFails ==
    /\ AttemptAt("reporting")
    /\ \/ attempt.verdict = "VERIFIED" /\ Concludes("unreported") /\ UNCHANGED told
       \/ attempt.verdict # "VERIFIED" /\ attempt' = Idle /\ told' = "unreported"
          /\ UNCHANGED root
    /\ UNCHANGED <<kind, marker, status, remote, orphan>>

\* The controller is killed: a file it was writing is torn, the temporary file
\* of the status stays, the mc command it was waiting for may go on.
Dies ==
    /\ ~AttemptAt("idle")
    /\ attempt' = Idle
    /\ \/ UNCHANGED <<root, marker, orphan>>
       \/ /\ AttemptAt("copying") /\ UNCHANGED <<marker, orphan>>
          /\ \E f \in Files : root[f] = None /\ root' = [root EXCEPT ![f] = Torn]
       \/ /\ AttemptAt("between") /\ attempt.todo = {Marker}
          /\ marker' = Torn /\ UNCHANGED <<root, orphan>>
       \/ /\ AttemptAt("uploading") /\ kind \in Outliving /\ orphan = None
          /\ orphan' = [object |-> attempt.object, content |-> OnDisk(attempt.object)]
          /\ UNCHANGED <<root, marker>>
    /\ UNCHANGED <<kind, status, told, remote>>

OrphanEnds ==
    /\ orphan # None
    /\ \/ UNCHANGED remote
       \/ remote' = [remote EXCEPT ![orphan.object] = orphan.content]
    /\ orphan' = None
    /\ UNCHANGED <<kind, root, marker, status, attempt, told>>

\* A result directory may be archived while its campaign goes on.
Edit(f) ==
    /\ kind = "result"
    /\ \E v \in Versions : root' = [root EXCEPT ![f] = v]
    /\ UNCHANGED <<kind, marker, status, attempt, told, remote, orphan>>

Operator == Start \/ SnapshotReturnsMarker \/ SnapshotStarts
Archiver ==
    \/ \E f \in Files : CopyFile(f)
    \/ SnapshotChanged \/ SnapshotCopied
    \/ \E o \in Objects : FindsSame(o) \/ FindsNothing(o) \/ Refuses(o)
    \/ Upload \/ Verify \/ VerificationFails \/ WriteMarker \/ Finish \/ Report

ArchiveNext ==
    \/ Operator \/ Archiver \/ StoreFails \/ ReportFails \/ Dies \/ OrphanEnds
    \/ \E f \in Files : Edit(f)

ArchiveSpec == ArchiveInit /\ [][ArchiveNext]_archiveVars

\* Attempts are repeated and mc returns; the store, the disk and the controller
\* fail any number of times, but not for ever.
ArchiveFairSpec ==
    /\ ArchiveSpec /\ WF_archiveVars(Operator) /\ WF_archiveVars(Archiver)
    /\ <>[][~StoreFails /\ ~ReportFails /\ ~Dies]_archiveVars

----------------------------------------------------------------------------
(* Properties.                                                              *)

Endings == {"none", "VERIFIED", "refused", "unverified", "unavailable", "changed",
            "unreadable", "unreported"}
AttemptPC == {"idle", "copying", "between", "uploading", "verifying", "marked", "reporting"}
Contents(o) == IF o \in Files THEN Versions ELSE IF o = Temporary THEN Leftovers
               ELSE IF o = Manifest THEN Manifests ELSE Markers

Roots == [Evidence -> Versions \cup Leftovers \cup {None, Torn}]

\* The type of every variable.
ArchiveTypeOK ==
    /\ kind \in Kinds
    /\ root \in Roots /\ root[Temporary] \in Leftovers \cup {None}
    /\ \A f \in Files : root[f] \in Versions \cup {None, Torn}
    /\ marker \in Markers \cup {None, Torn}
    /\ status \in {"none", "VERIFIED", "FAILED"} /\ told \in Endings
    /\ attempt \in [pc : AttemptPC, object : Objects \cup {None}, todo : SUBSET Objects,
                    manifest : Manifests \cup {None}, verdict : Endings]
    /\ DOMAIN remote = Objects
    /\ \A o \in Objects : remote[o] \in Contents(o) \cup {None}
    /\ \/ orphan = None
       \/ /\ orphan \in [object : Objects, content : {orphan.content}]
          /\ orphan.content \in Contents(orphan.object)

\* The store holds every file that manifest m names, and m itself.
Held(m) == remote[Manifest] = m /\ \A e \in Evidence : m[e] # None => remote[e] = m[e]

\* The temporary file of a status is in the store, so manifests with and without
\* it have been made, and a late mc cp may put one over the other.
Exposed == kind \in Outliving /\ remote[Temporary] # None

\* The files are in the store as m names them, and so are m and the rest unless
\* a late upload may have replaced them.
Stands(m) == (\A f \in Files : remote[f] = m[f]) /\ (~Exposed => Held(m))

\* A marker in the store seals a complete archive: whoever sees it finds the
\* manifest it names and every file with the contents the manifest names,
\* though the files may change on the disk while they are put.
SealedIsComplete == remote[Marker] # None => Stands(remote[Marker].manifest)

\* An archive reported VERIFIED is in the store, byte for byte, with its seal
\* unless it is a snapshot whose marker was only found on the disk.
VerifiedIsHeld ==
    /\ told = "VERIFIED" =>
          /\ marker \in Markers /\ Stands(marker.manifest)
          /\ kind # "snapshot" => remote[Marker] # None
    /\ status = "VERIFIED" => remote[Marker] # None

\* What the store and the status say of an archive is so: a seal stands for every
\* file of it, and so does VERIFIED; and for its manifest, unless the temporary
\* file of a status went into the store and an mc cp may have outlived a killed
\* controller.
ArchiveIsWhole == SealedIsComplete /\ VerifiedIsHeld

\* "Retries only this archival step": whatever earlier attempts on a run or a
\* snapshot left in the store, no file of it refuses a retry, and neither does
\* the manifest, unless the temporary file of a status went into the store first.
NothingBlocksRetry ==
    kind # "result" =>
        /\ \A f \in Files : remote[f] \in {None, Original}
        /\ remote[Temporary] = None => remote[Manifest] \in {None, OriginalManifest}

\* The attempt is between its manifest and its verdict.
AtWork == attempt.pc \in {"between", "marked", "uploading", "verifying"}

\* What stands on the disk, whether the files may change or not.
FixedInv ==
    /\ AtWork => attempt.manifest \in Manifests
    /\ AtWork => attempt.manifest[Temporary] = root[Temporary]
    /\ IF kind = "result" THEN \A f \in Files : root[f] \in Versions
       ELSE /\ \A f \in Files : root[f] \in {None, Torn, Original}
            /\ kind = "run" => \A f \in Files : root[f] = Original
            /\ AtWork => \A f \in Files : root[f] = Original /\ attempt.manifest[f] = Original

\* A manifest that names the temporary file of a status got that file there first.
Named(m) == m[Temporary] # None => remote[Temporary] # None

\* An orphan can only put again what an attempt on the same files would put, but
\* for the temporary file of a status and what names it.
OrphanInv ==
    orphan # None =>
        /\ kind \in Outliving
        /\ orphan.object \in Files => orphan.content = Original
        /\ orphan.object = Manifest =>
              /\ Named(orphan.content)
              /\ \A f \in Files : orphan.content[f] = Original /\ remote[f] = Original
        /\ orphan.object = Marker => Stands(orphan.content.manifest)

\* What the present attempt has behind it is in the store, in the order put.
ProgressInv ==
    AtWork =>
        /\ \A e \in Evidence : e \in attempt.todo =>
              attempt.manifest[e] # None /\ {Manifest, Marker} \subseteq attempt.todo
        /\ \A f \in Files : f \in attempt.todo \/ remote[f] = attempt.manifest[f]
        /\ Temporary \in attempt.todo \/ Named(attempt.manifest)
        /\ ~Exposed /\ attempt.manifest[Temporary] # None =>
              Temporary \in attempt.todo \/ remote[Temporary] = attempt.manifest[Temporary]
        /\ Manifest \in attempt.todo => Marker \in attempt.todo
        /\ Manifest \notin attempt.todo /\ ~Exposed => remote[Manifest] = attempt.manifest
        /\ Marker \notin attempt.todo => remote[Marker] # None
        /\ AttemptAt("marked") => attempt.todo = {Marker}
        /\ AttemptAt("marked") \/ Marker \notin attempt.todo =>
              marker \in Markers /\ marker.manifest = attempt.manifest

\* The object in hand is due; where no upload outlives its controller it is put
\* over nothing.
ObjectInv ==
    attempt.pc \in {"uploading", "verifying"} =>
        /\ attempt.object \in attempt.todo
        /\ attempt.object = Manifest => attempt.todo = {Manifest, Marker}
        /\ attempt.object = Marker =>
              /\ attempt.todo = {Marker}
              /\ marker \in Markers /\ marker.manifest = attempt.manifest
        /\ AttemptAt("uploading") /\ kind \notin Outliving => remote[attempt.object] = None

\* A verdict to be written is one that the store bears out.
VerdictInv ==
    AttemptAt("reporting") /\ attempt.verdict = "VERIFIED" =>
        remote[Marker] # None /\ marker \in Markers /\ Stands(marker.manifest)

\* A marker that archive_campaign_snapshot may return stands for what is held.
SnapshotInv ==
    /\ kind = "snapshot" /\ marker \in Markers => Stands(marker.manifest)
    /\ told = "VERIFIED" => AttemptAt("idle")

\* The inductive invariant of the archive.
ArchiveInv ==
    /\ ArchiveTypeOK /\ FixedInv /\ OrphanInv /\ ProgressInv /\ ObjectInv
    /\ VerdictInv /\ SnapshotInv
    /\ SealedIsComplete /\ VerifiedIsHeld /\ NothingBlocksRetry

\* Remote evidence, once put, is never overwritten, whichever attempt, orphan or
\* later version of the file meets it: no file ever, and no manifest or temporary
\* file unless late uploads meet the temporary file of a status in the store.
EvidenceIsImmutable ==
    [][\A o \in Evidence \cup {Manifest} :
          remote[o] # None /\ (o \in Files \/ ~Exposed) => remote'[o] = remote[o]]_archiveVars

\* The manifest in the store names the temporary file of a status.
NamesLeftover == remote[Manifest] # None /\ remote[Manifest][Temporary] # None

\* A run that is archived again and again, however often the store fails or the
\* controller dies, ends up sealed in the store, unless the manifest that got
\* there names the temporary file of a status, which later attempts do not have.
EventuallySealed == kind = "run" ~> remote[Marker] # None \/ NamesLeftover

\* "Retrying the same experiment phase ... retries only this archival step"
\* (archive.py:5-6): an archival that is retried long enough succeeds.  It does
\* not hold: ArchiveRetries.cfg has the counterexample.
RetriesSucceed == kind = "run" ~> remote[Marker] # None

\* "Immutable S3 archival", "refusing to overwrite remote evidence"
\* (archive.py:1, 100): what is in the store is never replaced.  It does not
\* hold: ArchiveOverwrite.cfg.
NeverOverwritten ==
    [][\A o \in Evidence \cup {Manifest} : remote[o] # None => remote'[o] = remote[o]]_archiveVars
=============================================================================
