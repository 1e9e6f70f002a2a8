----------------------------- MODULE BundleSync -----------------------------
(***************************************************************************)
(* Bundle provisioning: a registry that a publisher updates file by file,  *)
(* and the workers of one machine, each of which fetches the manifest of   *)
(* its bundle, stages the files it lacks next to the shared cache, renames *)
(* the staged directory into place and leaves a pointer to it.  Publisher  *)
(* and workers are killed at any time, and any request may fail.           *)
(*                                                                         *)
(* A version is what its manifest says of every path; the hash of a bundle *)
(* or of a file stands for its contents and is the contents here.          *)
(***************************************************************************)
EXTENDS Integers, FiniteSets

CONSTANTS
  Path,       \* paths a bundle can have
  Content,    \* contents a file can have
  Version,    \* the versions that get published
  Worker,     \* provisioning processes, each for one start of a worker
  Pins,       \* bound: what workers are pinned to, None for nothing
  Attempts,   \* how often a file is asked for; 3 in the code
  MaxPublish, \* bound: publications
  None,       \* no version
  Missing,    \* no file
  Cut,        \* a file that is being written, or whose writer was killed
  Garbled,    \* a file two writers wrote over one another
  NoDir       \* no directory

Dir == [Path -> Content \cup {Missing}]

ASSUME ConstantsAssumption ==
  /\ Version \subseteq Dir
  /\ Pins \subseteq Version \cup {None}
  /\ Attempts \in Nat \ {0}
  /\ MaxPublish \in Nat
  /\ {None, Missing, Cut, Garbled} \cap Version = {}
  /\ {Missing, Cut, Garbled} \cap Content = {}
  /\ NoDir \notin Dir

VARIABLES
  (* the registry *)
  files,      \* files/<path>
  served,     \* manifest.json
  publishing, \* the version being published
  copied,     \* paths the publisher has copied so far
  published,  \* publications begun
  (* the cache *)
  live,       \* the directory <bundleHash> of each version
  pointer,    \* by-name/<bundle>.json
  (* the workers *)
  pc,         \* where provisionBundle is
  pin,        \* pinnedHash
  manifest,   \* the manifest it fetched
  base,       \* the version whose files it reuses
  temp,       \* its directory .sync-*
  todo,       \* files that are not in it yet
  tries,      \* failed attempts to fetch each file
  dir,        \* the version it starts from
  (* history *)
  calm        \* until it is ready: it found the registry whole, nobody has
              \* touched it since, and no request failed that it could answer

registryVars == <<files, served, publishing, copied, published>>
cacheVars == <<live, pointer>>
stageVars == <<base, temp, todo, tries>>
workerVars == <<pc, pin, manifest, stageVars, dir>>
vars == <<registryVars, cacheVars, workerVars, calm>>

FilesOf(v) == {p \in Path : v[p] # Missing}
Empty == [p \in Path |-> Missing]

TypeOK ==
  /\ files \in [Path -> Content \cup {Missing, Cut}]
  /\ served \in Version \cup {Missing, Cut}
  /\ publishing \in Version \cup {None}
  /\ copied \subseteq Path
  /\ published \in 0..MaxPublish
  /\ live \in [Version -> Dir \cup {NoDir}]
  /\ pointer \in Version \cup {Missing, Cut, Garbled}
  /\ pc \in [Worker -> {"idle", "fallback", "manifest", "based", "staging", "pointing",
                        "writing", "ready", "degraded", "failed", "killed"}]
  /\ pin \in [Worker -> Version \cup {None}]
  /\ manifest \in [Worker -> Version \cup {None}]
  /\ base \in [Worker -> Version \cup {None}]
  /\ temp \in [Worker -> Dir \cup {NoDir}]
  /\ todo \in [Worker -> SUBSET Path]
  /\ tries \in [Worker -> [Path -> 0..Attempts]]
  /\ dir \in [Worker -> Version \cup {None}]
  /\ calm \in [Worker -> BOOLEAN]

Init ==
  /\ files = [p \in Path |-> Missing]
  /\ served = Missing
  /\ publishing = None
  /\ copied = {}
  /\ published = 0
  /\ live = [v \in Version |-> NoDir]
  /\ pointer = Missing
  /\ pc = [w \in Worker |-> "idle"]
  /\ pin \in [Worker -> Pins]
  /\ manifest = [w \in Worker |-> None]
  /\ base = [w \in Worker |-> None]
  /\ temp = [w \in Worker |-> NoDir]
  /\ todo = [w \in Worker |-> {}]
  /\ tries = [w \in Worker |-> [p \in Path |-> 0]]
  /\ dir = [w \in Worker |-> None]
  /\ calm = [w \in Worker |-> FALSE]

-----------------------------------------------------------------------------
(***************************************************************************)
(* The registry.                                                           *)
(***************************************************************************)

\* The manifest that is served describes the files that are served.
Whole == served \in Version /\ \A p \in FilesOf(served) : files[p] = served[p]

Disturb == calm' = [w \in Worker |-> FALSE]

\* publishBundle: the manifest is built from the source ...
Publish(v) ==
  /\ publishing = None
  /\ published < MaxPublish
  /\ publishing' = v
  /\ copied' = {}
  /\ published' = published + 1
  /\ UNCHANGED <<files, served, cacheVars, workerVars, calm>>

\* ... every file of it is copied over what is there ...
CopyFile(p) ==
  /\ publishing # None
  /\ p \in FilesOf(publishing) \ copied
  /\ \/ files' = [files EXCEPT ![p] = Cut] /\ UNCHANGED copied
     \/ /\ files[p] = Cut
        /\ files' = [files EXCEPT ![p] = publishing[p]]
        /\ copied' = copied \cup {p}
  /\ Disturb
  /\ UNCHANGED <<served, publishing, published, cacheVars, workerVars>>

\* ... and then the manifest.
WriteManifest ==
  /\ publishing # None
  /\ copied = FilesOf(publishing)
  /\ \/ served' = Cut /\ UNCHANGED publishing
     \/ served = Cut /\ served' = publishing /\ publishing' = None
  /\ Disturb
  /\ UNCHANGED <<files, copied, published, cacheVars, workerVars>>

PublisherKilled ==
  /\ publishing # None
  /\ publishing' = None
  /\ copied' = {}
  /\ UNCHANGED <<files, served, published, cacheVars, workerVars, calm>>

-----------------------------------------------------------------------------
(***************************************************************************)
(* provisionBundle.                                                        *)
(***************************************************************************)

\* The version the pointer names, if it is cached; a pointer that cannot be
\* read counts as none.
Pointed == {v \in Version : pointer = v /\ live[v] # NoDir}

\* The manifest is fetched, or cannot be: the registry is out of reach or has
\* none, or it is being written, which over HTTP looks as if there were none and
\* in a directory is an invalid manifest.
FetchManifest(w) ==
  /\ pc[w] = "idle"
  /\ \/ /\ served \in Version
        /\ manifest' = [manifest EXCEPT ![w] = served]
        /\ pc' = [pc EXCEPT ![w] = IF pin[w] \in {None, served} THEN "manifest" ELSE "failed"]
        /\ calm' = [calm EXCEPT ![w] = Whole]
     \/ /\ \E outcome \in {"fallback"} \cup (IF served = Cut THEN {"failed"} ELSE {}) :
             pc' = [pc EXCEPT ![w] = outcome]
        /\ UNCHANGED <<manifest, calm>>
  /\ UNCHANGED <<registryVars, cacheVars, pin, stageVars, dir>>

\* Without a manifest it starts from the version the pointer names or not at
\* all, whatever is pinned.
Fallback(w) ==
  /\ pc[w] = "fallback"
  /\ \/ \E v \in Pointed :
          /\ pc' = [pc EXCEPT ![w] = "degraded"]
          /\ dir' = [dir EXCEPT ![w] = v]
     \/ /\ Pointed = {}
        /\ pc' = [pc EXCEPT ![w] = "failed"]
        /\ UNCHANGED dir
  /\ UNCHANGED <<registryVars, cacheVars, pin, manifest, stageVars, calm>>

\* Mutant of ReadPointer: the pointer is set as soon as the version is known.
ReadPointerEarly(w) ==
  /\ pc[w] = "manifest"
  /\ pc' = [pc EXCEPT ![w] = "based"]
  /\ pointer' = manifest[w]
  /\ UNCHANGED <<registryVars, live, pin, manifest, stageVars, dir, calm>>

ReadPointer(w) ==
  /\ pc[w] = "manifest"
  /\ pc' = [pc EXCEPT ![w] = "based"]
  /\ \/ \E v \in Pointed : base' = [base EXCEPT ![w] = v]
     \/ Pointed = {} /\ UNCHANGED base
  /\ UNCHANGED <<registryVars, cacheVars, pin, manifest, temp, todo, tries, dir, calm>>

-----------------------------------------------------------------------------
(***************************************************************************)
(* syncBundle.                                                             *)
(***************************************************************************)

\* What only syncBundle knows is gone when it returns.
ForgetSync(w) ==
  /\ base' = [base EXCEPT ![w] = None]
  /\ tries' = [tries EXCEPT ![w] = [p \in Path |-> 0]]

BeginSync(w) ==
  /\ pc[w] = "based"
  /\ IF live[manifest[w]] # NoDir
     THEN /\ pc' = [pc EXCEPT ![w] = "pointing"]
          /\ ForgetSync(w)
          /\ UNCHANGED <<temp, todo>>
     ELSE /\ pc' = [pc EXCEPT ![w] = "staging"]
          /\ temp' = [temp EXCEPT ![w] = Empty]
          /\ todo' = [todo EXCEPT ![w] = FilesOf(manifest[w])]
          /\ UNCHANGED <<base, tries>>
  /\ UNCHANGED <<registryVars, cacheVars, pin, manifest, dir, calm>>

\* processOne goes on for the other files when one has failed; it makes the
\* staging directory again if it is gone.
Staging(w, p) == pc[w] \in {"staging", "failed"} /\ p \in todo[w]
Place(w, p, content) ==
  LET staged == IF temp[w] = NoDir THEN Empty ELSE temp[w] IN
  /\ temp' = [temp EXCEPT ![w] = [staged EXCEPT ![p] = content]]
  /\ todo' = [todo EXCEPT ![w] = @ \ {p}]

\* Mutant of Reusable: a file the base has too is reused, changed or not.
ReusableByName(w, p) == base[w] # None /\ base[w][p] # Missing

\* The base has the same file.
Reusable(w, p) == base[w] # None /\ base[w][p] = manifest[w][p]

CopyFromBase(w, p) ==
  /\ Staging(w, p)
  /\ Reusable(w, p)
  /\ Place(w, p, live[base[w]][p])
  /\ UNCHANGED <<registryVars, cacheVars, pc, pin, manifest, base, tries, dir, calm>>

\* Mutant of FetchFile: the contents are not compared.
FetchFileUnverified(w, p) ==
  /\ Staging(w, p)
  /\ ~Reusable(w, p)
  /\ files[p] \in Content
  /\ Place(w, p, files[p])
  /\ UNCHANGED <<registryVars, cacheVars, pc, pin, manifest, base, tries, dir, calm>>

\* The file arrives, with the contents the manifest says.
FetchFile(w, p) ==
  /\ Staging(w, p)
  /\ ~Reusable(w, p)
  /\ files[p] = manifest[w][p]
  /\ Place(w, p, files[p])
  /\ UNCHANGED <<registryVars, cacheVars, pc, pin, manifest, base, tries, dir, calm>>

\* The registry cannot answer: it holds other contents, or over HTTP its manifest
\* does not list the file, or not any more.
Unavailable(w, p) ==
  files[p] # manifest[w][p] \/ served \notin Version \/ served[p] # manifest[w][p]

\* Mutant of FetchFails: failures are not counted.
FetchFailsUncounted(w, p) ==
  /\ Staging(w, p)
  /\ ~Reusable(w, p)
  /\ calm' = [calm EXCEPT ![w] = @ /\ Unavailable(w, p)]
  /\ UNCHANGED <<registryVars, cacheVars, workerVars>>

\* The request fails, or brings other contents.  After the last attempt the sync
\* fails and the staging directory is removed.
FetchFails(w, p) ==
  /\ Staging(w, p)
  /\ ~Reusable(w, p)
  /\ tries' = [tries EXCEPT ![w][p] = @ + 1]
  /\ IF tries[w][p] + 1 < Attempts
     THEN UNCHANGED <<pc, temp, todo>>
     ELSE /\ pc' = [pc EXCEPT ![w] = "failed"]
          /\ temp' = [temp EXCEPT ![w] = IF pc[w] = "staging" THEN NoDir ELSE @]
          /\ todo' = [todo EXCEPT ![w] = @ \ {p}]
  /\ calm' = [calm EXCEPT ![w] = @ /\ Unavailable(w, p)]
  /\ UNCHANGED <<registryVars, cacheVars, pin, manifest, base, dir>>

\* Mutant of Rename: a directory that is there already is an error.
RenameStrict(w) ==
  /\ pc[w] = "staging" /\ todo[w] = {}
  /\ ForgetSync(w)
  /\ temp' = [temp EXCEPT ![w] = NoDir]
  /\ IF live[manifest[w]] = NoDir
     THEN /\ live' = [live EXCEPT ![manifest[w]] = temp[w]]
          /\ pc' = [pc EXCEPT ![w] = "pointing"]
     ELSE pc' = [pc EXCEPT ![w] = "failed"] /\ UNCHANGED live
  /\ UNCHANGED <<registryVars, pointer, pin, manifest, todo, dir, calm>>

\* Mutant of Rename: after a lost race the wrong directory is removed.
RenameRemoves(w) ==
  /\ pc[w] = "staging" /\ todo[w] = {}
  /\ ForgetSync(w)
  /\ pc' = [pc EXCEPT ![w] = "pointing"]
  /\ temp' = [temp EXCEPT ![w] = NoDir]
  /\ live' = [live EXCEPT ![manifest[w]] = IF @ = NoDir THEN temp[w] ELSE NoDir]
  /\ UNCHANGED <<registryVars, pointer, pin, manifest, todo, dir, calm>>

\* All files are there: rename.  If a concurrent sync was faster the staging
\* directory is removed.
Rename(w) ==
  /\ pc[w] = "staging" /\ todo[w] = {}
  /\ ForgetSync(w)
  /\ pc' = [pc EXCEPT ![w] = "pointing"]
  /\ temp' = [temp EXCEPT ![w] = NoDir]
  /\ live' = [live EXCEPT ![manifest[w]] = IF @ = NoDir THEN temp[w] ELSE @]
  /\ UNCHANGED <<registryVars, pointer, pin, manifest, todo, dir, calm>>

-----------------------------------------------------------------------------
(***************************************************************************)
(* provisionBundle goes on: the pointer.                                   *)
(***************************************************************************)

\* writePointer: the file is cut short ...
CutPointer(w) ==
  /\ pc[w] = "pointing"
  /\ pc' = [pc EXCEPT ![w] = "writing"]
  /\ pointer' = Cut
  /\ UNCHANGED <<registryVars, live, pin, manifest, stageVars, dir, calm>>

\* ... and written, perhaps over what another process wrote meanwhile.
WritePointer(w) ==
  /\ pc[w] = "writing"
  /\ pc' = [pc EXCEPT ![w] = "ready"]
  /\ dir' = [dir EXCEPT ![w] = manifest[w]]
  /\ pointer' \in IF pointer \in {Cut, manifest[w]} THEN {manifest[w]}
                  ELSE {manifest[w], Garbled}
  /\ calm' = [calm EXCEPT ![w] = FALSE]
  /\ UNCHANGED <<registryVars, live, pin, manifest, stageVars>>

\* The staging directory it leaves behind is never looked at again.
WorkerKilled(w) ==
  /\ pc[w] \in {"staging", "pointing", "writing", "failed"}
  /\ pc' = [pc EXCEPT ![w] = "killed"]
  /\ ForgetSync(w)
  /\ temp' = [temp EXCEPT ![w] = NoDir]
  /\ todo' = [todo EXCEPT ![w] = {}]
  /\ calm' = [calm EXCEPT ![w] = FALSE]
  /\ UNCHANGED <<registryVars, cacheVars, pin, manifest, dir>>

-----------------------------------------------------------------------------

Next ==
  \/ \E v \in Version : Publish(v)
  \/ \E p \in Path : CopyFile(p)
  \/ WriteManifest \/ PublisherKilled
  \/ \E w \in Worker : FetchManifest(w) \/ Fallback(w) \/ ReadPointer(w) \/ BeginSync(w)
  \/ \E w \in Worker, p \in Path : CopyFromBase(w, p) \/ FetchFile(w, p) \/ FetchFails(w, p)
  \/ \E w \in Worker : Rename(w) \/ CutPointer(w) \/ WritePointer(w) \/ WorkerKilled(w)

Spec == Init /\ [][Next]_vars

\* A process that provisions goes on; nobody has to publish, and the registry
\* may stay away.
Fairness ==
  \A w \in Worker :
    /\ WF_vars(Fallback(w) \/ ReadPointer(w) \/ BeginSync(w) \/ Rename(w) \/ CutPointer(w)
               \/ WritePointer(w))
    /\ \A p \in Path : WF_vars(CopyFromBase(w, p) \/ FetchFile(w, p) \/ FetchFails(w, p))

FairSpec == Spec /\ Fairness

-----------------------------------------------------------------------------
(***************************************************************************)
(* Properties.                                                             *)
(***************************************************************************)

\* AC-0.2: whoever is killed or loses a race, a directory of the cache holds
\* exactly the files of the version it is named after.
OnlyWholeVersions == \A v \in Version : live[v] \in {NoDir, v}

\* A directory workers may be running from is never touched again.
LiveNeverTouched ==
  [][\A v \in Version : live[v] # NoDir => live'[v] = live[v]]_vars

\* A pointer that can be read names a version that is cached.
PointerUsable == pointer \in Version => live[pointer] # NoDir

\* A provision that met a whole registry which nothing touched since neither
\* fails nor falls back: other provisions, finished, killed or under way, and
\* what they left in the cache cannot make it.
QuietStartsReady ==
  \A w \in Worker : calm[w] /\ pin[w] \in {None, manifest[w]} =>
    pc[w] \notin {"failed", "degraded"}

\* The cache is a store of whole versions.
Store == INSTANCE BundleStore WITH
  installed <- {v \in Version : live[v] = v}, running <- dir

ImplementsBundleStore == Store!Spec

\* Every provision comes to an end.
ProvisionEnds ==
  \A w \in Worker : pc[w] # "idle" ~> pc[w] \in {"ready", "degraded", "failed", "killed"}
=============================================================================
