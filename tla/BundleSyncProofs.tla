-------------------------- MODULE BundleSyncProofs --------------------------
(***************************************************************************)
(* Proofs about BundleSync, for any number of versions, workers, attempts  *)
(* and publications.                                                       *)
(***************************************************************************)
EXTENDS BundleSync, TLAPS

Asked == {"manifest", "based", "staging", "pointing", "writing", "ready"}

\* What a worker has before syncBundle, and files it has yet to stage, have used
\* up no attempt; only a worker that fetched a manifest has files to stage.
Counts ==
  \A w \in Worker :
    /\ pc[w] \in {"idle", "fallback", "manifest", "based"} =>
         todo[w] = {} /\ \A p \in Path : tries[w][p] = 0
    /\ \A p \in todo[w] : tries[w][p] < Attempts
    /\ pc[w] \in Asked \/ todo[w] # {} => manifest[w] \in Version

\* A version whose files are reused is in the cache.
BaseCached == \A w \in Worker : base[w] # None => live[base[w]] # NoDir

TypeInv == TypeOK /\ Counts /\ BaseCached

\* What was staged so far is what the manifest says.
StagedRight ==
  \A w \in Worker : pc[w] = "staging" =>
    /\ temp[w] \in Dir
    /\ \A p \in Path \ todo[w] : temp[w][p] = manifest[w][p]

\* A worker gets past the sync, and starts, only with its version in the cache;
\* it starts once.
StartsCached ==
  \A w \in Worker :
    /\ pc[w] \in {"pointing", "writing", "ready"} => live[manifest[w]] # NoDir
    /\ pc[w] \notin {"ready", "degraded"} => dir[w] = None

SyncInv == OnlyWholeVersions /\ PointerUsable /\ StagedRight /\ StartsCached

\* What a worker has yet to stage is of its manifest, and a worker that counts as calm is
\* past the registry, which is whole and still serves its manifest; it fails only on its pin.
CalmInv ==
  \A w \in Worker :
    /\ todo[w] \subseteq FilesOf(manifest[w])
    /\ calm[w] =>
         /\ pc[w] \notin {"idle", "fallback", "degraded"}
         /\ pc[w] = "failed" => pin[w] \notin {None, manifest[w]}
         /\ Whole /\ served = manifest[w]

-----------------------------------------------------------------------------
(***************************************************************************)
(* Types.                                                                  *)
(***************************************************************************)

\* Versions are directories, and none of the special values is a version.
LEMMA VersionFacts ==
  /\ \A v \in Version : v \in Dir /\ v # NoDir /\ v # None /\ v # Missing /\ v # Cut /\ v # Garbled
  /\ \A v \in Version : FilesOf(v) \in SUBSET Path
  /\ Empty \in Dir
  BY ConstantsAssumption DEF Dir, FilesOf, Empty

\* Nothing is published, cached or asked for at the start.
LEMMA TypeInit == Init => TypeInv
  BY ConstantsAssumption DEF Init, TypeInv, TypeOK, Counts, BaseCached, Asked, Dir

\* Every step keeps them.
LEMMA TypeNext == TypeInv /\ [Next]_vars => TypeInv'
<1>. SUFFICES ASSUME TypeInv, [Next]_vars
              PROVE  TypeInv'
  OBVIOUS
<1>. USE DEF registryVars, cacheVars, stageVars, workerVars
<1>1. ASSUME NEW v \in Version, Publish(v)
      PROVE  TypeInv'
  <2>1. TypeOK'
    BY <1>1, ConstantsAssumption DEF Publish, TypeInv, TypeOK
  <2>2. Counts'
    BY <1>1 DEF Publish, TypeInv, TypeOK, Counts, Asked
  <2>3. BaseCached'
    BY <1>1 DEF Publish, TypeInv, TypeOK, BaseCached
  <2>. QED
    BY <2>1, <2>2, <2>3 DEF TypeInv
<1>2. ASSUME NEW p \in Path, CopyFile(p)
      PROVE  TypeInv'
  <2>1. TypeOK'
    <3>0. publishing[p] \in Content \cup {Missing}
      BY <1>2, VersionFacts DEF CopyFile, TypeInv, TypeOK, Dir
    <3>1. files' \in [Path -> Content \cup {Missing, Cut}]
      BY <1>2, <3>0 DEF CopyFile, TypeInv, TypeOK
    <3>2. copied' \subseteq Path
      BY <1>2 DEF CopyFile, Disturb, TypeInv, TypeOK
    <3>3. calm' \in [Worker -> BOOLEAN]
      BY <1>2 DEF CopyFile, Disturb, TypeInv, TypeOK
    <3>4. UNCHANGED <<served, publishing, published, live, pointer, pc, pin, manifest,
                      base, temp, todo, tries, dir>>
      BY <1>2 DEF CopyFile
    <3>. QED
      BY <3>1, <3>2, <3>3, <3>4 DEF TypeInv, TypeOK
  <2>2. Counts'
    BY <1>2 DEF CopyFile, Disturb, TypeInv, TypeOK, Counts, Asked
  <2>3. BaseCached'
    BY <1>2 DEF CopyFile, Disturb, TypeInv, TypeOK, BaseCached
  <2>. QED
    BY <2>1, <2>2, <2>3 DEF TypeInv
<1>3. ASSUME WriteManifest
      PROVE  TypeInv'
  <2>1. TypeOK'
    BY <1>3, ConstantsAssumption DEF WriteManifest, Disturb, TypeInv, TypeOK
  <2>2. Counts'
    BY <1>3 DEF WriteManifest, Disturb, TypeInv, TypeOK, Counts, Asked
  <2>3. BaseCached'
    BY <1>3 DEF WriteManifest, Disturb, TypeInv, TypeOK, BaseCached
  <2>. QED
    BY <2>1, <2>2, <2>3 DEF TypeInv
<1>4. ASSUME PublisherKilled
      PROVE  TypeInv'
  <2>1. TypeOK'
    BY <1>4, ConstantsAssumption DEF PublisherKilled, TypeInv, TypeOK
  <2>2. Counts'
    BY <1>4 DEF PublisherKilled, TypeInv, TypeOK, Counts, Asked
  <2>3. BaseCached'
    BY <1>4 DEF PublisherKilled, TypeInv, TypeOK, BaseCached
  <2>. QED
    BY <2>1, <2>2, <2>3 DEF TypeInv
<1>5. ASSUME NEW w \in Worker, FetchManifest(w)
      PROVE  TypeInv'
  <2>1. TypeOK'
    <3>1. pc' \in [Worker -> {"idle", "fallback", "manifest", "based", "staging", "pointing",
                     "writing", "ready", "degraded", "failed", "killed"}]
      BY <1>5 DEF FetchManifest, Whole, TypeInv, TypeOK
    <3>2. manifest' \in [Worker -> Version \cup {None}]
      BY <1>5, SMTT(30) DEF FetchManifest, Whole, TypeInv, TypeOK
    <3>3. calm' \in [Worker -> BOOLEAN]
      BY <1>5 DEF FetchManifest, Whole, TypeInv, TypeOK
    <3>4. UNCHANGED <<files, served, publishing, copied, published, live, pointer, pin,
                      base, temp, todo, tries, dir>>
      BY <1>5 DEF FetchManifest
    <3>. QED
      BY <3>1, <3>2, <3>3, <3>4 DEF TypeInv, TypeOK
  <2>2. Counts'
    BY <1>5 DEF FetchManifest, Whole, TypeInv, TypeOK, Counts, Asked
  <2>3. BaseCached'
    BY <1>5 DEF FetchManifest, Whole, TypeInv, TypeOK, BaseCached
  <2>. QED
    BY <2>1, <2>2, <2>3 DEF TypeInv
<1>6. ASSUME NEW w \in Worker, Fallback(w)
      PROVE  TypeInv'
  <2>1. TypeOK'
    <3>1. pc' \in [Worker -> {"idle", "fallback", "manifest", "based", "staging", "pointing",
                     "writing", "ready", "degraded", "failed", "killed"}]
      BY <1>6 DEF Fallback, Pointed, TypeInv, TypeOK
    <3>2. dir' \in [Worker -> Version \cup {None}]
      BY <1>6 DEF Fallback, Pointed, TypeInv, TypeOK
    <3>3. UNCHANGED <<files, served, publishing, copied, published, live, pointer, pin,
                      manifest, base, temp, todo, tries, calm>>
      BY <1>6 DEF Fallback
    <3>. QED
      BY <3>1, <3>2, <3>3 DEF TypeInv, TypeOK
  <2>2. Counts'
    BY <1>6 DEF Fallback, Pointed, TypeInv, TypeOK, Counts, Asked
  <2>3. BaseCached'
    BY <1>6 DEF Fallback, Pointed, TypeInv, TypeOK, BaseCached
  <2>. QED
    BY <2>1, <2>2, <2>3 DEF TypeInv
<1>7. ASSUME NEW w \in Worker, ReadPointer(w)
      PROVE  TypeInv'
  <2>1. TypeOK'
    BY <1>7, ConstantsAssumption DEF ReadPointer, Pointed, TypeInv, TypeOK
  <2>2. Counts'
    BY <1>7 DEF ReadPointer, Pointed, TypeInv, TypeOK, Counts, Asked
  <2>3. BaseCached'
    BY <1>7 DEF ReadPointer, Pointed, TypeInv, TypeOK, BaseCached
  <2>. QED
    BY <2>1, <2>2, <2>3 DEF TypeInv
<1>8. ASSUME NEW w \in Worker, BeginSync(w)
      PROVE  TypeInv'
  <2>0. manifest[w] \in Version /\ FilesOf(manifest[w]) \subseteq Path
    BY <1>8, VersionFacts DEF BeginSync, TypeInv, Counts, Asked
  <2>1. TypeOK'
    <3>1. \/ /\ pc' = [pc EXCEPT ![w] = "pointing"]
             /\ ForgetSync(w)
             /\ UNCHANGED <<temp, todo>>
          \/ /\ pc' = [pc EXCEPT ![w] = "staging"]
             /\ temp' = [temp EXCEPT ![w] = Empty]
             /\ todo' = [todo EXCEPT ![w] = FilesOf(manifest[w])]
             /\ UNCHANGED <<base, tries>>
      BY <1>8 DEF BeginSync
    <3>2. UNCHANGED <<files, served, publishing, copied, published, live, pointer, pin,
                      manifest, dir, calm>>
      BY <1>8 DEF BeginSync
    <3>3. pc' \in [Worker -> {"idle", "fallback", "manifest", "based", "staging", "pointing",
                              "writing", "ready", "degraded", "failed", "killed"}]
      BY <3>1 DEF TypeInv, TypeOK
    <3>4. base' \in [Worker -> Version \cup {None}]
      BY <3>1 DEF ForgetSync, TypeInv, TypeOK
    <3>5. temp' \in [Worker -> Dir \cup {NoDir}]
      <4>1. temp' = temp \/ temp' = [temp EXCEPT ![w] = Empty]
        BY <3>1
      <4>2. Empty \in Dir
        BY VersionFacts
      <4>. QED
        BY <4>1, <4>2 DEF TypeInv, TypeOK
    <3>6. todo' \in [Worker -> SUBSET Path]
      <4>1. todo' = todo \/ todo' = [todo EXCEPT ![w] = FilesOf(manifest[w])]
        BY <3>1
      <4>. QED
        BY <2>0, <4>1 DEF TypeInv, TypeOK
    <3>7. tries' \in [Worker -> [Path -> 0..Attempts]]
      <4>1. [p \in Path |-> 0] \in [Path -> 0..Attempts]
        BY ConstantsAssumption
      <4>. QED
        BY <3>1, <4>1 DEF ForgetSync, TypeInv, TypeOK
    <3>. QED
      BY <3>2, <3>3, <3>4, <3>5, <3>6, <3>7 DEF TypeInv, TypeOK
  <2>2. Counts'
    <3>1. CASE live[manifest[w]] # NoDir
      <4>1. /\ pc' = [pc EXCEPT ![w] = "pointing"]
            /\ tries' = [tries EXCEPT ![w] = [p \in Path |-> 0]]
            /\ UNCHANGED <<todo, manifest>>
        BY <1>8, <3>1 DEF BeginSync, ForgetSync
      <4>. QED
        BY <2>0, <4>1, ConstantsAssumption DEF TypeInv, TypeOK, Counts, Asked
    <3>2. CASE live[manifest[w]] = NoDir
      <4>1. /\ pc[w] = "based" /\ pc' = [pc EXCEPT ![w] = "staging"]
            /\ todo' = [todo EXCEPT ![w] = FilesOf(manifest[w])]
            /\ UNCHANGED <<tries, manifest>>
        BY <1>8, <3>2 DEF BeginSync
      <4>2. manifest[w] \in Version /\ FilesOf(manifest[w]) \subseteq Path
        BY <4>1, VersionFacts DEF TypeInv, Counts, Asked
      <4>3. \A q \in Path : tries[w][q] < Attempts
        BY <4>1, ConstantsAssumption DEF TypeInv, Counts
      <4>. QED
        BY <4>1, <4>2, <4>3 DEF TypeInv, TypeOK, Counts, Asked
    <3>. QED
      BY <3>1, <3>2
  <2>3. BaseCached'
    BY <1>8 DEF BeginSync, ForgetSync, TypeInv, TypeOK, BaseCached
  <2>. QED
    BY <2>1, <2>2, <2>3 DEF TypeInv
<1>9. ASSUME NEW w \in Worker, NEW p \in Path, CopyFromBase(w, p)
      PROVE  TypeInv'
  <2>1. TypeOK'
    <3>1. temp' \in [Worker -> Dir \cup {NoDir}]
      <4>. DEFINE staged == IF temp[w] = NoDir THEN Empty ELSE temp[w]
      <4>1. staged \in Dir
        BY VersionFacts DEF TypeInv, TypeOK
      <4>2. live[base[w]][p] \in Content \cup {Missing}
        BY <1>9, VersionFacts DEF CopyFromBase, Staging, Reusable, TypeInv, TypeOK, BaseCached, Dir
      <4>3. [staged EXCEPT ![p] = live[base[w]][p]] \in Dir
        BY <4>1, <4>2 DEF Dir
      <4>. QED
        BY <1>9, <4>3 DEF CopyFromBase, Place, TypeInv, TypeOK
    <3>2. todo' \in [Worker -> SUBSET Path]
      BY <1>9 DEF CopyFromBase, Staging, Place, TypeInv, TypeOK
    <3>3. UNCHANGED <<files, served, publishing, copied, published, live, pointer, pc,
                      pin, manifest, base, tries, dir, calm>>
      BY <1>9 DEF CopyFromBase
    <3>. QED
      BY <3>1, <3>2, <3>3 DEF TypeInv, TypeOK
  <2>2. Counts'
    BY <1>9 DEF CopyFromBase, Staging, Place, TypeInv, TypeOK, Counts, Asked
  <2>3. BaseCached'
    BY <1>9 DEF CopyFromBase, Staging, Place, TypeInv, TypeOK, BaseCached
  <2>. QED
    BY <2>1, <2>2, <2>3 DEF TypeInv
<1>10. ASSUME NEW w \in Worker, NEW p \in Path, FetchFile(w, p)
      PROVE  TypeInv'
  <2>1. TypeOK'
    <3>1. temp' \in [Worker -> Dir \cup {NoDir}]
      <4>. DEFINE staged == IF temp[w] = NoDir THEN Empty ELSE temp[w]
      <4>1. staged \in Dir
        BY VersionFacts DEF TypeInv, TypeOK
      <4>2. files[p] \in Content \cup {Missing}
        <5>1. files[p] = manifest[w][p] /\ todo[w] # {}
          BY <1>10 DEF FetchFile, Staging
        <5>2. manifest[w] \in Dir
          BY <5>1, VersionFacts DEF TypeInv, Counts
        <5>. QED
          BY <5>1, <5>2 DEF Dir
      <4>3. [staged EXCEPT ![p] = files[p]] \in Dir
        BY <4>1, <4>2 DEF Dir
      <4>. QED
        BY <1>10, <4>3 DEF FetchFile, Place, TypeInv, TypeOK
    <3>2. todo' \in [Worker -> SUBSET Path]
      BY <1>10 DEF FetchFile, Staging, Place, TypeInv, TypeOK
    <3>3. UNCHANGED <<files, served, publishing, copied, published, live, pointer, pc,
                      pin, manifest, base, tries, dir, calm>>
      BY <1>10 DEF FetchFile
    <3>. QED
      BY <3>1, <3>2, <3>3 DEF TypeInv, TypeOK
  <2>2. Counts'
    BY <1>10 DEF FetchFile, Staging, Place, TypeInv, TypeOK, Counts, Asked
  <2>3. BaseCached'
    BY <1>10 DEF FetchFile, Staging, Place, TypeInv, TypeOK, BaseCached
  <2>. QED
    BY <2>1, <2>2, <2>3 DEF TypeInv
<1>11. ASSUME NEW w \in Worker, NEW p \in Path, FetchFails(w, p)
      PROVE  TypeInv'
  <2>0. /\ tries[w][p] \in Nat /\ tries[w][p] < Attempts /\ Attempts \in Nat
        /\ tries[w] \in [Path -> 0..Attempts]
    BY <1>11, ConstantsAssumption DEF FetchFails, Staging, TypeInv, TypeOK, Counts
  <2>1. TypeOK'
    <3>1. pc' \in [Worker -> {"idle", "fallback", "manifest", "based", "staging", "pointing",
                     "writing", "ready", "degraded", "failed", "killed"}]
      BY <1>11 DEF FetchFails, TypeInv, TypeOK
    <3>2. temp' \in [Worker -> Dir \cup {NoDir}]
      BY <1>11 DEF FetchFails, TypeInv, TypeOK
    <3>3. todo' \in [Worker -> SUBSET Path]
      <4>1. todo' = todo \/ todo' = [todo EXCEPT ![w] = todo[w] \ {p}]
        BY <1>11 DEF FetchFails
      <4>. QED
        BY <4>1, SMTT(40) DEF TypeInv, TypeOK
    <3>4. tries' \in [Worker -> [Path -> 0..Attempts]]
      <4>1. [tries[w] EXCEPT ![p] = @ + 1] \in [Path -> 0..Attempts]
        BY <2>0
      <4>2. tries' = [tries EXCEPT ![w] = [tries[w] EXCEPT ![p] = @ + 1]]
        BY <1>11 DEF FetchFails
      <4>. QED
        BY <4>1, <4>2 DEF TypeInv, TypeOK
    <3>5. calm' \in [Worker -> BOOLEAN]
      <4>2. calm' = [calm EXCEPT ![w] = calm[w] /\ Unavailable(w, p)]
        BY <1>11 DEF FetchFails
      <4>. QED
        BY <4>2 DEF TypeInv, TypeOK
    <3>6. UNCHANGED <<files, served, publishing, copied, published, live, pointer, pin, manifest,
                      base, dir>>
      BY <1>11 DEF FetchFails
    <3>. QED
      BY <3>1, <3>2, <3>3, <3>4, <3>5, <3>6 DEF TypeInv, TypeOK
  <2>2. Counts'
    BY <1>11 DEF FetchFails, Staging, Unavailable, TypeInv, TypeOK, Counts, Asked
  <2>3. BaseCached'
    BY <1>11 DEF FetchFails, Staging, Unavailable, TypeInv, TypeOK, BaseCached
  <2>. QED
    BY <2>1, <2>2, <2>3 DEF TypeInv
<1>12. ASSUME NEW w \in Worker, Rename(w)
      PROVE  TypeInv'
  <2>1. TypeOK'
    <3>1. live' \in [Version -> Dir \cup {NoDir}]
      BY <1>12 DEF Rename, ForgetSync, TypeInv, TypeOK
    <3>2. pc' \in [Worker -> {"idle", "fallback", "manifest", "based", "staging", "pointing",
                     "writing", "ready", "degraded", "failed", "killed"}]
      BY <1>12 DEF Rename, ForgetSync, TypeInv, TypeOK
    <3>3. base' \in [Worker -> Version \cup {None}]
      BY <1>12 DEF Rename, ForgetSync, TypeInv, TypeOK
    <3>4. temp' \in [Worker -> Dir \cup {NoDir}]
      BY <1>12 DEF Rename, ForgetSync, TypeInv, TypeOK
    <3>5. tries' \in [Worker -> [Path -> 0..Attempts]]
      BY <1>12, ConstantsAssumption DEF Rename, ForgetSync, TypeInv, TypeOK
    <3>6. UNCHANGED <<files, served, publishing, copied, published, pointer, pin,
                      manifest, todo, dir, calm>>
      BY <1>12 DEF Rename
    <3>. QED
      BY <3>1, <3>2, <3>3, <3>4, <3>5, <3>6 DEF TypeInv, TypeOK
  <2>2. Counts'
    BY <1>12 DEF Rename, ForgetSync, TypeInv, TypeOK, Counts, Asked
  <2>3. BaseCached'
    BY <1>12 DEF Rename, ForgetSync, TypeInv, TypeOK, BaseCached
  <2>. QED
    BY <2>1, <2>2, <2>3 DEF TypeInv
<1>13. ASSUME NEW w \in Worker, CutPointer(w)
      PROVE  TypeInv'
  <2>1. TypeOK'
    BY <1>13, ConstantsAssumption DEF CutPointer, TypeInv, TypeOK
  <2>2. Counts'
    BY <1>13 DEF CutPointer, TypeInv, TypeOK, Counts, Asked
  <2>3. BaseCached'
    BY <1>13 DEF CutPointer, TypeInv, TypeOK, BaseCached
  <2>. QED
    BY <2>1, <2>2, <2>3 DEF TypeInv
<1>14. ASSUME NEW w \in Worker, WritePointer(w)
      PROVE  TypeInv'
  <2>1. TypeOK'
    <3>1. pc' \in [Worker -> {"idle", "fallback", "manifest", "based", "staging", "pointing",
                     "writing", "ready", "degraded", "failed", "killed"}]
      BY <1>14 DEF WritePointer, TypeInv, TypeOK
    <3>2. dir' \in [Worker -> Version \cup {None}]
      BY <1>14 DEF WritePointer, TypeInv, TypeOK
    <3>3. pointer' \in Version \cup {Missing, Cut, Garbled}
      BY <1>14 DEF WritePointer, TypeInv, TypeOK, Counts, Asked
    <3>4. calm' \in [Worker -> BOOLEAN]
      BY <1>14 DEF WritePointer, TypeInv, TypeOK
    <3>5. UNCHANGED <<files, served, publishing, copied, published, live, pin,
                      manifest, base, temp, todo, tries>>
      BY <1>14 DEF WritePointer
    <3>. QED
      BY <3>1, <3>2, <3>3, <3>4, <3>5 DEF TypeInv, TypeOK
  <2>2. Counts'
    BY <1>14 DEF WritePointer, TypeInv, TypeOK, Counts, Asked
  <2>3. BaseCached'
    BY <1>14 DEF WritePointer, TypeInv, TypeOK, BaseCached
  <2>. QED
    BY <2>1, <2>2, <2>3 DEF TypeInv
<1>15. ASSUME NEW w \in Worker, WorkerKilled(w)
      PROVE  TypeInv'
  <2>1. TypeOK'
    BY <1>15, ConstantsAssumption DEF WorkerKilled, ForgetSync, TypeInv, TypeOK
  <2>2. Counts'
    BY <1>15 DEF WorkerKilled, ForgetSync, TypeInv, TypeOK, Counts, Asked
  <2>3. BaseCached'
    BY <1>15 DEF WorkerKilled, ForgetSync, TypeInv, TypeOK, BaseCached
  <2>. QED
    BY <2>1, <2>2, <2>3 DEF TypeInv
<1>16. CASE UNCHANGED vars
  BY <1>16 DEF vars, TypeInv, TypeOK, Counts, BaseCached
<1>. QED
  BY <1>1, <1>2, <1>3, <1>4, <1>5, <1>6, <1>7, <1>8, <1>9, <1>10, <1>11, <1>12, <1>13,
     <1>14, <1>15, <1>16 DEF Next

-----------------------------------------------------------------------------
(***************************************************************************)
(* The cache.                                                              *)
(***************************************************************************)

\* A staged directory that agrees with the manifest on every path is the version.
LEMMA SameFiles ==
  ASSUME NEW d \in Dir, NEW v \in Dir, \A p \in Path : d[p] = v[p]
  PROVE  d = v
  BY DEF Dir

\* Placing the right contents keeps what is staged right.
LEMMA PlaceRight ==
  ASSUME TypeInv, StagedRight, NEW w \in Worker, NEW p \in Path, NEW content,
         content = manifest[w][p], p \in todo[w], Place(w, p, content),
         UNCHANGED <<pc, manifest>>
  PROVE  StagedRight'
<1>. SUFFICES ASSUME NEW u \in Worker, pc'[u] = "staging"
              PROVE  /\ temp'[u] \in Dir
                     /\ \A q \in Path \ todo'[u] : temp'[u][q] = manifest'[u][q]
  BY DEF StagedRight
<1>1. CASE u = w
  <2>1. temp[w] \in Dir /\ temp[w] # NoDir
    BY <1>1, ConstantsAssumption DEF StagedRight
  <2>2. manifest[w] \in Version
    BY DEF TypeInv, Counts
  <2>3. content \in Content \cup {Missing}
    BY <2>2, VersionFacts DEF Dir
  <2>4. temp' = [temp EXCEPT ![w] = [temp[w] EXCEPT ![p] = content]]
    BY <2>1 DEF Place
  <2>5. temp'[w] = [temp[w] EXCEPT ![p] = content]
    BY <2>4 DEF TypeInv, TypeOK
  <2>6. temp'[w] \in Dir
    BY <2>1, <2>3, <2>5 DEF Dir
  <2>7. \A q \in Path \ todo'[w] : temp'[w][q] = manifest[w][q]
    <3>. TAKE q \in Path \ todo'[w]
    <3>1. todo'[w] = todo[w] \ {p}
      BY DEF Place, TypeInv, TypeOK
    <3>2. CASE q = p
      BY <2>1, <2>5, <3>2 DEF Dir
    <3>3. CASE q # p
      BY <1>1, <2>1, <2>5, <3>1, <3>3 DEF StagedRight, Dir
    <3>. QED
      BY <3>2, <3>3
  <2>. QED
    BY <1>1, <2>6, <2>7
<1>2. CASE u # w
  BY <1>2 DEF Place, StagedRight, TypeInv, TypeOK
<1>. QED
  BY <1>1, <1>2

\* The cache is empty at the start.
LEMMA SyncInit == Init => SyncInv
  BY ConstantsAssumption
  DEF Init, SyncInv, OnlyWholeVersions, PointerUsable, StagedRight, StartsCached

\* Every step keeps the cache and what is staged for it.
LEMMA SyncNext == TypeInv /\ SyncInv /\ [Next]_vars => SyncInv'
<1>. SUFFICES ASSUME TypeInv, SyncInv, [Next]_vars
              PROVE  SyncInv'
  OBVIOUS
<1>. USE DEF registryVars, cacheVars, stageVars, workerVars
<1>1. ASSUME NEW v \in Version, Publish(v)
      PROVE  SyncInv'
  BY <1>1 DEF Publish, SyncInv, OnlyWholeVersions, PointerUsable, StagedRight, StartsCached
<1>2. ASSUME NEW p \in Path, CopyFile(p)
      PROVE  SyncInv'
  BY <1>2 DEF CopyFile, SyncInv, OnlyWholeVersions, PointerUsable, StagedRight, StartsCached
<1>3. ASSUME WriteManifest
      PROVE  SyncInv'
  BY <1>3 DEF WriteManifest, SyncInv, OnlyWholeVersions, PointerUsable, StagedRight, StartsCached
<1>4. ASSUME PublisherKilled
      PROVE  SyncInv'
  BY <1>4 DEF PublisherKilled, SyncInv, OnlyWholeVersions, PointerUsable, StagedRight, StartsCached
<1>5. ASSUME NEW w \in Worker, FetchManifest(w)
      PROVE  SyncInv'
  <2>1. OnlyWholeVersions'
    BY <1>5 DEF FetchManifest, Whole, TypeInv, TypeOK, SyncInv, OnlyWholeVersions
  <2>2. PointerUsable'
    BY <1>5 DEF FetchManifest, Whole, TypeInv, TypeOK, SyncInv, PointerUsable
  <2>3. StagedRight'
    BY <1>5 DEF FetchManifest, Whole, TypeInv, TypeOK, SyncInv, StagedRight
  <2>4. StartsCached'
    BY <1>5 DEF FetchManifest, Whole, TypeInv, TypeOK, SyncInv, StartsCached
  <2>. QED
    BY <2>1, <2>2, <2>3, <2>4 DEF SyncInv
<1>6. ASSUME NEW w \in Worker, Fallback(w)
      PROVE  SyncInv'
  <2>1. OnlyWholeVersions'
    BY <1>6 DEF Fallback, Pointed, TypeInv, TypeOK, SyncInv, OnlyWholeVersions
  <2>2. PointerUsable'
    BY <1>6 DEF Fallback, Pointed, TypeInv, TypeOK, SyncInv, PointerUsable
  <2>3. StagedRight'
    BY <1>6 DEF Fallback, Pointed, TypeInv, TypeOK, SyncInv, StagedRight
  <2>4. StartsCached'
    BY <1>6 DEF Fallback, Pointed, TypeInv, TypeOK, SyncInv, StartsCached
  <2>. QED
    BY <2>1, <2>2, <2>3, <2>4 DEF SyncInv
<1>7. ASSUME NEW w \in Worker, ReadPointer(w)
      PROVE  SyncInv'
  <2>1. OnlyWholeVersions'
    BY <1>7 DEF ReadPointer, Pointed, TypeInv, TypeOK, SyncInv, OnlyWholeVersions
  <2>2. PointerUsable'
    BY <1>7 DEF ReadPointer, Pointed, TypeInv, TypeOK, SyncInv, PointerUsable
  <2>3. StagedRight'
    BY <1>7 DEF ReadPointer, Pointed, TypeInv, TypeOK, SyncInv, StagedRight
  <2>4. StartsCached'
    BY <1>7 DEF ReadPointer, Pointed, TypeInv, TypeOK, SyncInv, StartsCached
  <2>. QED
    BY <2>1, <2>2, <2>3, <2>4 DEF SyncInv
<1>8. ASSUME NEW w \in Worker, BeginSync(w)
      PROVE  SyncInv'
  <2>1. OnlyWholeVersions'
    BY <1>8 DEF BeginSync, ForgetSync, TypeInv, TypeOK, SyncInv, OnlyWholeVersions
  <2>2. PointerUsable'
    BY <1>8 DEF BeginSync, ForgetSync, TypeInv, TypeOK, SyncInv, PointerUsable
  <2>3. StagedRight'
    <3>1. CASE live[manifest[w]] # NoDir
      BY <1>8, <3>1 DEF BeginSync, TypeInv, TypeOK, SyncInv, StagedRight
    <3>2. CASE live[manifest[w]] = NoDir
      <4>1. /\ pc[w] = "based"
            /\ temp' = [temp EXCEPT ![w] = Empty]
            /\ todo' = [todo EXCEPT ![w] = FilesOf(manifest[w])]
            /\ pc' = [pc EXCEPT ![w] = "staging"]
            /\ UNCHANGED manifest
        BY <1>8, <3>2 DEF BeginSync
      <4>2. \A q \in Path \ FilesOf(manifest[w]) : Empty[q] = manifest[w][q]
        BY DEF FilesOf, Empty
      <4>. QED
        BY <4>1, <4>2, VersionFacts DEF TypeInv, TypeOK, SyncInv, StagedRight
    <3>. QED
      BY <3>1, <3>2
  <2>4. StartsCached'
    BY <1>8 DEF BeginSync, ForgetSync, TypeInv, TypeOK, SyncInv, StartsCached
  <2>. QED
    BY <2>1, <2>2, <2>3, <2>4 DEF SyncInv
<1>9. ASSUME NEW w \in Worker, NEW p \in Path, CopyFromBase(w, p)
      PROVE  SyncInv'
  <2>1. OnlyWholeVersions'
    BY <1>9 DEF CopyFromBase, Staging, Place, TypeInv, TypeOK, SyncInv, OnlyWholeVersions
  <2>2. PointerUsable'
    BY <1>9 DEF CopyFromBase, Staging, Place, TypeInv, TypeOK, SyncInv, PointerUsable
  <2>3. StagedRight'
    <3>1. live[base[w]][p] = manifest[w][p]
      <4>1. base[w] \in Version /\ base[w][p] = manifest[w][p]
        BY <1>9 DEF CopyFromBase, Reusable, TypeInv, TypeOK
      <4>2. live[base[w]] = base[w]
        BY <1>9, <4>1 DEF CopyFromBase, Reusable, TypeInv, BaseCached, SyncInv, OnlyWholeVersions
      <4>. QED
        BY <4>1, <4>2
    <3>. QED
      BY <1>9, <3>1, PlaceRight DEF CopyFromBase, Staging, SyncInv
  <2>4. StartsCached'
    BY <1>9 DEF CopyFromBase, Staging, Place, TypeInv, TypeOK, SyncInv, StartsCached
  <2>. QED
    BY <2>1, <2>2, <2>3, <2>4 DEF SyncInv
<1>10. ASSUME NEW w \in Worker, NEW p \in Path, FetchFile(w, p)
      PROVE  SyncInv'
  <2>1. OnlyWholeVersions'
    BY <1>10 DEF FetchFile, Staging, Place, TypeInv, TypeOK, SyncInv, OnlyWholeVersions
  <2>2. PointerUsable'
    BY <1>10 DEF FetchFile, Staging, Place, TypeInv, TypeOK, SyncInv, PointerUsable
  <2>3. StagedRight'
    BY <1>10, PlaceRight DEF FetchFile, Staging, SyncInv
  <2>4. StartsCached'
    BY <1>10 DEF FetchFile, Staging, Place, TypeInv, TypeOK, SyncInv, StartsCached
  <2>. QED
    BY <2>1, <2>2, <2>3, <2>4 DEF SyncInv
<1>11. ASSUME NEW w \in Worker, NEW p \in Path, FetchFails(w, p)
      PROVE  SyncInv'
  <2>1. OnlyWholeVersions'
    BY <1>11 DEF FetchFails, Staging, Unavailable, TypeInv, TypeOK, SyncInv, OnlyWholeVersions
  <2>2. PointerUsable'
    BY <1>11 DEF FetchFails, Staging, Unavailable, TypeInv, TypeOK, SyncInv, PointerUsable
  <2>3. StagedRight'
    BY <1>11 DEF FetchFails, Staging, Unavailable, TypeInv, TypeOK, SyncInv, StagedRight
  <2>4. StartsCached'
    BY <1>11 DEF FetchFails, Staging, Unavailable, TypeInv, TypeOK, SyncInv, StartsCached
  <2>. QED
    BY <2>1, <2>2, <2>3, <2>4 DEF SyncInv
<1>12. ASSUME NEW w \in Worker, Rename(w)
      PROVE  SyncInv'
  <2>0. manifest[w] \in Version /\ temp[w] = manifest[w]
    <3>1. pc[w] = "staging" /\ todo[w] = {}
      BY <1>12 DEF Rename
    <3>2. manifest[w] \in Dir /\ manifest[w] \in Version
      BY <3>1, VersionFacts DEF TypeInv, Counts, Asked
    <3>3. temp[w] \in Dir /\ \A q \in Path : temp[w][q] = manifest[w][q]
      BY <3>1 DEF SyncInv, StagedRight
    <3>. QED
      BY <3>2, <3>3, SameFiles
  <2>1. OnlyWholeVersions'
    BY <1>12, <2>0 DEF Rename, TypeInv, TypeOK, SyncInv, OnlyWholeVersions
  <2>2. PointerUsable'
    BY <1>12 DEF Rename, ForgetSync, TypeInv, TypeOK, SyncInv, PointerUsable
  <2>3. StagedRight'
    BY <1>12 DEF Rename, ForgetSync, TypeInv, TypeOK, SyncInv, StagedRight
  <2>4. StartsCached'
    BY <1>12, <2>0, VersionFacts DEF Rename, TypeInv, TypeOK, SyncInv, StartsCached
  <2>. QED
    BY <2>1, <2>2, <2>3, <2>4 DEF SyncInv
<1>13. ASSUME NEW w \in Worker, CutPointer(w)
      PROVE  SyncInv'
  <2>1. OnlyWholeVersions'
    BY <1>13 DEF CutPointer, TypeInv, TypeOK, SyncInv, OnlyWholeVersions
  <2>2. PointerUsable'
    BY <1>13, VersionFacts DEF CutPointer, PointerUsable
  <2>3. StagedRight'
    BY <1>13 DEF CutPointer, TypeInv, TypeOK, SyncInv, StagedRight
  <2>4. StartsCached'
    BY <1>13 DEF CutPointer, TypeInv, TypeOK, SyncInv, StartsCached
  <2>. QED
    BY <2>1, <2>2, <2>3, <2>4 DEF SyncInv
<1>14. ASSUME NEW w \in Worker, WritePointer(w)
      PROVE  SyncInv'
  <2>1. OnlyWholeVersions'
    BY <1>14 DEF WritePointer, TypeInv, TypeOK, SyncInv, OnlyWholeVersions
  <2>2. PointerUsable'
    BY <1>14, VersionFacts
    DEF WritePointer, TypeInv, TypeOK, Counts, Asked, SyncInv, PointerUsable, StartsCached
  <2>3. StagedRight'
    BY <1>14 DEF WritePointer, TypeInv, TypeOK, SyncInv, StagedRight
  <2>4. StartsCached'
    BY <1>14 DEF WritePointer, TypeInv, TypeOK, SyncInv, StartsCached
  <2>. QED
    BY <2>1, <2>2, <2>3, <2>4 DEF SyncInv
<1>15. ASSUME NEW w \in Worker, WorkerKilled(w)
      PROVE  SyncInv'
  <2>1. OnlyWholeVersions'
    BY <1>15 DEF WorkerKilled, ForgetSync, TypeInv, TypeOK, SyncInv, OnlyWholeVersions
  <2>2. PointerUsable'
    BY <1>15 DEF WorkerKilled, ForgetSync, TypeInv, TypeOK, SyncInv, PointerUsable
  <2>3. StagedRight'
    BY <1>15 DEF WorkerKilled, ForgetSync, TypeInv, TypeOK, SyncInv, StagedRight
  <2>4. StartsCached'
    BY <1>15 DEF WorkerKilled, ForgetSync, TypeInv, TypeOK, SyncInv, StartsCached
  <2>. QED
    BY <2>1, <2>2, <2>3, <2>4 DEF SyncInv
<1>16. CASE UNCHANGED vars
  BY <1>16 DEF vars, SyncInv, OnlyWholeVersions, PointerUsable, StagedRight, StartsCached
<1>. QED
  BY <1>1, <1>2, <1>3, <1>4, <1>5, <1>6, <1>7, <1>8, <1>9, <1>10, <1>11, <1>12, <1>13,
     <1>14, <1>15, <1>16 DEF Next

\* No step changes a directory of the cache.
LEMMA LiveStep ==
  TypeInv /\ [Next]_vars => \A v \in Version : live[v] # NoDir => live'[v] = live[v]
<1>. SUFFICES ASSUME TypeInv, [Next]_vars, NEW v \in Version, live[v] # NoDir
              PROVE  live'[v] = live[v]
  OBVIOUS
<1>. USE DEF registryVars, cacheVars, stageVars, workerVars
<1>1. ASSUME NEW w \in Worker, Rename(w)
      PROVE  live'[v] = live[v]
  BY <1>1 DEF Rename, TypeInv, TypeOK
<1>2. CASE UNCHANGED live
  BY <1>2
<1>. QED
  BY <1>1, <1>2
  DEF Next, vars, Publish, CopyFile, WriteManifest, PublisherKilled, FetchManifest, Fallback,
      ReadPointer, BeginSync, CopyFromBase, FetchFile, FetchFails, CutPointer, WritePointer,
      WorkerKilled

\* The installed versions are those of the cache, what runs is what was started:
\* every step installs one, starts one or changes neither.
LEMMA StoreStep ==
  TypeInv /\ SyncInv /\ [Next]_vars =>
    [Store!Next]_<<{v \in Version : live[v] = v}, dir>>
<1>. SUFFICES ASSUME TypeInv, SyncInv, [Next]_vars
              PROVE  [Store!Next]_<<{v \in Version : live[v] = v}, dir>>
  OBVIOUS
<1>. USE DEF registryVars, cacheVars, stageVars, workerVars
<1>. DEFINE installed == {v \in Version : live[v] = v}
<1>1. ASSUME NEW w \in Worker, Rename(w)
      PROVE  Store!Next
  <2>1. pc[w] = "staging" /\ todo[w] = {} /\ UNCHANGED dir
        /\ live' = [live EXCEPT ![manifest[w]] = IF @ = NoDir THEN temp[w] ELSE @]
    BY <1>1 DEF Rename
  <2>2. manifest[w] \in Version
    BY <2>1 DEF TypeInv, Counts, Asked
  <2>3. temp[w] = manifest[w]
    BY <2>1, <2>2, VersionFacts, SameFiles DEF SyncInv, StagedRight
  <2>4. live' \in [Version -> Dir \cup {NoDir}] /\ live'[manifest[w]] = manifest[w]
    BY <2>1, <2>2, <2>3, VersionFacts DEF TypeInv, TypeOK, SyncInv, OnlyWholeVersions
  <2>5. \A v \in Version : v # manifest[w] => live'[v] = live[v]
    BY <2>1 DEF TypeInv, TypeOK
  <2>6. installed' = installed \cup {manifest[w]}
    BY <2>2, <2>4, <2>5
  <2>. QED
    BY <2>1, <2>2, <2>6 DEF Store!Next, Store!Install
<1>2. ASSUME NEW w \in Worker, Fallback(w), UNCHANGED dir
      PROVE  UNCHANGED <<installed, dir>>
  BY <1>2 DEF Fallback
<1>3. ASSUME NEW w \in Worker, NEW v \in Version, v \in installed, dir[w] = None,
             dir' = [dir EXCEPT ![w] = v], UNCHANGED live
      PROVE  Store!Next
  BY <1>3 DEF Store!Next, Store!Run
<1>4. ASSUME NEW w \in Worker, Fallback(w)
      PROVE  [Store!Next]_<<installed, dir>>
  <2>1. pc[w] = "fallback" /\ UNCHANGED live
    BY <1>4 DEF Fallback
  <2>2. dir[w] = None
    BY <2>1 DEF SyncInv, StartsCached
  <2>3. ASSUME NEW v \in Pointed, dir' = [dir EXCEPT ![w] = v]
        PROVE  Store!Next
    <3>1. v \in Version /\ v \in installed
      BY <2>3 DEF Pointed, SyncInv, OnlyWholeVersions
    <3>. QED
      BY <1>3, <2>1, <2>2, <2>3, <3>1
  <2>. QED
    BY <1>2, <1>4, <2>3 DEF Fallback
<1>5. ASSUME NEW w \in Worker, WritePointer(w)
      PROVE  Store!Next
  <2>1. pc[w] = "writing" /\ UNCHANGED live /\ dir' = [dir EXCEPT ![w] = manifest[w]]
    BY <1>5 DEF WritePointer
  <2>2. dir[w] = None /\ manifest[w] \in Version /\ manifest[w] \in installed
    BY <2>1 DEF TypeInv, Counts, Asked, SyncInv, StartsCached, OnlyWholeVersions
  <2>. QED
    BY <1>3, <2>1, <2>2
<1>6. CASE UNCHANGED <<live, dir>>
  BY <1>6
<1>. QED
  BY <1>1, <1>4, <1>5, <1>6
  DEF Next, vars, Publish, CopyFile, WriteManifest, PublisherKilled, FetchManifest,
      ReadPointer, BeginSync, CopyFromBase, FetchFile, FetchFails, CutPointer, WorkerKilled

\* Whatever fails at a calm worker is a request that the registry could answer, and from then
\* on the worker is not calm any more.
LEMMA CalmStep == TypeInv /\ CalmInv /\ [Next]_vars => CalmInv'
<1>. SUFFICES ASSUME TypeInv, CalmInv, [Next]_vars
              PROVE  CalmInv'
  OBVIOUS
<1>. USE DEF registryVars, cacheVars, stageVars, workerVars
<1>1. ASSUME UNCHANGED <<pc, pin, manifest, todo>>, \A w \in Worker : calm'[w] = FALSE
      PROVE  CalmInv'
  BY <1>1 DEF CalmInv
<1>2. ASSUME UNCHANGED <<files, served, pc, pin, manifest, todo, calm>>
      PROVE  CalmInv'
  BY <1>2 DEF CalmInv, Whole
<1>3. ASSUME NEW p \in Path, CopyFile(p)
      PROVE  CalmInv'
  BY <1>1, <1>3 DEF CopyFile, Disturb
<1>4. ASSUME WriteManifest
      PROVE  CalmInv'
  BY <1>1, <1>4 DEF WriteManifest, Disturb
<1>5. ASSUME NEW w \in Worker, FetchManifest(w)
      PROVE  CalmInv'
  <2>1. UNCHANGED <<files, served, pin, todo>> /\ pc[w] = "idle" /\ todo[w] = {} /\ ~calm[w]
    BY <1>5 DEF FetchManifest, TypeInv, Counts, CalmInv
  <2>2. \A u \in Worker : u # w => pc'[u] = pc[u] /\ manifest'[u] = manifest[u] /\ calm'[u] = calm[u]
    BY <1>5 DEF FetchManifest, TypeInv, TypeOK
  <2>3. calm'[w] =>
          /\ Whole /\ served = manifest'[w]
          /\ pc'[w] = IF pin[w] \in {None, served} THEN "manifest" ELSE "failed"
    BY <1>5, <2>1 DEF FetchManifest, TypeInv, TypeOK, Whole
  <2>. QED
    BY <2>1, <2>2, <2>3 DEF CalmInv, Whole
<1>6. ASSUME NEW w \in Worker, Fallback(w) \/ ReadPointer(w) \/ CutPointer(w) \/ WritePointer(w)
      PROVE  CalmInv'
  <2>1. UNCHANGED <<files, served, pin, manifest, todo>>
    BY <1>6 DEF Fallback, ReadPointer, CutPointer, WritePointer
  <2>2. \A u \in Worker : u # w => pc'[u] = pc[u] /\ calm'[u] = calm[u]
    BY <1>6 DEF Fallback, ReadPointer, CutPointer, WritePointer, TypeInv, TypeOK
  <2>3. calm'[w] => calm[w] /\ pc'[w] \in {"based", "writing"}
    BY <1>6 DEF Fallback, ReadPointer, CutPointer, WritePointer, TypeInv, TypeOK, CalmInv
  <2>. QED
    BY <2>1, <2>2, <2>3 DEF CalmInv, Whole
<1>7. ASSUME NEW w \in Worker, BeginSync(w) \/ Rename(w)
      PROVE  CalmInv'
  <2>1. UNCHANGED <<files, served, pin, manifest, calm>>
    BY <1>7 DEF BeginSync, Rename
  <2>2. \A u \in Worker : u # w => pc'[u] = pc[u] /\ todo'[u] = todo[u]
    BY <1>7 DEF BeginSync, Rename, TypeInv, TypeOK
  <2>3. pc'[w] \in {"staging", "pointing"} /\ todo'[w] \in {todo[w], FilesOf(manifest[w])}
    BY <1>7 DEF BeginSync, Rename, TypeInv, TypeOK
  <2>. QED
    BY <2>1, <2>2, <2>3 DEF CalmInv, Whole
<1>8. ASSUME NEW w \in Worker, NEW p \in Path, CopyFromBase(w, p) \/ FetchFile(w, p)
      PROVE  CalmInv'
  <2>1. UNCHANGED <<files, served, pc, pin, manifest, calm>>
    BY <1>8 DEF CopyFromBase, FetchFile
  <2>2. \A u \in Worker : todo'[u] \subseteq todo[u]
    BY <1>8 DEF CopyFromBase, FetchFile, Place, TypeInv, TypeOK
  <2>. QED
    BY <2>1, <2>2 DEF CalmInv, Whole
<1>9. ASSUME NEW w \in Worker, NEW p \in Path, FetchFails(w, p)
      PROVE  CalmInv'
  <2>1. UNCHANGED <<files, served, pin, manifest>> /\ p \in todo[w]
    BY <1>9 DEF FetchFails, Staging
  <2>2. \A u \in Worker : todo'[u] \subseteq todo[u]
    <3>1. todo' = todo \/ todo' = [todo EXCEPT ![w] = todo[w] \ {p}]
      BY <1>9 DEF FetchFails
    <3>. QED
      BY <3>1, ZenonT(60) DEF TypeInv, TypeOK
  <2>3. \A u \in Worker : u # w => pc'[u] = pc[u] /\ calm'[u] = calm[u]
    BY <1>9 DEF FetchFails, TypeInv, TypeOK
  <2>4. calm[w] => ~Unavailable(w, p)
    BY <2>1 DEF CalmInv, Whole, Unavailable
  <2>5. ~calm'[w]
    BY <1>9, <2>4 DEF FetchFails, TypeInv, TypeOK
  <2>. QED
    BY <2>1, <2>2, <2>3, <2>5 DEF CalmInv, Whole
<1>10. ASSUME NEW w \in Worker, WorkerKilled(w)
       PROVE  CalmInv'
  <2>1. UNCHANGED <<files, served, pin, manifest>> /\ ~calm'[w] /\ todo'[w] = {}
    BY <1>10 DEF WorkerKilled, TypeInv, TypeOK
  <2>2. \A u \in Worker : u # w => pc'[u] = pc[u] /\ calm'[u] = calm[u] /\ todo'[u] = todo[u]
    BY <1>10 DEF WorkerKilled, TypeInv, TypeOK
  <2>. QED
    BY <2>1, <2>2 DEF CalmInv, Whole
<1>11. ASSUME (\E v \in Version : Publish(v)) \/ PublisherKilled
       PROVE  CalmInv'
  BY <1>2, <1>11 DEF Publish, PublisherKilled
<1>12. CASE UNCHANGED vars
  BY <1>2, <1>12 DEF vars
<1>. QED
  BY <1>3, <1>4, <1>5, <1>6, <1>7, <1>8, <1>9, <1>10, <1>11, <1>12 DEF Next

-----------------------------------------------------------------------------
(***************************************************************************)
(* Theorems.                                                               *)
(***************************************************************************)

\* The registry, the cache and every provision are always well typed.
THEOREM TypeCorrect == Spec => []TypeOK
<1>1. Init => TypeInv
  BY TypeInit
<1>2. TypeInv /\ [Next]_vars => TypeInv'
  BY TypeNext
<1>3. TypeInv => TypeOK
  BY DEF TypeInv
<1>. QED
  BY <1>1, <1>2, <1>3, PTL DEF Spec

\* The types and what holds of the cache, together.
LEMMA SyncCorrect == Spec => [](TypeInv /\ SyncInv)
<1>1. Init => TypeInv /\ SyncInv
  BY TypeInit, SyncInit
<1>2. TypeInv /\ SyncInv /\ [Next]_vars => (TypeInv /\ SyncInv)'
  BY TypeNext, SyncNext
<1>. QED
  BY <1>1, <1>2, PTL DEF Spec

\* AC-0.2: a directory of the cache holds exactly the files of its version, with
\* any number of workers syncing any versions at once, while the registry changes
\* under them and any of them is killed.
THEOREM WholeVersions == Spec => []OnlyWholeVersions
<1>1. TypeInv /\ SyncInv => OnlyWholeVersions
  BY DEF SyncInv
<1>. QED
  BY <1>1, SyncCorrect, PTL

\* Whoever reads the pointer finds the version it names in the cache.
THEOREM PointerNamesCached == Spec => []PointerUsable
<1>1. TypeInv /\ SyncInv => PointerUsable
  BY DEF SyncInv
<1>. QED
  BY <1>1, SyncCorrect, PTL

\* A directory of the cache never changes: not even a lost race touches it.
THEOREM NeverTouched == Spec => LiveNeverTouched
<1>1. Spec => []TypeInv
  BY SyncCorrect, PTL
<1>2. TypeInv /\ [Next]_vars =>
        [\A v \in Version : live[v] # NoDir => live'[v] = live[v]]_vars
  BY LiveStep
<1>. QED
  BY <1>1, <1>2, PTL DEF Spec, LiveNeverTouched

\* A provision that met a whole registry which nothing touched since neither fails nor falls
\* back, whatever the other workers do to the cache and whatever was left in it.
THEOREM QuietReady == Spec => []QuietStartsReady
<1>1. Spec => []TypeInv
  BY SyncCorrect, PTL
<1>2. Init => CalmInv
  BY DEF Init, CalmInv
<1>3. TypeInv /\ CalmInv /\ [Next]_vars => CalmInv'
  BY CalmStep
<1>4. CalmInv => QuietStartsReady
  BY DEF CalmInv, QuietStartsReady
<1>. QED
  BY <1>1, <1>2, <1>3, <1>4, PTL DEF Spec

\* Provisioning implements the store of whole versions.
THEOREM StoreRefinement == Spec => ImplementsBundleStore
<1>1. Init => Store!Init
  BY ConstantsAssumption, VersionFacts DEF Init, Store!Init
<1>2. TypeInv /\ SyncInv /\ [Next]_vars =>
        [Store!Next]_<<{v \in Version : live[v] = v}, dir>>
  BY StoreStep
<1>. QED
  BY <1>1, <1>2, SyncCorrect, PTL DEF Spec, ImplementsBundleStore, Store!Spec
=============================================================================
