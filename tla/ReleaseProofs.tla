---------------------------- MODULE ReleaseProofs ----------------------------
(***************************************************************************)
(* What holds of releases for any repository, any number of builds,         *)
(* productions, mishaps and slips, any keys and any host: what is signed    *)
(* holds together, no host refuses it, what a host installed from the       *)
(* dashboard was signed, the dashboard lowers no version, and the status    *)
(* tells the truth.                                                         *)
(***************************************************************************)
EXTENDS UpdateDelivery, TLAPS

RunFields == {"pc", "version", "tag", "key", "image", "record", "wheels", "sums",
              "provenance", "lock"}
Files == Platforms \cup {"manifest", "sig"}

Sealing == {"aarch64", "armv7l", "manifest", "unsign", "sign"}
Lock == {"lock"} \cup Sealing
Provenance == {"provenance"} \cup Lock

(* The bundles are a sequence. *)
Listed == \E S : built \in Seq(S)

(* Every file of the output and of the page is in its place, and a          *)
(* production is idle or has all it was called with.                        *)
Shapes ==
  /\ Listed
  /\ DOMAIN spent = BoundNames /\ spent.mishaps \in Nat
  /\ DOMAIN dist = Tags /\ \A v \in Tags : DOMAIN dist[v] = Files
  /\ DOMAIN assets = Tags /\ \A v \in Tags : DOMAIN assets[v] = Files
  /\ \/ producer = Idle
     \/ /\ DOMAIN producer = RunFields
        /\ producer.pc \in {"gate", "wheelhouse"} \cup Provenance
        /\ producer.version \in Tags

USE DEF Shapes, RunFields, Files, Platforms, Sealing, Lock, Provenance, Idle, At, BoundNames

(* What a production can rely on only grows. *)
Grows ==
  /\ repo' = repo
  /\ DOMAIN built \subseteq DOMAIN built'
  /\ recorded \subseteq recorded'
  /\ spent'.mishaps = 0 => spent.mishaps = 0

(* The shapes. *)
LEMMA ShapesInitially == Init => Shapes
<1> SUFFICES ASSUME Init PROVE Shapes
  OBVIOUS
<1>1. built = << >> /\ built \in Seq({})
  BY DEF Init, ProductionInit
<1>2. DOMAIN limits = BoundNames
  BY ScenariosAreBounded DEF Init, ProductionInit
<1>3. Listed
  BY <1>1 DEF Listed
<1> QED
  BY <1>2, <1>3 DEF Init, ProductionInit, NoFiles

(* Built bundles are appended. *)
LEMMA BuildShapes ==
  ASSUME Shapes, Build, UNCHANGED <<repo, limits, assets, latest>>
  PROVE  Shapes' /\ Grows
<1>1. PICK S : built \in Seq(S)
  BY DEF Listed
<1>2. PICK b : built' = Append(built, b)
  BY DEF Build
<1>3. built' \in Seq(S \cup {b}) /\ DOMAIN built \subseteq DOMAIN built'
  BY <1>1, <1>2
<1>4. Listed'
  BY <1>3 DEF Listed
<1>5. spent'.mishaps = spent.mishaps /\ DOMAIN spent' = BoundNames
  BY DEF Build
<1> QED
  BY <1>3, <1>4, <1>5 DEF Build, Grows

(* What a production keeps when it goes on. *)
Keeps(fields) == \A f \in fields : producer'[f] = producer[f]

(* What a production has after each of its reads, unless it gave up.        *)
LEMMA AfterWheelhouse ==
  ASSUME Shapes, ReadsWheelhouse
  PROVE  \/ producer' = Idle
         \/ /\ DOMAIN producer' = RunFields /\ producer'.pc = "provenance"
            /\ producer'.wheels = bundle.wheels /\ producer'.sums = bundle.sums
            /\ Keeps(RunFields \ {"pc", "wheels", "sums"})
<1>1. DOMAIN producer = RunFields
  BY DEF ReadsWheelhouse
<1>2. CASE bundle.wheels = {}
  BY <1>2 DEF ReadsWheelhouse, GivesUp
<1>3. CASE bundle.wheels # {}
  <2>1. producer' = [producer EXCEPT !.pc = "provenance", !.wheels = bundle.wheels,
                                     !.sums = bundle.sums]
    BY <1>3 DEF ReadsWheelhouse
  <2> HIDE DEF Shapes
  <2>2. DOMAIN producer' = RunFields /\ producer'.pc = "provenance"
    BY <1>1, <2>1
  <2>3. producer'.wheels = bundle.wheels /\ producer'.sums = bundle.sums
    BY <1>1, <2>1
  <2>4. Keeps(RunFields \ {"pc", "wheels", "sums"})
    BY <1>1, <2>1 DEF Keeps
  <2> QED
    BY <2>2, <2>3, <2>4
<1> QED
  BY <1>2, <1>3

LEMMA AfterProvenance ==
  ASSUME Shapes, ReadsProvenance
  PROVE  \/ producer' = Idle
         \/ /\ DOMAIN producer' = RunFields /\ producer'.pc = "lock"
            /\ producer'.provenance = bundle.provenance
            /\ ValidProvenance(bundle.provenance, producer.wheels, producer.sums, Tree,
                               producer.image)
            /\ Keeps(RunFields \ {"pc", "provenance"})
<1>1. DOMAIN producer = RunFields
  BY DEF ReadsProvenance
<1>2. \/ producer' = Idle
      \/ /\ producer' = [producer EXCEPT !.pc = "lock", !.provenance = bundle.provenance]
         /\ ValidProvenance(bundle.provenance, producer.wheels, producer.sums, Tree,
                            producer.image)
  BY DEF ReadsProvenance, GivesUp
<1>3. ASSUME producer' = [producer EXCEPT !.pc = "lock", !.provenance = bundle.provenance]
      PROVE  /\ DOMAIN producer' = RunFields /\ producer'.pc = "lock"
             /\ producer'.provenance = bundle.provenance
             /\ Keeps(RunFields \ {"pc", "provenance"})
  <2> HIDE DEF Shapes
  <2>1. DOMAIN producer' = RunFields /\ producer'.pc = "lock"
    BY <1>1, <1>3
  <2>2. producer'.provenance = bundle.provenance
    BY <1>1, <1>3
  <2>3. Keeps(RunFields \ {"pc", "provenance"})
    BY <1>1, <1>3 DEF Keeps
  <2> QED
    BY <2>1, <2>2, <2>3
<1> QED
  BY <1>2, <1>3

LEMMA AfterLock ==
  ASSUME Shapes, ReadsLock
  PROVE  \/ producer' = Idle
         \/ /\ DOMAIN producer' = RunFields /\ producer'.pc = "aarch64"
            /\ producer'.lock = bundle.lock
            /\ MayBeSealed(Tree, bundle.lock)
            /\ Keeps(RunFields \ {"pc", "lock"})
<1>1. DOMAIN producer = RunFields
  BY DEF ReadsLock
<1>2. \/ producer' = Idle
      \/ /\ producer' = [producer EXCEPT !.pc = "aarch64", !.lock = bundle.lock]
         /\ MayBeSealed(Tree, bundle.lock)
  BY DEF ReadsLock, GivesUp
<1>3. ASSUME producer' = [producer EXCEPT !.pc = "aarch64", !.lock = bundle.lock]
      PROVE  /\ DOMAIN producer' = RunFields /\ producer'.pc = "aarch64"
             /\ producer'.lock = bundle.lock
             /\ Keeps(RunFields \ {"pc", "lock"})
  <2> HIDE DEF Shapes
  <2>1. DOMAIN producer' = RunFields /\ producer'.pc = "aarch64"
    BY <1>1, <1>3
  <2>2. producer'.lock = bundle.lock
    BY <1>1, <1>3
  <2>3. Keeps(RunFields \ {"pc", "lock"})
    BY <1>1, <1>3 DEF Keeps
  <2> QED
    BY <2>1, <2>2, <2>3
<1> QED
  BY <1>2, <1>3

(* What it has when it only goes on: nothing new.                           *)
LEMMA GoesOn ==
  ASSUME DOMAIN producer = RunFields, NEW pc, Goes(pc)
  PROVE  DOMAIN producer' = RunFields /\ producer'.pc = pc /\ Keeps(RunFields \ {"pc"})
<1>1. producer' = [producer EXCEPT !.pc = pc]
  BY DEF Goes
<1>2. DOMAIN producer' = RunFields /\ producer'.pc = pc
  BY <1>1
<1>3. Keeps(RunFields \ {"pc"})
  BY <1>1 DEF Keeps
<1> QED
  BY <1>2, <1>3

(* Other steps of the releasing machine. *)
LEMMA ProduceShapes ==
  ASSUME Shapes, Produce, UNCHANGED <<repo, limits, assets, latest>>
  PROVE  Shapes' /\ Grows
<1> USE DEF Grows
<1>0. built' = built => Listed'
  BY DEF Listed
<1>1. CASE Begins
  BY <1>0, <1>1 DEF Begins
<1>2. CASE PassesGate
  BY <1>0, <1>2 DEF PassesGate, Reads, Produces, Goes, GivesUp
<1>3. CASE ReadsWheelhouse
  BY <1>0, <1>3, AfterWheelhouse DEF ReadsWheelhouse, Reads, Produces, Keeps
<1>4. CASE ReadsProvenance
  BY <1>0, <1>4, AfterProvenance DEF ReadsProvenance, Reads, Produces, Keeps
<1>5. CASE ReadsLock
  BY <1>0, <1>5, AfterLock DEF ReadsLock, Reads, Produces, Keeps
<1>6. CASE WritesFiles
  BY <1>0, <1>6 DEF WritesFiles, Writes, Written, Goes, Death, GivesUp
<1>7. CASE Unsigns
  BY <1>0, <1>7 DEF Unsigns, Produces, Written, Goes
<1>8. CASE Signs
  BY <1>0, <1>8 DEF Signs, Produces, Written, GivesUp
<1>9. CASE Dies
  BY <1>0, <1>9 DEF Dies, Death, GivesUp
<1> QED
  BY <1>1, <1>2, <1>3, <1>4, <1>5, <1>6, <1>7, <1>8, <1>9 DEF Produce

(* Every step. *)
LEMMA ShapesPreserved == Shapes /\ [Next]_vars => Shapes' /\ Grows
<1> SUFFICES ASSUME Shapes, [Next]_vars PROVE Shapes' /\ Grows
  OBVIOUS
<1>0. built' = built => Listed'
  BY DEF Listed
<1>1. CASE UNCHANGED vars
  BY <1>0, <1>1 DEF vars, production, Grows
<1>2. CASE Publisher
  <2>1. CASE Build
    BY <1>2, <2>1, BuildShapes DEF Publisher
  <2>2. CASE Mishap
    BY <1>0, <1>2, <2>2 DEF Publisher, Mishap, Grows
  <2>3. CASE Produce
    BY <1>2, <2>3, ProduceShapes DEF Publisher
  <2>4. ASSUME NEW b, Record(b) \/ Carry(b) PROVE Shapes' /\ Grows
    BY <1>0, <1>2, <2>4 DEF Publisher, Record, Carry, Grows
  <2> QED
    BY <1>2, <2>1, <2>2, <2>3, <2>4 DEF Publisher
<1>3. CASE ReleasePage
  BY <1>0, <1>3 DEF ReleasePage, Attach, Publish, Grows
<1>4. CASE Hosts
  BY <1>0, <1>4 DEF Hosts, production, Grows, Check, Ask, Receive, Offer, Start, RunUpdate, Judge,
     Crash, ReusePid, ManualUpdate
<1> QED
  BY <1>1, <1>2, <1>3, <1>4 DEF Next

-----------------------------------------------------------------------------
(* What the releasing machine knows.                                        *)

(* A wheel that a provenance says was built was built in one of the runs.   *)
Known(provenance, runs) ==
  provenance = Nothing \/ \A r \in provenance.wheels :
    r.sdist = Nothing \/ \E i \in runs : r.wheel = BuiltWheel(r.sdist, i)

IsWhole(b) == DOMAIN b = {"wheels", "sums", "provenance", "lock", "evidence"}

Origins ==
  /\ \A i \in DOMAIN built : IsWhole(built[i]) /\ Known(built[i].provenance, DOMAIN built)
  /\ IsWhole(bundle) /\ Known(bundle.provenance, DOMAIN built)

(* No mishap changed the bundle. *)
Undisturbed == spent.mishaps = 0

(* What a production has checked, read by read: if the bundle changed in    *)
(* between, each part by itself.                                            *)
Begun ==
  producer.pc # "idle" =>
    /\ SourceIsSound(Tree) /\ producer.record \in recorded
    /\ (producer.pc # "gate" /\ Undisturbed => bundle = producer.record)

WheelsRead ==
  producer.pc \in Provenance /\ Undisturbed =>
    /\ producer.wheels = producer.record.wheels
    /\ producer.sums = producer.record.sums

ProvenanceRead ==
  producer.pc \in Lock =>
    /\ ValidProvenance(producer.provenance, producer.wheels, producer.sums, Tree,
                       producer.image)
    /\ Known(producer.provenance, DOMAIN built)
    /\ (Undisturbed => producer.provenance = producer.record.provenance)

LockRead ==
  producer.pc \in Sealing =>
    /\ MayBeSealed(Tree, producer.lock)
    /\ (Undisturbed => producer.lock = producer.record.lock)

ManifestWritten ==
  producer.pc \in {"unsign", "sign"} => dist[producer.version].manifest = Manifest

Checked == Begun /\ WheelsRead /\ ProvenanceRead /\ LockRead /\ ManifestWritten

(* What the production of a manifest guarantees of it.                      *)
Sealed(m) ==
  /\ m.version = m.tag /\ m.version \in Tags /\ m.wheelhouse = m.locks /\ Usable(m)
  /\ \A p \in Platforms : m.digest[p].tag = m.tag /\ m.top[p] = TopLevel(m.digest[p])

Authorized(m) ==
  LET b == m.digest["armv7l"].bundle
      tree == repo[m.tag] IN
  /\ b.wheels = b.sums /\ b.wheels = b.lock
  /\ WheelsOf(b.provenance.wheels) = b.wheels
  /\ \A w \in b.wheels :
       \/ \E pin \in tree.build, i \in DOMAIN built : w = BuiltWheel(pin, i)
       \/ \E a \in tree.reuse : w = File(a)
  /\ \A f \in Inputs : b.provenance.builder.inputs[f] = tree.inputs[f]

PassesPreflight(m) ==
  LET tree == repo[m.tag] IN
  Ready(tree) /\ Solves(tree.requirements, tree.aarch64) /\ ~tree.secret

WasRecorded(m) ==
  Undisturbed => \E r \in recorded :
    \A part \in DOMAIN m.digest["armv7l"].bundle : m.digest["armv7l"].bundle[part] = r[part]

Sound(m) == Sealed(m) /\ Authorized(m) /\ PassesPreflight(m) /\ WasRecorded(m)

AllSound == \A s \in signed : Sound(s.of) /\ Usable(s)

Producing == Origins /\ Checked /\ AllSound

(* What is sound stays so. *)
LEMMA SoundStays ==
  ASSUME NEW m, Sound(m), Grows
  PROVE  Sound(m)'
BY DEF Sound, Sealed, Authorized, PassesPreflight, WasRecorded, Grows, Undisturbed

LEMMA KnownStays ==
  ASSUME NEW p, NEW runs, NEW more, Known(p, runs), runs \subseteq more
  PROVE  Known(p, more)
BY DEF Known

(* The bundle of a production that read all of it. *)
LEMMA ManifestIsSealed ==
  ASSUME Shapes, Checked, producer.pc = "sign"
  PROVE  Sealed(Manifest)
<1>1. producer.version = producer.tag
  BY DEF Checked, LockRead, MayBeSealed
<1>2. Usable(Manifest)
  BY DEF Usable, Manifest, Nothing, Torn
<1> QED
  BY <1>1, <1>2 DEF Sealed, Manifest, SignedTopLevel, Artifact

LEMMA ManifestIsAuthorized ==
  ASSUME Shapes, Checked, producer.pc = "sign"
  PROVE  Authorized(Manifest)
<1> DEFINE prov == producer.provenance
           b == Manifest.digest["armv7l"].bundle
<1>1. /\ b.wheels = producer.wheels /\ b.sums = producer.sums
      /\ b.provenance = prov /\ b.lock = producer.lock /\ repo[Manifest.tag] = Tree
  BY DEF Manifest, Artifact, Tree
<1>2. /\ ValidProvenance(prov, producer.wheels, producer.sums, Tree, producer.image)
      /\ Known(prov, DOMAIN built)
  BY DEF Checked, ProvenanceRead
<1>3. producer.lock = producer.wheels
  BY DEF Checked, LockRead, MayBeSealed, ValidRuntimeLock
<1>4. producer.sums = producer.wheels /\ WheelsOf(prov.wheels) = producer.wheels
  BY <1>2 DEF ValidProvenance, SumsCover, RecordsMatch
<1>5. \A f \in Inputs : prov.builder.inputs[f] = Tree.inputs[f]
  BY <1>2 DEF ValidProvenance, ValidBuilder, ContextMatches, Inputs
<1>6. ASSUME NEW w \in producer.wheels
      PROVE  \/ \E pin \in Tree.build, i \in DOMAIN built : w = BuiltWheel(pin, i)
             \/ \E a \in Tree.reuse : w = File(a)
  <2>1. PICK r \in prov.wheels : w = r.wheel
    BY <1>4 DEF WheelsOf
  <2>2. CASE r.sdist = Nothing
    <3>1. r \in TakenOver(prov)
      BY <2>1, <2>2 DEF TakenOver, FromSdist
    <3>2. WheelsOf(TakenOver(prov)) = {File(x) : x \in Tree.reuse}
      BY <1>2 DEF ValidProvenance, ReusedAsAuthorized
    <3>3. w \in WheelsOf(TakenOver(prov))
      BY <2>1, <3>1 DEF WheelsOf
    <3> QED
      BY <3>2, <3>3
  <2>3. CASE r.sdist # Nothing
    <3>1. r \in FromSdist(prov)
      BY <2>1, <2>3 DEF FromSdist
    <3>2. {x.sdist : x \in FromSdist(prov)} = Tree.build
      BY <1>2 DEF ValidProvenance, BuiltFromLock
    <3>3. r.sdist \in Tree.build
      BY <3>1, <3>2
    <3>4. PICK i \in DOMAIN built : r.wheel = BuiltWheel(r.sdist, i)
      BY <1>2, <2>1, <2>3 DEF Known, ValidProvenance
    <3> QED
      BY <2>1, <3>3, <3>4
  <2> QED
    BY <2>2, <2>3
<1> HIDE DEF b, prov
<1> QED
  BY <1>1, <1>3, <1>4, <1>5, <1>6 DEF Authorized, b, prov

LEMMA ManifestPassesPreflight ==
  ASSUME Shapes, Checked, producer.pc = "sign"
  PROVE  PassesPreflight(Manifest)
<1>1. repo[Manifest.tag] = Tree
  BY DEF Manifest, Tree
<1>2. SourceIsSound(Tree) /\ MayBeSealed(Tree, producer.lock)
  BY DEF Checked, Begun, LockRead
<1>3. Ready(Tree)
  BY <1>2 DEF Ready, SourceIsSound, MayBeSealed, PartitionHolds, Active, ValidAuthz, IsLock
<1> QED
  BY <1>1, <1>2, <1>3 DEF PassesPreflight, MayBeSealed

LEMMA ManifestWasRecorded ==
  ASSUME Shapes, Checked, producer.pc = "sign"
  PROVE  WasRecorded(Manifest)
<1> SUFFICES ASSUME Undisturbed
             PROVE  \A part \in DOMAIN Manifest.digest["armv7l"].bundle :
                      Manifest.digest["armv7l"].bundle[part] = producer.record[part]
  BY DEF WasRecorded, Checked, Begun
<1>1. /\ producer.wheels = producer.record.wheels /\ producer.sums = producer.record.sums
      /\ producer.provenance = producer.record.provenance
      /\ producer.lock = producer.record.lock
  BY DEF Checked, WheelsRead, ProvenanceRead, LockRead
<1> QED
  BY <1>1 DEF Manifest, Artifact

(* Nothing is there at first. *)
LEMMA ProducingInitially == Init => Producing
<1> SUFFICES ASSUME Init PROVE Producing
  OBVIOUS
<1>1. built = << >> /\ producer = Idle /\ signed = {} /\ bundle = NoBundle
  BY DEF Init, ProductionInit
<1>2. Origins
  BY <1>1 DEF Origins, IsWhole, Known, NoBundle
<1>3. Checked
  BY <1>1 DEF Checked, Begun, WheelsRead, ProvenanceRead, LockRead, ManifestWritten
<1> QED
  BY <1>1, <1>2, <1>3 DEF Producing, AllSound

(* A bundle is known by the number of its build. *)
LEMMA BuildKnown ==
  ASSUME Shapes, Origins, Build, Grows
  PROVE  Origins'
<1>1. PICK S : built \in Seq(S)
  BY DEF Listed
<1>2. PICK t \in Tags, image \in Tags, target \in BOOLEAN, enforced \in BOOLEAN :
        built' = Append(built, Wheelhouse(repo[t], image, target, enforced, Len(built) + 1))
  BY DEF Build
<1> DEFINE n == Len(built) + 1
           b == Wheelhouse(repo[t], image, target, enforced, n)
<1>3. n \in DOMAIN built' /\ built'[n] = b
  BY <1>1, <1>2
<1>4. \A i \in DOMAIN built' : i = n \/ (i \in DOMAIN built /\ built'[i] = built[i])
  BY <1>1, <1>2
<1> HIDE DEF n
<1>5. \A r \in b.provenance.wheels : r.sdist = Nothing \/ r.wheel = BuiltWheel(r.sdist, n)
  BY DEF Wheelhouse
<1>6. Known(b.provenance, DOMAIN built') /\ IsWhole(b)
  <2>1. IsWhole(b)
    BY DEF Wheelhouse, IsWhole
  <2>2. \A r \in b.provenance.wheels :
          r.sdist = Nothing \/ \E i \in DOMAIN built' : r.wheel = BuiltWheel(r.sdist, i)
    BY <1>3, <1>5
  <2> HIDE DEF b
  <2> QED
    BY <2>1, <2>2 DEF Known
<1> HIDE DEF b
<1>7. ASSUME NEW i \in DOMAIN built'
      PROVE  IsWhole(built'[i]) /\ Known(built'[i].provenance, DOMAIN built')
  <2>1. CASE i = n
    BY <1>3, <1>6, <2>1
  <2>2. CASE i # n
    <3>1. i \in DOMAIN built /\ built'[i] = built[i]
      BY <1>4, <2>2
    <3>2. IsWhole(built[i]) /\ Known(built[i].provenance, DOMAIN built)
      BY <3>1 DEF Origins
    <3>3. Known(built[i].provenance, DOMAIN built')
      BY <3>2, KnownStays DEF Grows
    <3> QED
      BY <3>1, <3>2, <3>3
  <2> QED
    BY <2>1, <2>2
<1>8. IsWhole(bundle) /\ Known(bundle.provenance, DOMAIN built')
  BY KnownStays DEF Origins, Grows
<1>9. bundle' = bundle
  BY DEF Build
<1> QED
  BY <1>7, <1>8, <1>9 DEF Origins

(* A mishap takes a part from a known bundle. *)
LEMMA MishapKnown ==
  ASSUME Origins, Mishap
  PROVE  Origins'
<1>1. PICK b \in {built[i] : i \in DOMAIN built} \cup {NoBundle}, part \in DOMAIN bundle :
        bundle' = [bundle EXCEPT ![part] = b[part]]
  BY DEF Mishap
<1>2. Known(b.provenance, DOMAIN built)
  BY DEF Origins, NoBundle, Known
<1>3. IsWhole(bundle')
  BY <1>1 DEF Origins, IsWhole
<1>4. bundle'.provenance = bundle.provenance \/ bundle'.provenance = b.provenance
  BY <1>1 DEF Origins, IsWhole
<1>5. Known(bundle'.provenance, DOMAIN built)
  BY <1>2, <1>4 DEF Origins
<1>6. built' = built
  BY DEF Mishap
<1> QED
  BY <1>3, <1>5, <1>6 DEF Origins

(* Whatever happens, the bundles are of known origin. *)
LEMMA OriginsStay ==
  ASSUME Shapes, Origins, [Next]_vars, Grows
  PROVE  Origins'
<1>1. CASE Build
  BY <1>1, BuildKnown
<1>2. CASE Mishap
  BY <1>2, MishapKnown
<1>3. ASSUME NEW i \in DOMAIN built, Carry(built[i]) PROVE Origins'
  BY <1>3 DEF Carry, Origins
<1>4. CASE UNCHANGED <<built, bundle>>
  BY <1>4 DEF Origins
<1>5. CASE Produce
  <2>1. UNCHANGED <<built, bundle>>
    BY <1>5 DEF Produce, Begins, PassesGate, ReadsWheelhouse, ReadsProvenance, ReadsLock, Reads,
       Produces, WritesFiles, Writes, Unsigns, Signs, Dies
  <2> QED
    BY <1>4, <2>1
<1>6. ASSUME NEW i \in DOMAIN built, Record(built[i]) PROVE Origins'
  BY <1>4, <1>6 DEF Record
<1>7. CASE ReleasePage \/ Hosts \/ UNCHANGED vars
  BY <1>4, <1>7 DEF ReleasePage, Hosts, vars, production
<1> QED
  BY <1>1, <1>2, <1>3, <1>5, <1>6, <1>7 DEF Next, Publisher

(* Nothing is asked of a machine that is idle. *)
LEMMA IdleChecked == producer' = Idle => Checked'
  BY DEF Checked, Begun, WheelsRead, ProvenanceRead, LockRead, ManifestWritten

(* What was checked stays so while production, output and bundle rest. *)
LEMMA CheckedStays ==
  ASSUME Checked, Grows, UNCHANGED <<producer, dist, bundle>>
  PROVE  Checked'
<1> USE DEF Grows, Undisturbed, Tree
<1>1. Begun'
  BY DEF Checked, Begun
<1>2. WheelsRead'
  BY DEF Checked, WheelsRead
<1>3. ProvenanceRead'
  BY KnownStays DEF Checked, ProvenanceRead
<1>4. LockRead'
  BY DEF Checked, LockRead, MayBeSealed
<1>5. ManifestWritten'
  BY DEF Checked, ManifestWritten, Manifest, Artifact, SignedTopLevel, Locks
<1> QED
  BY <1>1, <1>2, <1>3, <1>4, <1>5 DEF Checked

(* A mishap excuses the rest of a production. *)
LEMMA MishapChecked ==
  ASSUME Shapes, Checked, Grows, Mishap, UNCHANGED repo
  PROVE  Checked'
<1> USE DEF Grows, Undisturbed, Tree
<1>1. ~Undisturbed' /\ UNCHANGED <<producer, dist, built>>
  BY DEF Mishap
<1>2. Begun'
  BY <1>1 DEF Checked, Begun
<1>3. WheelsRead'
  BY <1>1 DEF Checked, WheelsRead
<1>4. ProvenanceRead'
  BY <1>1 DEF Checked, ProvenanceRead
<1>5. LockRead'
  BY <1>1 DEF Checked, LockRead, MayBeSealed
<1>6. ManifestWritten'
  BY <1>1 DEF Checked, ManifestWritten, Manifest, Artifact, SignedTopLevel, Locks
<1> QED
  BY <1>2, <1>3, <1>4, <1>5, <1>6 DEF Checked

(* A production checks what it goes on with. *)
LEMMA BeginsChecked ==
  ASSUME Begins, UNCHANGED repo
  PROVE  Checked'
<1>1. producer'.pc = "gate" /\ SourceIsSound(repo[producer'.tag]) /\ producer'.record \in recorded
  BY DEF Begins
<1>2. Begun'
  BY <1>1 DEF Begun, Tree, Begins
<1> QED
  BY <1>1, <1>2 DEF Checked, WheelsRead, ProvenanceRead, LockRead, ManifestWritten

LEMMA GateChecked ==
  ASSUME Shapes, Checked, Grows, PassesGate
  PROVE  Checked'
<1>1. CASE producer' = Idle
  BY <1>1, IdleChecked
<1>2. CASE producer' # Idle
  <2>1. bundle = producer.record /\ Goes("wheelhouse") /\ DOMAIN producer = RunFields
    BY <1>2 DEF PassesGate, GivesUp, Transferred
  <2>2. producer'.pc = "wheelhouse" /\ Keeps(RunFields \ {"pc"})
    BY <2>1, GoesOn
  <2>3. producer'.tag = producer.tag /\ producer'.record = producer.record
    BY <2>2 DEF Keeps
  <2>4. Begun'
    BY <2>1, <2>2, <2>3 DEF Checked, Begun, Tree, Grows, PassesGate, Reads, Produces
  <2> QED
    BY <2>2, <2>4 DEF Checked, WheelsRead, ProvenanceRead, LockRead, ManifestWritten
<1> QED
  BY <1>1, <1>2

LEMMA WheelhouseChecked ==
  ASSUME Shapes, Checked, Grows, ReadsWheelhouse
  PROVE  Checked'
<1>1. CASE producer' = Idle
  BY <1>1, IdleChecked
<1>2. CASE producer' # Idle
  <2>1. /\ producer'.pc = "provenance" /\ producer'.wheels = bundle.wheels
        /\ producer'.sums = bundle.sums /\ Keeps(RunFields \ {"pc", "wheels", "sums"})
    BY <1>2, AfterWheelhouse
  <2>2. producer'.tag = producer.tag /\ producer'.record = producer.record
    BY <2>1 DEF Keeps
  <2>3. Begun' /\ WheelsRead'
    BY <2>1, <2>2 DEF Checked, Begun, WheelsRead, Tree, Grows, Undisturbed, ReadsWheelhouse,
       Reads, Produces
  <2> QED
    BY <2>1, <2>3 DEF Checked, ProvenanceRead, LockRead, ManifestWritten
<1> QED
  BY <1>1, <1>2

LEMMA ProvenanceChecked ==
  ASSUME Shapes, Origins, Checked, Grows, ReadsProvenance
  PROVE  Checked'
<1>1. CASE producer' = Idle
  BY <1>1, IdleChecked
<1>2. CASE producer' # Idle
  <2>1. /\ producer'.pc = "lock" /\ producer'.provenance = bundle.provenance
        /\ ValidProvenance(bundle.provenance, producer.wheels, producer.sums, Tree,
                           producer.image)
        /\ Keeps(RunFields \ {"pc", "provenance"})
    BY <1>2, AfterProvenance
  <2>2. /\ producer'.tag = producer.tag /\ producer'.record = producer.record
        /\ producer'.wheels = producer.wheels /\ producer'.sums = producer.sums
        /\ producer'.image = producer.image
    BY <2>1 DEF Keeps
  <2>3. UNCHANGED <<repo, built, recorded, bundle, spent>> /\ producer.pc = "provenance"
    BY DEF ReadsProvenance, Reads, Produces, Grows
  <2>4. Begun' /\ WheelsRead'
    BY <2>1, <2>2, <2>3 DEF Checked, Begun, WheelsRead, Tree, Undisturbed
  <2>5. ProvenanceRead'
    BY <2>1, <2>2, <2>3 DEF Checked, Begun, ProvenanceRead, Tree, Undisturbed, Origins
  <2> QED
    BY <2>1, <2>4, <2>5 DEF Checked, LockRead, ManifestWritten
<1> QED
  BY <1>1, <1>2

LEMMA LockChecked ==
  ASSUME Shapes, Checked, Grows, ReadsLock
  PROVE  Checked'
<1>1. CASE producer' = Idle
  BY <1>1, IdleChecked
<1>2. CASE producer' # Idle
  <2>1. /\ producer'.pc = "aarch64" /\ producer'.lock = bundle.lock
        /\ MayBeSealed(Tree, bundle.lock) /\ Keeps(RunFields \ {"pc", "lock"})
    BY <1>2, AfterLock
  <2>2. /\ producer'.tag = producer.tag /\ producer'.record = producer.record
        /\ producer'.wheels = producer.wheels /\ producer'.sums = producer.sums
        /\ producer'.image = producer.image /\ producer'.provenance = producer.provenance
        /\ producer'.version = producer.version
    BY <2>1 DEF Keeps
  <2>3. UNCHANGED <<repo, built, recorded, bundle, spent>> /\ producer.pc = "lock"
    BY DEF ReadsLock, Reads, Produces, Grows
  <2>4. Begun' /\ WheelsRead'
    BY <2>1, <2>2, <2>3 DEF Checked, Begun, WheelsRead, Tree, Undisturbed
  <2>5. ProvenanceRead'
    BY <2>1, <2>2, <2>3 DEF Checked, ProvenanceRead, Tree, Undisturbed
  <2>6. LockRead'
    BY <2>1, <2>2, <2>3 DEF Checked, Begun, LockRead, Tree, Undisturbed, MayBeSealed
  <2> QED
    BY <2>1, <2>4, <2>5, <2>6 DEF Checked, ManifestWritten
<1> QED
  BY <1>1, <1>2

(* Past its reads a production writes what it read. *)
LEMMA SealingChecked ==
  ASSUME Shapes, Checked, Grows, producer.pc \in Sealing,
         NEW pc \in Sealing, Goes(pc), UNCHANGED <<built, recorded, bundle, spent>>,
         pc \in {"unsign", "sign"} => dist'[producer.version].manifest = Manifest
  PROVE  Checked'
<1>1. producer'.pc = pc /\ Keeps(RunFields \ {"pc"})
  BY GoesOn
<1>2. /\ producer'.tag = producer.tag /\ producer'.record = producer.record
      /\ producer'.wheels = producer.wheels /\ producer'.sums = producer.sums
      /\ producer'.image = producer.image /\ producer'.provenance = producer.provenance
      /\ producer'.version = producer.version /\ producer'.lock = producer.lock
  BY <1>1 DEF Keeps
<1>3. repo' = repo
  BY DEF Grows
<1>4. Begun' /\ WheelsRead'
  BY <1>1, <1>2, <1>3 DEF Checked, Begun, WheelsRead, Tree, Undisturbed
<1>5. ProvenanceRead'
  BY <1>1, <1>2, <1>3 DEF Checked, ProvenanceRead, Tree, Undisturbed
<1>6. LockRead'
  BY <1>1, <1>2, <1>3 DEF Checked, LockRead, Tree, Undisturbed, MayBeSealed
<1>7. Manifest' = Manifest
  BY <1>2, <1>3 DEF Manifest, Artifact, SignedTopLevel, Locks, Tree
<1>8. ManifestWritten'
  BY <1>1, <1>2, <1>7 DEF ManifestWritten
<1> QED
  BY <1>4, <1>5, <1>6, <1>8 DEF Checked

LEMMA WritesChecked ==
  ASSUME Shapes, Checked, Grows, WritesFiles
  PROVE  Checked'
<1>1. CASE GivesUp
  BY <1>1, IdleChecked DEF GivesUp
<1>2. CASE \E next \in {"armv7l", "manifest"} :
             Goes(next) /\ producer.pc \in Sealing /\ UNCHANGED spent
  BY <1>2, SealingChecked DEF WritesFiles, Writes
<1>3. CASE Written("manifest", Manifest) /\ Goes("unsign") /\ At("manifest") /\ UNCHANGED spent
  <2>1. dist'[producer.version].manifest = Manifest
    BY <1>3 DEF Written
  <2> QED
    BY <1>3, <2>1, SealingChecked DEF WritesFiles, Writes
<1> QED
  BY <1>1, <1>2, <1>3 DEF WritesFiles, Writes, Death

LEMMA UnsignsChecked ==
  ASSUME Shapes, Checked, Grows, Unsigns
  PROVE  Checked'
<1>1. dist'[producer.version].manifest = Manifest
  BY DEF Unsigns, Written, Checked, ManifestWritten
<1> QED
  BY <1>1, SealingChecked DEF Unsigns, Produces

(* Every step. *)
LEMMA CheckedPreserved ==
  ASSUME Shapes, Origins, Checked, [Next]_vars, Grows
  PROVE  Checked'
<1>1. CASE UNCHANGED <<producer, dist, bundle>>
  BY <1>1, CheckedStays
<1>2. CASE Build \/ \E b \in {built[i] : i \in DOMAIN built} : Record(b)
  BY <1>1, <1>2 DEF Build, Record
<1>3. ASSUME NEW b, Carry(b) PROVE Checked'
  <2>1. producer'.pc = "idle"
    BY <1>3 DEF Carry
  <2> QED
    BY <2>1 DEF Checked, Begun, WheelsRead, ProvenanceRead, LockRead, ManifestWritten
<1>4. CASE Mishap
  BY <1>4, MishapChecked DEF Grows
<1>5. CASE Produce
  <2>1. CASE Begins
    BY <2>1, BeginsChecked DEF Grows
  <2>2. CASE Signs \/ Dies
    BY <2>2, IdleChecked DEF Signs, Dies, Death, GivesUp
  <2> QED
    BY <1>5, <2>1, <2>2, GateChecked, WheelhouseChecked, ProvenanceChecked, LockChecked,
       WritesChecked, UnsignsChecked DEF Produce
<1>6. CASE ReleasePage \/ Hosts \/ UNCHANGED vars
  BY <1>1, <1>6 DEF ReleasePage, Hosts, vars, production
<1> QED
  BY <1>2, <1>3, <1>4, <1>5, <1>6 DEF Next, Publisher

(* What is signed is the manifest of a production that checked everything.  *)
LEMMA AllSoundPreserved ==
  ASSUME Shapes, Producing, [Next]_vars, Grows
  PROVE  AllSound'
<1>1. \A s \in signed : Sound(s.of)' /\ Usable(s)
  BY SoundStays DEF Producing, AllSound
<1>2. CASE UNCHANGED signed
  BY <1>1, <1>2 DEF AllSound
<1>3. CASE Signs
  <2>1. producer.pc = "sign" /\ dist[producer.version].manifest = Manifest
    BY <1>3 DEF Signs, Producing, Checked, ManifestWritten
  <2>2. Sound(Manifest)
    BY <2>1, ManifestIsSealed, ManifestIsAuthorized, ManifestPassesPreflight,
       ManifestWasRecorded DEF Sound, Producing
  <2>3. PICK m : m = Manifest
    OBVIOUS
  <2>4. Sound(m)
    BY <2>2, <2>3
  <2>5. Sound(m)'
    BY <2>4, SoundStays
  <2>6. signed' = signed \cup {[key |-> producer.key, of |-> m]}
    BY <1>3, <2>1, <2>3 DEF Signs
  <2>7. Usable([key |-> producer.key, of |-> m])
    BY DEF Usable, Nothing, Torn
  <2> QED
    BY <1>1, <2>5, <2>6, <2>7 DEF AllSound
<1> QED
  BY <1>2, <1>3 DEF Next, Publisher, Produce, Begins, PassesGate, ReadsWheelhouse,
     ReadsProvenance, ReadsLock, Reads, WritesFiles, Writes, Unsigns, Dies, Build, Mishap,
     Record, Carry, ReleasePage, Hosts, vars, production

(* What the releasing machine knows is inductive. *)
LEMMA ProducingPreserved == Shapes /\ Producing /\ [Next]_vars => Producing'
BY ShapesPreserved, OriginsStay, CheckedPreserved, AllSoundPreserved DEF Producing

LEMMA ProducingAlways == Spec => [](Shapes /\ Producing)
BY ShapesInitially, ShapesPreserved, ProducingInitially, ProducingPreserved, PTL DEF Spec

(* For any repository and however the bundle changes between two reads,     *)
(* whatever is signed is whole and of its tag, passes the preflight, and    *)
(* was recorded where it was built unless a mishap changed it.              *)
THEOREM WhatIsSigned == Spec => []SignedIsSound
<1>1. Producing => SignedIsSound
  BY DEF Producing, AllSound, Sound, Sealed, Authorized, PassesPreflight, WasRecorded,
     Undisturbed, SignedIsSound, SignedIsAuthorized, SignedIsReady, SignedWasRecorded
<1> QED
  BY <1>1, ProducingAlways, PTL

(* No host refuses what is signed, if the code says of itself what its tag   *)
(* says and the key is trusted.                                             *)
THEOREM WhatIsSignedIsAccepted == Spec => []SignedIsAccepted
<1>1. ASSUME Producing PROVE SignedIsAccepted
  <2>1. SUFFICES ASSUME NEW s \in signed, NEW p \in Platforms, s.key \in host.trust,
                        repo[s.of.tag].app = s.of.version
                 PROVE  Accepts(s.of, s, s.of.digest[p], p)
    BY DEF SignedIsAccepted
  <2>2. Sealed(s.of) /\ Usable(s)
    BY <1>1 DEF Producing, AllSound, Sound
  <2>3. Verified(s.of, s, s.of.digest[p], p)
    BY <2>1, <2>2 DEF Verified, SignatureHolds, IsManifest, Sealed
  <2>4. Extracts(s.of, s.of.digest[p], p)
    BY <2>2 DEF Extracts, Sealed
  <2>5. Declared(s.of.digest[p]) = s.of.version
    BY <2>1, <2>2 DEF Declared, Sealed
  <2> QED
    BY <2>3, <2>4, <2>5 DEF Accepts
<1> QED
  BY <1>1, ProducingAlways, PTL

-----------------------------------------------------------------------------
(* What a host knows.                                                       *)

ClientFields == {"pc", "version", "files"}
WorkerFields == {"pc", "from", "to", "content"}
StatusFields == {"state", "from", "to", "pid"}
HostFields == {"platform", "trust", "version", "content"}

DeliveryShapes ==
  /\ DOMAIN host = HostFields /\ DOMAIN client = ClientFields
  /\ DOMAIN worker = WorkerFields /\ DOMAIN status = StatusFields
  /\ spent.manual \in Nat

(* A release that was asked for is one of the tags; a worker that was        *)
(* started has versions.                                                    *)
Asked ==
  /\ client.pc # "idle" => client.version \in Tags
  /\ worker.pc # "idle" => worker.from \in Tags \cup {1} /\ worker.to \in Tags

(* Whatever is called a signature anywhere was made by a publisher, or is    *)
(* cut short.                                                               *)
SignaturesKnown ==
  /\ \A v \in Tags : assets[v].sig # Nothing => assets[v].sig \in signed
  /\ "sig" \in DOMAIN client.files => client.files.sig \in signed \cup {Torn}
  /\ client.pc \in {"artifact", "offer"} => "sig" \in DOMAIN client.files

(* What the worker was handed is signed.                                    *)
Handed ==
  worker.pc \in {"queued", "running", "done"} =>
    \E s \in signed : /\ s.key \in host.trust /\ s.of.version = worker.to
                      /\ s.of.digest[host.platform] = worker.content

(* Nobody else changes the host between the decision and the verdict.       *)
Exclusive ==
  /\ worker.pc = "running" => worker.from = host.version /\ worker.to > host.version
  /\ worker.pc = "done" => host.version = worker.to /\ host.content = worker.content
  /\ status.pid = "worker" => status.state = "in_progress"

Delivering ==
  /\ ReleaseTypeOK /\ DeliveryShapes /\ Asked /\ SignaturesKnown /\ Handed /\ Exclusive
  /\ InstalledIsSigned

(* At first.                                                                *)
LEMMA DeliveringInitially == Init => Delivering
<1> SUFFICES ASSUME Init PROVE Delivering
  OBVIOUS
<1>1. DOMAIN limits = BoundNames
  BY ScenariosAreBounded DEF Init, ProductionInit
<1>2. /\ client = NoClient /\ worker = NoWorker /\ status = Status("idle", 0, 0)
      /\ app = 1 /\ cache = 0 /\ latest = 0 /\ signed = {} /\ spent.manual = 0
      /\ dist = [v \in Tags |-> NoFiles] /\ assets = [v \in Tags |-> NoFiles]
  BY <1>1 DEF Init, ProductionInit
<1>3. DOMAIN host = HostFields /\ host.version = 1 /\ host.content = First
  BY DEF Init, HostFields
<1>4. DeliveryShapes
  BY <1>2, <1>3 DEF DeliveryShapes, NoClient, NoWorker, Status, ClientFields, WorkerFields,
     StatusFields
<1>5. ReleaseTypeOK
  BY <1>2, <1>3 DEF ReleaseTypeOK, NoClient, NoWorker, Status, NoFiles
<1>6. Asked /\ Handed /\ Exclusive
  BY <1>2 DEF Asked, Handed, Exclusive, NoClient, NoWorker, Status
<1>7. SignaturesKnown
  BY <1>2 DEF SignaturesKnown, NoFiles, NoClient
<1>8. InstalledIsSigned
  BY <1>3 DEF InstalledIsSigned
<1> QED
  BY <1>4, <1>5, <1>6, <1>7, <1>8 DEF Delivering

(* Signatures are never forgotten, and what production writes for one was    *)
(* made with a key.                                                         *)
LEMMA SignedGrows ==
  ASSUME Shapes, Publisher, \A v \in Tags : dist[v].sig # Nothing => dist[v].sig \in signed
  PROVE  /\ signed \subseteq signed'
         /\ \A v \in Tags : dist'[v].sig # Nothing => dist'[v].sig \in signed'
<1>1. CASE Signs
  <2>1. PICK sig : Written("sig", sig) /\ signed' = signed \cup {sig}
    BY <1>1 DEF Signs
  <2>2. \A v \in Tags : dist'[v].sig = sig \/ dist'[v].sig = dist[v].sig
    BY <2>1 DEF Written
  <2> QED
    BY <2>1, <2>2
<1>2. CASE Unsigns
  <2>1. \A v \in Tags : dist'[v].sig = Nothing \/ dist'[v].sig = dist[v].sig
    BY <1>2 DEF Unsigns, Written
  <2> QED
    BY <1>2, <2>1 DEF Unsigns
<1>3. CASE WritesFiles
  <2>1. PICK file \in {"aarch64", "armv7l", "manifest"} :
          \E content : Written(file, content)
    BY <1>3 DEF WritesFiles, Writes
  <2>2. \A v \in Tags : dist'[v].sig = dist[v].sig
    BY <2>1 DEF Written
  <2>3. signed' = signed
    BY <1>3 DEF WritesFiles, Writes
  <2> QED
    BY <2>2, <2>3
<1>4. CASE UNCHANGED <<dist, signed>>
  BY <1>4
<1> QED
  BY <1>1, <1>2, <1>3, <1>4 DEF Publisher, Build, Mishap, Record, Carry, Produce, Begins,
     PassesGate, ReadsWheelhouse, ReadsProvenance, ReadsLock, Reads, Dies

(* The type stays while the host rests.                                     *)
LEMMA TypeStays ==
  ASSUME ReleaseTypeOK, UNCHANGED <<latest, cache, host, app, client, worker, status>>,
         \A v \in Tags : dist'[v].sig # Nothing => dist'[v].sig \in signed'
  PROVE  ReleaseTypeOK'
<1>1. /\ latest' \in Tags \cup {0} /\ cache' \in Tags \cup {0}
      /\ host'.version \in Tags \cup {1} /\ app' \in Tags \cup {1}
      /\ client'.pc \in {"idle", "offer"} \cup DOMAIN After
  BY DEF ReleaseTypeOK
<1>2. /\ worker'.pc \in {"idle", "queued", "running", "done", "gave up"}
      /\ status'.state \in {"idle", "in_progress", "success", "rolled_back", "failed"}
      /\ status'.pid = "worker" => worker'.pc \in {"running", "done", "gave up"}
  BY DEF ReleaseTypeOK
<1> QED
  BY <1>1, <1>2 DEF ReleaseTypeOK

(* The releasing machine and the release page do nothing to a host.         *)
LEMMA PublisherDelivers ==
  ASSUME Shapes, Delivering, Publisher, UNCHANGED delivery
  PROVE  Delivering'
<1>1. /\ signed \subseteq signed'
      /\ \A v \in Tags : dist'[v].sig # Nothing => dist'[v].sig \in signed'
  BY SignedGrows DEF Delivering, ReleaseTypeOK
<1>2. UNCHANGED <<assets, latest, host, app, cache, client, worker, status>>
  BY DEF Publisher, delivery
<1>0. "manual" \in DOMAIN spent
  OBVIOUS
<1> HIDE DEF Shapes
<1>3. spent'.manual = spent.manual
  <2>1. CASE WritesFiles \/ Unsigns \/ Signs \/ Dies
    BY <1>0, <2>1 DEF WritesFiles, Writes, Unsigns, Signs, Dies, Death, Produces
  <2>2. CASE Build \/ Mishap \/ Begins
    BY <1>0, <2>2 DEF Build, Mishap, Begins
  <2>3. CASE UNCHANGED spent
    BY <2>3
  <2>4. WritesFiles \/ Unsigns \/ Signs \/ Dies \/ Build \/ Mishap \/ Begins \/ UNCHANGED spent
    BY DEF Publisher, Record, Carry, Produce, PassesGate, ReadsWheelhouse, ReadsProvenance,
       ReadsLock, Reads, Produces
  <2> QED
    BY <2>1, <2>2, <2>3, <2>4
<1>4. ReleaseTypeOK'
  BY <1>1, <1>2, TypeStays DEF Delivering
<1>5. DeliveryShapes' /\ Asked' /\ Exclusive'
  BY <1>2, <1>3 DEF Delivering, DeliveryShapes, Asked, Exclusive
<1>6. SignaturesKnown'
  BY <1>1, <1>2 DEF Delivering, SignaturesKnown
<1>7. Handed' /\ InstalledIsSigned'
  BY <1>1, <1>2 DEF Delivering, Handed, InstalledIsSigned
<1> QED
  BY <1>4, <1>5, <1>6, <1>7 DEF Delivering

LEMMA PageDelivers ==
  ASSUME Shapes, Delivering, ReleasePage, UNCHANGED delivery
  PROVE  Delivering'
<1>1. UNCHANGED <<dist, signed, host, app, cache, client, worker, status>>
  BY DEF ReleasePage, delivery
<1>2. latest' \in Tags \cup {0}
  BY DEF ReleasePage, Publish, Delivering, ReleaseTypeOK
<1>3. spent'.manual = spent.manual
  BY DEF ReleasePage, Attach, Publish
<1>4. PICK v \in Tags, file \in Files :
        assets' \in {assets, [assets EXCEPT ![v] = dist[v]],
                     [assets EXCEPT ![v][file] = dist[v][file]]}
  BY DEF ReleasePage, Attach, Publish
<1>5. \A t \in Tags : assets'[t].sig \in {assets[t].sig, dist[t].sig}
  BY <1>4
<1> HIDE DEF Shapes
<1>6. ReleaseTypeOK'
  BY <1>1, <1>2 DEF Delivering, ReleaseTypeOK
<1>7. DeliveryShapes' /\ Asked' /\ Exclusive'
  BY <1>1, <1>3 DEF Delivering, DeliveryShapes, Asked, Exclusive
<1>8. SignaturesKnown'
  BY <1>1, <1>5 DEF Delivering, SignaturesKnown, ReleaseTypeOK
<1>9. Handed' /\ InstalledIsSigned'
  BY <1>1 DEF Delivering, Handed, InstalledIsSigned
<1> QED
  BY <1>6, <1>7, <1>8, <1>9 DEF Delivering

-----------------------------------------------------------------------------
(* The steps of a host.                                                     *)

PageRests ==
  UNCHANGED <<repo, limits, assets, latest, built, recorded, bundle, producer, dist, signed>>

LEMMA CheckDelivers ==
  ASSUME Shapes, Delivering, Check, PageRests
  PROVE  Delivering'
<1> USE DEF Delivering, Check, PageRests
<1>1. ReleaseTypeOK'
  BY DEF ReleaseTypeOK
<1>2. DeliveryShapes' /\ Asked' /\ Exclusive'
  BY DEF DeliveryShapes, Asked, Exclusive
<1>3. SignaturesKnown' /\ Handed' /\ InstalledIsSigned'
  BY DEF SignaturesKnown, Handed, InstalledIsSigned
<1> QED
  BY <1>1, <1>2, <1>3

LEMMA AskDelivers ==
  ASSUME Shapes, Delivering, Ask, PageRests
  PROVE  Delivering'
<1>1. client' = [pc |-> "manifest", version |-> cache, files |-> << >>]
  BY DEF Ask, NoClient
<1>2. UNCHANGED <<assets, latest, dist, signed, host, app, cache, worker, status, spent>>
  BY DEF Ask, PageRests
<1>3. cache \in Tags
  <2>1. cache > app /\ cache \in Tags \cup {0} /\ app \in Tags \cup {1}
    BY DEF Ask, Delivering, ReleaseTypeOK
  <2>2. app \in Nat
    BY <2>1, TagsAreVersions
  <2> QED
    BY <2>1, <2>2
<1> HIDE DEF Shapes
<1>4. ReleaseTypeOK'
  BY <1>1, <1>2 DEF Delivering, ReleaseTypeOK, After
<1>5. DeliveryShapes' /\ Asked' /\ Exclusive'
  BY <1>1, <1>2, <1>3 DEF Delivering, DeliveryShapes, Asked, Exclusive, ClientFields
<1>6. SignaturesKnown' /\ Handed' /\ InstalledIsSigned'
  BY <1>1, <1>2 DEF Delivering, SignaturesKnown, Handed, InstalledIsSigned
<1> QED
  BY <1>4, <1>5, <1>6 DEF Delivering

(* A request that is cut leaves nothing.                                    *)
LEMMA CutDelivers ==
  ASSUME client' = NoClient
  PROVE  /\ DOMAIN client' = ClientFields /\ client'.pc = "idle"
         /\ "sig" \notin DOMAIN client'.files
BY DEF NoClient, ClientFields

LEMMA ReceiveDelivers ==
  ASSUME Shapes, Delivering, Receive, PageRests
  PROVE  Delivering'
<1>1. UNCHANGED <<assets, latest, dist, signed, host, app, cache, worker, status>>
  BY DEF Receive, PageRests
<1>2. spent'.manual = spent.manual
  BY DEF Receive
<1>3. /\ DOMAIN client = ClientFields /\ client.pc \in {"manifest", "sig", "artifact"}
      /\ client.version \in Tags
  BY DEF Receive, After, Delivering, DeliveryShapes, Asked
<1>4. \/ client' = NoClient
      \/ \E file \in {assets[client.version][Wanted], Torn} :
           /\ file # Nothing
           /\ client' = [client EXCEPT !.pc = After[@], !.files = Added(@, client.pc, file)]
  BY DEF Receive, Nothing, Torn
<1> HIDE DEF Shapes
<1>5. /\ DOMAIN client' = ClientFields /\ client'.pc \in {"idle", "sig", "artifact", "offer"}
      /\ client'.pc # "idle" => client'.version \in Tags
  <2>1. CASE client' = NoClient
    BY <2>1, CutDelivers
  <2>2. CASE client' # NoClient
    <3>1. PICK files : client' = [client EXCEPT !.pc = After[@], !.files = files]
      BY <1>4, <2>2
    <3>2. DOMAIN client' = ClientFields /\ client'.pc = After[client.pc]
      BY <1>3, <3>1 DEF ClientFields
    <3>3. client'.version = client.version
      BY <1>3, <3>1 DEF ClientFields
    <3> QED
      BY <1>3, <3>2, <3>3 DEF After
  <2> QED
    BY <2>1, <2>2
<1>6. /\ "sig" \in DOMAIN client'.files => client'.files.sig \in signed \cup {Torn}
      /\ client'.pc \in {"artifact", "offer"} => "sig" \in DOMAIN client'.files
  <2>1. CASE client' = NoClient
    BY <2>1, CutDelivers
  <2>2. CASE client' # NoClient
    <3>1. PICK file \in {assets[client.version][Wanted], Torn} :
            /\ file # Nothing
            /\ client' = [client EXCEPT !.pc = After[@], !.files = Added(@, client.pc, file)]
      BY <1>4, <2>2
    <3>2. client'.files = Added(client.files, client.pc, file) /\ client'.pc = After[client.pc]
      BY <1>3, <3>1 DEF ClientFields
    <3>3. client.pc = "sig" => file \in signed \cup {Torn}
      BY <1>3, <3>1 DEF Wanted, Delivering, SignaturesKnown
    <3>4. CASE client.pc = "sig"
      BY <3>2, <3>3, <3>4 DEF Added
    <3>5. CASE client.pc # "sig"
      <4>1. /\ DOMAIN client'.files = DOMAIN client.files \cup {client.pc}
            /\ "sig" \in DOMAIN client.files => client'.files.sig = client.files.sig
        BY <3>2, <3>5 DEF Added
      <4>2. client'.pc \in {"artifact", "offer"} => client.pc = "artifact"
        BY <1>3, <3>2, <3>5 DEF After
      <4> QED
        BY <3>5, <4>1, <4>2 DEF Delivering, SignaturesKnown
    <3> QED
      BY <3>4, <3>5
  <2> QED
    BY <2>1, <2>2
<1>7. ReleaseTypeOK'
  <2>1. DOMAIN After = {"manifest", "sig", "artifact"}
    BY DEF After
  <2>2. client'.pc \in {"idle", "offer"} \cup DOMAIN After
    BY <1>5, <2>1
  <2> QED
    BY <1>1, <2>2 DEF Delivering, ReleaseTypeOK
<1>8. DeliveryShapes' /\ Asked' /\ Exclusive'
  BY <1>1, <1>2, <1>5 DEF Delivering, DeliveryShapes, Asked, Exclusive
<1>9. SignaturesKnown' /\ Handed' /\ InstalledIsSigned'
  BY <1>1, <1>6 DEF Delivering, SignaturesKnown, Handed, InstalledIsSigned
<1> QED
  BY <1>7, <1>8, <1>9 DEF Delivering

(* What the helper accepts is signed with a key the host trusts.            *)
LEMMA OfferDelivers ==
  ASSUME Shapes, Producing, Delivering, Offer, PageRests
  PROVE  Delivering'
<1> DEFINE f == client.files
           handed == [pc |-> "queued", from |-> host.version,
                      to |-> Declared(f.artifact), content |-> f.artifact]
<1>1. /\ UNCHANGED <<assets, latest, dist, signed, host, app, cache, spent>>
      /\ DOMAIN client' = ClientFields /\ client'.pc = "idle"
      /\ "sig" \notin DOMAIN client'.files
  BY CutDelivers DEF Offer, PageRests
<1>2. \/ UNCHANGED <<worker, status>>
      \/ /\ worker.pc = "idle"
         /\ Accepts(f.manifest, f.sig, f.artifact, host.platform)
         /\ \/ worker' = handed /\ status' = status
            \/ status' = Status("failed", host.version, Declared(f.artifact)) /\ worker' = worker
  BY DEF Offer
<1>3. Accepts(f.manifest, f.sig, f.artifact, host.platform) =>
        /\ f.sig \in signed /\ f.sig.key \in host.trust /\ f.sig.of.version \in Tags
        /\ f.sig.of.version = Declared(f.artifact)
        /\ f.sig.of.digest[host.platform] = f.artifact
  <2>1. f.sig \in signed \cup {Torn}
    BY DEF Offer, Delivering, SignaturesKnown
  <2>2. \A s \in signed : s.of.version \in Tags
    BY DEF Producing, AllSound, Sound, Sealed
  <2> QED
    BY <2>1, <2>2 DEF Accepts, Verified, SignatureHolds, Usable
<1> HIDE DEF f, Shapes
<1>4. /\ DOMAIN handed = WorkerFields /\ handed.pc = "queued" /\ handed.from = host.version
      /\ handed.to = Declared(f.artifact) /\ handed.content = f.artifact
  BY DEF WorkerFields
<1> HIDE DEF handed
<1>5. CASE UNCHANGED <<worker, status>>
  <2>1. ReleaseTypeOK' /\ DeliveryShapes' /\ Asked' /\ Exclusive'
    <3>1. ReleaseTypeOK'
      BY <1>1, <1>5 DEF Delivering, ReleaseTypeOK
    <3>2. DeliveryShapes' /\ Asked' /\ Exclusive'
      BY <1>1, <1>5 DEF Delivering, DeliveryShapes, Asked, Exclusive
    <3> QED
      BY <3>1, <3>2
  <2>2. SignaturesKnown' /\ Handed' /\ InstalledIsSigned'
    BY <1>1, <1>5 DEF Delivering, SignaturesKnown, Handed, InstalledIsSigned
  <2> QED
    BY <2>1, <2>2 DEF Delivering
<1>6. CASE /\ worker.pc = "idle" /\ worker' = handed /\ status' = status
           /\ Accepts(f.manifest, f.sig, f.artifact, host.platform)
  <2>1. ReleaseTypeOK' /\ DeliveryShapes'
    BY <1>1, <1>4, <1>6 DEF Delivering, ReleaseTypeOK, DeliveryShapes
  <2>2. Asked' /\ Exclusive'
    BY <1>1, <1>3, <1>4, <1>6 DEF Delivering, ReleaseTypeOK, Asked, Exclusive
  <2>3. SignaturesKnown' /\ InstalledIsSigned'
    BY <1>1, <1>6 DEF Delivering, SignaturesKnown, InstalledIsSigned
  <2>4. Handed'
    BY <1>1, <1>3, <1>4, <1>6 DEF Handed
  <2> QED
    BY <2>1, <2>2, <2>3, <2>4 DEF Delivering
<1>7. CASE status' = Status("failed", host.version, Declared(f.artifact)) /\ worker' = worker
  <2>1. DOMAIN status' = StatusFields /\ status'.state = "failed" /\ status'.pid = "none"
    BY <1>7 DEF Status, StatusFields
  <2>2. ReleaseTypeOK' /\ DeliveryShapes' /\ Asked' /\ Exclusive'
    <3>1. ReleaseTypeOK'
      BY <1>1, <1>7, <2>1 DEF Delivering, ReleaseTypeOK
    <3>2. DeliveryShapes' /\ Asked' /\ Exclusive'
      BY <1>1, <1>7, <2>1 DEF Delivering, DeliveryShapes, Asked, Exclusive
    <3> QED
      BY <3>1, <3>2
  <2>3. SignaturesKnown' /\ Handed' /\ InstalledIsSigned'
    BY <1>1, <1>7 DEF Delivering, SignaturesKnown, Handed, InstalledIsSigned
  <2> QED
    BY <2>2, <2>3 DEF Delivering
<1> QED
  BY <1>2, <1>5, <1>6, <1>7

LEMMA StartDelivers ==
  ASSUME Delivering, Start, PageRests
  PROVE  Delivering'
<1>1. /\ UNCHANGED <<assets, latest, dist, signed, host, app, cache, client, spent>>
      /\ worker.pc = "queued"
  BY DEF Start, PageRests
<1>2. CASE StillAnUpgrade
  <2>1. /\ worker' = [worker EXCEPT !.pc = "running"]
        /\ status' = [Status("in_progress", worker.from, worker.to) EXCEPT !.pid = "worker"]
    BY <1>2 DEF Start
  <2>2. /\ DOMAIN worker' = WorkerFields /\ worker'.pc = "running" /\ worker'.from = worker.from
        /\ worker'.to = worker.to /\ worker'.content = worker.content
    BY <2>1 DEF Delivering, DeliveryShapes, WorkerFields
  <2>3. /\ DOMAIN status' = StatusFields /\ status'.state = "in_progress"
        /\ status'.pid = "worker"
    BY <2>1 DEF Status, StatusFields
  <2>4. ReleaseTypeOK' /\ DeliveryShapes'
    BY <1>1, <2>2, <2>3 DEF Delivering, ReleaseTypeOK, DeliveryShapes
  <2>5. Asked' /\ Exclusive'
    BY <1>1, <1>2, <2>2, <2>3 DEF Delivering, Asked, Exclusive, StillAnUpgrade
  <2>6. SignaturesKnown' /\ Handed' /\ InstalledIsSigned'
    BY <1>1, <2>2 DEF Delivering, SignaturesKnown, Handed, InstalledIsSigned
  <2> QED
    BY <2>4, <2>5, <2>6 DEF Delivering
<1>3. CASE ~StillAnUpgrade
  <2>1. worker' = NoWorker /\ status' = Status("failed", worker.from, worker.to)
    BY <1>3 DEF Start
  <2>2. DOMAIN worker' = WorkerFields /\ worker'.pc = "idle"
    BY <2>1 DEF NoWorker, WorkerFields
  <2>3. DOMAIN status' = StatusFields /\ status'.state = "failed" /\ status'.pid = "none"
    BY <2>1 DEF Status, StatusFields
  <2>4. ReleaseTypeOK' /\ DeliveryShapes' /\ Asked' /\ Exclusive'
    <3>1. ReleaseTypeOK'
      BY <1>1, <2>2, <2>3 DEF Delivering, ReleaseTypeOK
    <3>2. DeliveryShapes' /\ Asked' /\ Exclusive'
      BY <1>1, <2>2, <2>3 DEF Delivering, DeliveryShapes, Asked, Exclusive
    <3> QED
      BY <3>1, <3>2
  <2>5. SignaturesKnown' /\ Handed' /\ InstalledIsSigned'
    BY <1>1, <2>2 DEF Delivering, SignaturesKnown, Handed, InstalledIsSigned
  <2> QED
    BY <2>4, <2>5 DEF Delivering
<1> QED
  BY <1>2, <1>3

(* However an update or a crash leaves the host: as it was, updated to what  *)
(* the worker was handed, or mixed.                                         *)
HostAfter(version, content) ==
  /\ DOMAIN host' = HostFields /\ host'.platform = host.platform /\ host'.trust = host.trust
  /\ host'.version = version /\ host'.content = content

LEMMA HostChanges ==
  ASSUME DeliveryShapes, NEW version, NEW content,
         host' = [host EXCEPT !.version = version, !.content = content]
  PROVE  HostAfter(version, content)
BY DEF DeliveryShapes, HostAfter, HostFields

LEMMA RunUpdateDelivers ==
  ASSUME Delivering, RunUpdate, PageRests
  PROVE  Delivering'
<1>1. /\ UNCHANGED <<assets, latest, dist, signed, cache, status, spent>>
      /\ worker.pc = "running" /\ app' = host'.version
      /\ DOMAIN client' = ClientFields /\ client'.pc = "idle"
      /\ "sig" \notin DOMAIN client'.files
  BY CutDelivers DEF RunUpdate, PageRests
<1>2. PICK pc \in {"done", "gave up"} :
        /\ worker' = [worker EXCEPT !.pc = pc]
        /\ \/ pc = "done" /\ HostAfter(worker.to, worker.content)
           \/ pc = "gave up" /\ host' = host
           \/ pc = "gave up" /\ \E v \in {worker.from, worker.to} : HostAfter(v, Mixed)
  BY HostChanges DEF RunUpdate, Delivering
<1>3. /\ DOMAIN worker' = WorkerFields /\ worker'.pc = pc /\ worker'.from = worker.from
      /\ worker'.to = worker.to /\ worker'.content = worker.content
  BY <1>2 DEF Delivering, DeliveryShapes, WorkerFields
<1>4. worker.from \in Tags \cup {1} /\ worker.to \in Tags
  BY <1>1 DEF Delivering, Asked
<1>5. /\ DOMAIN host' = HostFields /\ host'.platform = host.platform /\ host'.trust = host.trust
      /\ host'.version \in Tags \cup {1}
  BY <1>2, <1>4 DEF HostAfter, Delivering, DeliveryShapes, ReleaseTypeOK
<1>6. ReleaseTypeOK'
  BY <1>1, <1>3, <1>5 DEF Delivering, ReleaseTypeOK
<1>7. DeliveryShapes' /\ Asked'
  BY <1>1, <1>3, <1>4, <1>5 DEF Delivering, DeliveryShapes, Asked
<1>8. SignaturesKnown'
  BY <1>1 DEF Delivering, SignaturesKnown
<1>9. Handed'
  BY <1>1, <1>3, <1>5 DEF Delivering, Handed
<1>10. Exclusive'
  BY <1>1, <1>2, <1>3 DEF Delivering, Exclusive, HostAfter
<1>11. InstalledIsSigned'
  BY <1>1, <1>2 DEF Delivering, InstalledIsSigned, Handed, HostAfter
<1> QED
  BY <1>6, <1>7, <1>8, <1>9, <1>10, <1>11 DEF Delivering

LEMMA JudgeDelivers ==
  ASSUME Delivering, Judge, PageRests
  PROVE  Delivering'
<1>1. UNCHANGED <<assets, latest, dist, signed, host, app, cache, client, spent>>
  BY DEF Judge, PageRests
<1>2. DOMAIN worker' = WorkerFields /\ worker'.pc = "idle"
  BY DEF Judge, NoWorker, WorkerFields
<1>3. /\ DOMAIN status' = StatusFields /\ status'.pid = "none"
      /\ status'.state \in {"success", "rolled_back", "failed"}
  BY DEF Judge, Verdict, Status, StatusFields
<1>4. ReleaseTypeOK' /\ DeliveryShapes' /\ Asked' /\ Exclusive'
  <2>1. ReleaseTypeOK'
    BY <1>1, <1>2, <1>3 DEF Delivering, ReleaseTypeOK
  <2>2. DeliveryShapes' /\ Asked' /\ Exclusive'
    BY <1>1, <1>2, <1>3 DEF Delivering, DeliveryShapes, Asked, Exclusive
  <2> QED
    BY <2>1, <2>2
<1>5. SignaturesKnown' /\ Handed' /\ InstalledIsSigned'
  BY <1>1, <1>2 DEF Delivering, SignaturesKnown, Handed, InstalledIsSigned
<1> QED
  BY <1>4, <1>5 DEF Delivering

LEMMA CrashDelivers ==
  ASSUME Delivering, Crash, PageRests
  PROVE  Delivering'
<1>1. /\ UNCHANGED <<assets, latest, dist, signed, cache>> /\ spent'.manual = spent.manual
      /\ DOMAIN client' = ClientFields /\ client'.pc = "idle"
      /\ "sig" \notin DOMAIN client'.files /\ app' \in {app, host'.version}
  BY CutDelivers DEF Crash, PageRests
<1>2. DOMAIN worker' = WorkerFields /\ worker'.pc = "idle"
  BY DEF Crash, NoWorker, WorkerFields
<1>3. /\ DOMAIN status' = StatusFields /\ status'.state = status.state
      /\ status'.pid # "worker"
  BY DEF Crash, Gone, Delivering, DeliveryShapes, StatusFields
<1>4. \/ host' = host
      \/ worker.pc = "running" /\ \E v \in {worker.from, worker.to} : HostAfter(v, Mixed)
  BY HostChanges DEF Crash, Delivering
<1>5. /\ DOMAIN host' = HostFields /\ host'.version \in Tags \cup {1}
  BY <1>4 DEF HostAfter, Delivering, DeliveryShapes, ReleaseTypeOK, Asked
<1>6. ReleaseTypeOK'
  BY <1>1, <1>2, <1>3, <1>5 DEF Delivering, ReleaseTypeOK
<1>7. DeliveryShapes' /\ Asked' /\ Exclusive'
  BY <1>1, <1>2, <1>3, <1>5 DEF Delivering, DeliveryShapes, Asked, Exclusive
<1>8. SignaturesKnown' /\ Handed'
  BY <1>1, <1>2 DEF Delivering, SignaturesKnown, Handed
<1>9. InstalledIsSigned'
  BY <1>1, <1>4 DEF Delivering, InstalledIsSigned, HostAfter
<1> QED
  BY <1>6, <1>7, <1>8, <1>9 DEF Delivering

LEMMA ReusePidDelivers ==
  ASSUME Delivering, ReusePid, PageRests
  PROVE  Delivering'
<1>1. UNCHANGED <<assets, latest, dist, signed, host, app, cache, client, worker, spent>>
  BY DEF ReusePid, PageRests
<1>2. /\ DOMAIN status' = StatusFields /\ status'.state = status.state
      /\ status'.pid # "worker"
  BY DEF ReusePid, Delivering, DeliveryShapes, StatusFields
<1>3. ReleaseTypeOK' /\ DeliveryShapes' /\ Asked' /\ Exclusive'
  <2>1. ReleaseTypeOK'
    BY <1>1, <1>2 DEF Delivering, ReleaseTypeOK
  <2>2. DeliveryShapes' /\ Asked' /\ Exclusive'
    BY <1>1, <1>2 DEF Delivering, DeliveryShapes, Asked, Exclusive
  <2> QED
    BY <2>1, <2>2
<1>4. SignaturesKnown' /\ Handed' /\ InstalledIsSigned'
  BY <1>1 DEF Delivering, SignaturesKnown, Handed, InstalledIsSigned
<1> QED
  BY <1>3, <1>4 DEF Delivering

LEMMA ManualUpdateDelivers ==
  ASSUME Shapes, Delivering, ManualUpdate, PageRests
  PROVE  Delivering'
<1>1. /\ UNCHANGED <<assets, latest, dist, signed, cache, worker, status>>
      /\ worker.pc \in {"idle", "queued"} /\ app' = host'.version
      /\ DOMAIN client' = ClientFields /\ client'.pc = "idle"
      /\ "sig" \notin DOMAIN client'.files
  BY CutDelivers DEF ManualUpdate, PageRests
<1>2. spent'.manual \in Nat
  <2>1. "manual" \in DOMAIN spent /\ spent.manual \in Nat
    BY DEF Delivering, DeliveryShapes
  <2> HIDE DEF Shapes
  <2> QED
    BY <2>1 DEF ManualUpdate
<1> HIDE DEF Shapes
<1>3. PICK v \in Tags : HostAfter(v, Manual)
  BY HostChanges DEF ManualUpdate, Delivering
<1>4. ReleaseTypeOK'
  BY <1>1, <1>3 DEF Delivering, ReleaseTypeOK, HostAfter
<1>5. DeliveryShapes' /\ Asked' /\ Exclusive'
  BY <1>1, <1>2, <1>3 DEF Delivering, DeliveryShapes, Asked, Exclusive, HostAfter
<1>6. SignaturesKnown' /\ Handed'
  BY <1>1, <1>3 DEF Delivering, SignaturesKnown, Handed, HostAfter
<1>7. InstalledIsSigned'
  BY <1>3 DEF InstalledIsSigned, HostAfter
<1> QED
  BY <1>4, <1>5, <1>6, <1>7 DEF Delivering

-----------------------------------------------------------------------------
(* What a host knows is inductive. *)
LEMMA DeliveringPreserved ==
  ASSUME Shapes, Producing, Delivering, [Next]_vars
  PROVE  Delivering'
<1>1. CASE Hosts
  <2>1. PageRests
    BY <1>1 DEF Hosts, PageRests, production
  <2> QED
    BY <1>1, <2>1, CheckDelivers, AskDelivers, ReceiveDelivers, OfferDelivers, StartDelivers,
       RunUpdateDelivers, JudgeDelivers, CrashDelivers, ReusePidDelivers, ManualUpdateDelivers
       DEF Hosts
<1>2. CASE UNCHANGED vars
  <2>1. UNCHANGED <<assets, latest, dist, signed, spent, host, app, cache, client, worker, status>>
    BY <1>2 DEF vars, production, delivery
  <2> HIDE DEF Shapes
  <2>2. ReleaseTypeOK'
    <3>1. \A v \in Tags : dist'[v].sig # Nothing => dist'[v].sig \in signed'
      BY <2>1 DEF Delivering, ReleaseTypeOK
    <3> QED
      BY <2>1, <3>1, TypeStays DEF Delivering
  <2>3. DeliveryShapes' /\ Asked' /\ Exclusive'
    BY <2>1 DEF Delivering, DeliveryShapes, Asked, Exclusive
  <2>4. SignaturesKnown' /\ Handed' /\ InstalledIsSigned'
    BY <2>1 DEF Delivering, SignaturesKnown, Handed, InstalledIsSigned
  <2> QED
    BY <2>2, <2>3, <2>4 DEF Delivering
<1> QED
  BY <1>1, <1>2, PublisherDelivers, PageDelivers DEF Next

LEMMA DeliveringAlways == Spec => []Delivering
BY ProducingAlways, DeliveringInitially, DeliveringPreserved, PTL DEF Spec

(* Every part of the delivery keeps its type, and every signature in the     *)
(* output of a production was made with a key.                              *)
THEOREM ReleaseTypes == Spec => []ReleaseTypeOK
BY DeliveringAlways, PTL DEF Delivering

(* Whatever met on the page or was cut short: a host runs one artifact of    *)
(* one manifest signed with a key it trusts.                                *)
THEOREM WhatIsInstalledIsSigned == Spec => []InstalledIsSigned
BY DeliveringAlways, PTL DEF Delivering

(* The dashboard never lowers the installed version, whatever an             *)
(* administrator does between the acceptance and the start of the worker.    *)
THEOREM OnlyByHandDown == Spec => NeverDowngrades
<1>1. ASSUME Shapes, Delivering, [Next]_vars, host'.version < host.version
      PROVE  spent'.manual # spent.manual
  <2>0. "manual" \in DOMAIN spent
    BY <1>1
  <2> HIDE DEF Shapes
  <2>1. host.version \in Nat
    <3>1. host.version \in Tags \cup {1}
      BY <1>1 DEF Delivering, ReleaseTypeOK
    <3>2. \A v \in Tags \cup {1} : v \in Nat
      BY TagsAreVersions
    <3> QED
      BY <3>1, <3>2
  <2>2. host' # host
    BY <1>1, <2>1
  <2>3. CASE RunUpdate \/ Crash
    <3>1. worker.pc = "running"
      BY <2>2, <2>3 DEF RunUpdate, Crash
    <3>2. \E v \in {worker.from, worker.to} : \E content : HostAfter(v, content)
      BY <1>1, <2>2, <2>3, HostChanges DEF RunUpdate, Crash, Delivering
    <3>3. worker.to \in Nat /\ worker.from = host.version /\ worker.to > host.version
      BY <1>1, <3>1, TagsAreVersions DEF Delivering, Asked, Exclusive
    <3> QED
      BY <1>1, <2>1, <3>2, <3>3 DEF HostAfter
  <2>4. CASE ManualUpdate
    <3>1. spent' = [spent EXCEPT !.manual = @ + 1]
      BY <2>4 DEF ManualUpdate
    <3>2. spent.manual \in Nat
      BY <1>1 DEF Delivering, DeliveryShapes
    <3>3. spent'.manual = spent.manual + 1
      BY <2>0, <3>1
    <3> QED
      BY <3>2, <3>3
  <2>5. RunUpdate \/ Crash \/ ManualUpdate
    BY <1>1, <2>2 DEF Next, Publisher, ReleasePage, delivery, vars, Hosts, Check, Ask,
       Receive, Offer, Start, Judge, ReusePid
  <2> QED
    BY <2>3, <2>4, <2>5
<1> QED
  BY <1>1, ProducingAlways, DeliveringAlways, PTL DEF Spec, NeverDowngrades

(* The status is a record with its fields and no other thing.               *)
StatusIsRecord == status = [field \in StatusFields |-> status[field]]

LEMMA StatusStaysRecord == Spec => []StatusIsRecord
<1>1. Init => StatusIsRecord
  BY DEF Init, StatusIsRecord, StatusFields, Status
<1>2. ASSUME StatusIsRecord, [Next]_vars PROVE StatusIsRecord'
  <2>1. CASE status' = status
    BY <1>2, <2>1 DEF StatusIsRecord
  <2>2. ASSUME NEW state, NEW from, NEW to, status' = Status(state, from, to)
        PROVE  StatusIsRecord'
    BY <2>2 DEF StatusIsRecord, StatusFields, Status
  <2>3. ASSUME NEW pid, status' = [status EXCEPT !.pid = pid] PROVE StatusIsRecord'
    BY <1>2, <2>3 DEF StatusIsRecord, StatusFields
  <2>4. ASSUME Start PROVE StatusIsRecord'
    BY <2>4 DEF Start, StatusIsRecord, StatusFields, Status
  <2> QED
    BY <1>2, <2>1, <2>2, <2>3, <2>4 DEF Next, Publisher, ReleasePage, delivery, vars, Hosts, Check,
       Ask, Receive, Offer, RunUpdate, Judge, Crash, ReusePid, ManualUpdate
<1> QED
  BY <1>1, <1>2, PTL DEF Spec

(* What the status says of an update is what became of the host.            *)
THEOREM StatusIsTrue == Spec => StatusTellsTruth
<1>1. ASSUME Delivering, StatusIsRecord, [Next]_vars, status' # status
      PROVE  /\ status'.state = "success" =>
                  host.version = status'.to /\ host.content = worker.content
             /\ status'.state = "rolled_back" => host.version = status'.from
  <2> HIDE DEF Shapes
  <2>1. CASE Judge
    <3>1. status' = [state |-> Verdict, from |-> worker.from, to |-> worker.to, pid |-> "none"]
      BY <2>1 DEF Judge, Status
    <3>2. Verdict = "success" => worker.pc = "done" /\ host.version = worker.to
      BY DEF Verdict
    <3>3. Verdict = "rolled_back" => host.version = worker.from
      BY DEF Verdict
    <3>4. worker.pc = "done" => host.content = worker.content
      BY <1>1 DEF Delivering, Exclusive
    <3> QED
      BY <3>1, <3>2, <3>3, <3>4
  <2>2. CASE Offer \/ Start
    <3>1. status'.state \in {"failed", "in_progress"}
      BY <1>1, <2>2 DEF Offer, Start, Status
    <3> QED
      BY <3>1
  <2>3. CASE Crash \/ ReusePid
    <3>1. PICK pid : status' = [status EXCEPT !.pid = pid]
      BY <1>1, <2>3 DEF Crash, ReusePid
    <3>2. DOMAIN status = StatusFields
      BY <1>1 DEF Delivering, DeliveryShapes
    <3>3. status'.state = status.state
      BY <3>1, <3>2 DEF StatusFields
    <3>4. status.state = "in_progress"
      <4>1. CASE ReusePid
        BY <4>1 DEF ReusePid
      <4>2. CASE Crash /\ status.pid = "worker"
        BY <1>1, <4>2 DEF Delivering, Exclusive
      <4>3. CASE Crash /\ status.pid # "worker"
        <5>1. status' = [status EXCEPT !.pid = status.pid]
          BY <4>3 DEF Crash, Gone
        <5>2. status' = status
          BY <1>1, <5>1 DEF StatusIsRecord
        <5> QED
          BY <1>1, <5>2
      <4> QED
        BY <2>3, <4>1, <4>2, <4>3
    <3> QED
      BY <3>3, <3>4
  <2>4. Judge \/ Offer \/ Start \/ Crash \/ ReusePid
    BY <1>1 DEF Next, Publisher, ReleasePage, delivery, vars, Hosts, Check, Ask, Receive,
       RunUpdate, ManualUpdate
  <2> QED
    BY <2>1, <2>2, <2>3, <2>4
<1> QED
  BY <1>1, DeliveringAlways, StatusStaysRecord, PTL DEF Spec, StatusTellsTruth
==============================================================================
