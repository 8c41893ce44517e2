------------------------- MODULE ReleaseProduction -------------------------
(***************************************************************************)
(* How a release comes to be (src/release/).  The wheels of the armv7l     *)
(* platform are built from a checkout inside a pinned image and published  *)
(* as one bundle (build_wheelhouse.py); the bundle is described by a       *)
(* transfer manifest (transfer_manifest.py), carried to another machine,   *)
(* and packed together with the source of a tag into two artifacts and one *)
(* signed manifest (ccc_release.py).                                       *)
(*                                                                         *)
(* A digest is the thing it is the digest of.  A pin, a source             *)
(* distribution or a wheel is a record of its name, its version and the    *)
(* file; an input of the builder is "absent", "malformed" or a text.  Tag  *)
(* v1.N is N, and a tag does not move.                                     *)
(***************************************************************************)
EXTENDS Naturals, FiniteSets, Sequences

CONSTANTS
  Tags,           \* the tags of the repository
  SourceBuilt,    \* the packages built from source
  Total,          \* how many packages a wheelhouse has
  Keys,           \* publisher keys
  Scenarios       \* repositories, hosts and bounds that go together

(* What a behaviour is bounded in. *)
BoundNames ==
  {"builds", "productions", "deaths", "mishaps", "attached", "slips", "faults", "manual"}

ASSUME TagsAreVersions == Tags \subseteq Nat \ {0}
ASSUME ScenariosAreBounded == \A s \in Scenarios : DOMAIN s.bounds = BoundNames

VARIABLES
  repo,       \* the tree of every tag
  limits,     \* the bounds of this behaviour
  built,      \* the bundles published by the builder, oldest first
  recorded,   \* the transfer manifests: what each says a bundle is
  bundle,     \* the bundle directory of the releasing machine
  producer,   \* a run of produce_release
  dist,       \* its output directory, by version
  signed,     \* every signature ever made: a history
  assets,     \* what is attached to the release of a version
  latest,     \* the version the release page calls the latest; 0: none
  spent       \* how much of its bounds this behaviour has used

production == <<built, recorded, bundle, producer, dist, signed>>

Nothing == [none |-> TRUE]
Torn == [torn |-> TRUE]
Usable(file) == file \notin {Nothing, Torn}

-----------------------------------------------------------------------------
(* The inputs of a build, and who may say that they are sound.             *)

BuilderInputs == {"apt", "rustup", "backends", "allowlist"}
ImageContext == BuilderInputs \cup {"recipe", "partition"}
Inputs == ImageContext \cup {"extractor"}

Names(pins) == {p.name : p \in pins}
Versions(pins) == {[name |-> p.name, version |-> p.version] : p \in pins}
File(w) == [name |-> w.name, version |-> w.version, file |-> w.file]

Present(tree, inputs) == \A f \in inputs : tree.inputs[f] # "absent"
Active(tree, inputs) == \A f \in inputs : tree.inputs[f] \notin {"absent", "malformed"}

IsLock(pins) == pins # {} /\ \A p, q \in pins : p.name = q.name => p = q

Solves(requirements, lock) ==
  /\ IsLock(lock)
  /\ \A r \in requirements :
       \E p \in lock : p.name = r.name /\ p.version \in r.versions

(* A wheel may be reused if one of its tags is one of the target's.        *)
Compatible(wheel, tags) == wheel.tag \in tags

ValidAuthz(tree) ==
  IsLock(tree.reuse) /\ \A w \in tree.reuse : Compatible(w, tree.tags)

ValidBuildLock(lock) == IsLock(lock) /\ Names(lock) = SourceBuilt

(* The durable solution falls apart into the build lock and the reuse      *)
(* authorization.                                                          *)
ValidSolution(tree) ==
  LET fromSource == {p \in tree.solution : p.name \in SourceBuilt} IN
  /\ Cardinality(tree.solution) = Total
  /\ Solves(tree.requirements, tree.solution)
  /\ fromSource = Versions(tree.build)
  /\ tree.solution \ fromSource = Versions(tree.reuse)

(* release_preflight in release mode, the gate before a tag.               *)
Ready(tree) ==
  /\ Active(tree, BuilderInputs)
  /\ (tree.build = {}) = (tree.reuse = {}) /\ tree.build # {}
  /\ ValidAuthz(tree)
  /\ ValidSolution(tree)

-----------------------------------------------------------------------------
(* What a bundle says of itself.                                           *)

FromSdist(provenance) == {r \in provenance.wheels : r.sdist # Nothing}
TakenOver(provenance) == provenance.wheels \ FromSdist(provenance)
WheelsOf(records) == {r.wheel : r \in records}

(* The image has what the tree pins, and is no newer than the target.      *)
EnvironmentFits(environment, tree) ==
  /\ environment.apt = tree.inputs["apt"]
  /\ environment.backends = tree.inputs["backends"]
  /\ environment.target

ContextMatches(inputs, tree) ==
  Present(tree, ImageContext) /\ \A f \in ImageContext : inputs[f] = tree.inputs[f]

ValidBuilder(builder, tree, image) ==
  /\ ContextMatches(builder.inputs, tree)
  /\ builder.inputs["extractor"] = tree.inputs["extractor"]
  /\ builder.image = image
  /\ EnvironmentFits(builder.environment, tree)

TreeDigest(wheels, sums) == [wheels |-> wheels, sums |-> sums]

SumsCover(wheels, sums) == sums # {} /\ sums = wheels

RecordsMatch(provenance, wheels) ==
  WheelsOf(provenance.wheels) = wheels /\ IsLock(wheels)

BuiltFromLock(provenance, tree) ==
  IsLock(tree.build) /\ {r.sdist : r \in FromSdist(provenance)} = tree.build

ReusedAsAuthorized(provenance, tree) ==
  /\ ValidAuthz(tree)
  /\ WheelsOf(TakenOver(provenance)) = {File(w) : w \in tree.reuse}
  /\ provenance.reuse = tree.reuse /\ provenance.tags = tree.tags

ValidProvenance(provenance, wheels, sums, tree, image) ==
  /\ provenance # Nothing
  /\ ValidBuilder(provenance.builder, tree, image)
  /\ provenance.tree = TreeDigest(wheels, sums)
  /\ SumsCover(wheels, sums)
  /\ RecordsMatch(provenance, wheels)
  /\ BuiltFromLock(provenance, tree)
  /\ ReusedAsAuthorized(provenance, tree)

(* Mutant: a lock that solves the requirements will do. *)
SolvingLock(lock, wheels, tree) == Solves(tree.requirements, lock)

ValidRuntimeLock(lock, wheels, tree) ==
  Solves(tree.requirements, lock) /\ lock = wheels

(* build_manifest of transfer_manifest.py: the checks it makes from the    *)
(* bundle alone.                                                           *)
ExactSet(b) ==
  /\ Nothing \notin {b.provenance, b.evidence} /\ b.lock # {}
  /\ Cardinality(b.wheels) = Total

ProvenanceDescribes(b) ==
  /\ b.provenance.tree = TreeDigest(b.wheels, b.sums)
  /\ RecordsMatch(b.provenance, b.wheels)
  /\ Cardinality(FromSdist(b.provenance)) = Cardinality(SourceBuilt)

EvidenceAgrees(b) ==
  /\ b.evidence.tree = TreeDigest(b.wheels, b.sums)
  /\ b.evidence.built = Names(WheelsOf(FromSdist(b.provenance)))
  /\ b.evidence.enforced

IsBundle(b) ==
  /\ ExactSet(b)
  /\ SumsCover(b.wheels, b.sums)
  /\ ProvenanceDescribes(b)
  /\ EvidenceAgrees(b)
  /\ b.lock = b.wheels

NoBundle == [wheels |-> {}, sums |-> {}, provenance |-> Nothing, lock |-> {},
             evidence |-> Nothing]

-----------------------------------------------------------------------------
(* The builder.                                                            *)

BuiltWheel(sdist, run) ==
  [name |-> sdist.name, version |-> sdist.version,
   file |-> [of |-> sdist.file, run |-> run]]

(* What build_wheelhouse publishes: a wheel is another one in every run.   *)
Wheelhouse(tree, image, target, enforced, run) ==
  LET records ==
        {[wheel |-> BuiltWheel(s, run), sdist |-> s] : s \in tree.build}
        \cup {[wheel |-> File(w), sdist |-> Nothing] : w \in tree.reuse}
      wheels == WheelsOf(records)
      builder == [inputs |-> tree.inputs, image |-> image,
                  environment |-> [apt |-> repo[image].inputs["apt"],
                                   backends |-> repo[image].inputs["backends"],
                                   target |-> target]] IN
  [wheels |-> wheels, sums |-> wheels, lock |-> wheels,
   provenance |-> [builder |-> builder, wheels |-> records,
                   tree |-> TreeDigest(wheels, wheels),
                   reuse |-> tree.reuse, tags |-> tree.tags],
   evidence |-> [tree |-> TreeDigest(wheels, wheels), built |-> Names(tree.build),
                 enforced |-> enforced]]

(* The files the image was built from are those of the checkout; the       *)
(* recipe is not in the image.                                             *)
ImageProven(tree, image) ==
  \A f \in ImageContext \ {"recipe"} : repo[image].inputs[f] = tree.inputs[f]

MayBuild(tree, image, capture) ==
  /\ Present(tree, Inputs) /\ Active(tree, {"allowlist"})
  /\ capture = image
  /\ ImageProven(tree, image)

SdistsAreLocked(tree, sdists) == IsLock(tree.build) /\ sdists = tree.build

StoreIsAuthorized(tree, store, enforced) ==
  /\ ValidAuthz(tree) /\ store = tree.reuse
  /\ Names(tree.build) \cap Names(tree.reuse) = {}
  /\ enforced => /\ Names(tree.build) = SourceBuilt
                 /\ Cardinality(tree.build) + Cardinality(tree.reuse) = Total

BundleIsSound(b, tree, image) ==
  /\ ValidProvenance(b.provenance, b.wheels, b.sums, tree, image)
  /\ ValidRuntimeLock(b.lock, b.wheels, tree)

Idle == [pc |-> "idle"]
At(pc) == producer.pc = pc

(* The staged bundle is published by one rename; nothing is left of a      *)
(* build that fails.                                                       *)
Build ==
  /\ spent.builds < limits.builds
  /\ \E t, image, capture \in Tags, target, enforced \in BOOLEAN :
       LET tree == repo[t]
           b == Wheelhouse(tree, image, target, enforced, Len(built) + 1) IN
       /\ MayBuild(tree, image, capture)
       /\ \E s \in Tags : SdistsAreLocked(tree, repo[s].build)
       /\ \E s \in Tags : StoreIsAuthorized(tree, repo[s].reuse, enforced)
       /\ BundleIsSound(b, tree, image)
       /\ built' = Append(built, b)
  /\ spent' = [spent EXCEPT !.builds = @ + 1]
  /\ UNCHANGED <<recorded, bundle, producer, dist, signed>>

(* transfer_manifest generate, where the bundle was built.                 *)
Record(b) ==
  /\ At("idle") /\ IsBundle(b) /\ b \notin recorded
  /\ recorded' = recorded \cup {b}
  /\ UNCHANGED <<built, bundle, producer, dist, signed, spent>>

(* The bundle is carried over whole; by a mishap one part of it is that of *)
(* another bundle, or is gone, at any moment.                              *)
Carry(b) ==
  /\ bundle' = b
  /\ At("idle") /\ bundle # b
  /\ UNCHANGED <<built, recorded, producer, dist, signed, spent>>

Mishap ==
  /\ spent.mishaps < limits.mishaps
  /\ \E b \in {built[i] : i \in DOMAIN built} \cup {NoBundle}, part \in DOMAIN bundle :
       bundle' = [bundle EXCEPT ![part] = b[part]]
  /\ spent' = [spent EXCEPT !.mishaps = @ + 1]
  /\ UNCHANGED <<built, recorded, producer, dist, signed>>

-----------------------------------------------------------------------------
(* produce_release.                                                        *)

Platforms == {"aarch64", "armv7l"}
NoFiles == [f \in Platforms \cup {"manifest", "sig"} |-> Nothing]
Tree == repo[producer.tag]

(* The members of an artifact at the top level.                            *)
TopLevel(artifact) ==
  {"source"} \cup IF artifact.bundle = Nothing THEN {}
                  ELSE {"wheelhouse-armhf", "provenance", "requirements-armv7.lock"}

(* The source alone, and the source with what was read from the bundle.    *)
Artifact(platform) ==
  [tag |-> producer.tag,
   bundle |-> IF platform = "aarch64" THEN Nothing
              ELSE [wheels |-> producer.wheels, sums |-> producer.sums,
                    provenance |-> producer.provenance, lock |-> producer.lock]]

(* Mutant: the members of the source are signed for both platforms. *)
SourceTopLevel(platform) == {"source"}

SignedTopLevel(platform) == TopLevel(Artifact(platform))

(* The locks are named twice; the rest of what the manifest says is bound  *)
(* by the digests of the artifacts and left out.                           *)
Locks == [requirements |-> Tree.requirements, lock |-> producer.lock, build |-> Tree.build]

Manifest ==
  [version |-> producer.version, tag |-> producer.tag,
   digest |-> [p \in Platforms |-> Artifact(p)],
   top |-> [p \in Platforms |-> SignedTopLevel(p)],
   wheelhouse |-> Locks, locks |-> Locks]

(* What is checked of the tag before the bundle is looked at.              *)
SourceIsSound(tree) ==
  /\ tree.requirements # {} /\ tree.aarch64 # {} /\ tree.build # {}
  /\ ValidAuthz(tree)
  /\ Present(tree, {"recipe"})
  /\ Active(tree, BuilderInputs \cup {"extractor"})

(* transfer_manifest verify: the bundle is the recorded one, byte by byte. *)
Transferred(b, record) == IsBundle(b) /\ b = record

(* The last checks, with the lock that was read last.                      *)
PartitionHolds(tree, lock) ==
  /\ ValidBuildLock(tree.build) /\ ValidSolution(tree)
  /\ Names(tree.build) \cap Names(tree.reuse) = {}
  /\ Names(tree.build) \cup Names(tree.reuse) = Names(lock)

MayBeSealed(tree, lock) ==
  /\ Solves(tree.requirements, tree.aarch64)
  /\ ValidRuntimeLock(lock, producer.wheels, tree)
  /\ PartitionHolds(tree, lock)
  /\ ~tree.secret
  /\ producer.version = producer.tag

Goes(pc) == producer' = [producer EXCEPT !.pc = pc]
GivesUp == producer' = Idle

(* The run ends wherever it is: an interrupt, or a disk that is full.      *)
Death ==
  /\ spent.deaths < limits.deaths
  /\ spent' = [spent EXCEPT !.deaths = @ + 1]
  /\ GivesUp

Produces == UNCHANGED <<built, recorded, bundle, spent>>
Reads == Produces /\ UNCHANGED <<dist, signed>>

Begins ==
  /\ At("idle") /\ spent.productions < limits.productions
  /\ \E version, tag, image \in Tags, key \in Keys, record \in recorded :
       /\ SourceIsSound(repo[tag])
       /\ producer' = [pc |-> "gate", version |-> version, tag |-> tag, key |-> key,
                       image |-> image, record |-> record, wheels |-> {}, sums |-> {},
                       provenance |-> Nothing, lock |-> {}]
  /\ spent' = [spent EXCEPT !.productions = @ + 1]
  /\ UNCHANGED <<built, recorded, bundle, dist, signed>>

PassesGate ==
  /\ At("gate") /\ Reads
  /\ IF Transferred(bundle, producer.record) THEN Goes("wheelhouse") ELSE GivesUp

(* From here the bundle is read again, file by file.                       *)
ReadsWheelhouse ==
  /\ At("wheelhouse") /\ Reads
  /\ IF bundle.wheels = {} THEN GivesUp
     ELSE producer' = [producer EXCEPT !.pc = "provenance", !.wheels = bundle.wheels,
                                       !.sums = bundle.sums]

ReadsProvenance ==
  /\ At("provenance") /\ Reads
  /\ IF ValidProvenance(bundle.provenance, producer.wheels, producer.sums, Tree,
                        producer.image)
     THEN producer' = [producer EXCEPT !.pc = "lock", !.provenance = bundle.provenance]
     ELSE GivesUp

ReadsLock ==
  /\ At("lock") /\ Reads
  /\ IF MayBeSealed(Tree, bundle.lock)
     THEN producer' = [producer EXCEPT !.pc = "aarch64", !.lock = bundle.lock]
     ELSE GivesUp

(* The next file goes to the output directory; it may be cut off.          *)
Written(file, content) ==
  dist' = [dist EXCEPT ![producer.version][file] = content]

Writes(pc, content, next) ==
  /\ At(pc) /\ UNCHANGED <<built, recorded, bundle, signed>>
  /\ \/ Written(pc, content) /\ Goes(next) /\ UNCHANGED spent
     \/ Written(pc, Torn) /\ Death

WritesFiles ==
  \/ Writes("aarch64", Artifact("aarch64"), "armv7l")
  \/ Writes("armv7l", Artifact("armv7l"), "manifest")
  \/ Writes("manifest", Manifest, "unsign")

(* A signature left by an earlier run goes before the new one is made.     *)
Unsigns ==
  /\ At("unsign") /\ Produces /\ UNCHANGED signed
  /\ Written("sig", Nothing)
  /\ Goes("sign")

Signs ==
  /\ At("sign") /\ Produces
  /\ LET sig == [key |-> producer.key, of |-> dist[producer.version].manifest] IN
       /\ Written("sig", sig)
       /\ signed' = signed \cup {sig}
  /\ GivesUp

Dies == ~At("idle") /\ Death /\ UNCHANGED <<built, recorded, bundle, dist, signed>>

Produce ==
  \/ Begins \/ PassesGate \/ ReadsWheelhouse \/ ReadsProvenance \/ ReadsLock
  \/ WritesFiles \/ Unsigns \/ Signs \/ Dies

Publisher ==
  /\ \/ Build \/ Mishap \/ Produce
     \/ \E i \in DOMAIN built : Record(built[i]) \/ Carry(built[i])
  /\ UNCHANGED <<repo, limits, assets, latest>>

-----------------------------------------------------------------------------
(* The release page.                                                       *)

(* A finished set is attached; by a slip one file of it alone, whatever a  *)
(* production left of it.                                                  *)
Attach(v) ==
  \/ /\ Usable(dist[v].sig) /\ assets[v] # dist[v]
     /\ assets' = [assets EXCEPT ![v] = dist[v]]
     /\ spent.attached < limits.attached
     /\ spent' = [spent EXCEPT !.attached = @ + 1]
  \/ /\ \E f \in DOMAIN dist[v] : assets' = [assets EXCEPT ![v][f] = dist[v][f]]
     /\ spent.slips < limits.slips
     /\ spent' = [spent EXCEPT !.slips = @ + 1]

Publish(v) == v > latest /\ latest' = v /\ UNCHANGED <<assets, spent>>

ReleasePage ==
  /\ At("idle")
  /\ \E v \in Tags : \/ Attach(v) /\ UNCHANGED latest
                     \/ dist[v] # NoFiles /\ Publish(v)
  /\ UNCHANGED <<repo, limits, built, recorded, bundle, producer, dist, signed>>

ProductionInit(repositories, bounds) ==
  /\ repo \in repositories /\ limits = bounds
  /\ built = << >> /\ recorded = {} /\ bundle = NoBundle /\ producer = Idle
  /\ dist = [v \in Tags |-> NoFiles] /\ signed = {}
  /\ assets = [v \in Tags |-> NoFiles] /\ latest = 0
  /\ spent = [bound \in DOMAIN limits |-> 0]

-----------------------------------------------------------------------------
(* Whatever is signed holds together and is of its tag: the artifacts are  *)
(* the source of that tag; the wheels in the armv7l one are those its      *)
(* provenance, its checksums and its lock name, built from the source      *)
(* distributions the tag locks in an image made from the files the tag     *)
(* has, or taken over as the tag authorizes.  The files are read after the *)
(* transfer was verified, so this must hold although the bundle may change *)
(* between any two reads.                                                  *)
SignedIsAuthorized ==
  \A s \in signed :
    LET b == s.of.digest["armv7l"].bundle
        tree == repo[s.of.tag] IN
    /\ \A p \in Platforms : s.of.digest[p].tag = s.of.tag
    /\ s.of.version = s.of.tag
    /\ b.wheels = b.sums /\ b.wheels = b.lock
    /\ WheelsOf(b.provenance.wheels) = b.wheels
    /\ \A w \in b.wheels :
         \/ \E pin \in tree.build, i \in DOMAIN built : w = BuiltWheel(pin, i)
         \/ \E a \in tree.reuse : w = File(a)
    /\ \A f \in Inputs : b.provenance.builder.inputs[f] = tree.inputs[f]

(* The producer is never laxer than the gate before the tag: a tag that is *)
(* signed passes the preflight, its other lock solves the requirements     *)
(* too, and it holds no secret.                                            *)
SignedIsReady ==
  \A s \in signed :
    LET tree == repo[s.of.tag] IN
    Ready(tree) /\ Solves(tree.requirements, tree.aarch64) /\ ~tree.secret

(* Unless a mishap changed the bundle after it was verified, what is       *)
(* signed is a bundle somebody recorded where it was built.                *)
SignedWasRecorded ==
  spent.mishaps = 0 =>
    \A s \in signed : \E r \in recorded :
      \A part \in DOMAIN s.of.digest["armv7l"].bundle :
        s.of.digest["armv7l"].bundle[part] = r[part]

(* Whatever is signed is of its tag and whole, passes what is asked before  *)
(* the tag, and was verified where it was built.                            *)
SignedIsSound == SignedIsAuthorized /\ SignedIsReady /\ SignedWasRecorded
=============================================================================
