--------------------------- MODULE UpdateDelivery ---------------------------
(***************************************************************************)
(* How a release reaches a host: the dashboard (api/update.py) finds it on *)
(* the release page, downloads three files and hands them to the           *)
(* privileged helper (deployment/bin/ccc-update-apply), which believes     *)
(* nothing but a signature of a key it trusts (update_verify.py) and has a *)
(* worker unit run the updater.  What the updater does between its start   *)
(* and its end is the business of module UpdateEngine.                     *)
(*                                                                         *)
(* The dashboard serves one install request at a time: the handler never   *)
(* yields between its first check and its answer.                          *)
(***************************************************************************)
EXTENDS ReleaseProduction

VARIABLES
  host,     \* platform, trusted keys, installed version and what it is made of
  app,      \* the version of the code the running dashboard is made of
  cache,    \* the release the last successful check found; 0: none
  client,   \* the install request that is being served
  worker,   \* the worker unit
  status    \* the status file: state, versions, and what its pid is now

delivery == <<host, app, cache, client, worker, status>>
vars == <<repo, limits, assets, latest, spent, production, delivery>>

First == [first |-> TRUE]     \* what the installer put there
Mixed == [mixed |-> TRUE]     \* part of the old, part of the new
Manual == [manual |-> TRUE]   \* what an administrator put there

-----------------------------------------------------------------------------
(* Verification.                                                           *)

SignatureHolds(manifest, sig) ==
  Usable(sig) /\ sig.key \in host.trust /\ sig.of = manifest

IsManifest(manifest) ==
  /\ Usable(manifest) /\ manifest.tag = manifest.version
  /\ manifest.wheelhouse = manifest.locks

(* Mutant: a signed manifest vouches for whatever came with it. *)
ManifestVerified(manifest, sig, artifact, platform) ==
  /\ host.trust # {}
  /\ SignatureHolds(manifest, sig)
  /\ IsManifest(manifest)
  /\ Usable(artifact)

(* verify_release: the parts of its decision in their order.               *)
Verified(manifest, sig, artifact, platform) ==
  /\ host.trust # {}
  /\ SignatureHolds(manifest, sig)
  /\ IsManifest(manifest)
  /\ artifact = manifest.digest[platform]

(* No member of the artifact lies outside of what was signed.              *)
Extracts(manifest, artifact, platform) == TopLevel(artifact) \subseteq manifest.top[platform]

(* The version the code in the artifact says it has.                       *)
Declared(artifact) == repo[artifact.tag].app

Accepts(manifest, sig, artifact, platform) ==
  /\ Verified(manifest, sig, artifact, platform)
  /\ Extracts(manifest, artifact, platform)
  /\ Declared(artifact) = manifest.version

-----------------------------------------------------------------------------
(* The dashboard.                                                          *)

NoClient == [pc |-> "idle", version |-> 0, files |-> << >>]
NoWorker == [pc |-> "idle", from |-> 0, to |-> 0, content |-> Nothing]
Status(state, from, to) == [state |-> state, from |-> from, to |-> to, pid |-> "none"]

(* Mutant: whatever has the pid is taken for the worker. *)
SomeProcessAlive == status.pid # "none"

WorkerAlive == status.pid = "worker"

(* What a request for the status is answered.                              *)
Shown ==
  IF status.state = "in_progress" /\ ~WorkerAlive THEN "unknown" ELSE status.state

(* The newest release, if it has the files this platform needs; otherwise  *)
(* the last answer is kept.                                                *)
Check ==
  /\ latest # 0 /\ cache # latest
  /\ \A f \in {"manifest", "sig", host.platform} : assets[latest][f] # Nothing
  /\ cache' = latest
  /\ UNCHANGED <<host, app, client, worker, status, spent>>

Ask ==
  /\ client.pc = "idle"
  /\ cache > app
  /\ Shown # "in_progress"
  /\ client' = [NoClient EXCEPT !.pc = "manifest", !.version = cache]
  /\ UNCHANGED <<host, app, cache, worker, status, spent>>

(* One file after the other; a connection may break, or end early.         *)
Wanted == IF client.pc = "artifact" THEN host.platform ELSE client.pc

(* Mutant: nothing follows the last file. *)
AfterLast == [manifest |-> "sig", sig |-> "artifact", artifact |-> "received"]

After == [manifest |-> "sig", sig |-> "artifact", artifact |-> "offer"]

Added(files, name, file) ==
  [f \in DOMAIN files \cup {name} |-> IF f = name THEN file ELSE files[f]]

Receive ==
  /\ client.pc \in DOMAIN After
  /\ LET remote == assets[client.version][Wanted]
         received(file) ==
           client' = [client EXCEPT !.pc = After[@], !.files = Added(@, client.pc, file)] IN
     \/ remote # Nothing /\ received(remote) /\ UNCHANGED spent
     \/ /\ remote # Nothing /\ received(Torn)
        /\ spent.faults < limits.faults
        /\ spent' = [spent EXCEPT !.faults = @ + 1]
     \/ client' = NoClient /\ UNCHANGED spent
  /\ UNCHANGED <<host, app, cache, worker, status>>

(* The helper refuses while the worker unit runs; what it accepts it hands *)
(* to the worker unit, which may fail to start.                            *)
Offer ==
  /\ client.pc = "offer"
  /\ client' = NoClient
  /\ LET f == client.files IN
     IF /\ worker.pc = "idle"
        /\ Accepts(f.manifest, f.sig, f.artifact, host.platform)
        /\ Declared(f.artifact) > host.version
     THEN \/ /\ worker' = [pc |-> "queued", from |-> host.version,
                           to |-> Declared(f.artifact), content |-> f.artifact]
             /\ UNCHANGED status
          \/ /\ status' = Status("failed", host.version, Declared(f.artifact))
             /\ UNCHANGED worker
     ELSE UNCHANGED <<worker, status>>
  /\ UNCHANGED <<host, app, cache, spent>>

-----------------------------------------------------------------------------
(* The worker.                                                             *)

(* Mutant: the decision made at the acceptance stands. *)
WasAnUpgrade == TRUE

(* The host may have changed between the acceptance and now.               *)
StillAnUpgrade == worker.to > host.version /\ worker.from = host.version

Start ==
  /\ worker.pc = "queued"
  /\ IF StillAnUpgrade
     THEN /\ worker' = [worker EXCEPT !.pc = "running"]
          /\ status' = [Status("in_progress", worker.from, worker.to)
                          EXCEPT !.pid = "worker"]
     ELSE /\ worker' = NoWorker
          /\ status' = Status("failed", worker.from, worker.to)
  /\ UNCHANGED <<host, app, cache, client, spent>>

(* update.sh to its end: done, everything put back, or broken.  It starts  *)
(* the dashboard anew, and an install request that is being served is cut. *)
RunUpdate ==
  /\ worker.pc = "running"
  /\ \/ /\ host' = [host EXCEPT !.version = worker.to, !.content = worker.content]
        /\ worker' = [worker EXCEPT !.pc = "done"]
     \/ /\ UNCHANGED host
        /\ worker' = [worker EXCEPT !.pc = "gave up"]
     \/ /\ \E v \in {worker.from, worker.to} :
             host' = [host EXCEPT !.version = v, !.content = Mixed]
        /\ worker' = [worker EXCEPT !.pc = "gave up"]
  /\ app' = host'.version /\ client' = NoClient
  /\ UNCHANGED <<cache, status, spent>>

(* Mutant: the version that is installed then tells how it went. *)
VersionVerdict ==
  IF host.version = worker.to THEN "success"
  ELSE IF host.version = worker.from THEN "rolled_back"
  ELSE "failed"

Verdict ==
  IF worker.pc = "done" /\ host.version = worker.to THEN "success"
  ELSE IF host.version = worker.from THEN "rolled_back"
  ELSE "failed"

Judge ==
  /\ worker.pc \in {"done", "gave up"}
  /\ status' = Status(Verdict, worker.from, worker.to)
  /\ worker' = NoWorker
  /\ UNCHANGED <<host, app, cache, client, spent>>

-----------------------------------------------------------------------------
(* What else happens to a host.                                            *)

(* The worker is killed, or the power is lost; a dashboard that lives on   *)
(* may be older than what is installed.                                    *)
Gone == IF status.pid = "worker" THEN "none" ELSE status.pid

Crash ==
  /\ spent.faults < limits.faults
  /\ spent' = [spent EXCEPT !.faults = @ + 1]
  /\ worker # NoWorker \/ client # NoClient
  /\ worker' = NoWorker /\ client' = NoClient
  /\ status' = [status EXCEPT !.pid = Gone]
  /\ \/ UNCHANGED host
     \/ /\ worker.pc = "running"
        /\ \E v \in {worker.from, worker.to} :
             host' = [host EXCEPT !.version = v, !.content = Mixed]
  /\ app' \in {app, host'.version}
  /\ UNCHANGED cache

(* The number of a process that is gone is given to another one.           *)
ReusePid ==
  /\ status.state = "in_progress"
  /\ \/ status.pid = "none" /\ status' = [status EXCEPT !.pid = "other"]
     \/ status.pid = "other" /\ status' = [status EXCEPT !.pid = "none"]
  /\ UNCHANGED <<host, app, cache, client, worker, spent>>

(* update.sh by hand installs whatever it is given, and does not look      *)
(* whether an update was accepted.                                         *)
ManualUpdate ==
  /\ spent.manual < limits.manual
  /\ spent' = [spent EXCEPT !.manual = @ + 1]
  /\ worker.pc \in {"idle", "queued"}
  /\ \E v \in Tags \ {host.version} :
       host' = [host EXCEPT !.version = v, !.content = Manual]
  /\ app' = host'.version /\ client' = NoClient
  /\ UNCHANGED <<cache, worker, status>>

-----------------------------------------------------------------------------
Hosts ==
  /\ \/ Check \/ Ask \/ Receive \/ Offer \/ Start \/ RunUpdate \/ Judge
     \/ Crash \/ ReusePid \/ ManualUpdate
  /\ UNCHANGED <<repo, limits, assets, latest, production>>

Init ==
  /\ \E s \in Scenarios :
       /\ ProductionInit(s.repositories, s.bounds)
       /\ \E platform \in s.platforms :
            host = [platform |-> platform, trust |-> s.trust, version |-> 1,
                    content |-> First]
  /\ app = 1 /\ cache = 0 /\ client = NoClient /\ worker = NoWorker
  /\ status = Status("idle", 0, 0)

(* The releasing machine and the host share nothing but the release page,  *)
(* so that their steps commute: a production runs while the host rests.    *)
(* The page changes between any two steps of the host; what a production   *)
(* has written when the page changes is what one that died there leaves.   *)
AtRest == client = NoClient /\ worker = NoWorker

Next ==
  \/ AtRest /\ Publisher /\ UNCHANGED delivery
  \/ ReleasePage /\ UNCHANGED delivery
  \/ (AtRest => At("idle")) /\ Hosts

(* The worker unit is a process that was started, and the updater ends.    *)
Spec == Init /\ [][Next]_vars /\ WF_vars(Hosts /\ (Start \/ RunUpdate \/ Judge))

-----------------------------------------------------------------------------
(* Properties.                                                             *)

ReleaseTypeOK ==
  /\ latest \in Tags \cup {0} /\ cache \in Tags \cup {0}
  /\ host.version \in Tags \cup {1} /\ app \in Tags \cup {1}
  /\ client.pc \in {"idle", "offer"} \cup DOMAIN After
  /\ worker.pc \in {"idle", "queued", "running", "done", "gave up"}
  /\ status.state \in {"idle", "in_progress", "success", "rolled_back", "failed"}
  /\ status.pid = "worker" => worker.pc \in {"running", "done", "gave up"}
  /\ \A v \in Tags : dist[v].sig # Nothing => dist[v].sig \in signed

(* What the producer signs no host refuses: every signed set whose code    *)
(* has the version of its tag passes every check a host makes of it, on    *)
(* each platform, if the host trusts the key.                              *)
SignedIsAccepted ==
  \A s \in signed :
    repo[s.of.tag].app = s.of.version /\ s.key \in host.trust =>
      \A p \in Platforms : Accepts(s.of, s, s.of.digest[p], p)

(* Whatever files met on the page, were cut short or were replaced between *)
(* two downloads: what runs on a host is one artifact, for its platform,   *)
(* of one manifest signed with a key the host trusts -- unless an          *)
(* administrator put it there or an update broke.                          *)
InstalledIsSigned ==
  host.content \notin {First, Mixed, Manual} =>
    \E s \in signed :
      /\ s.key \in host.trust /\ s.of.version = host.version
      /\ s.of.digest[host.platform] = host.content

(* Only an administrator lowers the installed version.                     *)
NeverDowngrades ==
  [][host'.version < host.version => spent'.manual # spent.manual]_vars

(* The status says of an update what became of the host: "success" that    *)
(* the artifact was installed whole, "rolled_back" that the host has the   *)
(* version it had.                                                         *)
StatusTellsTruth ==
  [][status' # status =>
       /\ status'.state = "success" =>
            host.version = status'.to /\ host.content = worker.content
       /\ status'.state = "rolled_back" => host.version = status'.from]_vars

(* No status goes on saying that an update is in progress, even if the     *)
(* worker is killed and its process number is given to another process     *)
(* for good: nothing would be installed from the dashboard any more.       *)
StaleStatusEnds == Shown = "in_progress" ~> Shown # "in_progress"
=============================================================================
