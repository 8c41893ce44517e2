------------------------------ MODULE MCReleases ------------------------------
(***************************************************************************)
(* Two tags, one package built from source and one taken over, and what    *)
(* can be wrong with a tree.                                               *)
(***************************************************************************)
EXTENDS UpdateDelivery

Built == {"a"}
Fresh == [f \in Inputs |-> "i"]
Pin(n, v, file) == [name |-> n, version |-> v, file |-> file]

(* A tree that pins version v of the package built from source. *)
Sound(version, v) ==
  LET both == {[name |-> "a", version |-> v], [name |-> "b", version |-> 1]} IN
  [app |-> version, inputs |-> Fresh,
   requirements |-> {[name |-> "a", versions |-> {1, 2}], [name |-> "b", versions |-> {1}]},
   aarch64 |-> both, solution |-> both,
   build |-> {Pin("a", v, "sdist")},
   reuse |-> {[name |-> "b", version |-> 1, file |-> [of |-> "wheel", run |-> 0],
               tag |-> "armv7l"]},
   tags |-> {"armv7l"}, secret |-> FALSE]

Changed == [Sound(3, 1) EXCEPT !.inputs["backends"] = "j"]

Unusable == [Sound(3, 1) EXCEPT !.inputs = [f \in Inputs |-> "absent"]]

Others == {Sound(3, 2), [Sound(3, 1) EXCEPT !.inputs["backends"] = "j"]}

Flawed ==
  LET s == Sound(3, 1) IN
  {[s EXCEPT !.secret = TRUE],
   [s EXCEPT !.aarch64 = {}],
   [s EXCEPT !.aarch64 = {[name |-> "a", version |-> 3], [name |-> "b", version |-> 1]}],
   [s EXCEPT !.solution = {[name |-> "a", version |-> 2], [name |-> "b", version |-> 1]}],
   [s EXCEPT !.reuse = {}],
   [s EXCEPT !.tags = {"armv6l"}],
   [s EXCEPT !.inputs["apt"] = "malformed"],
   [s EXCEPT !.inputs["allowlist"] = "absent"],
   [s EXCEPT !.inputs["recipe"] = "absent"]}

Second(trees) == {[n \in {2, 3} |-> IF n = 2 THEN Sound(2, 1) ELSE t] : t \in trees}

Bounds(builds, productions, deaths, mishaps, attached, slips, faults, manual) ==
  [builds |-> builds, productions |-> productions, deaths |-> deaths,
   mishaps |-> mishaps, attached |-> attached, slips |-> slips,
   faults |-> faults, manual |-> manual]

Scenario(trees, platform, bounds) ==
  [repositories |-> Second(trees), platforms |-> {platform}, trust |-> {"k"},
   bounds |-> bounds]

(* Two bundles that may be mixed up; a bad tag; a host in trouble; files   *)
(* of two productions, one of which may die, that are attached in part;    *)
(* and a release whose code has another version.                           *)
Bounded ==
  {Scenario({[Sound(3, 2) EXCEPT !.inputs["backends"] = "j"]}, "armv7l",
            Bounds(2, 1, 0, 2, 0, 0, 0, 0)),
   Scenario(Flawed \cup Others, "armv7l", Bounds(2, 1, 0, 0, 0, 0, 0, 0)),
   Scenario({Sound(3, 1)}, "armv7l", Bounds(1, 2, 0, 0, 2, 0, 1, 1)),
   Scenario({Unusable}, "armv7l", Bounds(2, 2, 1, 0, 1, 1, 0, 0)),
   Scenario({[Sound(3, 1) EXCEPT !.app = 2]}, "aarch64", Bounds(1, 2, 1, 0, 2, 0, 0, 0))}
===============================================================================
