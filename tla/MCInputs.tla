------------------------------ MODULE MCInputs ------------------------------
(***************************************************************************)
(* Three parts that take something from outside on trust only after a      *)
(* check: the content of a source document, the provider's dataset that a  *)
(* job is bound to, and the file by which Beat shows that it runs.  They   *)
(* share nothing.  A behaviour is one of part's, within its bounds.        *)
(***************************************************************************)
EXTENDS ArtifactFetch, IngestionBinding, SchedulerActivity, TLC

CONSTANTS j1, j2

VARIABLE part

allVars == <<part, artifactVars, bindingVars, activityVars>>

(* ArtifactFetch: two versions of a key, objects that differ from the pinned *)
(* one in one respect each.                                                 *)
Object(n, t, b) == [length |-> n, type |-> t, body |-> b]
Pinned(p, v, n, t, b) == [place |-> p, version |-> v, size |-> n, type |-> t, sha256 |-> b]
Held == {Object(2, "text", <<1, 2>>), Object(2, "text", <<1, 3>>), Object(2, "text", <<1>>),
         Object(2, "text", <<1, 2, 1, 2>>), Object(2, "html", <<1, 2>>), Object(1, "text", <<1>>)}
Good == Pinned("allowed", "v1", 2, "text", <<1, 2>>)
BodySet == {<<1, 2>>, <<1>>, <<1, 2, 2>>, <<2, 1>>}
ReferenceLists ==
  {<<Good>>, <<>>, <<Good, Good>>, <<Pinned("outside", "v1", 2, "text", <<1, 2>>)>>,
   <<Pinned("allowed", Missing, 2, "text", <<1, 2>>)>>, <<Pinned("allowed", "v1", 4, "text", <<1, 2, 1, 2>>)>>,
   <<Pinned("allowed", "v1", 0, "text", <<>>)>>, <<Pinned("allowed", "v1", 2, "html", <<1, 2>>)>>}
ArtifactRest == refs = <<>> /\ copy = <<1>> /\ objects = [v \in Versions |-> Object(1, "text", <<1>>)] /\ ArtifactInit

(* IngestionBinding: two settings that bind the key to two datasets of one   *)
(* name, pages of two datasets.  Settings change and jobs are updated while *)
(* the provider is left alone, or datasets come and go under one job.       *)
Dataset(i, n) == [id |-> i, name |-> n]
Setting(i, n, e) == [id |-> i, name |-> n, endpoint |-> e]
SettingSet == {Setting(1, "n", "e1"), Setting(2, "n", "e1"), Setting(1, "n", "e2")}
DatasetLists ==
  {<<Dataset(1, "n")>>, <<Dataset(3, "m"), Dataset(2, "n")>>,
   <<Dataset(3, "m"), Dataset(4, "m"), Dataset(1, "n"), Dataset(2, "n")>>,
   <<Dataset(1, "n"), Dataset(3, "m"), Dataset(2, "n")>>}
Rebinding == created + deleted = 0
ComeAndGo == updates = 0
BindingRest == BindingInit /\ tenant = "t1" /\ settings["api"] = Setting(1, "n", "e1") /\ datasets = <<Dataset(1, "n")>>

(* SchedulerActivity: one boot, or two boots of a machine that never sleeps  *)
(* and whose Beat sends nothing.                                            *)
OneBoot == boot = 0
TwoBoots == suspends = 0 /\ beat.returns + beat.errors = 0

Init == \/ part = "artifact" /\ ArtifactInit /\ BindingRest /\ ActivityInit
        \/ part \in {"rebinding", "come and go"} /\ ArtifactRest /\ BindingInit /\ ActivityInit
        \/ part \in {"one boot", "two boots"} /\ ArtifactRest /\ BindingRest /\ ActivityInit

BindingPart(p, bound) == part = p /\ BindingNext /\ bound /\ UNCHANGED <<part, artifactVars, activityVars>>
ActivityPart(p, bound) == part = p /\ ActivityNext /\ bound /\ UNCHANGED <<part, artifactVars, bindingVars>>

Next == \/ part = "artifact" /\ ArtifactNext /\ UNCHANGED <<part, bindingVars, activityVars>>
        \/ BindingPart("rebinding", Rebinding') \/ BindingPart("come and go", ComeAndGo')
        \/ ActivityPart("one boot", OneBoot') \/ ActivityPart("two boots", TwoBoots')

Spec == Init /\ [][Next]_allVars

Symmetry == Permutations(Jobs)
=============================================================================
