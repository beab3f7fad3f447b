---------------------------- MODULE TemplateGate ----------------------------
(***************************************************************************)
(* What create asks of a SandboxTemplate and its warm pools before it      *)
(* claims from them, against what connect and delete later rely on: a      *)
(* default container with an SSH port, and a persistent home in it.  That  *)
(* they are one and the same container is asked by nobody.                 *)
(*                                                                         *)
(* Of the hardening of pods and containers only the verdict is kept.       *)
(***************************************************************************)
EXTENDS Integers, Sequences, SequencesExt, FiniteSetsExt

CONSTANTS
  Containers,  \* names, in the order of the template
  Volumes,     \* likewise
  Claims,      \* names of volume claim templates
  Ports,       \* numbers of the port "ssh"; 0 when a container declares none
  Nil

\* A template lists its containers in an order, and a port has a number.
ASSUME GateAssumption ==
  /\ Containers \in Seq({Containers[n] : n \in DOMAIN Containers})
  /\ Ports \subseteq Nat

VARIABLES
  template,
  home         \* Nil until create has looked at the template; then "refused" or a claim template

vars == <<template, home>>

\* "plain" is a port 2222 under another name, or under none.
Container ==
  [ssh : Ports, plain : BOOLEAN, hardened : BOOLEAN,
   mount : {Volumes[n] : n \in DOMAIN Volumes} \cup {Nil}]
Volume == {Claims[n] : n \in DOMAIN Claims} \cup {Nil}
ClaimTemplate == [class : BOOLEAN, storage : BOOLEAN]

\* As many as there are names for, in their order; "mount" is what a container mounts
\* at /home/agent, a volume is the claim it stands for, if any.
Template ==
  [containers : BoundedSeq(Container, Len(Containers)),
   volumes    : BoundedSeq(Volume, Len(Volumes)),
   claims     : BoundedSeq(ClaimTemplate, Len(Claims)),
   default    : {Containers[n] : n \in DOMAIN Containers} \cup {Nil}]

Pool == [replicas : BOOLEAN]

GateTypeOK ==
  /\ template \in Template
  /\ home \in {Nil, "refused"} \cup {Claims[n] : n \in DOMAIN Claims}

Init == template \in Template /\ home = Nil

-----------------------------------------------------------------------------
(* Faults: steps as a plausible slip in the code would make them; the property  *)
(* named in the comment notices.  No specification uses them.                  *)

\* ApprovedIsServed: a port need not be one that exists.
FindSSHPortUnbounded(c) == IF c.ssh > 0 THEN c.ssh ELSE IF c.plain THEN 2222 ELSE 0

-----------------------------------------------------------------------------
MaxPort == 65535

FindSSHPort(c) == IF c.ssh > 0 /\ c.ssh <= MaxPort THEN c.ssh ELSE IF c.plain THEN 2222 ELSE 0

\* The first element of a sequence that satisfies a test, by its place; 0 for none.
First(s, Test(_)) == LET found == {n \in DOMAIN s : Test(s[n])} IN
  IF found = {} THEN 0 ELSE Min(found)

\* The claim behind a mounted volume, and its template if that can be provisioned.
MountedClaimName(t, mount) == LET n == SelectInSeq(Volumes, LAMBDA v : v = mount) IN
  IF n \in DOMAIN t.volumes THEN t.volumes[n] ELSE Nil

ValidHomeTemplate(t, claim) == LET n == SelectInSeq(Claims, LAMBDA c : c = claim) IN
  IF n \in DOMAIN t.claims /\ t.claims[n].class /\ t.claims[n].storage THEN claim ELSE Nil

\* What a container offers as the home.
HomeIn(t, c) == ValidHomeTemplate(t, MountedClaimName(t, c.mount))

VolumesHardened(t) ==
  \A n \in DOMAIN t.volumes : \E m \in DOMAIN t.claims : t.volumes[n] = Claims[m]

HomeClaimTemplate(t) ==
  LET n == First(t.containers, LAMBDA c : FindSSHPort(c) # 0 /\ HomeIn(t, c) # Nil)
  IN  IF n = 0 THEN Nil ELSE HomeIn(t, t.containers[n])

\* GateTypeOK: the volume is recorded where the claim behind it is meant.
ValidateTemplateVolume(t) ==
  IF HomeClaimTemplate(t) # Nil
  THEN t.containers[First(t.containers, LAMBDA c : HomeIn(t, c) # Nil)].mount
  ELSE "refused"

ValidateTemplate(t) ==
  IF /\ \A n \in DOMAIN t.containers : t.containers[n].hardened
     /\ VolumesHardened(t)
     /\ HomeClaimTemplate(t) # Nil
  THEN HomeClaimTemplate(t)
  ELSE "refused"

\* create: the template must have one pool, with a number of replicas.
ResolveApprovedTemplate(pools) ==
  /\ home = Nil
  /\ home' = IF Len(pools) # 1 \/ ~pools[1].replicas THEN "refused"
             ELSE ValidateTemplate(template)
  /\ UNCHANGED template

Next == \E pools \in BoundedSeq(Pool, 2) : ResolveApprovedTemplate(pools)

Spec == Init /\ [][Next]_vars

-----------------------------------------------------------------------------
\* resolveSandbox: the container of the Sandbox's pod that is connected to, or 0.
Served(t) ==
  LET name == IF t.default = Nil /\ Len(t.containers) = 1 THEN Containers[1] ELSE t.default
      n == SelectInSeq(Containers, LAMBDA c : c = name)
  IN  IF n \in DOMAIN t.containers /\ FindSSHPort(t.containers[n]) \in 1 .. MaxPort THEN n ELSE 0

\* A template of a single container that is its own default is never approved and then
\* found impossible to connect to.
ApprovedIsServed ==
  /\ home \notin {Nil, "refused"}
  /\ Len(template.containers) = 1 /\ template.default \in {Nil, Containers[1]}
  => Served(template) # 0
=============================================================================
