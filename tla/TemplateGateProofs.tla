------------------------- MODULE TemplateGateProofs -------------------------
(***************************************************************************)
(* What the approval of a template promises, for any number of containers, *)
(* volumes and claim templates and any set of ports.                       *)
(*                                                                         *)
(* The home that is recorded is the one that the template has, as long as  *)
(* neither changes: that is all there is to the invariant.  The rest is    *)
(* about the search for the container to connect to.                       *)
(***************************************************************************)
EXTENDS TemplateGate, FiniteSetTheorems, SequenceTheorems,
        WellFoundedInduction, TLAPS

\* A home, once there is one, is the one that the approval found.
Recorded == home \in {Nil, "refused"} \/ home = HomeClaimTemplate(template)

Names == {Claims[n] : n \in DOMAIN Claims}

-----------------------------------------------------------------------------
(* Searching.                                                              *)

\* A set of numbers that is not empty has a least one.
LEMMA MinIsLeast ==
  ASSUME NEW S \in SUBSET Nat, S # {}
  PROVE  Min(S) \in S /\ \A y \in S : Min(S) <= y
<1> DEFINE Less == OpToRel(<, Nat)
<1>1. Less = {ss \in Nat \X Nat : ss[1] < ss[2]}
  BY Zenon DEF OpToRel
<1>2. IsWellFoundedOn(Less, Nat)
  BY NatLessThanWellFounded
<1> HIDE DEF Less
<1>3. PICK x \in S : \A y \in S : <<y, x>> \notin Less
  BY <1>2, WFMin, Zenon
<1>4. \A y \in S : x <= y
  <2>1. ASSUME NEW y \in S, y < x
        PROVE  FALSE
    BY <1>1, <1>3, <2>1
  <2> QED  BY <2>1
<1> QED  BY <1>4 DEF Min

\* The places of a template's containers are numbers from 1 on.
LEMMA Places ==
  ASSUME NEW t \in Template
  PROVE  \E m \in 0 .. Len(Containers) : t.containers \in [1 .. m -> Container]
BY DEF Template, BoundedSeq, SeqOf

LEMMA LengthIsNat == Len(Containers) \in Nat /\ DOMAIN Containers = 1 .. Len(Containers)
BY GateAssumption

LEMMA PlaceSet ==
  ASSUME NEW t \in Template
  PROVE  /\ DOMAIN t.containers \subseteq Nat
         /\ IsFiniteSet(DOMAIN t.containers)
<1>1. PICK m \in 0 .. Len(Containers) : t.containers \in [1 .. m -> Container]
  BY Places
<1>2. m \in Nat /\ DOMAIN t.containers = 1 .. m
  BY <1>1, LengthIsNat
<1>3. IsFiniteSet(1 .. m)
  BY <1>2, FS_Interval
<1> QED  BY <1>2, <1>3

\* The container that homeClaimTemplate settles for.
Offers(t) == {n \in DOMAIN t.containers :
                FindSSHPort(t.containers[n]) # 0 /\ HomeIn(t, t.containers[n]) # Nil}

LEMMA HomeIsOffered ==
  ASSUME NEW t \in Template, HomeClaimTemplate(t) # Nil
  PROVE  \E n \in Offers(t) : HomeClaimTemplate(t) = HomeIn(t, t.containers[n])
<1>1. HomeClaimTemplate(t) =
        LET n == IF Offers(t) = {} THEN 0 ELSE Min(Offers(t))
        IN  IF n = 0 THEN Nil ELSE HomeIn(t, t.containers[n])
  BY DEF HomeClaimTemplate, First, Offers
<1>2. Offers(t) # {}
  BY <1>1
<1>3. Offers(t) \in SUBSET Nat
  BY PlaceSet DEF Offers
<1>4. Min(Offers(t)) \in Offers(t)
  BY <1>2, <1>3, MinIsLeast
<1>5. HomeClaimTemplate(t) = HomeIn(t, t.containers[Min(Offers(t))])
  BY <1>1, <1>2
<1> QED  BY <1>4, <1>5

\* What a container offers is the name of a claim template.
LEMMA HomeIsName ==
  ASSUME NEW t \in Template, NEW c
  PROVE  HomeIn(t, c) \in Names \cup {Nil}
<1> DEFINE claim == MountedClaimName(t, c.mount)
<1>1. claim \in Volume
  <2>1. \A n \in DOMAIN t.volumes : t.volumes[n] \in Volume
    BY DEF Template, BoundedSeq, SeqOf
  <2> QED  BY <2>1 DEF MountedClaimName, Volume
<1>2. HomeIn(t, c) \in {claim, Nil}
  BY DEF HomeIn, ValidHomeTemplate
<1> QED  BY <1>1, <1>2 DEF Volume, Names

-----------------------------------------------------------------------------
(* The invariant.                                                          *)

LEMMA VerdictOf ==
  ASSUME NEW t
  PROVE  ValidateTemplate(t) = "refused" \/ ValidateTemplate(t) = HomeClaimTemplate(t)
BY DEF ValidateTemplate

LEMMA InitRecorded == Init => GateTypeOK /\ Recorded
BY DEF Init, GateTypeOK, Recorded

LEMMA StepTyped == GateTypeOK /\ Recorded /\ [Next]_vars => GateTypeOK' /\ Recorded'
<1> SUFFICES ASSUME GateTypeOK, Recorded, [Next]_vars
             PROVE  GateTypeOK' /\ Recorded'
  OBVIOUS
<1> template \in Template
  BY DEF GateTypeOK
<1>1. CASE UNCHANGED vars
  BY <1>1 DEF vars, GateTypeOK, Recorded
<1>2. ASSUME NEW pools \in BoundedSeq(Pool, 2), ResolveApprovedTemplate(pools)
      PROVE  GateTypeOK' /\ Recorded'
  <2>1. template' = template
    BY <1>2 DEF ResolveApprovedTemplate
  <2>2. home' = "refused" \/ home' = HomeClaimTemplate(template)
    BY <1>2, VerdictOf DEF ResolveApprovedTemplate
  <2>3. HomeClaimTemplate(template) \in Names \cup {Nil}
    <3>1. CASE HomeClaimTemplate(template) = Nil
      BY <3>1
    <3>2. CASE HomeClaimTemplate(template) # Nil
      BY <3>2, HomeIsOffered, HomeIsName
    <3> QED  BY <3>1, <3>2
  <2>4. GateTypeOK'
    BY <2>1, <2>2, <2>3 DEF GateTypeOK, Names
  <2>5. Recorded'
    BY <2>1, <2>2 DEF Recorded
  <2> QED  BY <2>4, <2>5
<1> QED  BY <1>1, <1>2 DEF Next

LEMMA Invariant == Spec => [](GateTypeOK /\ Recorded)
BY InitRecorded, StepTyped, PTL DEF Spec

\* A home that was approved is the name of a claim template of the template, never that
\* of a volume (validateTemplate).
THEOREM GateTypeCorrect == Spec => []GateTypeOK
BY Invariant, PTL

-----------------------------------------------------------------------------
(* What it means for connect.                                              *)

LEMMA MaxPortIsNat == MaxPort \in Nat /\ MaxPort >= 2222
BY DEF MaxPort

\* The place of a name among the containers, and the name that connect looks for.
Place(name) == LET I == {i \in 1 .. Len(Containers) : Containers[i] = name}
               IN  IF I # {} THEN Min(I) ELSE 0
Wanted(t) == IF t.default = Nil /\ Len(t.containers) = 1 THEN Containers[1] ELSE t.default

LEMMA ServedByPlace ==
  ASSUME NEW t
  PROVE  Served(t) = IF /\ Place(Wanted(t)) \in DOMAIN t.containers
                        /\ FindSSHPort(t.containers[Place(Wanted(t))]) \in 1 .. MaxPort
                     THEN Place(Wanted(t)) ELSE 0
<1> DEFINE At(n) == IF n \in DOMAIN t.containers /\ FindSSHPort(t.containers[n]) \in 1 .. MaxPort
                    THEN n ELSE 0
<1>1. SelectInSeq(Containers, LAMBDA c : c = Wanted(t)) = Place(Wanted(t))
  BY DEF SelectInSeq, Place
<1>2. Served(t) = At(SelectInSeq(Containers, LAMBDA c : c = Wanted(t)))
  BY Zenon DEF Served, Wanted
<1> QED  BY <1>1, <1>2, Zenon

\* The first container is found by its own name.
LEMMA FirstIsFirst ==
  ASSUME Len(Containers) >= 1
  PROVE  Place(Containers[1]) = 1
<1> DEFINE S == {i \in 1 .. Len(Containers) : Containers[i] = Containers[1]}
<1>1. 1 \in S /\ S \in SUBSET Nat
  BY LengthIsNat
<1>2. Min(S) \in S /\ Min(S) <= 1
  BY <1>1, MinIsLeast
<1>3. Min(S) = 1
  BY <1>2, LengthIsNat
<1> QED  BY <1>1, <1>3 DEF Place

\* A function on the numbers from 1 to m is a sequence of that length.
LEMMA LengthOf ==
  ASSUME NEW S, NEW m \in Nat, NEW s \in [1 .. m -> S]
  PROVE  Len(s) = m
<1>1. s \in Seq(S)
  BY IsASeq
<1>2. DOMAIN s = 1 .. Len(s) /\ Len(s) \in Nat
  BY <1>1, LenProperties
<1>3. 1 .. m = 1 .. Len(s)
  BY <1>2
<1>4. m > Len(s) => m \in 1 .. m /\ m \notin 1 .. Len(s)
  BY <1>2
<1>5. Len(s) > m => Len(s) \in 1 .. Len(s) /\ Len(s) \notin 1 .. m
  BY <1>2
<1> QED  BY <1>2, <1>3, <1>4, <1>5

LEMMA RecordedIsReached == GateTypeOK /\ Recorded => ApprovedIsServed
<1> SUFFICES ASSUME GateTypeOK, Recorded, home \notin {Nil, "refused"},
                    Len(template.containers) = 1,
                    template.default \in {Nil, Containers[1]}
             PROVE  Served(template) # 0
  BY DEF ApprovedIsServed
<1>1. template \in Template /\ home = HomeClaimTemplate(template) /\ home # Nil
  BY DEF GateTypeOK, Recorded
<1>2. PICK m \in 0 .. Len(Containers) : template.containers \in [1 .. m -> Container]
  BY <1>1, Places
<1>3. m = 1 /\ Len(Containers) >= 1 /\ DOMAIN template.containers = {1}
  <2>1. m \in Nat /\ m <= Len(Containers)
    BY LengthIsNat
  <2>2. Len(template.containers) = m
    BY <1>2, <2>1, LengthOf
  <2>3. m = 1
    BY <2>2
  <2> QED  BY <1>2, <2>1, <2>3, LengthIsNat
<1>4. PICK n \in Offers(template) : home = HomeIn(template, template.containers[n])
  BY <1>1, HomeIsOffered
<1>5. FindSSHPort(template.containers[1]) # 0
  BY <1>3, <1>4 DEF Offers
<1>6. FindSSHPort(template.containers[1]) \in 1 .. MaxPort
  <2>1. template.containers[1].ssh \in Nat
    BY <1>2, <1>3, GateAssumption DEF Container
  <2>2. CASE template.containers[1].ssh > 0 /\ template.containers[1].ssh <= MaxPort
    BY <2>1, <2>2, MaxPortIsNat DEF FindSSHPort
  <2>3. CASE ~(template.containers[1].ssh > 0 /\ template.containers[1].ssh <= MaxPort)
    <3>1. FindSSHPort(template.containers[1]) \in {2222, 0}
      BY <2>3 DEF FindSSHPort
    <3>2. FindSSHPort(template.containers[1]) = 2222
      BY <3>1, <1>5
    <3> QED  BY <3>2, MaxPortIsNat
  <2> QED  BY <2>2, <2>3
<1>7. Wanted(template) = Containers[1]
  BY DEF Wanted
<1>8. Place(Wanted(template)) = 1
  BY <1>3, <1>7, FirstIsFirst
<1>9. Served(template) = 1
  BY <1>3, <1>6, <1>8, ServedByPlace
<1> QED  BY <1>9

\* A template of a single container that is approved can be connected to.
THEOREM ApprovedTemplateIsServed == Spec => []ApprovedIsServed
BY Invariant, RecordedIsReached, PTL
=============================================================================
