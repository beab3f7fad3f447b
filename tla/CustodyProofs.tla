--------------------------- MODULE CustodyProofs ---------------------------
(***************************************************************************)
(* Workspace implements HomeCustody, for any number of processes, claims   *)
(* and standby names and for every reclaim policy.                         *)
(*                                                                         *)
(* First, which steps write Sandboxes and homes and what they leave of     *)
(* them; then CustodyInv part by part; then the mapping: a step writes     *)
(* homes or records, never both, and either concerns one home.             *)
(***************************************************************************)
EXTENDS RetirementInductive, WorkspaceProofs

-----------------------------------------------------------------------------
(* Sandboxes and homes *)

\* The steps of a command but these leave the homes alone,
LEMMA HomeWriters ==
  ASSUME TypeOK, CompleteCopies, [Next]_vars
  PROVE  \/ UNCHANGED home
         \/ \E p \in Procs : StripLabels(p) \/ InspectMounts(p) \/ DeletePVC(p)
         \/ \E h \in Uid : \/ ProvisionHome(h) \/ AdoptHome(h) \/ OrphanHome(h)
                           \/ FinishHome(h) \/ Reclaim(h) \/ LoseVolume(h)
<1>1. ASSUME NEW p \in Procs, Start(p) \/ Interrupt(p)
      PROVE  UNCHANGED home
  BY <1>1 DEF Start, StartCreate, StartConnect, StartDisconnect, StartFromRetained,
     StartFromRecord, Interrupt, cluster
<1>2. ASSUME NEW p \in Procs, CreateStep(p)
      PROVE  UNCHANGED home
  BY <1>2 DEF CreateStep, CheckOrigin, SelectSaved, GetClaim, CreateClaim, RecordClaim,
     WaitReady, ResolveSandbox, ResolveHome, SaveBinding, cluster
<1>3. ASSUME NEW p \in Procs, ConnectStep(p)
      PROVE  UNCHANGED home
  BY <1>3 DEF ConnectStep, SelectLink, FirstLink, AdoptIdentity, Reach, PrepareLink, Attach,
     SaveLink, Disconnect, cluster
<1>4. ASSUME NEW p \in Procs, ModeStep(p)
      PROVE  UNCHANGED home
  BY <1>4 DEF ModeStep, ReadClaim, ReadSandbox, ReadHome, Disable, PatchMode, WaitMode, HomeAgain, cluster
<1>5. ASSUME NEW p \in Procs, RetainStep(p), ~StripLabels(p)
      PROVE  UNCHANGED home
  BY <1>5 DEF RetainStep, OrphanClaim, ClaimGone, Recheck, OrphanSandbox, SandboxGone,
     VerifyRetained, SaveRetained, RemoveMachine, RemoveFiles, Forget, cluster
<1>6. ASSUME NEW p \in Procs, EraseStep(p), ~InspectMounts(p), ~DeletePVC(p)
      PROVE  UNCHANGED home
  BY <1>6 DEF EraseStep, LockRetained, Reselect, CheckPending, InspectHome, InspectAllocation,
     InspectVolume, MarkDeleting, StorageGone, DropRetained, cluster
<1>7. CASE Controllers
  BY <1>7 DEF Controllers, BindClaim, FinishClaim, ReportClaim, Reconcile, PodStops, FinishSandbox
<1>8. ASSUME NEW u \in Uid, PodFails(u)
      PROVE  UNCHANGED home
  BY <1>8 DEF PodFails
<1>9. QED
  BY <1>1, <1>2, <1>3, <1>4, <1>5, <1>6, <1>7, <1>8 DEF Next, Step, vars

\* and these leave the Sandboxes alone.
LEMMA SandboxWriters ==
  ASSUME TypeOK, CompleteCopies, [Next]_vars
  PROVE  \/ UNCHANGED sandbox
         \/ \E p \in Procs : PatchMode(p) \/ OrphanSandbox(p)
         \/ \E name \in SandboxNames : BindClaim(name)
         \/ \E u \in Uid : Reconcile(u) \/ PodStops(u) \/ PodFails(u) \/ FinishSandbox(u)
<1>1. ASSUME NEW p \in Procs, Start(p) \/ Interrupt(p)
      PROVE  UNCHANGED sandbox
  BY <1>1 DEF Start, StartCreate, StartConnect, StartDisconnect, StartFromRetained,
     StartFromRecord, Interrupt, cluster
<1>2. ASSUME NEW p \in Procs, CreateStep(p)
      PROVE  UNCHANGED sandbox
  BY <1>2 DEF CreateStep, CheckOrigin, SelectSaved, GetClaim, CreateClaim, RecordClaim,
     WaitReady, ResolveSandbox, ResolveHome, SaveBinding, cluster
<1>3. ASSUME NEW p \in Procs, ConnectStep(p)
      PROVE  UNCHANGED sandbox
  BY <1>3 DEF ConnectStep, SelectLink, FirstLink, AdoptIdentity, Reach, PrepareLink, Attach,
     SaveLink, Disconnect, cluster
<1>4. ASSUME NEW p \in Procs, ModeStep(p), ~PatchMode(p)
      PROVE  UNCHANGED sandbox
  BY <1>4 DEF ModeStep, ReadClaim, ReadSandbox, ReadHome, Disable, WaitMode, HomeAgain, cluster
<1>5. ASSUME NEW p \in Procs, RetainStep(p), ~OrphanSandbox(p)
      PROVE  UNCHANGED sandbox
  BY <1>5 DEF RetainStep, OrphanClaim, ClaimGone, Recheck, StripLabels, SandboxGone,
     VerifyRetained, SaveRetained, RemoveMachine, RemoveFiles, Forget, cluster
<1>6. ASSUME NEW p \in Procs, EraseStep(p)
      PROVE  UNCHANGED sandbox
  BY <1>6 DEF EraseStep, LockRetained, Reselect, CheckPending, InspectHome, InspectAllocation,
     InspectMounts, InspectVolume, MarkDeleting, DeletePVC, StorageGone, DropRetained, cluster
<1>7. CASE Controllers
  <2>1. ASSUME NEW h \in Uid, ProvisionHome(h) \/ AdoptHome(h) \/ OrphanHome(h) \/ FinishHome(h) \/ Reclaim(h)
        PROVE  UNCHANGED sandbox
    BY <2>1 DEF ProvisionHome, AdoptHome, OrphanHome, FinishHome, Reclaim
  <2>2. CASE FinishClaim \/ ReportClaim
    BY <2>2 DEF FinishClaim, ReportClaim
  <2>3. QED
    BY <1>7, <2>1, <2>2 DEF Controllers
<1>8. CASE (\E h \in Uid : LoseVolume(h)) \/ UNCHANGED vars
  BY <1>8 DEF LoseVolume, vars
<1>9. QED
  BY <1>1, <1>2, <1>3, <1>4, <1>5, <1>6, <1>7, <1>8 DEF Next, Step

\* A home of its own is made for Sandbox h.
Provided(h) ==
  /\ home[h].st = "none" /\ sandbox[h].st = "live" /\ HomesNamed(sandbox[h].name) = {}
  /\ home'[h].st = "live" /\ home'[h].name = sandbox[h].name /\ home'[h].owner = h
  /\ home'[h].adoptable /\ home'[h].pv = "bound"

\* One thing about home h changes, or nothing.
SameState(h) == home'[h].st = home[h].st
SameOwner(h) == home'[h].owner = home[h].owner
SameLabels(h) == home'[h].adoptable <=> home[h].adoptable
SameVolume(h) == home'[h].pv = home[h].pv

Untouched(h) == SameState(h) /\ SameOwner(h) /\ SameLabels(h) /\ SameVolume(h)

Stripped(h) ==
  /\ \E p \in Procs : (StripLabels(p) \/ InspectMounts(p)) /\ mem[p].home = h
  /\ ~home'[h].adoptable
  /\ SameState(h) /\ SameOwner(h) /\ SameVolume(h)

Requested(h) ==
  /\ \E p \in Procs : DeletePVC(p) /\ mem[p].home = h
  /\ HomePresent(h) /\ home'[h].st = "terminating"
  /\ SameOwner(h) /\ SameLabels(h) /\ SameVolume(h)

Adopted(h) ==
  /\ HomePresent(h) /\ home[h].owner = 0 /\ home[h].adoptable
  /\ home'[h].owner \in Named(home[h].name)
  /\ SameState(h) /\ SameLabels(h) /\ SameVolume(h)

Orphaned(h) ==
  /\ home[h].owner # 0 /\ sandbox[home[h].owner].st = "deleting" /\ home'[h].owner = 0
  /\ SameState(h) /\ SameLabels(h) /\ SameVolume(h)

Finished(h) ==
  /\ home[h].st = "terminating" /\ home'[h].st = "gone"
  /\ SameOwner(h) /\ SameLabels(h) /\ SameVolume(h)

Emptied(h) ==
  /\ home[h].st \in {"live", "gone"} /\ home[h].pv = "bound" /\ home'[h].pv = "gone"
  /\ SameState(h) /\ SameOwner(h) /\ SameLabels(h)

\* What a home is made with stays.
SameMake(h) == home'[h].name = home[h].name /\ home'[h].policy = home[h].policy

Edited(h) ==
  /\ SameMake(h)
  /\ \/ Untouched(h) \/ Stripped(h) \/ Requested(h) \/ Adopted(h) \/ Orphaned(h)
     \/ Finished(h) \/ Emptied(h)

\* A home that is not written is untouched.
LEMMA Unwritten ==
  ASSUME NEW h, home'[h] = home[h]
  PROVE  Edited(h)
  BY DEF Edited, Untouched, SameMake, SameState, SameOwner, SameLabels, SameVolume

\* No step writes homes and Sandboxes, or homes and records.
LEMMA HomeOrSandbox ==
  ASSUME TypeOK, CompleteCopies, [Next]_vars
  PROVE  UNCHANGED home \/ UNCHANGED <<sandbox, records>>
  BY HomeWriters DEF StripLabels, InspectMounts, DeletePVC, ProvisionHome, AdoptHome, OrphanHome,
     FinishHome, Reclaim, LoseVolume

\* What the edits leave of a home.
LEMMA Edits ==
  ASSUME NEW x \in Home
  PROVE  /\ LET y == [x EXCEPT !.adoptable = FALSE] IN
            y.st = x.st /\ y.name = x.name /\ y.policy = x.policy /\ y.owner = x.owner /\ ~y.adoptable /\ y.pv = x.pv
         /\ \A st : LET y == [x EXCEPT !.st = st] IN
            /\ y.st = st /\ y.name = x.name /\ y.policy = x.policy /\ y.owner = x.owner
            /\ y.adoptable = x.adoptable /\ y.pv = x.pv
         /\ \A u : LET y == [x EXCEPT !.owner = u] IN
            /\ y.st = x.st /\ y.name = x.name /\ y.policy = x.policy /\ y.owner = u
            /\ y.adoptable = x.adoptable /\ y.pv = x.pv
         /\ LET y == [x EXCEPT !.pv = "gone"] IN
            /\ y.st = x.st /\ y.name = x.name /\ y.policy = x.policy /\ y.owner = x.owner
            /\ y.adoptable = x.adoptable /\ y.pv = "gone"
  BY DEF Home

\* The steps of commands that write homes,
LEMMA CommandHomes ==
  ASSUME TypeOK, NEW p \in Procs, StripLabels(p) \/ InspectMounts(p) \/ DeletePVC(p), NEW h \in Uid
  PROVE  Edited(h) /\ (home'[h] # home[h] => h = mem[p].home)
<1>1. home[h] \in Home
  BY DEF TypeOK
<1>2. h # mem[p].home => home'[h] = home[h]
  BY DEF StripLabels, InspectMounts, DeletePVC, TypeOK
<1>3. CASE (StripLabels(p) \/ InspectMounts(p)) /\ h = mem[p].home
  <2>1. home'[h] = [home[h] EXCEPT !.adoptable = FALSE]
    BY <1>3 DEF StripLabels, InspectMounts, TypeOK
  <2>2. Stripped(h) /\ SameMake(h)
    BY <1>1, <1>3, <2>1, Edits DEF Stripped, SameMake, SameState, SameOwner, SameVolume
  <2>3. QED
    BY <1>3, <2>2 DEF Edited
<1>4. CASE DeletePVC(p) /\ h = mem[p].home /\ HomePresent(h)
  <2>1. home'[h] = [home[h] EXCEPT !.st = "terminating"]
    BY <1>4 DEF DeletePVC, TypeOK
  <2>2. Requested(h) /\ SameMake(h)
    BY <1>1, <1>4, <2>1, Edits DEF Requested, SameMake, SameLabels, SameOwner, SameVolume
  <2>3. QED
    BY <1>4, <2>2 DEF Edited
<1>5. CASE DeletePVC(p) /\ h = mem[p].home /\ ~HomePresent(h)
  BY <1>5, Unwritten DEF DeletePVC
<1>6. QED
  BY <1>2, <1>3, <1>4, <1>5, Unwritten

\* and those of the cluster.
LEMMA ClusterHomes ==
  ASSUME TypeOK, NEW k \in Uid, NEW h \in Uid,
         \/ ProvisionHome(k) \/ AdoptHome(k) \/ OrphanHome(k)
         \/ FinishHome(k) \/ Reclaim(k) \/ LoseVolume(k)
  PROVE  /\ Provided(h) \/ Edited(h)
         /\ home'[h] # home[h] => h = k
<1>1. home[h] \in Home
  BY DEF TypeOK
<1>2. h # k => home'[h] = home[h]
  BY DEF ProvisionHome, AdoptHome, OrphanHome, FinishHome, Reclaim, LoseVolume, TypeOK
<1>3. CASE ProvisionHome(k) /\ h = k
  <2>1. PICK policy \in Policies : home'[h] =
          [st |-> "live", name |-> sandbox[h].name, owner |-> h, adoptable |-> TRUE,
           pv |-> "bound", policy |-> policy]
    BY <1>3 DEF ProvisionHome, TypeOK
  <2>2. QED
    BY <1>3, <2>1 DEF ProvisionHome, Provided
<1>4. CASE AdoptHome(k) /\ h = k
  <2>1. PICK u \in Named(home[h].name) : home'[h] = [home[h] EXCEPT !.owner = u]
    BY <1>4 DEF AdoptHome, TypeOK
  <2>2. SameState(h) /\ SameLabels(h) /\ SameVolume(h) /\ home'[h].owner = u
        /\ SameMake(h)
    BY <1>1, <2>1, Edits DEF SameMake, SameState, SameLabels, SameVolume
  <2>3. HomePresent(h) /\ home[h].owner = 0 /\ home[h].adoptable
    BY <1>4 DEF AdoptHome
  <2>4. QED
    BY <1>4, <2>2, <2>3 DEF Edited, Adopted
<1>5. CASE OrphanHome(k) /\ h = k
  <2>1. home'[h] = [home[h] EXCEPT !.owner = 0]
    BY <1>5 DEF OrphanHome, TypeOK
  <2>2. SameState(h) /\ SameLabels(h) /\ SameVolume(h) /\ home'[h].owner = 0
        /\ SameMake(h)
    BY <1>1, <2>1, Edits DEF SameMake, SameState, SameLabels, SameVolume
  <2>3. home[h].owner # 0 /\ sandbox[home[h].owner].st = "deleting"
    BY <1>5 DEF OrphanHome
  <2>4. QED
    BY <1>5, <2>2, <2>3 DEF Edited, Orphaned
<1>6. CASE FinishHome(k) /\ h = k
  <2>1. home'[h] = [home[h] EXCEPT !.st = "gone"]
    BY <1>6 DEF FinishHome, TypeOK
  <2>2. SameOwner(h) /\ SameLabels(h) /\ SameVolume(h) /\ home'[h].st = "gone"
        /\ SameMake(h)
    BY <1>1, <2>1, Edits DEF SameMake, SameOwner, SameLabels, SameVolume
  <2>3. home[h].st = "terminating"
    BY <1>6 DEF FinishHome
  <2>4. QED
    BY <1>6, <2>2, <2>3 DEF Edited, Finished
<1>7. CASE (Reclaim(k) \/ LoseVolume(k)) /\ h = k
  <2>1. home'[h] = [home[h] EXCEPT !.pv = "gone"]
    BY <1>7 DEF Reclaim, LoseVolume, TypeOK
  <2>2. Emptied(h) /\ SameMake(h)
    BY <1>1, <1>7, <2>1, Edits DEF Reclaim, LoseVolume, Emptied, SameMake, SameState, SameOwner, SameLabels
  <2>3. QED
    BY <1>7, <2>2 DEF Edited
<1>8. QED
  BY <1>2, <1>3, <1>4, <1>5, <1>6, <1>7, Unwritten

\* So every step provides a home, or edits it, or leaves it alone.
LEMMA HomeMoves ==
  ASSUME TypeOK, CompleteCopies, [Next]_vars, NEW h \in Uid
  PROVE  Provided(h) \/ Edited(h)
<1>1. CASE UNCHANGED home
  BY <1>1, Unwritten
<1>2. QED
  BY <1>1, HomeWriters, CommandHomes, ClusterHomes

\* A Sandbox comes, with a claim, and goes, but keeps its name.
SandboxMoved(u) ==
  /\ sandbox[u].st # "none" => sandbox'[u].st # "none"
  /\ sandbox[u].st # "none" \/ claim = 0 => sandbox'[u].name = sandbox[u].name
  /\ sandbox'[u].st = "live" /\ sandbox[u].st # "live" =>
       /\ claim # 0 /\ Named(sandbox'[u].name) = {}
       /\ \A v \in Uid \ {u} : sandbox'[v] = sandbox[v]
  /\ sandbox'[u].st = "live" => sandbox[u].st \in {"none", "live"}
  /\ sandbox'[u].st = "deleting" /\ sandbox[u].st # "deleting" =>
       sandbox[u].st = "live" /\ \E p \in Procs : OrphanSandbox(p) /\ mem[p].sandbox = u
  /\ sandbox'[u].st = "gone" => sandbox[u].st \in {"deleting", "gone"}
  /\ sandbox[u].st = "gone" => sandbox'[u].st = "gone"
  /\ sandbox'[u].st = "gone" /\ sandbox[u].st = "deleting" => \A h \in Uid : ~OwnedHome(h, u)
  /\ sandbox'[u].pod => sandbox[u].pod \/ Present(u)

LEMMA SandboxMoves ==
  ASSUME TypeOK, CompleteCopies, [Next]_vars, NEW u \in Uid
  PROVE  SandboxMoved(u)
<1>0. sandbox[u] \in Sandbox
  BY DEF TypeOK
<1>1. CASE sandbox'[u] = sandbox[u]
  BY <1>1 DEF SandboxMoved
<1>2. ASSUME sandbox'[u].st = sandbox[u].st, sandbox'[u].name = sandbox[u].name,
             sandbox'[u].pod => sandbox[u].pod \/ Present(u)
      PROVE  SandboxMoved(u)
  BY <1>2 DEF SandboxMoved
<1>3. ASSUME NEW p \in Procs, PatchMode(p), sandbox'[u] # sandbox[u]
      PROVE  SandboxMoved(u)
  <2>1. sandbox'[u] = [sandbox[u] EXCEPT !.mode = Wanted(p), !.seen = FALSE]
    BY <1>3 DEF PatchMode, TypeOK
  <2>2. QED
    BY <1>0, <1>2, <2>1 DEF Sandbox
<1>4. ASSUME NEW v \in Uid, Reconcile(v) \/ PodStops(v) \/ PodFails(v), sandbox'[u] # sandbox[u]
      PROVE  SandboxMoved(u)
  <2>1. CASE Reconcile(v)
    <3>1. /\ sandbox'[u] = [sandbox[u] EXCEPT !.seen = TRUE, !.ready = sandbox[u].mode = "Running",
                                             !.pod = PodAfter(u)]
          /\ Present(u)
      BY <1>4, <2>1 DEF Reconcile, TypeOK
    <3>2. QED
      BY <1>0, <1>2, <3>1 DEF Sandbox
  <2>2. CASE PodStops(v)
    <3>1. sandbox'[u] = [sandbox[u] EXCEPT !.pod = FALSE]
      BY <1>4, <2>2 DEF PodStops, TypeOK
    <3>2. QED
      BY <1>0, <1>2, <3>1 DEF Sandbox
  <2>3. CASE PodFails(v)
    <3>1. PICK ready \in BOOLEAN, pod \in BOOLEAN :
            /\ pod => sandbox[v].pod
            /\ sandbox' = [sandbox EXCEPT ![v] = [@ EXCEPT !.ready = ready, !.pod = pod]]
      BY <2>3 DEF PodFails
    <3>2. u = v /\ sandbox'[u] = [sandbox[u] EXCEPT !.ready = ready, !.pod = pod]
      BY <1>4, <3>1 DEF TypeOK
    <3>3. QED
      BY <1>0, <1>2, <3>1, <3>2 DEF Sandbox
  <2>4. QED
    BY <1>4, <2>1, <2>2, <2>3
<1>5. ASSUME NEW name \in SandboxNames, BindClaim(name), sandbox'[u] # sandbox[u]
      PROVE  SandboxMoved(u)
  <2>1. /\ Named(name) = {} /\ claim # 0 /\ sandbox[u].st = "none" /\ u = claim
        /\ sandbox' = [sandbox EXCEPT ![u] = [sandbox[u] EXCEPT !.st = "live", !.name = name]]
    BY <1>5 DEF BindClaim, TypeOK
  <2>2. sandbox'[u].st = "live" /\ sandbox'[u].name = name /\ sandbox'[u].pod = sandbox[u].pod
    BY <1>0, <2>1 DEF TypeOK, Sandbox
  <2>3. \A v \in Uid \ {u} : sandbox'[v] = sandbox[v]
    BY <2>1 DEF TypeOK
  <2>4. QED
    BY <2>1, <2>2, <2>3 DEF SandboxMoved
<1>6. ASSUME NEW p \in Procs, OrphanSandbox(p), sandbox'[u] # sandbox[u]
      PROVE  SandboxMoved(u)
  <2>1. u = mem[p].sandbox /\ Present(u) /\ sandbox'[u] = [sandbox[u] EXCEPT !.st = "deleting"]
    BY <1>6 DEF OrphanSandbox, TypeOK
  <2>2. /\ sandbox'[u].st = "deleting" /\ sandbox'[u].name = sandbox[u].name
        /\ sandbox'[u].pod = sandbox[u].pod
    BY <1>0, <2>1 DEF Sandbox
  <2>3. QED
    BY <1>6, <2>1, <2>2 DEF SandboxMoved, Present
<1>7. ASSUME NEW v \in Uid, FinishSandbox(v), sandbox'[u] # sandbox[u]
      PROVE  SandboxMoved(u)
  <2>1. u = v /\ sandbox'[u] = [sandbox[u] EXCEPT !.st = "gone"]
    BY <1>7 DEF FinishSandbox, TypeOK
  <2>2. /\ sandbox'[u].st = "gone" /\ sandbox'[u].name = sandbox[u].name
        /\ sandbox'[u].pod = sandbox[u].pod
    BY <1>0, <2>1 DEF Sandbox
  <2>3. QED
    BY <1>7, <2>1, <2>2 DEF SandboxMoved, FinishSandbox
<1>8. QED
  BY <1>1, <1>3, <1>4, <1>5, <1>6, <1>7, SandboxWriters

\* A step writes at most one home.
LEMMA OneHomeMoves ==
  ASSUME TypeOK, CompleteCopies, [Next]_vars, NEW h \in Uid, NEW k \in Uid,
         home'[h] # home[h], home'[k] # home[k]
  PROVE  h = k
  BY HomeWriters, CommandHomes, ClusterHomes

\* A home that is there was there before or is provided, and only that can label it.
LEMMA HomesStay ==
  ASSUME NEW h \in Uid, Edited(h)
  PROVE  /\ HomePresent(h)' => HomePresent(h)
         /\ home'[h].name = home[h].name /\ home'[h].policy = home[h].policy
         /\ home'[h].adoptable => home[h].adoptable
         /\ home'[h].st = "none" <=> home[h].st = "none"
  BY DEF Edited, Untouched, Stripped, Requested, Adopted, Orphaned, Finished, Emptied, HomePresent,
     SameMake, SameState, SameLabels

-----------------------------------------------------------------------------
(* The invariant *)

\* Only a free name is given to a new Sandbox or home.
LEMMA NamesKept ==
  ASSUME IInv, NamesApart, [Next]_vars
  PROVE  NamesApart'
<1> TypeOK /\ CompleteCopies
  BY DEF IInv, Bookkeeping
<1>1. ASSUME NEW u \in Uid, NEW v \in Uid, Present(u)', Present(v)',
             sandbox'[u].name = sandbox'[v].name, u # v
      PROVE  FALSE
  <2>1. SandboxMoved(u) /\ SandboxMoved(v)
    BY SandboxMoves
  <2>2. CASE Present(u) /\ Present(v)
    BY <1>1, <2>1, <2>2 DEF NamesApart, SandboxMoved, Present
  <2>3. CASE ~Present(u)
    <3>1. Named(sandbox'[u].name) = {} /\ sandbox'[v] = sandbox[v]
      BY <1>1, <2>1, <2>3 DEF SandboxMoved, Present
    <3>2. QED
      BY <1>1, <3>1 DEF Named, Present
  <2>4. CASE ~Present(v)
    <3>1. Named(sandbox'[v].name) = {} /\ sandbox'[u] = sandbox[u]
      BY <1>1, <2>1, <2>4 DEF SandboxMoved, Present
    <3>2. QED
      BY <1>1, <3>1 DEF Named, Present
  <2>5. QED
    BY <2>2, <2>3, <2>4
<1>2. ASSUME NEW h \in Uid, NEW k \in Uid, HomePresent(h)', HomePresent(k)',
             home'[h].name = home'[k].name, h # k, Provided(h)
      PROVE  FALSE
  <2>1. home'[k] = home[k]
    BY <1>2, OneHomeMoves DEF Provided
  <2>2. QED
    BY <1>2, <2>1 DEF Provided, HomesNamed, HomePresent
<1>3. ASSUME NEW h \in Uid, NEW k \in Uid, HomePresent(h)', HomePresent(k)',
             home'[h].name = home'[k].name
      PROVE  h = k
  <2>1. CASE Edited(h) /\ Edited(k)
    BY <1>3, <2>1, HomesStay DEF NamesApart
  <2>2. QED
    BY <1>2, <1>3, <2>1, HomeMoves
<1>4. QED
  BY <1>1, <1>3 DEF NamesApart

\* What Stripping says of the retention stage, for the Sandbox it takes apart.
LEMMA StrippedBefore ==
  ASSUME CustodyInv, NEW p \in Procs, OrphanSandbox(p), sandbox[mem[p].sandbox].st = "live",
         NEW h \in Uid, HomePresent(h), home[h].name = sandbox[mem[p].sandbox].name
  PROVE  ~home[h].adoptable
<1> TypeOK /\ CompleteCopies
  BY DEF CustodyInv, IInv, Bookkeeping
<1> DEFINE k == mem[p].home
           u == mem[p].sandbox
<1>1. pc[p] = "orphanSandbox" /\ mem[p].phase = "bound"
  BY AtMoves DEF OrphanSandbox, CompleteCopies, ReleasePcs
<1>2. ~home[k].adoptable
  BY <1>1 DEF CustodyInv, Stripping
<1>3. u # 0
  BY <1>1 DEF CompleteCopies
<1>4. OwnedHome(k, u)
  BY <1>1 DEF CustodyInv, Pairs, Paired, Pair, ConnectPcs
<1>5. k \in Uid /\ HomePresent(k) /\ home[k].owner = u
  BY <1>4 DEF OwnedHome, HomePresent
<1>6. home[k].name = sandbox[u].name
  BY <1>3, <1>5 DEF CustodyInv, HomesKept
<1>7. h = k
  BY <1>5, <1>6 DEF CustodyInv, NamesApart
<1>8. QED
  BY <1>2, <1>7

\* No label comes back to a home whose Sandbox is being deleted.
LEMMA StrippedFirstKept ==
  ASSUME CustodyInv, [Next]_vars
  PROVE  StrippedFirst'
<1> TypeOK /\ CompleteCopies /\ NamesApart /\ StrippedFirst
  BY DEF CustodyInv, IInv, Bookkeeping
<1> SUFFICES ASSUME NEW u \in Uid, NEW h \in Uid, sandbox'[u].st = "deleting", HomePresent(h)',
                    home'[h].name = sandbox'[u].name
             PROVE  ~home'[h].adoptable
  BY DEF StrippedFirst
<1>1. /\ sandbox[u].st \in {"live", "deleting"} /\ sandbox'[u].name = sandbox[u].name
      /\ sandbox[u].st = "live" => \E p \in Procs : OrphanSandbox(p) /\ mem[p].sandbox = u
  <2>1. sandbox[u].st \in {"none", "live", "deleting", "gone"}
    BY DEF TypeOK, Sandbox
  <2>2. QED
    BY <2>1, SandboxMoves DEF SandboxMoved
<1>2. CASE Edited(h)
  <2>1. HomePresent(h) /\ home[h].name = sandbox[u].name /\ (home'[h].adoptable => home[h].adoptable)
    BY <1>1, <1>2, HomesStay
  <2>2. CASE sandbox[u].st = "deleting"
    BY <2>1, <2>2 DEF StrippedFirst
  <2>3. CASE sandbox[u].st = "live"
    <3>1. PICK p \in Procs : OrphanSandbox(p) /\ mem[p].sandbox = u
      BY <1>1, <2>3
    <3>2. ~home[h].adoptable
      BY <2>1, <2>3, <3>1, StrippedBefore
    <3>3. QED
      BY <2>1, <3>2
  <2>4. QED
    BY <1>1, <2>2, <2>3
<1>3. CASE Provided(h)
  <2>1. sandbox[h].st = "live" /\ sandbox[h].name = sandbox[u].name
    BY <1>1, <1>3 DEF Provided
  <2>2. h = u
    BY <1>1, <2>1 DEF NamesApart, Present
  <2>3. PICK p \in Procs : OrphanSandbox(p)
    BY <1>1, <2>1, <2>2
  <2>4. UNCHANGED home
    BY <2>3 DEF OrphanSandbox
  <2>5. QED
    BY <1>3, <2>4 DEF Provided
<1>4. QED
  BY <1>2, <1>3, HomeMoves

\* The home at hand in the deletion stage.
LEMMA EraseHand ==
  ASSUME CustodyInv, NEW p \in Procs, pc[p] \in ErasePcs \ {"reselect"}
  PROVE  /\ mem[p].home \in Uid /\ home[mem[p].home].st # "none"
         /\ retained[mem[p].home].state # "none"
         /\ mem[p].state # "restoring" => retained[mem[p].home].state # "restoring"
<1> TypeOK /\ CompleteCopies /\ Provisioned
  BY DEF CustodyInv, IInv, Bookkeeping
<1>1. QED
  BY HomeInHand DEF CustodyInv, Erasing

\* A home that is requested to go belongs to nobody.
LEMMA RequestedIsFree ==
  ASSUME CustodyInv, NEW h \in Uid, Requested(h)
  PROVE  home[h].owner = 0 /\ ~home[h].adoptable /\ retained[h].state # "none"
<1> TypeOK
  BY DEF CustodyInv, IInv
<1>1. PICK p \in Procs : DeletePVC(p) /\ mem[p].home = h
  BY DEF Requested
<1>2. pc[p] = "erase"
  BY <1>1, AtMoves DEF DeletePVC
<1>3. mem[p].state = "deleting"
  BY <1>2 DEF CustodyInv, IInv, HandedOver
<1>4. HomePresent(h)
  BY DEF Requested
<1>5. QED
  BY <1>1, <1>2, <1>3, <1>4 DEF CustodyInv, Erasing, ErasePcs

\* A home belongs to a Sandbox that is there and has its name.
LEMMA OwnersKept ==
  ASSUME CustodyInv, [Next]_vars, NEW h \in Uid, HomePresent(h)', home'[h].owner # 0
  PROVE  Present(home[h].owner)' /\ sandbox'[home'[h].owner].name = home'[h].name
<1> TypeOK /\ CompleteCopies
  BY DEF CustodyInv, IInv, Bookkeeping
<1>1. CASE Provided(h)
  <2>1. UNCHANGED sandbox
    BY <1>1, HomeOrSandbox DEF Provided
  <2>2. QED
    BY <1>1, <2>1 DEF Provided, Present
<1>2. CASE Edited(h) /\ SameOwner(h)
  <2> DEFINE u == home[h].owner
  <2>1. HomePresent(h) /\ home'[h].name = home[h].name /\ home'[h].owner = u /\ u # 0
    BY <1>2, HomesStay DEF SameOwner
  <2>2. Present(u) /\ sandbox[u].name = home[h].name
    BY <2>1 DEF CustodyInv, HomesKept
  <2>3. SandboxMoved(u) /\ OwnedHome(h, u)
    BY <2>1, <2>2, SandboxMoves DEF Present, OwnedHome
  <2>4. sandbox'[u].st \in {"none", "live", "deleting", "gone"}
    BY <2>2, NextTypes DEF Present, TypeOK, Sandbox, CustodyInv
  <2>5. QED
    BY <2>1, <2>2, <2>3, <2>4 DEF SandboxMoved, Present
<1>3. CASE Edited(h) /\ Adopted(h)
  <2>1. UNCHANGED sandbox
    BY <1>3, HomeOrSandbox DEF Adopted, Named, Uid
  <2>2. home'[h].owner \in Named(home[h].name) /\ home'[h].name = home[h].name
    BY <1>3 DEF Adopted, Edited, SameMake
  <2>3. QED
    BY <2>1, <2>2 DEF Named, Present
<1>4. QED
  BY <1>1, <1>2, <1>3, HomeMoves DEF Edited, Untouched, Stripped, Requested, Orphaned, Finished, Emptied

\* A home on record stays so until it is erased.
LEMMA OnRecordKept ==
  ASSUME CustodyInv, [Next]_vars, NEW h \in Uid, Recorded(h) \/ Erased(h)
  PROVE  Recorded(h)' \/ Erased(h)'
<1> TypeOK /\ CompleteCopies
  BY DEF CustodyInv, IInv, Bookkeeping
<1>1. CASE Erased(h)
  BY <1>1, HomesMove DEF Erased, HomesLast
<1>2. CASE Recorded(h) /\ ~Recorded(h)'
  <2>1. Erased(h)
    BY <1>2, RecordedUntilErased DEF CustodyInv
  <2>2. QED
    BY <1>1, <2>1
<1>3. QED
  BY <1>1, <1>2

\* Only a home on record, or an erased one, is without labels.
LEMMA UnlabelledOnRecord ==
  ASSUME CustodyInv, [Next]_vars, NEW h \in Uid, home'[h].st # "none", ~home'[h].adoptable
  PROVE  Recorded(h)' \/ Erased(h)'
<1> TypeOK /\ CompleteCopies
  BY DEF CustodyInv, IInv, Bookkeeping
<1>1. Recorded(h) \/ Erased(h) => Recorded(h)' \/ Erased(h)'
  BY OnRecordKept
<1>2. Edited(h) /\ home[h].st # "none"
  BY HomeMoves, HomesStay DEF Provided
<1>3. CASE ~home[h].adoptable
  BY <1>1, <1>2, <1>3 DEF CustodyInv, HomesKept
<1>4. CASE home[h].adoptable
  <2>1. Stripped(h)
    BY <1>2, <1>4 DEF Edited, Untouched, Requested, Adopted, Orphaned, Finished, Emptied, SameLabels
  <2>2. PICK p \in Procs : (StripLabels(p) \/ InspectMounts(p)) /\ mem[p].home = h
    BY <2>1 DEF Stripped
  <2>3. CASE StripLabels(p)
    <3>1. pc[p] = "strip" /\ mem[p].phase = "bound"
      BY <2>3, AtMoves DEF StripLabels, CompleteCopies, ReleasePcs
    <3>2. QED
      BY <1>1, <2>2, <3>1 DEF CustodyInv, Pairs
  <2>4. CASE InspectMounts(p)
    <3>1. pc[p] = "inspectMounts"
      BY <2>4, AtMoves DEF InspectMounts
    <3>2. retained[h].state # "none"
      BY <2>2, <3>1, EraseHand DEF ErasePcs
    <3>3. QED
      BY <1>1, <3>2 DEF Recorded
  <2>5. QED
    BY <2>2, <2>3, <2>4
<1>5. QED
  BY <1>3, <1>4

\* A record that an older version left in restoration stays the only licence to adopt.
LEMMA RestoringKept ==
  ASSUME CustodyInv, [Next]_vars, NEW h \in Uid, HomePresent(h), home[h].adoptable,
         retained[h].state = "restoring"
  PROVE  retained'[h].state = "restoring"
<1> TypeOK /\ CompleteCopies
  BY DEF CustodyInv, IInv, Bookkeeping
<1>1. ASSUME NEW p \in Procs, SaveRetained(p)
      PROVE  mem[p].home # h
  <2>1. pc[p] = "retain"
    BY <1>1, AtMoves DEF SaveRetained
  <2>2. QED
    BY <2>1 DEF CustodyInv, Stripping
<1>2. ASSUME NEW p \in Procs, MarkDeleting(p)
      PROVE  mem[p].home # h
  <2>1. pc[p] = "mark"
    BY <1>2, AtMoves DEF MarkDeleting
  <2>2. QED
    BY <2>1 DEF CustodyInv, Erasing, ErasePcs
<1>3. ASSUME NEW p \in Procs, DropRetained(p)
      PROVE  mem[p].home # h
  <2>1. pc[p] = "drop"
    BY <1>3 DEF DropRetained
  <2>2. Erased(mem[p].home)
    BY <2>1 DEF CustodyInv, IInv, HandedOver
  <2>3. QED
    BY <2>2 DEF Erased, HomePresent
<1>4. ASSUME NEW p \in Procs, SaveRetained(p) \/ MarkDeleting(p) \/ DropRetained(p)
      PROVE  retained'[h] = retained[h]
  <2>1. mem[p].home # h
    BY <1>1, <1>2, <1>3, <1>4
  <2>2. QED
    BY <1>4, <2>1 DEF SaveRetained, MarkDeleting, DropRetained, TypeOK
<1>5. QED
  BY <1>4, RetainedWriters

\* A home keeps its owner until it is orphaned, and then has no labels.
LEMMA HomesKeptKept ==
  ASSUME CustodyInv, [Next]_vars
  PROVE  HomesKept'
<1> TypeOK /\ CompleteCopies
  BY DEF CustodyInv, IInv, Bookkeeping
<1>1. ASSUME NEW h \in Uid, HomePresent(h)', home'[h].owner = 0, home'[h].adoptable
      PROVE  retained'[h].state = "restoring"
  <2>1. Edited(h) /\ HomePresent(h) /\ home[h].adoptable
    BY <1>1, HomeMoves, HomesStay DEF Provided, Uid
  <2>2. CASE home[h].owner = 0
    BY <2>1, <2>2, RestoringKept DEF CustodyInv, HomesKept
  <2>3. CASE home[h].owner # 0
    <3>1. Orphaned(h)
      BY <1>1, <2>1, <2>3 DEF Edited, Untouched, Stripped, Requested, Adopted, Finished, Emptied, SameOwner
    <3>2. sandbox[home[h].owner].st = "deleting" /\ Present(home[h].owner)
          /\ sandbox[home[h].owner].name = home[h].name
      BY <2>1, <2>3, <3>1 DEF CustodyInv, HomesKept, Orphaned
    <3>3. QED
      BY <2>1, <3>2 DEF CustodyInv, StrippedFirst, Present
  <2>4. QED
    BY <2>2, <2>3
<1>2. ASSUME NEW h \in Uid, home'[h].st \in {"terminating", "gone"}
      PROVE  home'[h].owner = 0 /\ ~home'[h].adoptable
  <2>1. Edited(h)
    BY <1>2, HomeMoves DEF Provided
  <2>2. home'[h].adoptable => home[h].adoptable
    BY <2>1, HomesStay
  <2>3. CASE Requested(h)
    BY <2>2, <2>3, RequestedIsFree DEF Requested, SameOwner
  <2>4. CASE home[h].st \in {"terminating", "gone"}
    <3>1. home[h].owner = 0 /\ ~home[h].adoptable
      BY <2>4 DEF CustodyInv, HomesKept
    <3>2. ~Adopted(h)
      BY <3>1 DEF Adopted
    <3>3. home'[h].owner = 0
      BY <2>1, <3>1, <3>2 DEF Edited, Untouched, Stripped, Requested, Orphaned, Finished, Emptied, SameOwner
    <3>4. QED
      BY <2>2, <3>1, <3>3
  <2>5. QED
    BY <1>2, <2>1, <2>3, <2>4 DEF Edited, Untouched, Stripped, Adopted, Orphaned, Finished, Emptied, SameState
<1>3. SUFFICES ASSUME NEW h \in Uid
      PROVE  /\ HomePresent(h)' /\ home'[h].owner # 0 =>
                  Present(home[h].owner)' /\ sandbox'[home'[h].owner].name = home'[h].name
             /\ HomePresent(h)' /\ home'[h].owner = 0 =>
                  ~home'[h].adoptable \/ retained'[h].state = "restoring"
             /\ home'[h].st \in {"terminating", "gone"} => home'[h].owner = 0 /\ ~home'[h].adoptable
             /\ home'[h].st # "none" /\ ~home'[h].adoptable => Recorded(h)' \/ Erased(h)'
  BY DEF HomesKept
<1>4. QED
  BY <1>1, <1>2, OwnersKept, UnlabelledOnRecord

\* A Sandbox keeps the home it is paired with until it is deleted.
LEMMA PairKept ==
  ASSUME CustodyInv, [Next]_vars, NEW u \in Uid, NEW h \in Uid, Pair(u, h), home[h].st # "none"
  PROVE  Pair(u, h)'
<1> TypeOK /\ CompleteCopies /\ HomesKept
  BY DEF CustodyInv, IInv, Bookkeeping
<1>1. SandboxMoved(u) /\ Edited(h)
  BY SandboxMoves, HomeMoves DEF Provided
<1>2. sandbox'[u].st # "none" /\ sandbox'[u].name = home'[h].name
  BY <1>1, HomesStay DEF SandboxMoved, Pair
<1>3. ASSUME sandbox'[u].st = "live"
      PROVE  OwnedHome(h, u)'
  <2>1. sandbox[u].st = "live" /\ HomePresent(h) /\ home[h].owner = u /\ u # 0
    BY <1>1, <1>3 DEF SandboxMoved, Pair, OwnedHome, Uid
  <2>2. ~Requested(h)
    BY <2>1, RequestedIsFree
  <2>3. ~Finished(h)
    BY <2>1 DEF Finished, HomesKept
  <2>4. ~Adopted(h) /\ ~Orphaned(h)
    BY <2>1 DEF Adopted, Orphaned
  <2>5. SameOwner(h) /\ SameState(h)
    BY <1>1, <2>2, <2>3, <2>4 DEF Edited, Untouched, Stripped, Emptied
  <2>6. QED
    BY <2>1, <2>5 DEF OwnedHome, HomePresent, SameOwner, SameState
<1>4. ASSUME sandbox'[u].st \in {"deleting", "gone"}
      PROVE  ~home'[h].adoptable
  <2>1. home'[h].adoptable => home[h].adoptable
    BY <1>1, HomesStay
  <2>2. CASE sandbox[u].st \in {"deleting", "gone"}
    BY <2>1, <2>2 DEF Pair
  <2>3. CASE sandbox[u].st = "live"
    <3>1. PICK p \in Procs : OrphanSandbox(p) /\ mem[p].sandbox = u
      BY <1>1, <1>4, <2>3 DEF SandboxMoved
    <3>2. HomePresent(h) /\ home[h].owner = u /\ u # 0
      BY <2>3 DEF Pair, OwnedHome, Uid
    <3>3. home[h].name = sandbox[u].name
      BY <3>2 DEF HomesKept
    <3>4. QED
      BY <2>1, <2>3, <3>1, <3>2, <3>3, StrippedBefore
  <2>4. sandbox[u].st \in {"none", "live", "deleting", "gone"}
    BY DEF TypeOK, Sandbox
  <2>5. QED
    BY <2>2, <2>3, <2>4 DEF Pair
<1>5. QED
  BY <1>2, <1>3, <1>4 DEF Pair

\* A pair of a Sandbox and a home that exist, as records and copies name it.
Mates(u, h) == u \in Uid /\ h \in Uid /\ Pair(u, h) /\ home[h].st # "none"

\* The pairs on record and in hand,
LEMMA MatesNow ==
  ASSUME CustodyInv
  PROVE  /\ \A i \in Uid : managed[i].phase = "bound" => Mates(managed[i].sandbox, managed[i].home)
         /\ \A p \in Procs : Paired(p) => Mates(mem[p].sandbox, mem[p].home)
<1> TypeOK /\ CompleteCopies /\ Provisioned /\ Pairs
  BY DEF CustodyInv, IInv, Bookkeeping
<1>1. \A i \in Uid : managed[i].phase = "bound" =>
        /\ managed[i].sandbox \in Uid0 /\ managed[i].sandbox # 0
        /\ managed[i].home \in Uid0 /\ managed[i].home # 0
  BY DEF TypeOK, Managed, CompleteCopies
<1>2. \A p \in Procs : Paired(p) =>
        /\ mem[p].sandbox \in Uid0 /\ mem[p].sandbox # 0
        /\ mem[p].home \in Uid0 /\ mem[p].home # 0
  BY DEF TypeOK, Memory, CompleteCopies, Paired
<1>3. QED
  BY <1>1, <1>2, UidFacts DEF Mates, Pairs, Provisioned

\* the one that a create puts on record,
LEMMA MatesRecorded ==
  ASSUME CustodyInv, [Next]_vars, NEW i \in Uid, managed'[i].phase = "bound"
  PROVE  Mates(managed'[i].sandbox, managed'[i].home)
<1> TypeOK /\ CompleteCopies
  BY DEF CustodyInv, IInv, Bookkeeping
<1>1. CASE managed'[i] = managed[i]
  BY <1>1, MatesNow
<1>2. ASSUME NEW p \in Procs, RecordClaim(p) \/ Forget(p)
      PROVE  managed'[i] = managed[i]
  BY <1>2 DEF RecordClaim, Forget, NoManaged, TypeOK
<1>3. ASSUME NEW p \in Procs, SaveBinding(p), managed'[i] # managed[i]
      PROVE  Mates(managed'[i].sandbox, managed'[i].home)
  <2>1. managed'[i] = [phase |-> "bound", sandbox |-> mem[p].sandbox, home |-> mem[p].home]
    BY <1>3 DEF SaveBinding, TypeOK
  <2>2. Paired(p)
    BY <1>3, AtMoves DEF SaveBinding, Paired
  <2>3. QED
    BY <2>1, <2>2, MatesNow
<1>4. QED
  BY <1>1, <1>2, <1>3, ManagedWriters DEF CustodyInv

\* What a command holds.
SameHand(p) ==
  mem'[p].phase = mem[p].phase /\ mem'[p].sandbox = mem[p].sandbox /\ mem'[p].home = mem[p].home

\* Most steps of a command keep what it holds.
LEMMA HandKept ==
  ASSUME TypeOK, NEW p \in Procs,
         \/ GetClaim(p) \/ CreateClaim(p) \/ WaitReady(p)
         \/ ModeStep(p) /\ ~HomeAgain(p)
         \/ RetainStep(p) /\ ~Forget(p)
  PROVE  SameHand(p) /\ pc[p] \notin ConnectPcs \cup {"bind"}
<1>0. mem[p] \in Memory
  BY DEF TypeOK
<1> USE DEF SameHand, ConnectPcs
<1>1. CASE GetClaim(p)
  <2>1. mem'[p] = [mem[p] EXCEPT !.claim = claim, !.ready = claimReady] /\ pc[p] = "obtain"
    BY <1>1, AtMoves, KeepMoves DEF GetClaim
  <2>2. QED
    BY <1>0, <2>1 DEF Memory
<1>2. CASE CreateClaim(p)
  <2>1. mem'[p] = [mem[p] EXCEPT !.claim = lastUid + 1] /\ pc[p] = "obtain"
    BY <1>2, AtMoves, KeepMoves DEF CreateClaim
  <2>2. QED
    BY <1>0, <2>1 DEF Memory
<1>3. CASE WaitReady(p)
  <2>1. mem'[p] = [mem[p] EXCEPT !.ready = FALSE] /\ pc[p] = "ready"
    BY <1>3, AtMoves, KeepMoves DEF WaitReady
  <2>2. QED
    BY <1>0, <2>1 DEF Memory
<1>4. CASE ReadClaim(p)
  <2>1. mem'[p] = [mem[p] EXCEPT !.claim = claim] /\ pc[p] = "claim"
    BY <1>4, AtMoves, KeepMoves DEF ReadClaim
  <2>2. QED
    BY <1>0, <2>1 DEF Memory
<1>5. CASE ReadSandbox(p)
  <2>1. /\ mem'[p] = [mem[p] EXCEPT !.found = Present(mem[p].sandbox), !.mode = sandbox[mem[p].sandbox].mode]
        /\ pc[p] = "sandbox"
    BY <1>5, AtMoves, KeepMoves DEF ReadSandbox
  <2>2. QED
    BY <1>0, <2>1 DEF Memory
<1>6. CASE ReadHome(p)
  <2>1. mem'[p] = [mem[p] EXCEPT !.link = conn[mem[p].sandbox]] /\ pc[p] = "home"
    BY <1>6, AtMoves, KeepMoves DEF ReadHome
  <2>2. QED
    BY <1>0, <2>1 DEF Memory
<1>7. CASE Disable(p) \/ WaitMode(p)
  BY <1>7, AtMoves DEF Disable, WaitMode
<1>8. CASE PatchMode(p)
  <2>1. mem'[p] = [mem[p] EXCEPT !.mode = "Running", !.found = FALSE] /\ pc[p] = "patch"
    BY <1>8, AtMoves, KeepMoves DEF PatchMode
  <2>2. QED
    BY <1>0, <2>1 DEF Memory
<1>9. CASE RetainStep(p) /\ ~Forget(p)
  BY <1>9, AtMoves DEF RetainStep, OrphanClaim, ClaimGone, Recheck, StripLabels, OrphanSandbox,
     SandboxGone, VerifyRetained, SaveRetained, RemoveMachine, RemoveFiles
<1>10. QED
  BY <1>1, <1>2, <1>3, <1>4, <1>5, <1>6, <1>7, <1>8, <1>9 DEF ModeStep

\* The steps by which a create comes by what it holds.
LEMMA CreateMates ==
  ASSUME CustodyInv, NEW p \in Procs, CreateStep(p), Paired(p)'
  PROVE  Mates(mem'[p].sandbox, mem'[p].home)
<1> TypeOK /\ CompleteCopies /\ mem[p] \in Memory
  BY DEF CustodyInv, IInv, Bookkeeping, TypeOK
<1>1. CASE GetClaim(p) \/ CreateClaim(p) \/ WaitReady(p)
  <2>1. SameHand(p) /\ pc[p] \notin ConnectPcs \cup {"bind"}
    BY <1>1, HandKept
  <2>2. pc'[p] # "bind"
    BY <1>1, AtMoves DEF GetClaim, CreateClaim, WaitReady
  <2>3. QED
    BY <2>1, <2>2, MatesNow DEF Paired, SameHand
<1>2. CASE CheckOrigin(p)
  <2>1. mem'[p] = mem[p] /\ pc[p] = "origin" /\ pc'[p] = "select"
    BY <1>2, AtMoves DEF CheckOrigin
  <2>2. QED
    BY <2>1 DEF CompleteCopies, Paired
<1>3. CASE SelectSaved(p)
  <2>1. PICK i \in Uid0, rekey \in BOOLEAN : Keep(p, [Copy(mem[p], i) EXCEPT !.rekey = rekey])
    BY <1>3 DEF SelectSaved
  <2>2. mem'[p] = [Copy(mem[p], i) EXCEPT !.rekey = rekey] /\ pc'[p] = "obtain"
    BY <1>3, <2>1, AtMoves, KeepMoves DEF SelectSaved
  <2>3. CASE i = 0
    BY <2>2, <2>3 DEF Copy, Memory, Paired
  <2>4. CASE i # 0
    <3>1. i \in Uid
      BY <2>4, UidFacts
    <3>2. /\ mem'[p].phase = managed[i].phase
          /\ mem'[p].sandbox = managed[i].sandbox /\ mem'[p].home = managed[i].home
      BY <2>2, <2>4 DEF Copy, Memory
    <3>3. QED
      BY <2>2, <3>1, <3>2, MatesNow DEF Paired
  <2>5. QED
    BY <2>3, <2>4
<1>4. CASE RecordClaim(p)
  <2>1. pc[p] = "record" /\ pc'[p] = "ready"
    BY <1>4, AtMoves DEF RecordClaim
  <2>2. CASE mem[p].rec # 0
    BY <1>4, <2>1, <2>2, MatesNow DEF RecordClaim, Paired, ConnectPcs
  <2>3. CASE mem[p].rec = 0
    <3>1. mem'[p] = [mem[p] EXCEPT !.rec = mem[p].claim, !.phase = "claimed"]
      BY <1>4, <2>3, KeepMoves DEF RecordClaim
    <3>2. QED
      BY <2>1, <3>1 DEF Memory, Paired
  <2>4. QED
    BY <2>2, <2>3
<1>5. CASE ResolveSandbox(p)
  <2>1. PICK u \in Uid : /\ mem[p].phase = "bound" => u = mem[p].sandbox
                         /\ Keep(p, [mem[p] EXCEPT !.sandbox = u])
    BY <1>5 DEF ResolveSandbox, Named
  <2>2. /\ mem'[p] = [mem[p] EXCEPT !.sandbox = u]
        /\ pc[p] = "resolve" /\ pc'[p] = "resolveHome"
    BY <1>5, <2>1, AtMoves, KeepMoves DEF ResolveSandbox
  <2>3. QED
    BY <2>1, <2>2, MatesNow DEF Paired, ConnectPcs, Memory
<1>6. CASE ResolveHome(p)
  <2> DEFINE u == mem[p].sandbox
  <2>1. PICK h \in Uid : /\ OwnedHome(h, u) /\ home[h].name = sandbox[u].name
                         /\ Keep(p, [mem[p] EXCEPT !.home = h])
    BY <1>6 DEF ResolveHome
  <2>2. mem'[p].sandbox = u /\ mem'[p].home = h
    BY <2>1, KeepMoves DEF Memory
  <2>3. u # 0
    BY <1>6, AtMoves DEF ResolveHome, CompleteCopies
  <2>4. HomePresent(h) /\ home[h].owner = u
    BY <2>1 DEF OwnedHome
  <2>5. Present(u)
    BY <2>3, <2>4 DEF CustodyInv, HomesKept
  <2>6. sandbox[u].st = "deleting" => ~home[h].adoptable
    BY <2>1, <2>4, <2>5 DEF CustodyInv, StrippedFirst, Present
  <2>7. Pair(u, h)
    BY <2>1, <2>5, <2>6 DEF Pair, Present
  <2>8. QED
    BY <2>2, <2>4, <2>5, <2>7 DEF Mates, Present, HomePresent
<1>7. CASE SaveBinding(p)
  BY <1>7, AtMoves DEF SaveBinding, Paired, ConnectPcs
<1>8. QED
  BY <1>1, <1>2, <1>3, <1>4, <1>5, <1>6, <1>7 DEF CreateStep

\* and the other steps do not change it.
LEMMA MatesTaken ==
  ASSUME CustodyInv, [Next]_vars, NEW p \in Procs, Start(p) \/ Step(p) \/ Interrupt(p), Paired(p)'
  PROVE  Mates(mem'[p].sandbox, mem'[p].home)
<1> TypeOK /\ CompleteCopies
  BY DEF CustodyInv, IInv, Bookkeeping
<1>1. CompleteCopies'
  BY BookkeepingKept DEF CustodyInv, Bookkeeping
<1>2. pc'[p] \notin {"idle", "origin", "select", "lock"} \cup ErasePcs
  BY <1>1 DEF Paired, CompleteCopies, ErasePcs
<1>3. CASE CreateStep(p)
  BY <1>3, CreateMates
<1>4. CASE Start(p)
  <2>1. ~StartCreate(p) /\ ~StartFromRetained(p) /\ ~StartConnect(p) /\ ~StartDisconnect(p)
    BY <1>2, AtMoves DEF StartCreate, StartFromRetained, StartConnect, StartDisconnect, Paired,
       ConnectPcs
  <2>2. PICK cmd \in Commands : StartFromRecord(p, cmd)
    BY <1>4, <2>1 DEF Start
  <2>3. PICK i \in Uid : managed[i].phase = "bound" /\ Keep(p, Copy([NoMemory EXCEPT !.cmd = cmd], i))
    BY <2>2 DEF StartFromRecord
  <2>4. mem'[p] = Copy([NoMemory EXCEPT !.cmd = cmd], i) /\ [NoMemory EXCEPT !.cmd = cmd] \in Memory
    BY <2>3, KeepMoves, EmptyMemory
  <2>5. mem'[p].sandbox = managed[i].sandbox /\ mem'[p].home = managed[i].home
    BY <2>4 DEF Copy, Memory, Uid
  <2>6. QED
    BY <2>3, <2>5, MatesNow
<1>5. CASE ConnectStep(p) \/ EraseStep(p)
  <2>1. pc'[p] \in ConnectPcs \cup ErasePcs \cup {"idle"}
    BY <1>5, StageMoves
  <2>2. QED
    BY <1>2, <2>1 DEF Paired, ConnectPcs, ErasePcs
<1>6. CASE (ModeStep(p) /\ ~HomeAgain(p)) \/ (RetainStep(p) /\ ~Forget(p))
  <2>1. SameHand(p) /\ pc[p] \notin ConnectPcs \cup {"bind"}
    BY <1>6, HandKept
  <2>2. pc'[p] # "bind"
    BY <1>6, AtMoves DEF ModeStep, ReadClaim, ReadSandbox, ReadHome, Disable, PatchMode, WaitMode,
       RetainStep, OrphanClaim, ClaimGone, Recheck, StripLabels, OrphanSandbox, SandboxGone,
       VerifyRetained, SaveRetained, RemoveMachine, RemoveFiles
  <2>3. QED
    BY <2>1, <2>2, MatesNow DEF Paired, SameHand
<1>7. CASE HomeAgain(p)
  <2>1. CASE mem[p].cmd = "resume"
    BY <1>7, <2>1, AtMoves DEF HomeAgain, Paired, ConnectPcs
  <2>2. CASE mem[p].cmd # "resume"
    BY <1>2, <1>7, <2>2, ReturnMoves DEF HomeAgain
  <2>3. QED
    BY <2>1, <2>2
<1>8. CASE Forget(p)
  BY <1>2, <1>8, AtMoves DEF Forget
<1>9. CASE Interrupt(p)
  BY <1>2, <1>9, ReturnMoves DEF Interrupt
<1>10. QED
  BY <1>3, <1>4, <1>5, <1>6, <1>7, <1>8, <1>9 DEF Step

\* A copy of a bound record names a home that is on record when it is made.
LEMMA CopiesOnRecord ==
  ASSUME CustodyInv, [Next]_vars, NEW p \in Procs, Start(p) \/ Step(p) \/ Interrupt(p),
         mem'[p].phase = "bound"
  PROVE  Recorded(mem[p].home)' \/ Erased(mem[p].home)'
<1> TypeOK /\ CompleteCopies /\ mem[p] \in Memory
  BY DEF CustodyInv, IInv, Bookkeeping, TypeOK
<1> DEFINE h == mem'[p].home
<1>1. h \in Uid
  <2>1. TypeOK' /\ CompleteCopies'
    BY NextTypes, BookkeepingKept DEF CustodyInv, IInv, Bookkeeping
  <2>2. h \in Uid0 /\ h # 0
    BY <2>1 DEF TypeOK, Memory, CompleteCopies
  <2>3. QED
    BY <2>2, UidFacts
<1>2. ASSUME NEW i \in Uid, managed[i].phase = "bound", h = managed[i].home
      PROVE  Recorded(mem[p].home)' \/ Erased(mem[p].home)'
  <2>1. Recorded(h)
    BY <1>2 DEF Recorded
  <2>2. QED
    BY <1>1, <2>1, OnRecordKept DEF Recorded, Erased
<1>3. ASSUME mem[p].phase = "bound", h = mem[p].home
      PROVE  Recorded(mem[p].home)' \/ Erased(mem[p].home)'
  <2>1. Recorded(h) \/ Erased(h)
    BY <1>3 DEF CustodyInv, Pairs
  <2>2. QED
    BY <1>1, <2>1, OnRecordKept DEF Recorded, Erased
<1>4. CASE Start(p)
  <2>1. ~StartCreate(p) /\ ~StartFromRetained(p) /\ ~StartConnect(p) /\ ~StartDisconnect(p)
    <3>1. ASSUME StartCreate(p) PROVE FALSE
      <4>1. mem'[p] = [NoMemory EXCEPT !.cmd = "create"]
        BY <3>1, KeepMoves DEF StartCreate
      <4>2. QED
        BY <4>1 DEF NoMemory
    <3>2. ASSUME StartFromRetained(p) PROVE FALSE
      <4>1. PICK k \in Uid : Keep(p, [NoMemory EXCEPT !.cmd = "delete", !.home = k])
        BY <3>2 DEF StartFromRetained, RetainedFor
      <4>2. mem'[p] = [NoMemory EXCEPT !.cmd = "delete", !.home = k]
        BY <4>1, KeepMoves
      <4>3. QED
        BY <4>2 DEF NoMemory
    <3>3. ASSUME StartConnect(p) PROVE FALSE
      <4>1. PICK name \in SandboxNames : Keep(p, [NoMemory EXCEPT !.cmd = "connect", !.name = name])
        BY <3>3 DEF StartConnect
      <4>2. mem'[p] = [NoMemory EXCEPT !.cmd = "connect", !.name = name]
        BY <4>1, KeepMoves
      <4>3. QED
        BY <4>2 DEF NoMemory
    <3>4. ASSUME StartDisconnect(p) PROVE FALSE
      <4>1. PICK u \in Uid : Keep(p, [NoMemory EXCEPT !.cmd = "disconnect", !.sandbox = u,
                                                      !.link = conn[u]])
        BY <3>4 DEF StartDisconnect
      <4>2. mem'[p] = [NoMemory EXCEPT !.cmd = "disconnect", !.sandbox = u, !.link = conn[u]]
        BY <4>1, KeepMoves
      <4>3. QED
        BY <4>2 DEF NoMemory
    <3>5. QED
      BY <3>1, <3>2, <3>3, <3>4
  <2>2. PICK cmd \in Commands : StartFromRecord(p, cmd)
    BY <1>4, <2>1 DEF Start
  <2>3. PICK i \in Uid : managed[i].phase = "bound" /\ Keep(p, Copy([NoMemory EXCEPT !.cmd = cmd], i))
    BY <2>2 DEF StartFromRecord
  <2>4. mem'[p] = Copy([NoMemory EXCEPT !.cmd = cmd], i) /\ [NoMemory EXCEPT !.cmd = cmd] \in Memory
    BY <2>3, KeepMoves, EmptyMemory
  <2>5. h = managed[i].home
    BY <2>4 DEF Copy, Memory, Uid
  <2>6. QED
    BY <1>2, <2>3, <2>5
<1>5. CASE Quiet(p) \/ Returned(p)
  BY <1>3, <1>5 DEF Quiet, SameCopy, Returned, NoMemory
<1>6. CASE SelectSaved(p)
  <2>1. PICK i \in Uid0, rekey \in BOOLEAN : Keep(p, [Copy(mem[p], i) EXCEPT !.rekey = rekey])
    BY <1>6 DEF SelectSaved
  <2>2. mem'[p] = [Copy(mem[p], i) EXCEPT !.rekey = rekey]
    BY <2>1, KeepMoves
  <2>3. i # 0
    BY <2>2 DEF Copy, Memory
  <2>4. managed[i].phase = "bound" /\ h = managed[i].home
    BY <2>2, <2>3 DEF Copy, Memory
  <2>5. QED
    BY <1>2, <2>3, <2>4, UidFacts
<1>7. CASE GetClaim(p) \/ CreateClaim(p) \/ ReadClaim(p)
  <2>1. SameHand(p)
    BY <1>7, HandKept, AtMoves DEF ModeStep, HomeAgain, ReadClaim
  <2>2. QED
    BY <1>3, <2>1 DEF SameHand
<1>8. CASE RecordClaim(p)
  <2>1. CASE mem[p].rec # 0
    BY <1>3, <1>8, <2>1 DEF RecordClaim
  <2>2. CASE mem[p].rec = 0
    <3>1. mem'[p] = [mem[p] EXCEPT !.rec = mem[p].claim, !.phase = "claimed"]
      BY <1>8, <2>2, KeepMoves DEF RecordClaim
    <3>2. QED
      BY <3>1 DEF Memory
  <2>3. QED
    BY <2>1, <2>2
<1>9. CASE ResolveHome(p)
  <2>1. PICK k \in Uid : /\ mem[p].phase = "bound" => k = mem[p].home
                         /\ Keep(p, [mem[p] EXCEPT !.home = k])
    BY <1>9 DEF ResolveHome
  <2>2. mem'[p] = [mem[p] EXCEPT !.home = k]
    BY <2>1, KeepMoves
  <2>3. QED
    BY <1>3, <2>1, <2>2 DEF Memory
<1>10. CASE SaveBinding(p)
  <2>1. mem'[p] = [mem[p] EXCEPT !.phase = "bound", !.rekey = FALSE] /\ pc[p] = "bind"
    BY <1>10, AtMoves, KeepMoves DEF SaveBinding
  <2>2. h = mem[p].home
    BY <2>1 DEF Memory
  <2>3. CASE mem[p].phase = "bound"
    BY <1>3, <2>2, <2>3
  <2>4. CASE mem[p].phase # "bound"
    <3>1. mem[p].rec \in Uid
      BY <2>1, UidFacts DEF CompleteCopies, Memory
    <3>2. managed'[mem[p].rec] = [phase |-> "bound", sandbox |-> mem[p].sandbox, home |-> mem[p].home]
      BY <1>10, <2>4, <3>1 DEF SaveBinding, TypeOK
    <3>3. managed'[mem[p].rec].phase = "bound" /\ managed'[mem[p].rec].home = h
      BY <2>2, <3>2
    <3>4. QED
      BY <3>1, <3>3 DEF Recorded
  <2>5. QED
    BY <2>3, <2>4
<1>11. CASE Forget(p)
  <2>1. mem'[p] = [NoMemory EXCEPT !.cmd = mem[p].cmd, !.home = mem[p].home]
    BY <1>11, KeepMoves DEF Forget
  <2>2. QED
    BY <2>1 DEF NoMemory
<1>12. CASE Step(p) \/ Interrupt(p)
  BY <1>5, <1>6, <1>7, <1>8, <1>9, <1>10, <1>11, <1>12, StepKinds
<1>13. QED
  BY <1>4, <1>12

\* Nothing but a step of its own changes a command.
LEMMA Movers ==
  ASSUME TypeOK, CompleteCopies, [Next]_vars, NEW q \in Procs
  PROVE  \/ Start(q) \/ Step(q) \/ Interrupt(q)
         \/ mem'[q] = mem[q] /\ pc'[q] = pc[q]
<1>1. ASSUME NEW p \in Procs, Start(p) \/ Step(p) \/ Interrupt(p), p # q
      PROVE  mem'[q] = mem[q] /\ pc'[q] = pc[q]
  BY <1>1, OthersKept DEF OthersKeep
<1>2. CASE Controllers \/ (\E h \in Uid : LoseVolume(h) \/ PodFails(h)) \/ UNCHANGED vars
  BY <1>2, ClusterMoving DEF ClusterMoves, vars
<1>3. QED
  BY <1>1, <1>2 DEF Next

\* Records and copies go on naming pairs.
LEMMA PairsKept ==
  ASSUME CustodyInv, [Next]_vars
  PROVE  Pairs'
<1> TypeOK /\ CompleteCopies
  BY DEF CustodyInv, IInv, Bookkeeping
<1>1. \A u, h : Mates(u, h) => Pair(u, h)'
  BY PairKept DEF Mates
<1>2. \A i \in Uid : managed'[i].phase = "bound" => Pair(managed[i].sandbox, managed[i].home)'
  BY <1>1, MatesRecorded
<1>3. ASSUME NEW q \in Procs, Paired(q)'
      PROVE  Pair(mem[q].sandbox, mem[q].home)'
  <2>1. CASE mem'[q] = mem[q] /\ pc'[q] = pc[q]
    <3>1. Mates(mem'[q].sandbox, mem'[q].home)
      BY <1>3, <2>1, MatesNow DEF Paired
    <3>2. QED
      BY <1>1, <3>1
  <2>2. CASE Start(q) \/ Step(q) \/ Interrupt(q)
    BY <1>1, <1>3, <2>2, MatesTaken
  <2>3. QED
    BY <2>1, <2>2, Movers
<1>4. ASSUME NEW q \in Procs, mem'[q].phase = "bound"
      PROVE  Recorded(mem[q].home)' \/ Erased(mem[q].home)'
  <2>1. CASE mem'[q] = mem[q] /\ pc'[q] = pc[q]
    <3>1. mem[q].home \in Uid0 /\ mem[q].home # 0
      BY <1>4, <2>1 DEF TypeOK, Memory, CompleteCopies
    <3>2. Recorded(mem[q].home) \/ Erased(mem[q].home)
      BY <1>4, <2>1 DEF CustodyInv, Pairs
    <3>3. QED
      BY <2>1, <3>1, <3>2, OnRecordKept, UidFacts DEF Recorded, Erased
  <2>2. CASE Start(q) \/ Step(q) \/ Interrupt(q)
    BY <1>4, <2>2, CopiesOnRecord
  <2>3. QED
    BY <2>1, <2>2, Movers
<1>5. QED
  BY <1>2, <1>3, <1>4 DEF Pairs

StripPcs == {"orphanSandbox", "sandboxGone", "verify", "retain"}

\* The steps that lead to where the Sandbox is known to be gone or its home stripped.
LEMMA StripEntered ==
  ASSUME TypeOK, CompleteCopies, NEW p \in Procs, Start(p) \/ Step(p) \/ Interrupt(p),
         pc'[p] \in StripPcs \cup {"home"}
  PROVE  \/ ReadSandbox(p) /\ pc[p] = "sandbox" /\ pc'[p] = "home"
         \/ ReadHome(p) /\ pc[p] = "home" /\ ~mem[p].found /\ pc'[p] = "verify"
         \/ StripLabels(p) /\ pc[p] = "strip" /\ pc'[p] = "orphanSandbox"
         \/ /\ OrphanSandbox(p) \/ SandboxGone(p) \/ VerifyRetained(p)
            /\ pc[p] \in StripPcs /\ pc'[p] \in StripPcs
<1> USE DEF StripPcs
<1>1. CASE Start(p) \/ CreateStep(p) \/ ConnectStep(p) \/ EraseStep(p)
  BY <1>1, StageMoves DEF CreatePcs, ConnectPcs, ErasePcs
<1>2. CASE Interrupt(p) \/ HomeAgain(p)
  BY <1>2, ReturnMoves, AtMoves DEF Interrupt, HomeAgain
<1>3. CASE ModeStep(p) /\ ~HomeAgain(p)
  <2>1. CASE ReadHome(p)
    <3>1. pc[p] = "home" /\ pc'[p] = CASE ~mem[p].found -> "verify"
                     [] mem[p].found /\ mem[p].cmd = "resume" -> "patch"
                     [] mem[p].found /\ mem[p].cmd # "resume" -> "disable"
      BY <2>1, AtMoves DEF ReadHome
    <3>2. mem[p].found \in BOOLEAN
      BY DEF TypeOK, Memory
    <3>3. QED
      BY <2>1, <3>1, <3>2
  <2>2. CASE WaitMode(p)
    <3>1. pc'[p] = CASE mem[p].cmd # "delete" -> "again"
                     [] mem[p].cmd = "delete" /\ mem[p].claim # 0 -> "orphanClaim"
                     [] mem[p].cmd = "delete" /\ mem[p].claim = 0 -> "strip"
      BY <2>2, AtMoves DEF WaitMode
    <3>2. QED
      BY <3>1
  <2>3. QED
    BY <1>3, <2>1, <2>2, AtMoves DEF ModeStep, ReadClaim, ReadSandbox, Disable, PatchMode
<1>4. CASE RetainStep(p)
  BY <1>4, AtMoves DEF RetainStep, OrphanClaim, ClaimGone, Recheck, StripLabels, OrphanSandbox,
     SandboxGone, VerifyRetained, SaveRetained, RemoveMachine, RemoveFiles, Forget
<1>5. QED
  BY <1>1, <1>2, <1>3, <1>4 DEF Step

\* What a delete that takes the Sandbox apart has found stays true of the Sandbox and home.
LEMMA StrippingKept ==
  ASSUME CustodyInv, [Next]_vars
  PROVE  Stripping'
<1> TypeOK /\ CompleteCopies /\ Provisioned /\ Stripping
  BY DEF CustodyInv, IInv, Bookkeeping
<1> USE DEF StripPcs
<1>0. ASSUME NEW q \in Procs, pc[q] \in StripPcs \cup {"sandbox", "home", "strip"}
      PROVE  /\ mem[q].sandbox \in Uid /\ mem[q].home \in Uid /\ home[mem[q].home].st # "none"
             /\ Pair(mem[q].sandbox, mem[q].home)
             /\ ~home[mem[q].home].adoptable => ~home'[mem[q].home].adoptable
  <2>1. Paired(q)
    BY <1>0 DEF CompleteCopies, Paired, ModePcs, ReleasePcs, ConnectPcs
  <2>2. Mates(mem[q].sandbox, mem[q].home)
    BY <2>1, MatesNow
  <2>3. QED
    BY <2>2, HomeMoves, HomesStay DEF Mates, Provided
<1>1. ASSUME NEW q \in Procs, pc'[q] = "home", ~mem'[q].found
      PROVE  sandbox'[mem'[q].sandbox].st = "gone"
  <2>1. CASE mem'[q] = mem[q] /\ pc'[q] = pc[q]
    BY <1>0, <1>1, <2>1, SandboxMoves DEF Stripping, SandboxMoved
  <2>2. CASE ReadSandbox(q) /\ pc[q] = "sandbox"
    <3>1. /\ mem'[q] = [mem[q] EXCEPT !.found = Present(mem[q].sandbox), !.mode = sandbox[mem[q].sandbox].mode]
          /\ UNCHANGED sandbox
      BY <2>2, KeepMoves DEF ReadSandbox, cluster
    <3>2. mem'[q].sandbox = mem[q].sandbox /\ (mem'[q].found <=> Present(mem[q].sandbox))
      BY <3>1 DEF TypeOK, Memory
    <3>3. sandbox[mem[q].sandbox].st # "none" /\ ~Present(mem[q].sandbox)
      BY <1>0, <1>1, <2>2, <3>2 DEF Pair
    <3>4. QED
      BY <1>0, <2>2, <3>1, <3>2, <3>3 DEF Present, TypeOK, Sandbox
  <2>3. QED
    BY <1>1, <2>1, <2>2, Movers, StripEntered
<1>2. ASSUME NEW q \in Procs, pc'[q] \in StripPcs
      PROVE  ~home'[mem'[q].home].adoptable
  <2>1. CASE mem'[q] = mem[q] /\ pc'[q] = pc[q]
    BY <1>0, <1>2, <2>1 DEF Stripping
  <2>2. CASE OrphanSandbox(q) \/ SandboxGone(q) \/ VerifyRetained(q)
    BY <1>2, <2>2, <1>0, AtMoves DEF Stripping, OrphanSandbox, SandboxGone, VerifyRetained
  <2>3. CASE ReadHome(q) /\ pc[q] = "home" /\ ~mem[q].found
    <3>1. mem'[q].home = mem[q].home
      BY <2>3, HandKept, AtMoves DEF SameHand, ModeStep, HomeAgain
    <3>2. ~home[mem[q].home].adoptable
      BY <1>0, <2>3 DEF Stripping, Pair
    <3>3. QED
      BY <1>0, <2>3, <3>1, <3>2
  <2>4. CASE StripLabels(q) /\ pc[q] = "strip"
    <3>1. /\ mem' = mem
          /\ home' = [home EXCEPT ![mem[q].home] = [home[mem[q].home] EXCEPT !.adoptable = FALSE]]
      BY <2>4 DEF StripLabels
    <3>2. home[mem[q].home] \in Home /\ home'[mem[q].home] = [home[mem[q].home] EXCEPT !.adoptable = FALSE]
      BY <1>0, <2>4, <3>1 DEF TypeOK
    <3>3. ~home'[mem[q].home].adoptable
      BY <3>2 DEF Home
    <3>4. QED
      BY <3>1, <3>3
  <2>5. QED
    BY <1>2, <2>1, <2>2, <2>3, <2>4, Movers, StripEntered
<1>3. QED
  BY <1>1, <1>2 DEF Stripping

\* What Erasing says of a command that holds m and is at here.
Doomed(m, here) ==
  here \in ErasePcs \ {"reselect"} =>
    /\ retained[m.home].state # "none"
    /\ m.state # "restoring" => retained[m.home].state # "restoring"
    /\ here = "mark" => m.state = "available"
    /\ /\ here \in {"inspectAllocation", "inspectMounts", "inspectVolume", "mark", "erase"}
       /\ m.state # "restoring" /\ HomePresent(m.home)
       => home[m.home].owner = 0 /\ ~home[m.home].adoptable

\* While a command is in the deletion stage, the lock keeps others out of it, and a home
\* that is nobody's stays so.
LEMMA DoomedStays ==
  ASSUME CustodyInv, [Next]_vars, NEW q \in Procs, pc[q] \in ErasePcs, pc'[q] \in ErasePcs,
         NEW h \in Uid, home[h].st # "none", retained[h].state # "none"
  PROVE  /\ retained'[h].state # "none"
         /\ retained[h].state # "restoring" => retained'[h].state # "restoring"
         /\ home'[h].st \in {"live", "terminating"} => HomePresent(h)
         /\ home[h].owner = 0 /\ ~home[h].adoptable => home'[h].owner = 0 /\ ~home'[h].adoptable
<1> TypeOK /\ CompleteCopies
  BY DEF CustodyInv, IInv, Bookkeeping
<1>1. ASSUME NEW p \in Procs, DropRetained(p)
      PROVE  FALSE
  <2>1. pc[p] = "drop" /\ pc'[p] = "idle"
    BY <1>1, ReturnMoves DEF DropRetained
  <2>2. p = q
    BY <2>1 DEF CustodyInv, IInv, Exclusive, ErasePcs
  <2>3. QED
    BY <2>1, <2>2 DEF ErasePcs
<1>2. ASSUME NEW p \in Procs, SaveRetained(p) \/ MarkDeleting(p)
      PROVE  retained'[h] = retained[h] \/ retained'[h].state \in {"available", "deleting"}
  <2>1. \/ retained'[h] = retained[h]
        \/ retained'[h] = [state |-> "available", origin |-> mem[p].sandbox, volume |-> FALSE]
        \/ retained'[h] = [state |-> "deleting", origin |-> mem[p].sandbox, volume |-> mem[p].volume]
    BY <1>2 DEF SaveRetained, MarkDeleting, TypeOK
  <2>2. QED
    BY <2>1
<1>3. retained'[h] = retained[h] \/ retained'[h].state \in {"available", "deleting"}
  BY <1>1, <1>2, RetainedWriters
<1>4. Edited(h)
  BY HomeMoves DEF Provided
<1>5. ASSUME home[h].owner = 0, ~home[h].adoptable
      PROVE  home'[h].owner = 0 /\ ~home'[h].adoptable
  <2>1. home[h].owner = 0 /\ ~home[h].adoptable /\ ~home'[h].adoptable
    BY <1>4, <1>5, HomesStay
  <2>2. QED
    BY <1>4, <2>1 DEF Edited, Untouched, Stripped, Requested, Adopted, Orphaned, Finished, Emptied,
       SameOwner
<1>6. QED
  BY <1>3, <1>4, <1>5, HomesStay DEF HomePresent

\* What a command of the deletion stage finds out it may rely on.
LEMMA DoomedFound ==
  ASSUME CustodyInv, [Next]_vars, NEW q \in Procs, EraseStep(q)
  PROVE  Doomed(mem[q], pc[q])'
<1> TypeOK /\ CompleteCopies /\ Provisioned /\ mem[q] \in Memory /\ Erasing /\ HomesKept
  BY DEF CustodyInv, IInv, Bookkeeping, TypeOK
<1> DEFINE h == mem[q].home
<1>0. /\ pc[q] \in ErasePcs => h \in Uid /\ home[h].st # "none"
      /\ pc[q] \in ErasePcs \ {"reselect"} => Doomed(mem[q], pc[q])
  BY HomeInHand DEF Erasing, Doomed
<1>1. CASE LockRetained(q)
  BY <1>1, AtMoves DEF LockRetained, Doomed
<1>2. CASE DropRetained(q)
  BY <1>2, ReturnMoves DEF DropRetained, Doomed, ErasePcs
<1>3. CASE Reselect(q)
  <2> DEFINE r == retained[h]
  <2>1. /\ mem'[q] = [mem[q] EXCEPT !.state = r.state, !.sandbox = r.origin, !.volume = r.volume]
        /\ r.state # "none" /\ UNCHANGED retained
        /\ pc'[q] = IF r.state = "available" THEN "inspectHome" ELSE "pending"
    BY <1>3, AtMoves, KeepMoves DEF Reselect, records
  <2>2. mem'[q].home = h /\ mem'[q].state = r.state
    BY <2>1 DEF Memory
  <2>3. QED
    BY <2>1, <2>2 DEF Doomed
<1>4. CASE EraseStep(q) /\ ~LockRetained(q) /\ ~DropRetained(q) /\ ~Reselect(q)
  <2>1. pc[q] \in ErasePcs \ {"reselect"} /\ pc'[q] \in ErasePcs \ {"reselect"}
    BY <1>4, AtMoves DEF EraseStep, CheckPending, InspectHome, InspectAllocation, InspectMounts,
       InspectVolume, MarkDeleting, DeletePVC, StorageGone, ErasePcs
  <2>2. h \in Uid /\ home[h].st # "none" /\ Doomed(mem[q], pc[q]) /\ retained[h].state # "none"
    BY <1>0, <2>1 DEF Doomed
  <2>3. /\ retained'[h].state # "none"
        /\ retained[h].state # "restoring" => retained'[h].state # "restoring"
        /\ home'[h].st \in {"live", "terminating"} => HomePresent(h)
        /\ home[h].owner = 0 /\ ~home[h].adoptable => home'[h].owner = 0 /\ ~home'[h].adoptable
    <3>1. pc[q] \in ErasePcs /\ pc'[q] \in ErasePcs
      BY <2>1
    <3>2. QED
      BY <2>2, <3>1, DoomedStays
  <2>4. ASSUME mem'[q].home = h, mem'[q].state = mem[q].state, pc'[q] # "mark",
               \/ pc'[q] \notin {"inspectAllocation", "inspectMounts", "inspectVolume", "mark", "erase"}
               \/ pc[q] \in {"inspectAllocation", "inspectMounts", "inspectVolume", "mark", "erase"}
               \/ ~HomePresent(h)
               \/ home[h].owner = 0
        PROVE  Doomed(mem[q], pc[q])'
    <3>1. mem[q].state # "restoring" => retained[h].state # "restoring"
      BY <2>1, <2>2 DEF Doomed
    <3>2. CASE mem[q].state # "restoring" /\ HomePresent(h) /\ home[h].owner = 0
      <4>1. ~home[h].adoptable
        BY <2>2, <3>1, <3>2 DEF HomesKept
      <4>2. QED
        BY <2>3, <2>4, <3>1, <3>2, <4>1 DEF Doomed, HomePresent
    <3>3. CASE ~(mem[q].state # "restoring" /\ HomePresent(h) /\ home[h].owner = 0)
      BY <2>1, <2>2, <2>3, <2>4, <3>1, <3>3 DEF Doomed, HomePresent
    <3>4. QED
      BY <3>2, <3>3
  <2>5. CASE CheckPending(q)
    <3>1. pc[q] = "pending" /\ mem' = mem /\ pc'[q] = IF HomePresent(h) THEN "inspectHome" ELSE "erase"
      BY <2>5, AtMoves DEF CheckPending
    <3>2. QED
      BY <2>4, <3>1
  <2>6. CASE InspectHome(q) \/ InspectAllocation(q) \/ InspectMounts(q) \/ DeletePVC(q) \/ StorageGone(q)
    BY <2>4, <2>6, AtMoves DEF InspectHome, InspectAllocation, InspectMounts, DeletePVC, StorageGone
  <2>7. CASE InspectVolume(q)
    <3>1. /\ pc[q] = "inspectVolume" /\ UNCHANGED retained /\ UNCHANGED home
          /\ mem'[q].home = h /\ mem'[q].state = mem[q].state
      <4>1. \/ mem'[q] = [mem[q] EXCEPT !.volume = (home[h].pv = "bound")]
            \/ mem'[q] = mem[q]
        BY <2>7, KeepMoves DEF InspectVolume
      <4>2. mem'[q].home = h /\ mem'[q].state = mem[q].state
        BY <4>1 DEF Memory
      <4>3. QED
        BY <2>7, <4>2, AtMoves DEF InspectVolume, records, cluster
    <3>2. \/ mem[q].state = "available" /\ pc'[q] = "mark"
          \/ mem[q].state = "deleting" /\ pc'[q] = "erase"
      BY <2>7, AtMoves DEF InspectVolume
    <3>3. QED
      BY <2>2, <2>3, <3>1, <3>2 DEF Doomed, ErasePcs, HomePresent
  <2>8. CASE MarkDeleting(q)
    <3>1. /\ pc[q] = "mark" /\ pc'[q] = "erase"
          /\ mem'[q] = [mem[q] EXCEPT !.state = "deleting"]
      BY <2>8, AtMoves, KeepMoves DEF MarkDeleting
    <3>2. mem'[q].home = h /\ mem'[q].state = "deleting" /\ mem[q].state = "available"
      BY <2>2, <3>1 DEF Memory, Doomed, ErasePcs
    <3>3. QED
      BY <2>2, <2>3, <3>1, <3>2 DEF Doomed, ErasePcs, HomePresent
  <2>9. QED
    BY <1>4, <2>5, <2>6, <2>7, <2>8 DEF EraseStep
<1>5. QED
  BY <1>1, <1>2, <1>3, <1>4

\* Only its own steps bring a command into and through the deletion stage.
LEMMA EraseEntered ==
  ASSUME TypeOK, CompleteCopies, HandedOver, NEW q \in Procs, Start(q) \/ Step(q) \/ Interrupt(q),
         pc'[q] \in ErasePcs
  PROVE  EraseStep(q)
<1>1. CASE Start(q) \/ CreateStep(q) \/ ConnectStep(q) \/ Interrupt(q)
  BY <1>1, StageMoves, ReturnMoves DEF Interrupt, CreatePcs, ConnectPcs, ErasePcs
<1>2. CASE ModeStep(q)
  <2>1. CASE HomeAgain(q)
    BY <2>1, ReturnMoves, AtMoves DEF HomeAgain, ErasePcs
  <2>2. CASE ReadHome(q)
    <3>1. pc'[q] = CASE ~mem[q].found -> "verify"
                   [] mem[q].found /\ mem[q].cmd = "resume" -> "patch"
                   [] mem[q].found /\ mem[q].cmd # "resume" -> "disable"
      BY <2>2, AtMoves DEF ReadHome
    <3>2. mem[q].found \in BOOLEAN
      BY DEF TypeOK, Memory
    <3>3. QED
      BY <3>1, <3>2 DEF ErasePcs
  <2>3. CASE WaitMode(q)
    <3>1. pc'[q] = CASE mem[q].cmd # "delete" -> "again"
                   [] mem[q].cmd = "delete" /\ mem[q].claim # 0 -> "orphanClaim"
                   [] mem[q].cmd = "delete" /\ mem[q].claim = 0 -> "strip"
      BY <2>3, AtMoves DEF WaitMode
    <3>2. QED
      BY <3>1 DEF ErasePcs
  <2>4. QED
    BY <1>2, <2>1, <2>2, <2>3, AtMoves DEF ModeStep, ReadClaim, ReadSandbox, Disable, PatchMode, ErasePcs
<1>3. CASE RetainStep(q)
  BY <1>3, TakingOver
<1>4. QED
  BY <1>1, <1>2, <1>3 DEF Step

LEMMA ErasingKept ==
  ASSUME CustodyInv, [Next]_vars
  PROVE  Erasing'
<1> TypeOK /\ CompleteCopies /\ Provisioned /\ HandedOver
  BY DEF CustodyInv, IInv, Bookkeeping
<1>1. ASSUME NEW q \in Procs
      PROVE  Doomed(mem[q], pc[q])'
  <2>1. CASE mem'[q] = mem[q] /\ pc'[q] = pc[q]
    <3>1. CASE pc[q] \in ErasePcs \ {"reselect"}
      <4>1. Doomed(mem[q], pc[q]) /\ mem[q].home \in Uid /\ home[mem[q].home].st # "none"
        BY <3>1, HomeInHand DEF CustodyInv, Erasing, Doomed
      <4>2. QED
        BY <2>1, <3>1, <4>1, DoomedStays DEF Doomed, HomePresent
    <3>2. CASE pc[q] \notin ErasePcs \ {"reselect"}
      BY <2>1, <3>2 DEF Doomed
    <3>3. QED
      BY <3>1, <3>2
  <2>2. CASE pc'[q] \notin ErasePcs
    BY <2>2 DEF Doomed
  <2>3. QED
    BY <2>1, <2>2, DoomedFound, EraseEntered, Movers
<1>2. QED
  BY <1>1 DEF Erasing, Doomed

\* It holds at first, with or without a record left by an older version,
LEMMA InitCustody == Init => CustodyInv
<1> SUFFICES ASSUME NEW legacy \in Legacies, Beginning(legacy)
             PROVE  CustodyInv
  BY DEF Init
<1>1. IInv
  BY InitInductive DEF Init
<1>2. /\ \A u \in Uid : sandbox[u].st \in {"none", "gone"}
      /\ \A h \in Uid : /\ home[h].st \in {"none", "live"} /\ home[h].owner = 0
                        /\ home[h].adoptable <=> legacy = "restoring"
      /\ \A p \in Procs : pc[p] = "idle" /\ mem[p].phase = "none"
      /\ \A i \in Uid : managed[i].phase = "none"
  <2>1. \A h \in Uid : /\ home[h].st \in {"none", "live"} /\ home[h].owner = 0
                      /\ home[h].adoptable <=> legacy = "restoring"
    <3>1. PICK name \in SandboxNames, policy \in Policies :
            home = [h \in Uid |->
              [st |-> IF h <= lastUid THEN "live" ELSE "none", name |-> name, owner |-> 0,
               adoptable |-> legacy = "restoring", pv |-> "bound", policy |-> policy]]
      BY DEF Beginning
    <3>2. QED
      BY <3>1
  <2>2. QED
    BY <2>1 DEF Beginning, NoMemory, NoManaged
<1>3. \A h \in Uid : home[h].st # "none" =>
        h = 1 /\ retained[h].state = legacy /\ legacy # "none"
  <2> SUFFICES ASSUME NEW h \in Uid, home[h].st # "none"
               PROVE  h = 1 /\ retained[h].state = legacy /\ legacy # "none"
    OBVIOUS
  <2>1. (home[h].st # "none" => h <= lastUid) /\ lastUid = IF legacy = "none" THEN 0 ELSE 1
    BY DEF Beginning
  <2>2. h \in Nat /\ h >= 1
    BY ClaimsAssumption DEF Uid
  <2>3. h = 1 /\ legacy # "none"
    BY <2>1, <2>2
  <2>4. retained[h].state = legacy
    BY <2>1 DEF Beginning
  <2>5. QED
    BY <2>3, <2>4
<1>4. NamesApart
  BY <1>2, <1>3 DEF NamesApart, Present, HomePresent
<1>5. HomesKept
  <2>1. \A h \in Uid : home[h].st # "none" /\ ~home[h].adoptable => Recorded(h)
    BY <1>3 DEF Recorded
  <2>2. QED
    BY <1>2, <1>3, <2>1 DEF HomesKept, HomePresent
<1>6. StrippedFirst
  BY <1>2 DEF StrippedFirst
<1>7. Pairs
  BY <1>2 DEF Pairs, Paired
<1>8. Stripping /\ Erasing
  BY <1>2 DEF Stripping, Erasing, ErasePcs
<1>9. QED
  BY <1>1, <1>4, <1>5, <1>6, <1>7, <1>8 DEF CustodyInv

\* and every step keeps it.
LEMMA NextCustody == CustodyInv /\ [Next]_vars => CustodyInv'
<1> SUFFICES ASSUME CustodyInv, [Next]_vars
             PROVE  CustodyInv'
  OBVIOUS
<1>1. IInv /\ NamesApart
  BY DEF CustodyInv
<1>2. IInv' /\ NamesApart'
  BY <1>1, NextInductive, NamesKept
<1>3. QED
  BY <1>2, HomesKeptKept, StrippedFirstKept, PairsKept, StrippingKept, ErasingKept DEF CustodyInv

\* What is known of homes holds in every state that any number of commands can reach.
THEOREM CustodyHolds == Spec => []CustodyInv
  BY InitCustody, NextCustody, PTL DEF Spec

\* A home without an owner stays without one: no step can hand it to a Sandbox while no
\* older version's restore is on record.
THEOREM HomesNeverReadopted == Spec => NeverReadopted
<1>1. ASSUME CustodyInv, [Next]_vars, NEW h \in Uid, home[h].st # "none", home[h].owner = 0,
             retained[h].state # "restoring"
      PROVE  home'[h].owner = 0
  <2>1. Edited(h)
    BY <1>1, HomeMoves DEF CustodyInv, IInv, Bookkeeping, Provided
  <2>2. ~Adopted(h)
    BY <1>1 DEF CustodyInv, HomesKept, Adopted
  <2>3. QED
    BY <1>1, <2>1, <2>2 DEF Edited, Untouched, Stripped, Requested, Orphaned, Finished, Emptied, SameOwner
<1>2. CustodyInv /\ [Next]_vars =>
        [\A h \in Uid : home[h].st # "none" /\ home[h].owner = 0 /\ retained[h].state # "restoring"
           => home'[h].owner = 0]_vars
  BY <1>1
<1>3. QED
  BY <1>2, CustodyHolds, PTL DEF Spec, NeverReadopted

-----------------------------------------------------------------------------
(* The refinement *)

\* What becomes of a home in state x.
FateOf(x) ==
  CASE x.st = "none" -> "unused"
    [] x.st = "live" /\ (x.owner # 0 \/ x.adoptable) -> "attached"
    [] x.st = "live" /\ x.owner = 0 /\ ~x.adoptable -> "released"
    [] x.st = "terminating" \/ (x.st = "gone" /\ x.pv = "bound") -> "erasing"
    [] x.st = "gone" /\ x.pv = "gone" -> "erased"

LEMMA Fates ==
  ASSUME NEW x \in Home
  PROVE  /\ x.st = "none" => FateOf(x) = "unused"
         /\ x.st = "live" /\ (x.owner # 0 \/ x.adoptable) => FateOf(x) = "attached"
         /\ x.st = "live" /\ x.owner = 0 /\ ~x.adoptable => FateOf(x) = "released"
         /\ x.st = "terminating" => FateOf(x) = "erasing"
         /\ x.st = "gone" /\ x.pv = "bound" => FateOf(x) = "erasing"
         /\ x.st = "gone" /\ x.pv = "gone" => FateOf(x) = "erased"
  BY DEF FateOf, Home

LEMMA CustodyIsFate ==
  ASSUME TypeOK, TypeOK', NEW h \in Uid
  PROVE  /\ CustodyOf(h) = FateOf(home[h]) /\ home[h] \in Home
         /\ CustodyOf(h)' = FateOf(home'[h]) /\ home'[h] \in Home
  BY DEF CustodyOf, FateOf, Erased, TypeOK

\* One home changes hands and the records stay,
LEMMA OneBecomes ==
  ASSUME TypeOK, TypeOK', NEW h \in Uid, UNCHANGED records, NEW from, NEW to,
         \A k \in Uid \ {h} : home'[k] = home[k],
         FateOf(home[h]) = from, FateOf(home'[h]) = to
  PROVE  Abstract!Become(h, from, to)
<1>1. \A k \in Uid : CustodyOf(k) = FateOf(home[k]) /\ CustodyOf(k)' = FateOf(home'[k])
  BY CustodyIsFate
<1>2. \A k \in Uid : Recorded(k)' = Recorded(k)
  BY DEF records, Recorded
<1>3. QED
  BY <1>1, <1>2 DEF Abstract!Become

\* or nothing changes that the abstraction shows.
LEMMA NothingBecomes ==
  ASSUME TypeOK, TypeOK',
         \A k \in Uid : FateOf(home'[k]) = FateOf(home[k]),
         \A k \in Uid : Recorded(k)' = Recorded(k)
  PROVE  UNCHANGED Abstract!vars
<1>1. \A k \in Uid : CustodyOf(k) = FateOf(home[k]) /\ CustodyOf(k)' = FateOf(home'[k])
  BY CustodyIsFate
<1>2. QED
  BY <1>1 DEF Abstract!vars

\* Each edit of a home is a step of the abstraction, or shows nothing.
LEMMA EditMaps ==
  ASSUME CustodyInv, [Next]_vars, NEW h \in Uid, Edited(h)
  PROVE  \/ FateOf(home'[h]) = FateOf(home[h])
         \/ /\ Recorded(h)
            /\ <<FateOf(home[h]), FateOf(home'[h])>> \in
                 {<<"attached", "released">>, <<"released", "erasing">>, <<"erasing", "erased">>}
<1> TypeOK /\ CompleteCopies /\ HomesKept
  BY DEF CustodyInv, IInv, Bookkeeping
<1> TypeOK'
  BY NextTypes
<1> DEFINE x == home[h]
           y == home'[h]
<1> x \in Home /\ y \in Home
  BY DEF TypeOK
<1>0. x.st \in {"terminating", "gone"} => x.owner = 0 /\ ~x.adoptable /\ (Recorded(h) \/ Erased(h))
  BY DEF HomesKept
<1>1. ASSUME SameState(h), x.st # "live", SameVolume(h)
      PROVE  FateOf(y) = FateOf(x)
  BY <1>1, Fates DEF SameState, SameVolume, Home
<1>2. CASE Untouched(h)
  <2>1. CASE x.st = "live"
    BY <1>2, <2>1, Fates DEF Untouched, SameState, SameOwner, SameLabels
  <2>2. QED
    BY <1>1, <1>2, <2>1 DEF Untouched
<1>3. CASE Stripped(h)
  <2>1. CASE x.st = "live" /\ x.owner = 0 /\ x.adoptable
    <3>1. PICK p \in Procs : (StripLabels(p) \/ InspectMounts(p)) /\ mem[p].home = h
      BY <1>3 DEF Stripped
    <3>2. CASE StripLabels(p)
      <4>1. mem[p].sandbox # 0
        BY <3>2, AtMoves DEF StripLabels, CompleteCopies, ReleasePcs
      <4>2. QED
        BY <2>1, <3>1, <3>2, <4>1 DEF StripLabels, OwnedHome
    <3>3. CASE InspectMounts(p)
      <4>1. pc[p] = "inspectMounts"
        BY <3>3, AtMoves DEF InspectMounts
      <4>2. Recorded(h)
        BY <3>1, <4>1, EraseHand DEF ErasePcs, Recorded
      <4>3. QED
        BY <1>3, <2>1, <4>2, Fates DEF Stripped, SameState, SameOwner
    <3>4. QED
      BY <3>1, <3>2, <3>3
  <2>2. CASE x.st = "live" /\ ~(x.owner = 0 /\ x.adoptable)
    BY <1>3, <2>2, Fates DEF Stripped, SameState, SameOwner
  <2>3. QED
    BY <1>1, <1>3, <2>1, <2>2 DEF Stripped
<1>4. CASE Requested(h)
  <2>1. x.owner = 0 /\ ~x.adoptable /\ retained[h].state # "none"
    BY <1>4, RequestedIsFree
  <2>2. x.st \in {"live", "terminating"} /\ y.st = "terminating" /\ Recorded(h)
    BY <1>4, <2>1 DEF Requested, HomePresent, Recorded
  <2>3. QED
    BY <2>1, <2>2, Fates
<1>5. CASE Adopted(h)
  <2>1. x.st = "live" /\ x.adoptable /\ y.st = "live" /\ y.adoptable
    BY <1>0, <1>5 DEF Adopted, HomePresent, SameState, SameLabels
  <2>2. QED
    BY <2>1, Fates
<1>6. CASE Orphaned(h)
  <2>1. CASE x.st = "live" /\ y.adoptable
    BY <1>6, <2>1, Fates DEF Orphaned, SameState, SameLabels
  <2>2. CASE x.st = "live" /\ ~y.adoptable
    <3>1. ~x.adoptable /\ Recorded(h)
      BY <1>6, <2>2 DEF Orphaned, SameLabels, HomesKept, Erased
    <3>2. QED
      BY <1>6, <2>2, <3>1, Fates DEF Orphaned, SameState
  <2>3. QED
    BY <1>1, <1>6, <2>1, <2>2 DEF Orphaned
<1>7. CASE Finished(h)
  <2>1. x.st = "terminating" /\ y.st = "gone" /\ y.pv = x.pv /\ Recorded(h)
    BY <1>0, <1>7 DEF Finished, SameVolume, Erased
  <2>2. QED
    BY <2>1, Fates DEF Home
<1>8. CASE Emptied(h)
  <2>1. CASE x.st = "live"
    BY <1>8, <2>1, Fates DEF Emptied, SameState, SameOwner, SameLabels
  <2>2. CASE x.st = "gone"
    <3>1. x.pv = "bound" /\ y.st = "gone" /\ y.pv = "gone" /\ Recorded(h)
      BY <1>0, <1>8, <2>2 DEF Emptied, SameState, Erased
    <3>2. QED
      BY <2>2, <3>1, Fates
  <2>3. QED
    BY <1>8, <2>1, <2>2 DEF Emptied
<1>9. QED
  BY <1>2, <1>3, <1>4, <1>5, <1>6, <1>7, <1>8 DEF Edited

\* A step that writes homes concerns one of them and no record.
LEMMA HomeStepMaps ==
  ASSUME CustodyInv, [Next]_vars, UNCHANGED records
  PROVE  Abstract!Next \/ UNCHANGED Abstract!vars
<1> TypeOK /\ CompleteCopies
  BY DEF CustodyInv, IInv, Bookkeeping
<1> TypeOK'
  BY NextTypes
<1>1. \A k \in Uid : Recorded(k)' = Recorded(k)
  BY DEF records, Recorded
<1>2. CASE \A k \in Uid : FateOf(home'[k]) = FateOf(home[k])
  BY <1>1, <1>2, NothingBecomes
<1>3. ASSUME NEW h \in Uid, FateOf(home'[h]) # FateOf(home[h])
      PROVE  Abstract!Next
  <2>1. \A k \in Uid \ {h} : home'[k] = home[k]
    BY <1>3, OneHomeMoves
  <2>2. CASE Provided(h)
    <3>1. FateOf(home[h]) = "unused" /\ FateOf(home'[h]) = "attached"
      BY <2>2, Fates DEF Provided, TypeOK
    <3>2. Abstract!Become(h, "unused", "attached")
      BY <2>1, <3>1, OneBecomes
    <3>3. QED
      BY <3>2 DEF Abstract!Next, Abstract!Provide
  <2>3. CASE Edited(h)
    <3>1. /\ Recorded(h)
          /\ \/ FateOf(home[h]) = "attached" /\ FateOf(home'[h]) = "released"
             \/ FateOf(home[h]) = "released" /\ FateOf(home'[h]) = "erasing"
             \/ FateOf(home[h]) = "erasing" /\ FateOf(home'[h]) = "erased"
      BY <1>3, <2>3, EditMaps
    <3>2. \/ Abstract!Become(h, "attached", "released")
          \/ Abstract!Become(h, "released", "erasing")
          \/ Abstract!Become(h, "erasing", "erased")
      BY <2>1, <3>1, OneBecomes
    <3>3. Abstract!Release(h) \/ Abstract!Erase(h) \/ Abstract!EraseEnds(h)
      BY <3>1, <3>2 DEF Abstract!Release, Abstract!Erase, Abstract!EraseEnds
    <3>4. QED
      BY <3>3 DEF Abstract!Next
  <2>4. QED
    BY <2>2, <2>3, HomeMoves
<1>4. QED
  BY <1>2, <1>3

\* A step that writes records concerns at most one home.
LEMMA OneIsRecorded ==
  ASSUME CustodyInv, [Next]_vars
  PROVE  \/ \A k \in Uid : Recorded(k)' = Recorded(k)
         \/ \E h \in Uid : \A k \in Uid \ {h} : Recorded(k)' = Recorded(k)
<1> TypeOK /\ CompleteCopies
  BY DEF CustodyInv, IInv, Bookkeeping
<1>1. CASE UNCHANGED <<managed, retained>>
  BY <1>1 DEF Recorded
<1>2. ASSUME NEW p \in Procs, SaveRetained(p) \/ MarkDeleting(p) \/ DropRetained(p)
      PROVE  \E h \in Uid : \A k \in Uid \ {h} : Recorded(k)' = Recorded(k)
  <2>1. mem[p].home \in Uid
    <3>1. pc[p] \in CleanupPcs \cup ErasePcs \cup {"retain"}
      BY <1>2, AtMoves DEF SaveRetained, MarkDeleting, DropRetained, ErasePcs
    <3>2. QED
      BY <3>1, HomeInHand DEF CustodyInv, IInv, Bookkeeping
  <2>2. /\ UNCHANGED managed
        /\ \A k \in Uid \ {mem[p].home} : retained'[k] = retained[k]
    BY <1>2 DEF SaveRetained, MarkDeleting, DropRetained, TypeOK
  <2>3. \A k \in Uid \ {mem[p].home} : Recorded(k)' = Recorded(k)
    BY <2>2 DEF Recorded
  <2>4. QED
    BY <2>1, <2>3
<1>3. ASSUME NEW p \in Procs, RecordClaim(p)
      PROVE  \A k \in Uid : Recorded(k)' = Recorded(k)
  <2>1. CASE managed' = managed
    BY <1>3, <2>1 DEF RecordClaim, Recorded
  <2>2. CASE managed' # managed
    <3>1. mem[p].rec = 0 /\ pc[p] = "record"
      BY <1>3, <2>2, AtMoves DEF RecordClaim
    <3>2. Saved = {}
      BY <3>1 DEF CustodyInv, IInv, Bookkeeping, NothingSaved
    <3>3. \A i \in Uid : managed[i].phase = "none"
      BY <3>2 DEF Saved
    <3>4. managed' = [managed EXCEPT ![mem[p].claim] = [NoManaged EXCEPT !.phase = "claimed"]]
      BY <1>3, <3>1 DEF RecordClaim
    <3>5. \A i \in Uid : managed'[i].phase # "bound"
      BY <3>3, <3>4 DEF TypeOK, NoManaged
    <3>6. UNCHANGED retained
      BY <1>3 DEF RecordClaim
    <3>7. QED
      BY <3>3, <3>5, <3>6 DEF Recorded
  <2>3. QED
    BY <2>1, <2>2
<1>4. ASSUME NEW p \in Procs, SaveBinding(p) \/ Forget(p)
      PROVE  \E h \in Uid : \A k \in Uid \ {h} : Recorded(k)' = Recorded(k)
  <2> DEFINE r == mem[p].rec
  <2>1. /\ mem[p].home \in Uid /\ r \in Uid /\ mem[p].phase # "none"
        /\ pc[p] = "forget" => mem[p].phase = "bound"
    <3>1. pc[p] \in {"bind", "forget"}
      BY <1>4, AtMoves DEF SaveBinding, Forget
    <3>2. mem[p].home # 0 /\ mem[p].phase # "none" /\ (pc[p] = "forget" => mem[p].phase = "bound")
      <4>1. CASE pc[p] = "forget"
        BY <4>1 DEF CompleteCopies, CleanupPcs
      <4>2. CASE pc[p] = "bind"
        <5>1. mem[p].claim # 0 /\ mem[p].rec = mem[p].claim /\ mem[p].home # 0
          BY <4>2 DEF CompleteCopies
        <5>2. QED
          BY <4>2, <5>1 DEF CompleteCopies
      <4>3. QED
        BY <3>1, <4>1, <4>2
    <3>3. QED
      BY <3>2, CopiedUid, UidFacts DEF TypeOK, Memory
  <2>2. managed[r].phase = "bound" => managed[r].home = mem[p].home
    BY <2>1 DEF CustodyInv, IInv, Bookkeeping, ClaimedCopy, CopiesAgree, TypeOK, Memory, Phases
  <2>3. managed'[r].phase = "bound" => managed'[r].home = mem[p].home
    <3>1. CASE UNCHANGED managed
      BY <2>2, <3>1
    <3>2. CASE Forget(p)
      BY <2>1, <3>2 DEF Forget, TypeOK, NoManaged
    <3>3. CASE SaveBinding(p) /\ ~UNCHANGED managed
      <4>1. managed'[r] = [phase |-> "bound", sandbox |-> mem[p].sandbox, home |-> mem[p].home]
        BY <2>1, <3>3 DEF SaveBinding, TypeOK
      <4>2. QED
        BY <4>1
    <3>4. QED
      BY <1>4, <3>1, <3>2, <3>3
  <2>4. UNCHANGED retained /\ \A i \in Uid \ {r} : managed'[i] = managed[i]
    BY <1>4 DEF SaveBinding, Forget, TypeOK
  <2>5. \A k \in Uid \ {mem[p].home} : Recorded(k)' = Recorded(k)
    <3>1. ASSUME NEW k \in Uid \ {mem[p].home}
          PROVE  Recorded(k) <=> Recorded(k)'
      BY <2>2, <2>3, <2>4 DEF Recorded
    <3>2. QED
      BY <3>1 DEF Recorded
  <2>6. QED
    BY <2>1, <2>5
<1>5. QED
  BY <1>1, <1>2, <1>3, <1>4, RetainedWriters, ManagedWriters DEF CustodyInv

\* and the home that it names is there, or the one it forgets is erased.
LEMMA RecordStepMaps ==
  ASSUME CustodyInv, [Next]_vars, UNCHANGED home
  PROVE  Abstract!Next \/ UNCHANGED Abstract!vars
<1> TypeOK /\ CompleteCopies
  BY DEF CustodyInv, IInv, Bookkeeping
<1> TypeOK' /\ Provisioned'
  BY NextTypes, NextInductive DEF CustodyInv, IInv, Bookkeeping
<1>1. CASE \A k \in Uid : Recorded(k)' = Recorded(k)
  BY <1>1, NothingBecomes
<1>2. ASSUME NEW h \in Uid, \A k \in Uid \ {h} : Recorded(k)' = Recorded(k),
             Recorded(h)' # Recorded(h)
      PROVE  Abstract!Next
  <2>1. \A k \in Uid : CustodyOf(k)' = CustodyOf(k) /\ CustodyOf(k) = FateOf(home[k]) /\ home[k] \in Home
    BY CustodyIsFate
  <2>2. Recorded(h) \in BOOLEAN /\ Recorded(h)' \in BOOLEAN
    BY DEF Recorded
  <2>3. CASE ~Recorded(h)
    <3>1. Recorded(h)'
      BY <1>2, <2>2, <2>3
    <3>2. home[h].st # "none"
      BY <3>1 DEF Recorded, Provisioned, TypeOK, Managed, Uid
    <3>3. CustodyOf(h) # "unused"
      BY <2>1, <3>2, Fates DEF Home
    <3>4. Abstract!Record(h)
      BY <1>2, <2>1, <2>3, <3>1, <3>3 DEF Abstract!Record
    <3>5. QED
      BY <3>4 DEF Abstract!Next
  <2>4. CASE Recorded(h)
    <3>1. ~Recorded(h)'
      BY <1>2, <2>2, <2>4
    <3>2. Erased(h)
      BY <2>4, <3>1, RecordedUntilErased DEF CustodyInv
    <3>3. CustodyOf(h) = "erased"
      BY <2>1, <3>2, Fates DEF Erased
    <3>4. Recorded(h)' = FALSE
      BY <2>2, <3>1
    <3>5. [k \in Uid |-> Recorded(k)]' = [[k \in Uid |-> Recorded(k)] EXCEPT ![h] = FALSE]
      BY <1>2, <3>4
    <3>6. Abstract!Forget(h)
      BY <2>1, <2>4, <3>3, <3>5 DEF Abstract!Forget
    <3>7. QED
      BY <3>6 DEF Abstract!Next
  <2>5. QED
    BY <2>3, <2>4
<1>3. QED
  BY <1>1, <1>2, OneIsRecorded

\* The homes of the initial states are unused, or released or in use and on record.
LEMMA InitMaps == Init => Abstract!Init
<1> SUFFICES ASSUME Init
             PROVE  Abstract!Init
  OBVIOUS
<1>1. CustodyInv /\ TypeOK
  BY InitCustody, InitTypes
<1>2. \A h \in Uid : home[h] \in Home /\ CustodyOf(h) = FateOf(home[h])
  BY <1>1 DEF CustodyOf, FateOf, Erased, TypeOK
<1>3. \A h \in Uid : /\ home[h].st \in {"none", "live"}
                     /\ home[h].st # "none" <=> retained[h].state # "none"
  <2>1. PICK legacy \in Legacies : Beginning(legacy)
    BY DEF Init
  <2> SUFFICES ASSUME NEW h \in Uid
               PROVE  /\ home[h].st \in {"none", "live"}
                      /\ home[h].st # "none" <=> retained[h].state # "none"
    OBVIOUS
  <2>2. /\ home[h].st = IF h <= lastUid THEN "live" ELSE "none"
        /\ retained[h] = IF h <= lastUid THEN [state |-> legacy, origin |-> h, volume |-> FALSE]
                         ELSE NoRetained
        /\ lastUid = IF legacy = "none" THEN 0 ELSE 1
    BY <2>1 DEF Beginning
  <2>3. h \in Nat /\ h >= 1
    BY ClaimsAssumption DEF Uid
  <2>4. h <= lastUid => legacy # "none"
    BY <2>2, <2>3
  <2>5. QED
    BY <2>2, <2>4 DEF NoRetained
<1>4. \A i \in Uid : managed[i].phase = "none"
  BY DEF Init, Beginning, NoManaged
<1>5. \A h \in Uid : CustodyOf(h) \in {"unused", "attached", "released"}
  BY <1>2, <1>3, Fates
<1>6. \A h \in Uid : Recorded(h) = (CustodyOf(h) # "unused")
  <2>1. ASSUME NEW h \in Uid
        PROVE  Recorded(h) <=> CustodyOf(h) # "unused"
    BY <1>2, <1>3, <1>4, Fates DEF Recorded
  <2>2. QED
    BY <2>1 DEF Recorded
<1>7. QED
  BY <1>5, <1>6 DEF Abstract!Init

\* Every interleaving of the commands, with crashes at every call, is a behaviour of the
\* promise: data in use is released for good and on record, then destroyed, and only
\* then forgotten.
THEOREM CustodyImplemented == Spec => CustodyKept
<1>1. CustodyInv /\ [Next]_vars => [Abstract!Next]_(Abstract!vars)
  <2> SUFFICES ASSUME CustodyInv, [Next]_vars
               PROVE  Abstract!Next \/ UNCHANGED Abstract!vars
    OBVIOUS
  <2>1. UNCHANGED home \/ UNCHANGED records
    BY HomeOrSandbox DEF CustodyInv, IInv, Bookkeeping, records
  <2>2. QED
    BY <2>1, HomeStepMaps, RecordStepMaps
<1>2. QED
  BY <1>1, InitMaps, CustodyHolds, PTL DEF Spec, CustodyKept, Abstract!Spec

-----------------------------------------------------------------------------
(***************************************************************************)
(* A home is destroyed only when nothing can be using it or come to use    *)
(* it.  The request is sent some calls after the inspection that allows    *)
(* it; in between the lock keeps every create out, so no claim comes, so   *)
(* no Sandbox comes, so no pod comes that could mount the home.            *)
(***************************************************************************)

\* What an erase step has in hand stays there.
LEMMA EraseHeld ==
  ASSUME TypeOK, NEW q \in Procs, EraseStep(q), ~LockRetained(q), ~Reselect(q), ~DropRetained(q)
  PROVE  /\ mem'[q].home = mem[q].home /\ mem'[q].sandbox = mem[q].sandbox
         /\ pc[q] \in ErasePcs \ {"reselect"} /\ pc'[q] \in ErasePcs \ {"reselect"}
         /\ mem'[q].state = mem[q].state \/ MarkDeleting(q)
         /\ pc'[q] = "mark" => InspectVolume(q) /\ mem[q].state = "available"
<1> USE DEF ErasePcs
<1>0. mem[q] \in Memory
  BY DEF TypeOK
<1>1. CASE CheckPending(q) \/ InspectHome(q) \/ InspectAllocation(q) \/ InspectMounts(q)
           \/ DeletePVC(q) \/ StorageGone(q)
  BY <1>1, AtMoves DEF CheckPending, InspectHome, InspectAllocation, InspectMounts, DeletePVC, StorageGone
<1>2. CASE InspectVolume(q)
  <2>1. \/ mem'[q] = [mem[q] EXCEPT !.volume = (home[mem[q].home].pv = "bound")]
        \/ mem'[q] = mem[q]
    BY <1>2, KeepMoves DEF InspectVolume
  <2>2. /\ mem'[q].home = mem[q].home /\ mem'[q].sandbox = mem[q].sandbox
        /\ mem'[q].state = mem[q].state
    BY <1>0, <2>1 DEF Memory
  <2>3. /\ pc[q] = "inspectVolume"
        /\ \/ mem[q].state = "available" /\ pc'[q] = "mark"
           \/ mem[q].state = "deleting" /\ pc'[q] = "erase"
    BY <1>2, AtMoves DEF InspectVolume
  <2>4. QED
    BY <1>2, <2>2, <2>3
<1>3. CASE MarkDeleting(q)
  <2>1. mem'[q] = [mem[q] EXCEPT !.state = "deleting"] /\ pc[q] = "mark" /\ pc'[q] = "erase"
    BY <1>3, AtMoves, KeepMoves DEF MarkDeleting
  <2>2. QED
    BY <1>0, <1>3, <2>1 DEF Memory
<1>4. QED
  BY <1>1, <1>2, <1>3 DEF EraseStep

\* Names are for good,
LEMMA OriginStays ==
  ASSUME CustodyInv, [Next]_vars, NEW u \in Uid0, NEW h \in Uid, Origin(u, h), home[h].st # "none"
  PROVE  Origin(u, h)'
<1> TypeOK /\ CompleteCopies
  BY DEF CustodyInv, IInv, Bookkeeping
<1>1. u \in Uid
  BY UidFacts DEF Origin
<1>2. SandboxMoved(u) /\ Edited(h)
  BY <1>1, SandboxMoves, HomeMoves DEF Provided
<1>3. home'[h].name = home[h].name
  BY <1>2, HomesStay
<1>4. QED
  BY <1>2, <1>3 DEF Origin, SandboxMoved

\* and so are reclaim policies.
LEMMA GoingStays ==
  ASSUME CustodyInv, [Next]_vars, NEW h \in Uid, Going(h), home[h].st # "none"
  PROVE  Going(h)'
<1> TypeOK /\ CompleteCopies
  BY DEF CustodyInv, IInv, Bookkeeping
<1>1. home'[h].policy = home[h].policy
  BY HomeMoves, HomesStay DEF Provided
<1>2. home[h].pv = "gone" => home'[h].pv = "gone"
  BY HomesMove DEF HomesLast
<1>3. home[h].pv \in {"bound", "gone"}
  BY DEF TypeOK, Home
<1>4. QED
  BY <1>1, <1>2, <1>3 DEF Going

\* A retained record names the Sandbox that left its home.
LEMMA OriginsRecorded ==
  ASSUME CustodyInv, NamesFollow, [Next]_vars, NEW h \in Uid, retained'[h].state # "none"
  PROVE  Origin(retained[h].origin, h)'
<1> TypeOK /\ CompleteCopies /\ Provisioned
  BY DEF CustodyInv, IInv, Bookkeeping
<1> TypeOK'
  BY NextTypes
<1>1. retained'[h].origin \in Uid0
  BY DEF TypeOK, Retained
<1>2. ASSUME NEW u \in Uid0, retained'[h].origin = u, Origin(u, h), home[h].st # "none"
      PROVE  Origin(retained[h].origin, h)'
  <2>1. Origin(u, h)'
    BY <1>2, OriginStays
  <2>2. QED
    BY <1>2, <2>1 DEF Origin
<1>3. CASE retained'[h] = retained[h]
  <2>1. Origin(retained[h].origin, h) /\ home[h].st # "none"
    BY <1>3 DEF NamesFollow, Provisioned
  <2>2. QED
    BY <1>1, <1>2, <1>3, <2>1
<1>4. ASSUME NEW p \in Procs, SaveRetained(p), retained'[h] # retained[h]
      PROVE  Origin(retained[h].origin, h)'
  <2>1. /\ h = mem[p].home
        /\ retained'[h] = [state |-> "available", origin |-> mem[p].sandbox, volume |-> FALSE]
    BY <1>4 DEF SaveRetained, TypeOK
  <2>2. Paired(p)
    BY <1>4, AtMoves DEF SaveRetained, Paired, CompleteCopies, ReleasePcs, ConnectPcs
  <2>3. Mates(mem[p].sandbox, h)
    BY <2>1, <2>2, MatesNow
  <2>4. Origin(mem[p].sandbox, h) /\ home[h].st # "none"
    <3>1. mem[p].sandbox # 0
      BY <2>3, ClaimsAssumption DEF Mates, Uid
    <3>2. QED
      BY <2>3, <3>1 DEF Mates, Pair, Origin
  <2>5. QED
    BY <1>1, <1>2, <2>1, <2>3, <2>4, UidFacts DEF Mates
<1>5. ASSUME NEW p \in Procs, MarkDeleting(p), retained'[h] # retained[h]
      PROVE  Origin(retained[h].origin, h)'
  <2>1. /\ h = mem[p].home
        /\ retained'[h] = [state |-> "deleting", origin |-> mem[p].sandbox, volume |-> mem[p].volume]
    BY <1>5 DEF MarkDeleting, TypeOK
  <2>2. pc[p] \in ErasePcs \ {"reselect"}
    BY <1>5, AtMoves DEF MarkDeleting, ErasePcs
  <2>3. Origin(mem[p].sandbox, mem[p].home)
    BY <2>2 DEF NamesFollow
  <2>4. home[mem[p].home].st # "none"
    BY <2>2, HomeInHand
  <2>5. mem[p].sandbox \in Uid0
    BY DEF TypeOK, Memory
  <2>6. QED
    BY <1>1, <1>2, <2>1, <2>3, <2>4, <2>5
<1>6. ASSUME NEW p \in Procs, DropRetained(p)
      PROVE  retained'[h] = retained[h]
  BY <1>6 DEF DropRetained, TypeOK, NoRetained
<1>7. QED
  BY <1>3, <1>4, <1>5, <1>6, RetainedWriters

\* The name that the inspection goes by is the home's.
LEMMA NamesFollowKept ==
  ASSUME CustodyInv, NamesFollow, [Next]_vars
  PROVE  NamesFollow'
<1> TypeOK /\ CompleteCopies /\ Provisioned /\ HandedOver
  BY DEF CustodyInv, IInv, Bookkeeping
<1>1. ASSUME NEW q \in Procs, pc'[q] \in ErasePcs \ {"reselect"}
      PROVE  Origin(mem[q].sandbox, mem[q].home)'
  <2>1. ASSUME NEW u \in Uid0, NEW h \in Uid, mem'[q].sandbox = u, mem'[q].home = h,
               Origin(u, h), home[h].st # "none"
        PROVE  Origin(mem[q].sandbox, mem[q].home)'
    <3>1. Origin(u, h)'
      BY <2>1, OriginStays
    <3>2. QED
      BY <2>1, <3>1 DEF Origin
  <2>2. ASSUME pc[q] \in ErasePcs \ {"reselect"}, mem'[q].sandbox = mem[q].sandbox,
               mem'[q].home = mem[q].home
        PROVE  Origin(mem[q].sandbox, mem[q].home)'
    <3>1. Origin(mem[q].sandbox, mem[q].home)
      BY <2>2 DEF NamesFollow
    <3>2. mem[q].sandbox \in Uid0 /\ mem[q].home \in Uid /\ home[mem[q].home].st # "none"
      BY <2>2, HomeInHand DEF TypeOK, Memory
    <3>3. QED
      BY <2>1, <2>2, <3>1, <3>2
  <2>3. CASE mem'[q] = mem[q] /\ pc'[q] = pc[q]
    BY <1>1, <2>2, <2>3
  <2>4. CASE EraseStep(q)
    <3>1. CASE LockRetained(q)
      BY <1>1, <3>1, AtMoves DEF LockRetained
    <3>2. CASE DropRetained(q)
      BY <1>1, <3>2, ReturnMoves DEF DropRetained, ErasePcs
    <3>3. CASE Reselect(q)
      <4> DEFINE r == retained[mem[q].home]
      <4>1. /\ mem'[q] = [mem[q] EXCEPT !.state = r.state, !.sandbox = r.origin, !.volume = r.volume]
            /\ r.state # "none" /\ pc[q] = "reselect"
        BY <3>3, AtMoves, KeepMoves DEF Reselect
      <4>2. mem'[q].home = mem[q].home /\ mem'[q].sandbox = r.origin
        BY <4>1 DEF TypeOK, Memory
      <4>3. mem[q].home \in Uid /\ home[mem[q].home].st # "none" /\ r.origin \in Uid0
        BY <4>1, HomeInHand DEF ErasePcs, TypeOK, Retained
      <4>4. Origin(r.origin, mem[q].home)
        BY <4>1, <4>3 DEF NamesFollow
      <4>5. QED
        BY <2>1, <4>2, <4>3, <4>4
    <3>4. CASE ~LockRetained(q) /\ ~DropRetained(q) /\ ~Reselect(q)
      BY <2>2, <2>4, <3>4, EraseHeld
    <3>5. QED
      BY <3>1, <3>2, <3>3, <3>4
  <2>5. QED
    BY <1>1, <2>3, <2>4, EraseEntered, Movers
<1>2. QED
  BY <1>1, OriginsRecorded DEF NamesFollow

\* A record of a deletion is of a volume that goes with its home,
LEMMA DeletionsGo ==
  ASSUME CustodyInv, VolumesFollow, [Next]_vars, NEW h \in Uid, retained'[h].state = "deleting"
  PROVE  Going(h)'
<1> TypeOK /\ CompleteCopies /\ Provisioned
  BY DEF CustodyInv, IInv, Bookkeeping
<1>1. ASSUME Going(h), home[h].st # "none"
      PROVE  Going(h)'
  BY <1>1, GoingStays
<1>2. CASE retained'[h] = retained[h]
  BY <1>1, <1>2 DEF VolumesFollow, Provisioned
<1>3. ASSUME NEW p \in Procs, SaveRetained(p) \/ DropRetained(p)
      PROVE  retained'[h] = retained[h]
  <2>1. \/ retained'[h] = retained[h]
        \/ retained'[h] = [state |-> "available", origin |-> mem[p].sandbox, volume |-> FALSE]
        \/ retained'[h] = NoRetained
    BY <1>3 DEF SaveRetained, DropRetained, TypeOK
  <2>2. QED
    BY <2>1 DEF NoRetained
<1>4. ASSUME NEW p \in Procs, MarkDeleting(p), retained'[h] # retained[h]
      PROVE  Going(h)'
  <2>1. h = mem[p].home
    BY <1>4 DEF MarkDeleting, TypeOK
  <2>2. pc[p] = "mark"
    BY <1>4, AtMoves DEF MarkDeleting
  <2>3. Going(mem[p].home)
    BY <2>2 DEF VolumesFollow, ErasePcs
  <2>4. home[mem[p].home].st # "none"
    BY <2>2, HomeInHand DEF ErasePcs
  <2>5. QED
    BY <1>1, <2>1, <2>3, <2>4
<1>5. QED
  BY <1>2, <1>3, <1>4, RetainedWriters

\* and so is the copy of it.
LEMMA VolumesFollowKept ==
  ASSUME CustodyInv, VolumesFollow, [Next]_vars
  PROVE  VolumesFollow'
<1> TypeOK /\ CompleteCopies /\ Provisioned /\ HandedOver
  BY DEF CustodyInv, IInv, Bookkeeping
<1>1. ASSUME NEW q \in Procs, pc'[q] \in ErasePcs \ {"reselect"},
             pc'[q] = "mark" \/ mem'[q].state = "deleting"
      PROVE  Going(mem[q].home)'
  <2>1. ASSUME NEW h \in Uid, mem'[q].home = h, Going(h), home[h].st # "none"
        PROVE  Going(mem[q].home)'
    <3>1. Going(h)'
      BY <2>1, GoingStays
    <3>2. QED
      BY <2>1, <3>1 DEF Going
  <2>2. ASSUME pc[q] \in ErasePcs \ {"reselect"}, mem'[q].home = mem[q].home, Going(mem[q].home)
        PROVE  Going(mem[q].home)'
    BY <2>1, <2>2, HomeInHand
  <2>3. CASE mem'[q] = mem[q] /\ pc'[q] = pc[q]
    BY <1>1, <2>2, <2>3 DEF VolumesFollow
  <2>4. CASE EraseStep(q)
    <3>1. CASE LockRetained(q)
      BY <1>1, <3>1, AtMoves DEF LockRetained
    <3>2. CASE DropRetained(q)
      BY <1>1, <3>2, ReturnMoves DEF DropRetained, ErasePcs
    <3>3. CASE Reselect(q)
      <4> DEFINE r == retained[mem[q].home]
      <4>1. /\ mem'[q] = [mem[q] EXCEPT !.state = r.state, !.sandbox = r.origin, !.volume = r.volume]
            /\ pc[q] = "reselect" /\ pc'[q] # "mark"
        BY <3>3, AtMoves, KeepMoves DEF Reselect
      <4>2. mem'[q].home = mem[q].home /\ mem'[q].state = r.state
        BY <4>1 DEF TypeOK, Memory
      <4>3. mem[q].home \in Uid /\ home[mem[q].home].st # "none"
        BY <4>1, HomeInHand DEF ErasePcs
      <4>4. Going(mem[q].home)
        BY <1>1, <4>1, <4>2, <4>3 DEF VolumesFollow
      <4>5. QED
        BY <2>1, <4>2, <4>3, <4>4
    <3>4. CASE ~LockRetained(q) /\ ~DropRetained(q) /\ ~Reselect(q)
      <4>1. /\ mem'[q].home = mem[q].home /\ pc[q] \in ErasePcs \ {"reselect"}
            /\ mem'[q].state = mem[q].state \/ MarkDeleting(q)
            /\ pc'[q] = "mark" => InspectVolume(q) /\ mem[q].state = "available"
        BY <2>4, <3>4, EraseHeld
      <4>2. CASE pc'[q] = "mark"
        <5>1. Going(mem[q].home)
          BY <4>1, <4>2 DEF InspectVolume, Going
        <5>2. QED
          BY <2>2, <4>1, <5>1
      <4>3. CASE MarkDeleting(q)
        <5>1. Going(mem[q].home)
          BY <4>1, <4>3, AtMoves DEF MarkDeleting, VolumesFollow
        <5>2. QED
          BY <2>2, <4>1, <5>1
      <4>4. CASE pc'[q] # "mark" /\ ~MarkDeleting(q)
        <5>1. Going(mem[q].home)
          BY <1>1, <4>1, <4>4 DEF VolumesFollow
        <5>2. QED
          BY <2>2, <4>1, <5>1
      <4>5. QED
        BY <4>2, <4>3, <4>4
    <3>5. QED
      BY <3>1, <3>2, <3>3, <3>4
  <2>5. QED
    BY <1>1, <2>3, <2>4, EraseEntered, Movers
<1>2. QED
  BY <1>1, DeletionsGo DEF VolumesFollow

-----------------------------------------------------------------------------
(* The inspection *)

\* Only a create that holds the lock brings a claim.
LEMMA ClaimWriters ==
  ASSUME TypeOK, CompleteCopies, [Next]_vars, claim = 0
  PROVE  claim' = 0 \/ \E p \in Procs : CreateClaim(p)
<1>1. ASSUME NEW p \in Procs, Start(p)
      PROVE  claim' = claim
  BY <1>1 DEF Start, StartCreate, StartConnect, StartDisconnect, StartFromRetained,
     StartFromRecord, cluster
<1>2. ASSUME NEW p \in Procs, Step(p) \/ Interrupt(p), ~CreateClaim(p)
      PROVE  claim' = claim
  BY <1>2, StepKinds DEF Quiet, Returned, SelectSaved, GetClaim, RecordClaim, ResolveHome,
     SaveBinding, ReadClaim, Forget, cluster
<1>3. CASE Controllers \/ \E h \in Uid : LoseVolume(h) \/ PodFails(h)
  BY <1>3, ClusterMoving DEF ClusterMoves
<1>4. CASE UNCHANGED vars
  BY <1>4 DEF vars
<1>5. QED
  BY <1>1, <1>2, <1>3, <1>4 DEF Next

\* While a command is in the deletion stage no claim comes,
LEMMA NoClaimComes ==
  ASSUME CustodyInv, [Next]_vars, NEW q \in Procs, pc[q] \in ErasePcs, claim = 0
  PROVE  claim' = 0
<1> TypeOK /\ CompleteCopies /\ Exclusive
  BY DEF CustodyInv, IInv, Bookkeeping
<1>1. ASSUME NEW p \in Procs, CreateClaim(p)
      PROVE  FALSE
  <2>1. pc[p] = "obtain"
    BY <1>1, AtMoves DEF CreateClaim
  <2>2. p \in holder /\ q \in holder
    BY <2>1 DEF Exclusive, CreatePcs
  <2>3. p = q
    BY <2>2 DEF Exclusive
  <2>4. QED
    BY <2>1, <2>3 DEF ErasePcs
<1>2. QED
  BY <1>1, ClaimWriters

\* without a claim no Sandbox comes,
LEMMA NobodyComes ==
  ASSUME CustodyInv, [Next]_vars, claim = 0, NEW n, Named(n) = {}
  PROVE  Named(n)' = {}
<1> TypeOK /\ CompleteCopies
  BY DEF CustodyInv, IInv, Bookkeeping
<1>1. ASSUME NEW u \in Uid, Present(u)', sandbox'[u].name = n
      PROVE  FALSE
  <2>1. SandboxMoved(u)
    BY SandboxMoves
  <2>2. sandbox[u].name = n /\ Present(u)
    BY <1>1, <2>1 DEF SandboxMoved, Present
  <2>3. QED
    BY <1>1, <2>2 DEF Named
<1>2. QED
  BY <1>1 DEF Named, Present

\* and without a Sandbox of its name no pod comes that mounts a home.
LEMMA NoPodComes ==
  ASSUME CustodyInv, [Next]_vars, claim = 0, NEW h \in Uid, home[h].st # "none",
         Named(home[h].name) = {}, ~Mounted(h)
  PROVE  ~Mounted(h)'
<1> TypeOK /\ CompleteCopies
  BY DEF CustodyInv, IInv, Bookkeeping
<1>1. home'[h].name = home[h].name
  BY HomeMoves, HomesStay DEF Provided
<1>2. ASSUME NEW u \in Uid, sandbox'[u].pod, sandbox'[u].name = home'[h].name
      PROVE  FALSE
  <2>1. SandboxMoved(u)
    BY SandboxMoves
  <2>2. sandbox[u].name = home[h].name /\ (sandbox[u].pod \/ Present(u))
    BY <1>1, <1>2, <2>1 DEF SandboxMoved
  <2>3. QED
    BY <1>2, <2>2 DEF Named, Mounted
<1>3. QED
  BY <1>2 DEF Mounted

\* What the inspection of home h has found when a command is at here.
Cleared(h, here) ==
  /\ here \in {"inspectMounts", "inspectVolume", "mark", "erase"} =>
       claim = 0 /\ Named(home[h].name) = {}
  /\ here \in {"inspectVolume", "mark", "erase"} => ~Mounted(h)

\* It stays so while the command is in the deletion stage.
LEMMA ClearedStays ==
  ASSUME CustodyInv, [Next]_vars, NEW q \in Procs, pc[q] \in ErasePcs,
         NEW h \in Uid, home[h].st # "none", NEW here, Cleared(h, here)
  PROVE  Cleared(h, here)'
<1> TypeOK /\ CompleteCopies
  BY DEF CustodyInv, IInv, Bookkeeping
<1>1. home'[h].name = home[h].name
  BY HomeMoves, HomesStay DEF Provided
<1>2. CASE here \in {"inspectMounts", "inspectVolume", "mark", "erase"}
  <2>1. claim = 0 /\ Named(home[h].name) = {}
    BY <1>2 DEF Cleared
  <2>2. claim' = 0 /\ Named(home[h].name)' = {}
    <3>1. claim' = 0
      BY <2>1, NoClaimComes
    <3>2. \A n : n = home[h].name => Named(n)' = {}
      BY <2>1, NobodyComes
    <3>3. QED
      BY <1>1, <3>1, <3>2 DEF Named, Present
  <2>3. ~Mounted(h) => ~Mounted(h)'
    BY <2>1, NoPodComes
  <2>4. QED
    BY <1>2, <2>2, <2>3 DEF Cleared
<1>3. CASE here \notin {"inspectMounts", "inspectVolume", "mark", "erase"}
  BY <1>3 DEF Cleared
<1>4. QED
  BY <1>2, <1>3

\* A step of the inspection finds what it goes on from.
LEMMA ClearedFound ==
  ASSUME CustodyInv, NamesFollow, Inspected, [Next]_vars, NEW q \in Procs, EraseStep(q),
         ~LockRetained(q), ~Reselect(q), ~DropRetained(q), HomePresent(mem[q].home)
  PROVE  Cleared(mem[q].home, pc'[q])
<1> TypeOK /\ CompleteCopies
  BY DEF CustodyInv, IInv, Bookkeeping
<1>1. CASE CheckPending(q) \/ InspectHome(q)
  BY <1>1, AtMoves DEF CheckPending, InspectHome, Cleared
<1>2. CASE InspectAllocation(q)
  <2>1. /\ pc[q] = "inspectAllocation" /\ pc'[q] = "inspectMounts" /\ claim = 0
        /\ Named(sandbox[mem[q].sandbox].name) = {}
    BY <1>2, AtMoves DEF InspectAllocation
  <2>2. Origin(mem[q].sandbox, mem[q].home)
    BY <2>1 DEF NamesFollow, ErasePcs
  <2>3. QED
    BY <2>1, <2>2 DEF Origin, Cleared
<1>3. CASE InspectMounts(q)
  BY <1>3, AtMoves DEF InspectMounts, Inspected, Cleared
<1>4. CASE InspectVolume(q) \/ MarkDeleting(q) \/ DeletePVC(q) \/ StorageGone(q)
  <2>1. \/ pc[q] \in {"inspectVolume", "mark"} /\ pc'[q] \in {"mark", "erase"}
        \/ pc'[q] \in {"storageGone", "drop"}
    BY <1>4, AtMoves DEF InspectVolume, MarkDeleting, DeletePVC, StorageGone
  <2>2. QED
    BY <2>1 DEF Inspected, Cleared
<1>5. QED
  BY <1>1, <1>2, <1>3, <1>4 DEF EraseStep

LEMMA InspectedKept ==
  ASSUME CustodyInv, NamesFollow, Inspected, [Next]_vars
  PROVE  Inspected'
<1> TypeOK /\ CompleteCopies /\ Provisioned /\ HandedOver
  BY DEF CustodyInv, IInv, Bookkeeping
<1>1. ASSUME NEW q \in Procs, HomePresent(mem[q].home)', pc'[q] \in ErasePcs \ {"reselect"}
      PROVE  Cleared(mem[q].home, pc[q])'
  <2>1. ASSUME NEW h \in Uid, mem'[q].home = h, mem[q].home = h, pc[q] \in ErasePcs,
               HomePresent(h) => Cleared(h, pc'[q])
        PROVE  Cleared(mem[q].home, pc[q])'
    <3>1. home[h].st # "none"
      BY <2>1, HomeInHand
    <3>2. HomePresent(h)
      <4>1. home'[h].st \in {"live", "terminating"}
        BY <1>1, <2>1 DEF HomePresent
      <4>2. Edited(h)
        BY <3>1, HomeMoves DEF Provided
      <4>3. QED
        BY <4>1, <4>2, HomesStay DEF HomePresent
    <3>3. Cleared(h, pc'[q])
      BY <2>1, <3>2
    <3>4. ASSUME NEW here, here = pc'[q], Cleared(h, here)
          PROVE  Cleared(h, here)'
      BY <2>1, <3>1, <3>4, ClearedStays
    <3>5. QED
      BY <2>1, <3>3, <3>4 DEF Cleared, Mounted
  <2>2. CASE mem'[q] = mem[q] /\ pc'[q] = pc[q]
    <3>1. mem[q].home \in Uid /\ pc[q] \in ErasePcs
      BY <1>1, <2>2, HomeInHand
    <3>2. HomePresent(mem[q].home) => Cleared(mem[q].home, pc[q])
      BY DEF Inspected, Cleared
    <3>3. QED
      BY <2>1, <2>2, <3>1, <3>2
  <2>3. CASE EraseStep(q)
    <3>1. CASE LockRetained(q)
      BY <1>1, <3>1, AtMoves DEF LockRetained
    <3>2. CASE DropRetained(q)
      BY <1>1, <3>2, ReturnMoves DEF DropRetained, ErasePcs
    <3>3. CASE Reselect(q)
      BY <3>3, AtMoves DEF Reselect, Cleared
    <3>4. CASE ~LockRetained(q) /\ ~DropRetained(q) /\ ~Reselect(q)
      <4>1. mem'[q].home = mem[q].home /\ pc[q] \in ErasePcs \ {"reselect"}
        BY <2>3, <3>4, EraseHeld
      <4>2. mem[q].home \in Uid
        BY <4>1, HomeInHand
      <4>3. HomePresent(mem[q].home) => Cleared(mem[q].home, pc'[q])
        BY <2>3, <3>4, ClearedFound
      <4>4. QED
        BY <2>1, <4>1, <4>2, <4>3
    <3>5. QED
      BY <3>1, <3>2, <3>3, <3>4
  <2>4. QED
    BY <1>1, <2>2, <2>3, EraseEntered, Movers
<1>2. ASSUME NEW q \in Procs, HomePresent(mem[q].home)', pc'[q] \notin ErasePcs \ {"reselect"}
      PROVE  Cleared(mem[q].home, pc[q])'
  BY <1>2 DEF Cleared, ErasePcs
<1>3. QED
  BY <1>1, <1>2 DEF Inspected, Cleared

-----------------------------------------------------------------------------
(* The promise *)

\* A record left by an older version names the Sandbox that its home was made for.
LEMMA InitRetired == Init => RetiredInv
<1> SUFFICES ASSUME NEW legacy \in Legacies, Beginning(legacy)
             PROVE  RetiredInv
  BY DEF Init
<1>1. CustodyInv
  BY InitCustody DEF Init
<1>2. \A p \in Procs : pc[p] = "idle"
  BY DEF Beginning
<1>3. ASSUME NEW h \in Uid, retained[h].state # "none"
      PROVE  Origin(retained[h].origin, h) /\ retained[h].state # "deleting"
  <2>1. PICK name \in SandboxNames, policy \in Policies :
          /\ sandbox = [u \in Uid |->
               [st |-> IF u <= lastUid THEN "gone" ELSE "none", name |-> name,
                mode |-> "Running", seen |-> FALSE, ready |-> FALSE, pod |-> FALSE]]
          /\ home = [k \in Uid |->
               [st |-> IF k <= lastUid THEN "live" ELSE "none", name |-> name, owner |-> 0,
                adoptable |-> legacy = "restoring", pv |-> "bound", policy |-> policy]]
    BY DEF Beginning
  <2>2. retained[h] = IF h <= lastUid THEN [state |-> legacy, origin |-> h, volume |-> FALSE]
                      ELSE NoRetained
    BY DEF Beginning
  <2>3. h <= lastUid /\ retained[h].origin = h /\ retained[h].state = legacy
    BY <1>3, <2>2 DEF NoRetained
  <2>4. h # 0
    BY ClaimsAssumption DEF Uid
  <2>5. sandbox[h].st = "gone" /\ sandbox[h].name = home[h].name
    BY <2>1, <2>3
  <2>6. QED
    BY <2>3, <2>4, <2>5, LegacyAssumption DEF Origin
<1>4. NamesFollow /\ VolumesFollow /\ Inspected
  BY <1>2, <1>3 DEF NamesFollow, VolumesFollow, Inspected, ErasePcs
<1>5. QED
  BY <1>1, <1>4 DEF RetiredInv

LEMMA NextRetired == RetiredInv /\ [Next]_vars => RetiredInv'
  BY NextCustody, NamesFollowKept, VolumesFollowKept, InspectedKept DEF RetiredInv

\* What an inspection has found holds until the delete request, whatever other commands,
\* controllers and administrators do in between.
THEOREM RetiredHolds == Spec => []RetiredInv
  BY InitRetired, NextRetired, PTL DEF Spec

\* The step that requests the deletion finds its home as the inspection left it.
LEMMA RequestedIsRetired ==
  ASSUME RetiredInv, [Next]_vars, NEW h \in Uid, home[h].st = "live", home'[h].st = "terminating"
  PROVE  /\ home[h].owner = 0 /\ ~home[h].adoptable
         /\ claim = 0 /\ Named(home[h].name) = {} /\ ~Mounted(h)
         /\ home[h].pv = "bound" => home[h].policy = "Delete"
<1> CustodyInv /\ TypeOK /\ CompleteCopies /\ HandedOver /\ VolumesFollow /\ Inspected
  BY DEF RetiredInv, CustodyInv, IInv, Bookkeeping
<1>1. Requested(h)
  <2>1. Edited(h)
    BY HomeMoves DEF Provided
  <2>2. QED
    BY <2>1 DEF Edited, Untouched, Stripped, Adopted, Orphaned, Finished, Emptied, SameState
<1>2. PICK p \in Procs : DeletePVC(p) /\ mem[p].home = h
  BY <1>1 DEF Requested
<1>3. pc[p] = "erase"
  BY <1>2, AtMoves DEF DeletePVC
<1>4. claim = 0 /\ Named(home[h].name) = {} /\ ~Mounted(h)
  BY <1>2, <1>3 DEF Inspected, HomePresent
<1>5. Going(h)
  BY <1>2, <1>3 DEF HandedOver, VolumesFollow, ErasePcs
<1>6. QED
  BY <1>1, <1>4, <1>5, RequestedIsFree DEF Going

\* A home is destroyed only when nothing can be using it or come to use it.
THEOREM ErasedIsRetired == Spec => EraseOnlyRetired
<1>1. RetiredInv /\ [Next]_vars =>
        [\A h \in Uid : home[h].st = "live" /\ home'[h].st = "terminating" =>
           /\ home[h].owner = 0 /\ ~home[h].adoptable
           /\ claim = 0 /\ Named(home[h].name) = {} /\ ~Mounted(h)
           /\ home[h].pv = "bound" => home[h].policy = "Delete"]_vars
  BY RequestedIsRetired
<1>2. QED
  BY <1>1, RetiredHolds, PTL DEF Spec, EraseOnlyRetired
=============================================================================
