-------------------------- MODULE WorkspaceFrames --------------------------
(***************************************************************************)
(* What the steps of Workspace keep.  Every step keeps the state well      *)
(* typed; one that reads the records at the UIDs its copy holds, because   *)
(* of CompleteCopies.                                                      *)
(*                                                                         *)
(* Few steps touch the records of an allocation or a copy of them.  The    *)
(* others are quiet: the second part says once what a quiet step, a        *)
(* returning command and the cluster leave alone, so that the proofs about *)
(* records treat each of them as one step.                                 *)
(***************************************************************************)
EXTENDS WorkspaceInductive, TLAPS

\* Zero, the UID of nothing, is a UID a copy may hold.
LEMMA UidFacts == 0 \in Uid0 /\ Uid \subseteq Uid0 /\ \A u \in Uid0 : u # 0 => u \in Uid
  BY ClaimsAssumption DEF Uid, Uid0

\* The empty memory, whatever command it is for.
LEMMA EmptyMemory ==
  /\ NoMemory \in Memory
  /\ \A cmd \in Commands : [NoMemory EXCEPT !.cmd = cmd] \in Memory
  BY UidFacts DEF NoMemory, Memory, Phases, Modes, Links, States

\* A move of one command keeps control well typed.
LEMMA AtType ==
  ASSUME pc \in [Procs -> Pcs], NEW p \in Procs, NEW here, NEW next \in Pcs, At(p, here, next)
  PROVE  pc' \in [Procs -> Pcs]
  BY DEF At

\* A command that keeps a memory keeps the memories well typed.
LEMMA KeepType ==
  ASSUME mem \in [Procs -> Memory], NEW p \in Procs, NEW m \in Memory, Keep(p, m)
  PROVE  mem' \in [Procs -> Memory]
  BY DEF Keep

\* A command that returns keeps the state of the processes well typed.
LEMMA ReturnType ==
  ASSUME TypeOK, NEW p \in Procs, Return(p)
  PROVE  /\ pc' \in [Procs -> Pcs] /\ mem' \in [Procs -> Memory] /\ holder' \subseteq Procs
  BY EmptyMemory, KeepType DEF TypeOK, Return, Pcs

\* The copy of a record is a memory.
LEMMA CopyType ==
  ASSUME TypeOK, NEW m \in Memory, NEW i \in Uid0
  PROVE  Copy(m, i) \in Memory
<1>1. CASE i = 0
  BY <1>1, UidFacts DEF Copy, Memory, Phases
<1>2. CASE i # 0
  <2>1. managed[i] \in Managed
    BY <1>2, UidFacts DEF TypeOK
  <2>2. QED
    BY <1>2, <2>1 DEF Copy, Memory, Managed
<1>3. QED
  BY <1>1, <1>2

\* What the steps write into a Sandbox keeps it one.
LEMMA SandboxEdits ==
  ASSUME NEW s \in Sandbox
  PROVE  /\ \A name \in SandboxNames : [s EXCEPT !.st = "live", !.name = name] \in Sandbox
         /\ \A mode \in Modes : [s EXCEPT !.mode = mode, !.seen = FALSE] \in Sandbox
         /\ \A ready, pod \in BOOLEAN :
              /\ [s EXCEPT !.seen = TRUE, !.ready = ready, !.pod = pod] \in Sandbox
              /\ [s EXCEPT !.ready = ready, !.pod = pod] \in Sandbox
         /\ [s EXCEPT !.pod = FALSE] \in Sandbox
         /\ \A st \in {"deleting", "gone"} : [s EXCEPT !.st = st] \in Sandbox
  BY DEF Sandbox

\* What the steps write into a home keeps it one.
LEMMA HomeEdits ==
  ASSUME NEW h \in Home
  PROVE  /\ \A owner \in Uid0 : [h EXCEPT !.owner = owner] \in Home
         /\ [h EXCEPT !.adoptable = FALSE] \in Home
         /\ \A st \in {"terminating", "gone"} : [h EXCEPT !.st = st] \in Home
         /\ [h EXCEPT !.pv = "gone"] \in Home
  BY DEF Home

\* Starting a command keeps the state well typed.
LEMMA StartTypes ==
  ASSUME TypeOK, NEW p \in Procs, Start(p)
  PROVE  TypeOK'
<1> USE DEF TypeOK, cluster, records, links
<1>1. CASE StartCreate(p)
  BY <1>1, EmptyMemory, AtType, KeepType DEF StartCreate, Lock, Pcs, CreatePcs
<1>2. CASE StartFromRetained(p)
  <2>1. PICK h \in Uid : Keep(p, [NoMemory EXCEPT !.cmd = "delete", !.home = h])
    BY <1>2 DEF StartFromRetained, RetainedFor
  <2>2. [NoMemory EXCEPT !.cmd = "delete", !.home = h] \in Memory
    BY <1>2, UidFacts, EmptyMemory DEF StartFromRetained, Memory
  <2>3. QED
    BY <1>2, <2>1, <2>2, AtType, KeepType DEF StartFromRetained, Pcs
<1>3. ASSUME NEW cmd \in Commands, StartFromRecord(p, cmd)
      PROVE  TypeOK'
  <2>1. PICK i \in Uid : Keep(p, Copy([NoMemory EXCEPT !.cmd = cmd], i))
    BY <1>3 DEF StartFromRecord
  <2>2. Copy([NoMemory EXCEPT !.cmd = cmd], i) \in Memory
    BY CopyType, UidFacts, EmptyMemory
  <2>3. QED
    BY <1>3, <2>1, <2>2, AtType, KeepType DEF StartFromRecord, Pcs, ModePcs
<1>4. CASE StartConnect(p)
  <2>1. PICK name \in SandboxNames : Keep(p, [NoMemory EXCEPT !.cmd = "connect", !.name = name])
    BY <1>4 DEF StartConnect
  <2>2. [NoMemory EXCEPT !.cmd = "connect", !.name = name] \in Memory
    BY <1>4, EmptyMemory DEF StartConnect, Memory
  <2>3. QED
    BY <1>4, <2>1, <2>2, AtType, KeepType DEF StartConnect, Pcs, ConnectPcs
<1>5. CASE StartDisconnect(p)
  <2>1. PICK u \in Uid :
          Keep(p, [NoMemory EXCEPT !.cmd = "disconnect", !.sandbox = u, !.link = conn[u]])
    BY <1>5 DEF StartDisconnect
  <2>2. [NoMemory EXCEPT !.cmd = "disconnect", !.sandbox = u, !.link = conn[u]] \in Memory
    BY <1>5, UidFacts, EmptyMemory DEF StartDisconnect, Memory
  <2>3. QED
    BY <1>5, <2>1, <2>2, AtType, KeepType DEF StartDisconnect, Pcs, ConnectPcs
<1>6. QED
  BY <1>1, <1>2, <1>3, <1>4, <1>5 DEF Start

\* So do the steps of create (Client.CreateSandbox),
LEMMA CreateTypes ==
  ASSUME TypeOK, NEW p \in Procs, CreateStep(p)
  PROVE  TypeOK'
<1> DEFINE m == mem[p]
<1> m \in Memory
  BY DEF TypeOK
<1> USE DEF TypeOK, cluster, records, links, Pcs, CreatePcs
<1>1. CASE CheckOrigin(p)
  BY <1>1, AtType DEF CheckOrigin
<1>2. CASE SelectSaved(p)
  <2>1. PICK i \in Uid0, rekey \in BOOLEAN : Keep(p, [Copy(m, i) EXCEPT !.rekey = rekey])
    BY <1>2 DEF SelectSaved
  <2>2. [Copy(m, i) EXCEPT !.rekey = rekey] \in Memory
    BY CopyType DEF Memory
  <2>3. QED
    BY <1>2, <2>1, <2>2, AtType, KeepType DEF SelectSaved
<1>3. CASE GetClaim(p)
  <2>1. [m EXCEPT !.claim = claim, !.ready = claimReady] \in Memory
    BY DEF Memory
  <2>2. QED
    BY <1>3, <2>1, AtType, KeepType DEF GetClaim
<1>4. CASE CreateClaim(p)
  <2>1. lastUid + 1 \in Uid
    BY <1>4, ClaimsAssumption DEF CreateClaim, Uid, Uid0
  <2>2. [m EXCEPT !.claim = lastUid + 1] \in Memory
    BY <2>1, UidFacts DEF Memory
  <2>3. QED
    BY <1>4, <2>1, <2>2, UidFacts, AtType, KeepType DEF CreateClaim
<1>5. CASE RecordClaim(p)
  <2>1. [NoManaged EXCEPT !.phase = "claimed"] \in Managed
    BY UidFacts DEF NoManaged, Managed, Phases
  <2>2. [m EXCEPT !.rec = m.claim, !.phase = "claimed"] \in Memory
    BY DEF Memory, Phases
  <2>3. QED
    BY <1>5, <2>1, <2>2, AtType, KeepType DEF RecordClaim
<1>6. CASE WaitReady(p)
  <2>1. [m EXCEPT !.ready = FALSE] \in Memory
    BY DEF Memory
  <2>2. QED
    BY <1>6, <2>1, AtType, KeepType DEF WaitReady
<1>7. CASE ResolveSandbox(p)
  <2>1. PICK u \in Uid : Keep(p, [m EXCEPT !.sandbox = u])
    BY <1>7 DEF ResolveSandbox, Named
  <2>2. [m EXCEPT !.sandbox = u] \in Memory
    BY UidFacts DEF Memory
  <2>3. QED
    BY <1>7, <2>1, <2>2, AtType, KeepType DEF ResolveSandbox
<1>8. CASE ResolveHome(p)
  <2>1. PICK h \in Uid : Keep(p, [m EXCEPT !.home = h])
    BY <1>8 DEF ResolveHome
  <2>2. [m EXCEPT !.home = h] \in Memory
    BY UidFacts DEF Memory
  <2>3. QED
    BY <1>8, <2>1, <2>2, AtType, KeepType DEF ResolveHome
<1>9. CASE SaveBinding(p)
  <2>1. [phase |-> "bound", sandbox |-> m.sandbox, home |-> m.home] \in Managed
    BY DEF Managed, Memory, Phases
  <2>2. [m EXCEPT !.phase = "bound", !.rekey = FALSE] \in Memory
    BY DEF Memory, Phases
  <2>3. QED
    BY <1>9, <2>1, <2>2, AtType, KeepType DEF SaveBinding, ConnectPcs
<1>10. QED
  BY <1>1, <1>2, <1>3, <1>4, <1>5, <1>6, <1>7, <1>8, <1>9 DEF CreateStep

\* the steps of connect and disconnect (connect, disconnect),
LEMMA ConnectTypes ==
  ASSUME TypeOK, NEW p \in Procs, ConnectStep(p)
  PROVE  TypeOK'
<1> DEFINE m == mem[p]
<1> m \in Memory
  BY DEF TypeOK
<1> USE DEF TypeOK, cluster, records, links, Links
<1>1. CASE SelectLink(p)
  <2>1. PICK u \in Uid, other \in BOOLEAN :
          /\ At(p, "link", IF other THEN "adopt" ELSE "reach")
          /\ Keep(p, [m EXCEPT !.sandbox = u, !.link = conn[u]])
    BY <1>1 DEF SelectLink
  <2>2. [m EXCEPT !.sandbox = u, !.link = conn[u]] \in Memory
    BY UidFacts DEF Memory
  <2>3. QED
    BY <1>1, <2>1, <2>2, AtType, KeepType DEF SelectLink, Pcs, ConnectPcs
<1>2. CASE FirstLink(p)
  <2>1. [m EXCEPT !.link = "none"] \in Memory
    BY DEF Memory
  <2>2. QED
    BY <1>2, <2>1, AtType, KeepType DEF FirstLink, Pcs, ConnectPcs
<1>3. CASE AdoptIdentity(p)
  <2>1. m.link \in Links
    BY DEF Memory
  <2>2. QED
    BY <1>3, <2>1, AtType DEF AdoptIdentity, Pcs, ConnectPcs
<1>4. CASE Reach(p)
  <2>1. PICK u \in Uid : Keep(p, [m EXCEPT !.sandbox = u])
    BY <1>4 DEF Reach, Named
  <2>2. [m EXCEPT !.sandbox = u] \in Memory
    BY UidFacts DEF Memory
  <2>3. QED
    BY <1>4, <2>1, <2>2, AtType, KeepType DEF Reach, Pcs, ConnectPcs
<1>5. CASE PrepareLink(p)
  <2>1. [m EXCEPT !.link = "prepared"] \in Memory
    BY DEF Memory
  <2>2. QED
    BY <1>5, <2>1, AtType, KeepType DEF PrepareLink, Pcs, ConnectPcs
<1>6. CASE Attach(p)
  BY <1>6, AtType DEF Attach, Pcs, ConnectPcs
<1>7. CASE SaveLink(p)
  BY <1>7, ReturnType DEF SaveLink
<1>8. CASE Disconnect(p)
  BY <1>8, ReturnType DEF Disconnect, Released
<1>9. QED
  BY <1>1, <1>2, <1>3, <1>4, <1>5, <1>6, <1>7, <1>8 DEF ConnectStep

\* the steps that read an allocation and change its operating mode (ApplyOperatingMode),
LEMMA ModeTypes ==
  ASSUME TypeOK, CompleteCopies, NEW p \in Procs, ModeStep(p)
  PROVE  TypeOK'
<1> DEFINE m == mem[p]
           u == m.sandbox
<1> m \in Memory
  BY DEF TypeOK
<1> u \in Uid
  BY UidFacts DEF ModeStep, ReadClaim, ReadSandbox, ReadHome, Disable, PatchMode, WaitMode,
                  HomeAgain, At, CompleteCopies, ModePcs, Memory
<1> USE DEF TypeOK, cluster, records, links
<1>1. CASE ReadClaim(p)
  <2>1. [m EXCEPT !.claim = claim] \in Memory
    BY DEF Memory
  <2>2. QED
    BY <1>1, <2>1, AtType, KeepType DEF ReadClaim, Pcs, ModePcs
<1>2. CASE ReadSandbox(p)
  <2>1. Present(u) \in BOOLEAN /\ sandbox[u].mode \in Modes
    BY DEF Present, Sandbox
  <2>2. [m EXCEPT !.found = Present(u), !.mode = sandbox[u].mode] \in Memory
    BY <2>1 DEF Memory
  <2>3. QED
    BY <1>2, <2>2, AtType, KeepType DEF ReadSandbox, Pcs, ModePcs
<1>3. CASE ReadHome(p)
  <2>1. [m EXCEPT !.link = conn[u]] \in Memory
    BY DEF Memory
  <2>2. PICK next \in {"verify", "patch", "disable"} : At(p, "home", next)
    BY <1>3 DEF ReadHome, Memory
  <2>3. QED
    BY <1>3, <2>1, <2>2, AtType, KeepType DEF ReadHome, Pcs, ModePcs, ReleasePcs
<1>4. CASE Disable(p)
  BY <1>4, AtType DEF Disable, Released, Pcs, ModePcs
<1>5. CASE PatchMode(p)
  <2>1. Wanted(p) \in Modes
    BY DEF Wanted, Modes
  <2>2. [sandbox[u] EXCEPT !.mode = Wanted(p), !.seen = FALSE] \in Sandbox
    BY <2>1, SandboxEdits
  <2>3. sandbox' \in [Uid -> Sandbox]
    BY <1>5, <2>2 DEF PatchMode
  <2>4. [m EXCEPT !.mode = "Running", !.found = FALSE] \in Memory
    BY DEF Memory, Modes
  <2>5. QED
    BY <1>5, <2>3, <2>4, AtType, KeepType DEF PatchMode, Pcs, ModePcs
<1>6. CASE WaitMode(p)
  <2>1. PICK next \in {"again", "orphanClaim", "strip"} : At(p, "wait", next)
    BY <1>6 DEF WaitMode, Memory
  <2>2. QED
    BY <1>6, <2>1, AtType DEF WaitMode, Pcs, ModePcs, ReleasePcs
<1>7. CASE HomeAgain(p)
  BY <1>7, AtType, ReturnType DEF HomeAgain, Pcs, ConnectPcs
<1>8. QED
  BY <1>1, <1>2, <1>3, <1>4, <1>5, <1>6, <1>7 DEF ModeStep

\* the steps that take an allocation apart around its home (retainSandboxHome),
LEMMA RetainTypes ==
  ASSUME TypeOK, NEW p \in Procs, RetainStep(p)
  PROVE  TypeOK'
<1> DEFINE m == mem[p]
<1> m \in Memory
  BY DEF TypeOK
<1> USE DEF TypeOK, cluster, records, links, Pcs, ReleasePcs
<1>1. CASE OrphanClaim(p)
  BY <1>1, AtType DEF OrphanClaim
<1>2. CASE ClaimGone(p) \/ Recheck(p)
  BY <1>2, AtType DEF ClaimGone, Recheck
<1>3. CASE StripLabels(p)
  BY <1>3, AtType, HomeEdits DEF StripLabels
<1>4. CASE OrphanSandbox(p)
  BY <1>4, AtType, SandboxEdits DEF OrphanSandbox
<1>5. CASE SandboxGone(p) \/ VerifyRetained(p)
  BY <1>5, AtType DEF SandboxGone, VerifyRetained
<1>6. CASE SaveRetained(p)
  <2>1. [state |-> "available", origin |-> m.sandbox, volume |-> FALSE] \in Retained
    BY DEF Memory, Retained, States
  <2>2. QED
    BY <1>6, <2>1, AtType DEF SaveRetained, CleanupPcs
<1>7. CASE RemoveMachine(p)
  BY <1>7, AtType DEF RemoveMachine, CleanupPcs
<1>8. CASE RemoveFiles(p)
  BY <1>8, AtType DEF RemoveFiles, CleanupPcs, Links
<1>9. CASE Forget(p)
  <2>1. NoManaged \in Managed
    BY UidFacts DEF NoManaged, Managed, Phases
  <2>2. [NoMemory EXCEPT !.cmd = m.cmd, !.home = m.home] \in Memory
    BY EmptyMemory DEF Memory
  <2>3. QED
    BY <1>9, <2>1, <2>2, AtType, KeepType DEF Forget
<1>10. QED
  BY <1>1, <1>2, <1>3, <1>4, <1>5, <1>6, <1>7, <1>8, <1>9 DEF RetainStep

\* the steps that destroy a retained home (deleteRetainedHome),
LEMMA EraseTypes ==
  ASSUME TypeOK, CompleteCopies, NEW p \in Procs, EraseStep(p)
  PROVE  TypeOK'
<1> DEFINE m == mem[p]
           h == m.home
<1> m \in Memory
  BY DEF TypeOK
<1> h \in Uid
  BY UidFacts DEF EraseStep, LockRetained, Reselect, CheckPending, InspectHome, InspectAllocation,
                  InspectMounts, InspectVolume, MarkDeleting, DeletePVC, StorageGone, DropRetained,
                  At, CompleteCopies, ErasePcs, Memory
<1> USE DEF TypeOK, cluster, records, links, Pcs, ErasePcs
<1>1. CASE LockRetained(p)
  BY <1>1, AtType DEF LockRetained, Lock
<1>2. CASE Reselect(p)
  <2> DEFINE r == retained[h]
  <2>1. r \in Retained
    OBVIOUS
  <2>2. [m EXCEPT !.state = r.state, !.sandbox = r.origin, !.volume = r.volume] \in Memory
    BY <2>1 DEF Memory, Retained
  <2>3. QED
    BY <1>2, <2>2, AtType, KeepType DEF Reselect
<1>3. CASE CheckPending(p)
  BY <1>3, AtType DEF CheckPending
<1>4. CASE InspectHome(p) \/ InspectAllocation(p)
  BY <1>4, AtType DEF InspectHome, InspectAllocation
<1>5. CASE InspectMounts(p)
  BY <1>5, AtType, HomeEdits DEF InspectMounts
<1>6. CASE InspectVolume(p)
  <2>1. [m EXCEPT !.volume = (home[h].pv = "bound")] \in Memory
    BY DEF Memory
  <2>2. QED
    BY <1>6, <2>1, AtType, KeepType DEF InspectVolume
<1>7. CASE MarkDeleting(p)
  <2>1. [state |-> "deleting", origin |-> m.sandbox, volume |-> m.volume] \in Retained
    BY DEF Memory, Retained, States
  <2>2. [m EXCEPT !.state = "deleting"] \in Memory
    BY DEF Memory, States
  <2>3. QED
    BY <1>7, <2>1, <2>2, AtType, KeepType DEF MarkDeleting
<1>8. CASE DeletePVC(p)
  BY <1>8, AtType, HomeEdits DEF DeletePVC
<1>9. CASE StorageGone(p)
  BY <1>9, AtType DEF StorageGone
<1>10. CASE DropRetained(p)
  <2>1. NoRetained \in Retained
    BY UidFacts DEF NoRetained, Retained, States
  <2>2. QED
    BY <1>10, <2>1, ReturnType DEF DropRetained
<1>11. QED
  BY <1>1, <1>2, <1>3, <1>4, <1>5, <1>6, <1>7, <1>8, <1>9, <1>10 DEF EraseStep

\* and what the controllers and administrators do between the calls.
LEMMA ClusterTypes ==
  ASSUME TypeOK, Controllers \/ \E h \in Uid : LoseVolume(h) \/ PodFails(h)
  PROVE  TypeOK'
<1> USE DEF TypeOK, records, links
<1>1. ASSUME NEW name \in SandboxNames, BindClaim(name)
      PROVE  TypeOK'
  <2>1. claim \in Uid
    BY <1>1, UidFacts DEF BindClaim
  <2>2. QED
    BY <1>1, <2>1, SandboxEdits DEF BindClaim
<1>2. CASE FinishClaim
  BY <1>2, UidFacts DEF FinishClaim
<1>3. ASSUME NEW u \in Uid, ProvisionHome(u)
      PROVE  TypeOK'
  <2>1. PICK policy \in Policies : home' = [home EXCEPT ![u] =
          [st |-> "live", name |-> sandbox[u].name, owner |-> u, adoptable |-> TRUE,
           pv |-> "bound", policy |-> policy]]
    BY <1>3 DEF ProvisionHome
  <2>2. [st |-> "live", name |-> sandbox[u].name, owner |-> u, adoptable |-> TRUE,
         pv |-> "bound", policy |-> policy] \in Home
    BY UidFacts, PoliciesAssumption DEF Home, Sandbox
  <2>3. QED
    BY <1>3, <2>1, <2>2 DEF ProvisionHome
<1>4. ASSUME NEW u \in Uid, Reconcile(u)
      PROVE  TypeOK'
  <2>1. PodAfter(u) \in BOOLEAN /\ (sandbox[u].mode = "Running") \in BOOLEAN
    BY DEF PodAfter, Sandbox
  <2>2. [sandbox[u] EXCEPT !.seen = TRUE, !.ready = (sandbox[u].mode = "Running"),
                           !.pod = PodAfter(u)] \in Sandbox
    BY <2>1, SandboxEdits
  <2>3. QED
    BY <1>4, <2>2 DEF Reconcile
<1>5. ASSUME NEW u \in Uid, PodStops(u)
      PROVE  TypeOK'
  BY <1>5, SandboxEdits DEF PodStops
<1>6. ASSUME NEW u \in Uid, FinishSandbox(u)
      PROVE  TypeOK'
  BY <1>6, SandboxEdits DEF FinishSandbox
<1>7. ASSUME NEW h \in Uid, AdoptHome(h)
      PROVE  TypeOK'
  <2>1. PICK u \in Uid : home' = [home EXCEPT ![h].owner = u]
    BY <1>7 DEF AdoptHome, Named
  <2>2. home' \in [Uid -> Home]
    BY <2>1, UidFacts, HomeEdits
  <2>3. QED
    BY <1>7, <2>2 DEF AdoptHome
<1>8. ASSUME NEW h \in Uid, OrphanHome(h)
      PROVE  TypeOK'
  BY <1>8, UidFacts, HomeEdits DEF OrphanHome
<1>9. ASSUME NEW h \in Uid, FinishHome(h)
      PROVE  TypeOK'
  BY <1>9, HomeEdits DEF FinishHome
<1>10. ASSUME NEW h \in Uid, Reclaim(h)
       PROVE  TypeOK'
  BY <1>10, HomeEdits DEF Reclaim
<1>11. ASSUME NEW h \in Uid, LoseVolume(h)
       PROVE  TypeOK'
  BY <1>11, HomeEdits DEF LoseVolume
<1>12. CASE ReportClaim
  <2>1. claimReady' \in BOOLEAN
    BY <1>12, UidFacts DEF ReportClaim, Present, Sandbox
  <2>2. QED
    BY <1>12, <2>1 DEF ReportClaim
<1>13. ASSUME NEW u \in Uid, PodFails(u)
       PROVE  TypeOK'
  <2>1. PICK ready \in BOOLEAN, pod \in BOOLEAN :
          sandbox' = [sandbox EXCEPT ![u] = [@ EXCEPT !.ready = ready, !.pod = pod]]
    BY <1>13 DEF PodFails
  <2>2. [sandbox[u] EXCEPT !.ready = ready, !.pod = pod] \in Sandbox
    BY SandboxEdits
  <2>3. QED
    BY <1>13, <2>1, <2>2 DEF PodFails
<1>14. QED
  BY <1>1, <1>2, <1>3, <1>4, <1>5, <1>6, <1>7, <1>8, <1>9, <1>10, <1>11, <1>12, <1>13 DEF Controllers

\* An instance starts well typed, with or without a record of an older version.
LEMMA InitTypes == Init => TypeOK
<1> SUFFICES ASSUME NEW legacy \in Legacies, Beginning(legacy)
             PROVE  TypeOK
  BY DEF Init
<1>1. lastUid \in Uid0 /\ claim \in Uid0
  BY ClaimsAssumption DEF Beginning, Uid0
<1>2. PICK name \in SandboxNames, policy \in Policies :
        /\ sandbox = [u \in Uid |->
             [st |-> IF u <= lastUid THEN "gone" ELSE "none", name |-> name,
              mode |-> "Running", seen |-> FALSE, ready |-> FALSE, pod |-> FALSE]]
        /\ home = [h \in Uid |->
             [st |-> IF h <= lastUid THEN "live" ELSE "none", name |-> name, owner |-> 0,
              adoptable |-> legacy = "restoring", pv |-> "bound", policy |-> policy]]
  BY DEF Beginning
<1>3. sandbox \in [Uid -> Sandbox] /\ home \in [Uid -> Home]
  BY <1>2, UidFacts, PoliciesAssumption DEF Sandbox, Home, Modes
<1>4. managed \in [Uid -> Managed] /\ retained \in [Uid -> Retained]
  BY UidFacts, LegacyAssumption DEF Beginning, Managed, NoManaged, Phases, Retained, NoRetained, States
<1>5. QED
  BY <1>1, <1>3, <1>4, EmptyMemory DEF Beginning, TypeOK, Links, Pcs

\* Every step keeps the state well typed, provided the copies are complete.
LEMMA NextTypes ==
  ASSUME TypeOK, CompleteCopies, [Next]_vars
  PROVE  TypeOK'
<1>1. ASSUME NEW p \in Procs, Interrupt(p)
      PROVE  TypeOK'
  BY <1>1, ReturnType DEF Interrupt, TypeOK, cluster, records, links
<1>2. CASE UNCHANGED vars
  BY <1>2 DEF TypeOK, vars
<1>3. QED
  BY <1>1, <1>2, StartTypes, CreateTypes, ConnectTypes, ModeTypes, RetainTypes, EraseTypes,
     ClusterTypes DEF Next, Step

-----------------------------------------------------------------------------
\* The stages of a command that holds a copy of a bound record.
BoundPcs == ModePcs \cup ReleasePcs \cup CleanupPcs

\* A step of one command changes nothing about the others.
OthersKeep(p) == \A q \in Procs \ {p} : mem'[q] = mem[q] /\ pc'[q] = pc[q]

\* A home that has been provisioned does not return to what it was before.
HomesLast == \A h \in Uid : home[h].st # "none" =>
  /\ home'[h].st # "none"
  /\ home[h].st = "gone" => home'[h].st = "gone"
  /\ home[h].pv = "gone" => home'[h].pv = "gone"

\* Memory n holds the same copy of a record as memory m.
SameCopy(m, n) ==
  /\ n.rec = m.rec /\ n.phase = m.phase /\ n.home = m.home /\ n.claim = m.claim
  /\ m.phase = "bound" => n.sandbox # 0

\* A step that leaves the managed records and the copy of them as they are.
Quiet(p) ==
  /\ OthersKeep(p) /\ HomesLast
  /\ SameCopy(mem[p], mem'[p])
  /\ UNCHANGED <<managed, claim, lastUid>>
  /\ \A h \in Uid : retained'[h].state # "none" => retained[h].state # "none" \/ h = mem[p].home
  /\ \/ pc[p] \in BoundPcs /\ pc'[p] \in BoundPcs \cup ConnectPcs
     \/ pc[p] \in ConnectPcs /\ pc'[p] \in ConnectPcs
     \/ pc[p] \in ErasePcs \cup {"lock"} /\ pc'[p] \in ErasePcs
     \/ pc[p] = "origin" /\ pc'[p] = "select"
     \/ pc[p] = "ready" /\ pc'[p] = "resolve"
     \/ pc[p] = "resolve" /\ pc'[p] = "resolveHome" /\ mem'[p].sandbox # 0

\* A command that moves leaves the control of the others alone,
LEMMA AtMoves ==
  ASSUME TypeOK, NEW p \in Procs, NEW here, NEW next, At(p, here, next)
  PROVE  /\ pc[p] = here /\ pc'[p] = next
         /\ \A q \in Procs \ {p} : pc'[q] = pc[q]
  BY DEF At, TypeOK

\* and their copies.
LEMMA KeepMoves ==
  ASSUME TypeOK, NEW p \in Procs, NEW m, Keep(p, m)
  PROVE  /\ mem'[p] = m
         /\ \A q \in Procs \ {p} : mem'[q] = mem[q]
  BY DEF Keep, TypeOK

\* A command that leaves its memory alone keeps its copy.
LEMMA SameCopyUnchanged ==
  ASSUME TypeOK, CompleteCopies, NEW p \in Procs, UNCHANGED mem
  PROVE  SameCopy(mem[p], mem'[p])
  BY DEF SameCopy, CompleteCopies

\* The steps of create that only look at the cluster are quiet.
LEMMA QuietCreate ==
  ASSUME TypeOK, CompleteCopies, NEW p \in Procs,
         CheckOrigin(p) \/ WaitReady(p) \/ ResolveSandbox(p)
  PROVE  Quiet(p)
<1> USE DEF Quiet, OthersKeep, HomesLast, cluster, records, links
<1>1. CASE CheckOrigin(p)
  BY <1>1, AtMoves, SameCopyUnchanged DEF CheckOrigin
<1>2. CASE WaitReady(p)
  <2>1. SameCopy(mem[p], [mem[p] EXCEPT !.ready = FALSE])
    BY DEF TypeOK, Memory, SameCopy, CompleteCopies
  <2>2. SameCopy(mem[p], mem'[p]) /\ \A q \in Procs \ {p} : mem'[q] = mem[q]
    BY <1>2, <2>1, KeepMoves DEF WaitReady
  <2>3. QED
    BY <1>2, <2>2, AtMoves DEF WaitReady
<1>3. CASE ResolveSandbox(p)
  <2>1. PICK u \in Uid : Keep(p, [mem[p] EXCEPT !.sandbox = u])
    BY <1>3 DEF ResolveSandbox, Named
  <2>2. SameCopy(mem[p], [mem[p] EXCEPT !.sandbox = u])
        /\ [mem[p] EXCEPT !.sandbox = u].sandbox # 0
    BY DEF TypeOK, Memory, Uid, SameCopy
  <2>3. mem'[p] = [mem[p] EXCEPT !.sandbox = u] /\ \A q \in Procs \ {p} : mem'[q] = mem[q]
    BY <2>1, KeepMoves
  <2>4. QED
    BY <1>3, <2>2, <2>3, AtMoves DEF ResolveSandbox
<1>4. QED
  BY <1>1, <1>2, <1>3

\* Connect writes connections and machines, never records.
LEMMA QuietConnect ==
  ASSUME TypeOK, CompleteCopies, NEW p \in Procs,
         \/ SelectLink(p) \/ FirstLink(p) \/ AdoptIdentity(p) \/ Reach(p)
         \/ PrepareLink(p) \/ Attach(p)
  PROVE  Quiet(p)
<1> USE DEF Quiet, OthersKeep, HomesLast, cluster, records, links, ConnectPcs
<1>1. CASE SelectLink(p)
  <2>1. PICK u \in Uid, other \in BOOLEAN :
          /\ At(p, "link", IF other THEN "adopt" ELSE "reach")
          /\ Keep(p, [mem[p] EXCEPT !.sandbox = u, !.link = conn[u]])
    BY <1>1 DEF SelectLink
  <2>2. SameCopy(mem[p], [mem[p] EXCEPT !.sandbox = u, !.link = conn[u]])
    BY DEF TypeOK, Memory, Uid, SameCopy
  <2>3. SameCopy(mem[p], mem'[p]) /\ \A q \in Procs \ {p} : mem'[q] = mem[q]
    BY <2>1, <2>2, KeepMoves
  <2>4. QED
    BY <1>1, <2>1, <2>3, AtMoves DEF SelectLink
<1>2. CASE FirstLink(p)
  <2>1. SameCopy(mem[p], [mem[p] EXCEPT !.link = "none"])
    BY DEF TypeOK, Memory, SameCopy, CompleteCopies
  <2>2. SameCopy(mem[p], mem'[p]) /\ \A q \in Procs \ {p} : mem'[q] = mem[q]
    BY <1>2, <2>1, KeepMoves DEF FirstLink
  <2>3. QED
    BY <1>2, <2>2, AtMoves DEF FirstLink
<1>3. CASE AdoptIdentity(p)
  BY <1>3, AtMoves, SameCopyUnchanged DEF AdoptIdentity
<1>4. CASE Reach(p)
  <2>1. PICK u \in Uid : Keep(p, [mem[p] EXCEPT !.sandbox = u])
    BY <1>4 DEF Reach, Named
  <2>2. SameCopy(mem[p], [mem[p] EXCEPT !.sandbox = u])
    BY DEF TypeOK, Memory, Uid, SameCopy
  <2>3. SameCopy(mem[p], mem'[p]) /\ \A q \in Procs \ {p} : mem'[q] = mem[q]
    BY <2>1, <2>2, KeepMoves
  <2>4. QED
    BY <1>4, <2>3, AtMoves DEF Reach
<1>5. CASE PrepareLink(p)
  <2>1. SameCopy(mem[p], [mem[p] EXCEPT !.link = "prepared"])
    BY DEF TypeOK, Memory, SameCopy, CompleteCopies
  <2>2. SameCopy(mem[p], mem'[p]) /\ \A q \in Procs \ {p} : mem'[q] = mem[q]
    BY <1>5, <2>1, KeepMoves DEF PrepareLink
  <2>3. QED
    BY <1>5, <2>2, AtMoves DEF PrepareLink
<1>6. CASE Attach(p)
  BY <1>6, AtMoves, SameCopyUnchanged DEF Attach
<1>7. QED
  BY <1>1, <1>2, <1>3, <1>4, <1>5, <1>6

\* Changing the operating mode never writes records.
LEMMA QuietMode ==
  ASSUME TypeOK, CompleteCopies, NEW p \in Procs,
         \/ ReadSandbox(p) \/ ReadHome(p) \/ Disable(p) \/ PatchMode(p) \/ WaitMode(p)
         \/ HomeAgain(p) /\ mem[p].cmd = "resume"
  PROVE  Quiet(p)
<1> USE DEF Quiet, OthersKeep, HomesLast, cluster, records, links, BoundPcs, ModePcs
<1>1. CASE ReadSandbox(p)
  <2> DEFINE m == [mem[p] EXCEPT !.found = Present(mem[p].sandbox),
                                 !.mode = sandbox[mem[p].sandbox].mode]
  <2>1. SameCopy(mem[p], m)
    BY <1>1 DEF TypeOK, Memory, SameCopy, ReadSandbox, CompleteCopies, At
  <2>2. SameCopy(mem[p], mem'[p]) /\ \A q \in Procs \ {p} : mem'[q] = mem[q]
    BY <1>1, <2>1, KeepMoves DEF ReadSandbox
  <2>3. QED
    BY <1>1, <2>2, AtMoves DEF ReadSandbox
<1>2. CASE ReadHome(p)
  <2>1. SameCopy(mem[p], [mem[p] EXCEPT !.link = conn[mem[p].sandbox]])
    BY <1>2 DEF TypeOK, Memory, SameCopy, ReadHome, CompleteCopies, At
  <2>2. SameCopy(mem[p], mem'[p]) /\ \A q \in Procs \ {p} : mem'[q] = mem[q]
    BY <1>2, <2>1, KeepMoves DEF ReadHome
  <2>3. PICK next \in {"verify", "patch", "disable"} : At(p, "home", next)
    BY <1>2 DEF ReadHome, TypeOK, Memory
  <2>4. QED
    BY <1>2, <2>2, <2>3, AtMoves DEF ReadHome, ReleasePcs
<1>3. CASE Disable(p)
  BY <1>3, AtMoves, SameCopyUnchanged DEF Disable
<1>4. CASE PatchMode(p)
  <2>1. SameCopy(mem[p], [mem[p] EXCEPT !.mode = "Running", !.found = FALSE])
    BY DEF TypeOK, Memory, SameCopy, CompleteCopies
  <2>2. SameCopy(mem[p], mem'[p]) /\ \A q \in Procs \ {p} : mem'[q] = mem[q]
    BY <1>4, <2>1, KeepMoves DEF PatchMode
  <2>3. QED
    BY <1>4, <2>2, AtMoves DEF PatchMode
<1>5. CASE WaitMode(p)
  <2>1. PICK next \in {"again", "orphanClaim", "strip"} : At(p, "wait", next)
    BY <1>5 DEF WaitMode, TypeOK, Memory
  <2>2. QED
    BY <1>5, <2>1, AtMoves, SameCopyUnchanged DEF WaitMode, ReleasePcs
<1>6. CASE HomeAgain(p) /\ mem[p].cmd = "resume"
  BY <1>6, AtMoves, SameCopyUnchanged DEF HomeAgain, ConnectPcs
<1>7. QED
  BY <1>1, <1>2, <1>3, <1>4, <1>5, <1>6

\* Until it forgets the managed record, a delete works on the cluster and retained records.
LEMMA QuietRetain ==
  ASSUME TypeOK, CompleteCopies, NEW p \in Procs, RetainStep(p), ~Forget(p)
  PROVE  Quiet(p)
<1> USE DEF Quiet, OthersKeep, HomesLast, cluster, records, links, BoundPcs, ReleasePcs
<1>1. CASE OrphanClaim(p)
  BY <1>1, AtMoves, SameCopyUnchanged DEF OrphanClaim
<1>2. CASE ClaimGone(p)
  BY <1>2, AtMoves, SameCopyUnchanged DEF ClaimGone
<1>3. CASE Recheck(p)
  BY <1>3, AtMoves, SameCopyUnchanged DEF Recheck
<1>4. CASE StripLabels(p)
  <2>1. HomesLast
    BY <1>4 DEF StripLabels, TypeOK, Home
  <2>2. QED
    BY <1>4, <2>1, AtMoves, SameCopyUnchanged DEF StripLabels
<1>5. CASE OrphanSandbox(p)
  BY <1>5, AtMoves, SameCopyUnchanged DEF OrphanSandbox
<1>6. CASE SandboxGone(p)
  BY <1>6, AtMoves, SameCopyUnchanged DEF SandboxGone
<1>7. CASE VerifyRetained(p)
  BY <1>7, AtMoves, SameCopyUnchanged DEF VerifyRetained
<1>8. CASE SaveRetained(p)
  <2>1. \A h \in Uid \ {mem[p].home} : retained'[h] = retained[h]
    BY <1>8 DEF SaveRetained, TypeOK
  <2>2. QED
    BY <1>8, <2>1, AtMoves, SameCopyUnchanged DEF SaveRetained, CleanupPcs
<1>9. CASE RemoveMachine(p)
  BY <1>9, AtMoves, SameCopyUnchanged DEF RemoveMachine, CleanupPcs
<1>10. CASE RemoveFiles(p)
  BY <1>10, AtMoves, SameCopyUnchanged DEF RemoveFiles, CleanupPcs
<1>11. QED
  BY <1>1, <1>2, <1>3, <1>4, <1>5, <1>6, <1>7, <1>8, <1>9, <1>10 DEF RetainStep

\* Destroying a retained home concerns the home and its retained record.
LEMMA QuietErase ==
  ASSUME TypeOK, CompleteCopies, NEW p \in Procs, EraseStep(p), ~DropRetained(p)
  PROVE  Quiet(p)
<1> USE DEF Quiet, OthersKeep, HomesLast, cluster, records, links, ErasePcs
<1>1. CASE LockRetained(p)
  BY <1>1, AtMoves, SameCopyUnchanged DEF LockRetained
<1>2. CASE Reselect(p)
  <2> DEFINE r == retained[mem[p].home]
  <2>1. mem[p].phase # "bound"
    BY <1>2 DEF Reselect, At, CompleteCopies
  <2>2. SameCopy(mem[p], [mem[p] EXCEPT !.state = r.state, !.sandbox = r.origin, !.volume = r.volume])
    BY <2>1 DEF TypeOK, Memory, SameCopy
  <2>3. SameCopy(mem[p], mem'[p]) /\ \A q \in Procs \ {p} : mem'[q] = mem[q]
    BY <1>2, <2>2, KeepMoves DEF Reselect
  <2>4. QED
    BY <1>2, <2>3, AtMoves DEF Reselect
<1>3. CASE CheckPending(p)
  BY <1>3, AtMoves, SameCopyUnchanged DEF CheckPending
<1>4. CASE InspectHome(p)
  BY <1>4, AtMoves, SameCopyUnchanged DEF InspectHome
<1>5. CASE InspectAllocation(p)
  BY <1>5, AtMoves, SameCopyUnchanged DEF InspectAllocation
<1>6. CASE InspectMounts(p)
  <2>1. HomesLast
    BY <1>6 DEF InspectMounts, TypeOK, Home
  <2>2. QED
    BY <1>6, <2>1, AtMoves, SameCopyUnchanged DEF InspectMounts
<1>7. CASE InspectVolume(p)
  <2>1. SameCopy(mem[p], [mem[p] EXCEPT !.volume = (home[mem[p].home].pv = "bound")])
    BY DEF TypeOK, Memory, SameCopy, CompleteCopies
  <2>2. SameCopy(mem[p], mem'[p]) /\ \A q \in Procs \ {p} : mem'[q] = mem[q]
    BY <1>7, <2>1, KeepMoves, SameCopyUnchanged DEF InspectVolume
  <2>3. QED
    BY <1>7, <2>2, AtMoves DEF InspectVolume
<1>8. CASE MarkDeleting(p)
  <2>1. SameCopy(mem[p], [mem[p] EXCEPT !.state = "deleting"])
    BY DEF TypeOK, Memory, SameCopy, CompleteCopies
  <2>2. SameCopy(mem[p], mem'[p]) /\ \A q \in Procs \ {p} : mem'[q] = mem[q]
    BY <1>8, <2>1, KeepMoves DEF MarkDeleting
  <2>3. \A h \in Uid \ {mem[p].home} : retained'[h] = retained[h]
    BY <1>8 DEF MarkDeleting, TypeOK
  <2>4. QED
    BY <1>8, <2>2, <2>3, AtMoves DEF MarkDeleting
<1>9. CASE DeletePVC(p)
  <2>1. HomesLast
    BY <1>9 DEF DeletePVC, TypeOK, Home, HomePresent
  <2>2. QED
    BY <1>9, <2>1, AtMoves, SameCopyUnchanged DEF DeletePVC
<1>10. CASE StorageGone(p)
  BY <1>10, AtMoves, SameCopyUnchanged DEF StorageGone
<1>11. QED
  BY <1>1, <1>2, <1>3, <1>4, <1>5, <1>6, <1>7, <1>8, <1>9, <1>10 DEF EraseStep

\* A step that ends its command.
Returned(p) ==
  /\ OthersKeep(p)
  /\ pc'[p] = "idle" /\ mem'[p] = NoMemory /\ holder' = holder \ {p}
  /\ UNCHANGED <<claim, lastUid, home, managed>>
  /\ \A h \in Uid : retained'[h] # retained[h] =>
       pc[p] = "drop" /\ h = mem[p].home /\ retained'[h].state = "none"

\* Returning drops the memory and the lock, and nothing else.
LEMMA ReturnMoves ==
  ASSUME TypeOK, NEW p \in Procs, Return(p)
  PROVE  /\ OthersKeep(p)
         /\ pc'[p] = "idle" /\ mem'[p] = NoMemory /\ holder' = holder \ {p}
  BY KeepMoves DEF Return, TypeOK, OthersKeep

\* The steps that end a command; the one that completes a deletion also drops a record.
LEMMA Returning ==
  ASSUME TypeOK, NEW p \in Procs,
         \/ Interrupt(p) \/ SaveLink(p) \/ Disconnect(p) \/ DropRetained(p)
         \/ HomeAgain(p) /\ mem[p].cmd # "resume"
  PROVE  Returned(p)
<1> USE ReturnMoves DEF Returned, cluster, records, links
<1>1. CASE Interrupt(p)
  BY <1>1 DEF Interrupt
<1>2. CASE SaveLink(p)
  BY <1>2 DEF SaveLink
<1>3. CASE DropRetained(p)
  BY <1>3 DEF DropRetained, NoRetained, TypeOK
<1>4. CASE HomeAgain(p) /\ mem[p].cmd # "resume"
  BY <1>4 DEF HomeAgain
<1>5. CASE Disconnect(p)
  BY <1>5 DEF Disconnect
<1>6. QED
  BY <1>1, <1>2, <1>3, <1>4, <1>5

\* A step of the cluster: claims go away by themselves but do not come by themselves.
ClusterMoves ==
  /\ HomesLast
  /\ claim' \in {0, claim}
  /\ UNCHANGED <<lastUid, records, links, holder, pc, mem>>

\* The cluster moves by itself without touching commands or records.
LEMMA ClusterMoving ==
  ASSUME TypeOK, Controllers \/ \E h \in Uid : LoseVolume(h) \/ PodFails(h)
  PROVE  ClusterMoves
<1> USE DEF ClusterMoves
<1>1. ASSUME UNCHANGED home PROVE HomesLast
  BY <1>1 DEF HomesLast
<1>2. ASSUME NEW name \in SandboxNames, BindClaim(name)
      PROVE  ClusterMoves
  BY <1>1, <1>2 DEF BindClaim
<1>3. CASE FinishClaim
  BY <1>1, <1>3 DEF FinishClaim
<1>4. ASSUME NEW u \in Uid, ProvisionHome(u)
      PROVE  ClusterMoves
  <2>1. HomesLast
    BY <1>4 DEF ProvisionHome, HomesLast, TypeOK
  <2>2. QED
    BY <1>4, <2>1 DEF ProvisionHome
<1>5. ASSUME NEW u \in Uid, Reconcile(u) \/ PodStops(u) \/ PodFails(u) \/ FinishSandbox(u)
      PROVE  ClusterMoves
  BY <1>1, <1>5 DEF Reconcile, PodStops, PodFails, FinishSandbox
<1>6. ASSUME NEW h \in Uid, AdoptHome(h)
      PROVE  ClusterMoves
  <2>1. PICK u : home' = [home EXCEPT ![h].owner = u]
    BY <1>6 DEF AdoptHome
  <2>2. HomesLast
    BY <2>1 DEF HomesLast, TypeOK, Home
  <2>3. QED
    BY <1>6, <2>2 DEF AdoptHome
<1>7. ASSUME NEW h \in Uid, OrphanHome(h) \/ FinishHome(h) \/ Reclaim(h) \/ LoseVolume(h)
      PROVE  ClusterMoves
  <2>1. HomesLast
    <3>1. \E e \in Home :
            /\ home' = [home EXCEPT ![h] = e]
            /\ e.st = home[h].st \/ (e.st = "gone" /\ home[h].st = "terminating")
            /\ e.pv = home[h].pv \/ e.pv = "gone"
      <4>1. CASE OrphanHome(h)
        <5>1. [home[h] EXCEPT !.owner = 0] \in Home
          BY UidFacts, HomeEdits DEF TypeOK
        <5>2. QED
          BY <4>1, <5>1 DEF OrphanHome, Home
      <4>2. CASE FinishHome(h)
        <5>1. [home[h] EXCEPT !.st = "gone"] \in Home
          BY HomeEdits DEF TypeOK
        <5>2. QED
          BY <4>2, <5>1 DEF FinishHome, Home
      <4>3. CASE Reclaim(h) \/ LoseVolume(h)
        <5>1. [home[h] EXCEPT !.pv = "gone"] \in Home
          BY HomeEdits DEF TypeOK
        <5>2. QED
          BY <4>3, <5>1 DEF Reclaim, LoseVolume, Home
      <4>4. QED
        BY <1>7, <4>1, <4>2, <4>3
    <3>2. PICK e \in Home :
            /\ home' = [home EXCEPT ![h] = e]
            /\ e.st = home[h].st \/ (e.st = "gone" /\ home[h].st = "terminating")
            /\ e.pv = home[h].pv \/ e.pv = "gone"
      BY <3>1
    <3>3. home'[h] = e /\ \A g \in Uid \ {h} : home'[g] = home[g]
      BY <3>2 DEF TypeOK
    <3>4. QED
      BY <3>2, <3>3 DEF HomesLast
  <2>2. QED
    BY <1>7, <2>1 DEF OrphanHome, FinishHome, Reclaim, LoseVolume
<1>8. CASE ReportClaim
  BY <1>1, <1>8 DEF ReportClaim
<1>9. QED
  BY <1>2, <1>3, <1>4, <1>5, <1>6, <1>7, <1>8 DEF Controllers
=============================================================================
