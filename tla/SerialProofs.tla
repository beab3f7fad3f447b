---------------------------- MODULE SerialProofs ----------------------------
(***************************************************************************)
(* What the commands promise when they run one after another, for any      *)
(* number of claims and wherever each command was interrupted.             *)
(***************************************************************************)
EXTENDS SerialInductive, CustodyProofs

SInv == CustodyInv /\ RInv /\ SerialInv

\* What the parts of the invariant rest on.
LEMMA Grounds ==
  ASSUME SInv
  PROVE  /\ TypeOK /\ CompleteCopies /\ Issued /\ NamesApart /\ OneManagedRecord /\ ClaimLeftBehind
         /\ CopiesCurrent /\ SandboxesFollow /\ ClaimResolved /\ LinksCurrent
         /\ Reached /\ Detaching /\ Destroying
  BY DEF SInv, CustodyInv, IInv, Bookkeeping, RInv, SerialInv

\* A step is one of the only process, or leaves it and all that is saved alone.
LEMMA Turns ==
  ASSUME TypeOK, Serial, [Next]_vars, NEW p \in Procs
  PROVE  \/ Start(p) \/ Step(p) \/ Interrupt(p)
         \/ UNCHANGED <<records, links, pc, mem, lastUid>> /\ claim' \in {0, claim}
<1>1. \A q \in Procs : q = p
  BY DEF Serial
<1>2. CASE Controllers \/ \E h \in Uid : LoseVolume(h) \/ PodFails(h)
  BY <1>2, ClusterMoving DEF ClusterMoves
<1>3. CASE UNCHANGED vars
  BY <1>3 DEF vars, records, links
<1> QED
  BY <1>1, <1>2, <1>3 DEF Next

\* A command with a copy of a bound record has the only record in hand, as it is.
LEMMA InHand ==
  ASSUME SInv, NEW p \in Procs, mem[p].phase = "bound"
  PROVE  /\ mem[p].rec \in Uid /\ Saved = {mem[p].rec}
         /\ mem[p].sandbox = mem[p].rec
         /\ managed[mem[p].rec].phase = "bound" /\ managed[mem[p].rec].sandbox = mem[p].rec
         /\ managed[mem[p].rec].home = mem[p].home /\ mem[p].home \in Uid
         /\ sandbox[mem[p].rec].st # "none"
<1> USE Grounds
<1>1. mem[p].rec \in Uid
  BY CopiedUid
<1>2. managed[mem[p].rec].phase = "bound" /\ managed[mem[p].rec].home = mem[p].home
      /\ managed[mem[p].rec].sandbox = mem[p].sandbox
  BY DEF CopiesCurrent
<1>3. managed[mem[p].rec].sandbox = mem[p].rec
  BY <1>1, <1>2 DEF ClaimResolved
<1>4. Saved = {mem[p].rec}
  BY <1>1, <1>2 DEF Saved, OneManagedRecord
<1>5. Mates(managed[mem[p].rec].sandbox, managed[mem[p].rec].home)
  BY <1>1, <1>2, MatesNow DEF SInv
<1> QED
  BY <1>1, <1>2, <1>3, <1>4, <1>5 DEF Mates, Pair

\* The connection that a create or resume finds by name is that of its own Sandbox.
LEMMA LinkChosen ==
  ASSUME SInv, NEW p \in Procs, SelectLink(p)
  PROVE  /\ pc[p] = "link" /\ pc'[p] \in {"adopt", "reach"} /\ UNCHANGED <<sandbox, conn>>
         /\ \E u \in Uid :
              /\ mem'[p] = [mem[p] EXCEPT !.sandbox = u, !.link = conn[u]]
              /\ conn[u] # "none"
              /\ mem[p].phase = "bound" => u = mem[p].sandbox
<1> USE Grounds
<1>1. PICK u \in Uid, other \in BOOLEAN :
        /\ At(p, "link", IF other THEN "adopt" ELSE "reach")
        /\ LinksNamed(LinkName(p)) = {u}
        /\ Keep(p, [mem[p] EXCEPT !.sandbox = u, !.link = conn[u]])
  BY DEF SelectLink
<1>2. pc[p] = "link" /\ pc'[p] \in {"adopt", "reach"} /\ UNCHANGED <<sandbox, conn>>
  BY <1>1, AtMoves DEF SelectLink, cluster, links
<1>3. conn[u] # "none" /\ sandbox[u].name = LinkName(p)
  BY <1>1 DEF LinksNamed
<1>4. ASSUME mem[p].phase = "bound"
      PROVE  u = mem[p].sandbox
  <2>1. Live(mem[p].sandbox)
    BY <1>2, <1>4 DEF Reached, ConnectPcs
  <2>2. CASE Live(u)
    BY <1>3, <1>4, <2>1, <2>2 DEF LinkName, NamesApart, Live, Present
  <2>3. CASE managed[u].phase = "bound"
    <3>1. u \in Saved
      BY <2>3 DEF Saved
    <3> QED
      BY <1>4, <3>1, InHand
  <2> QED
    BY <1>3, <2>2, <2>3 DEF LinksCurrent
<1> QED
  BY <1>1, <1>2, <1>3, <1>4, KeepMoves

-----------------------------------------------------------------------------
(* Copies are current. *)

\* Between the steps that read or write the record, a command works from the same copy.
LEMMA CopyStays ==
  ASSUME SInv, NEW p \in Procs, Step(p), mem'[p].phase # "none",
         ~SelectSaved(p), ~RecordClaim(p), ~SaveBinding(p)
  PROVE  /\ mem'[p].rec = mem[p].rec /\ mem'[p].phase = mem[p].phase
         /\ mem[p].phase = "bound" => mem'[p].sandbox = mem[p].sandbox /\ mem'[p].home = mem[p].home
<1> USE Grounds
<1> mem[p] \in Memory
  BY DEF TypeOK
<1>1. CASE WaitReady(p)
  <2>1. mem'[p] = [mem[p] EXCEPT !.ready = FALSE]
    BY <1>1, KeepMoves DEF WaitReady
  <2> QED
    BY <2>1 DEF Memory
<1>2. CASE CheckOrigin(p)
  BY <1>2 DEF CheckOrigin
<1>3. CASE GetClaim(p)
  <2>1. mem'[p] = [mem[p] EXCEPT !.claim = claim, !.ready = claimReady]
    BY <1>3, KeepMoves DEF GetClaim
  <2> QED
    BY <2>1 DEF Memory
<1>4. CASE CreateClaim(p)
  <2>1. mem'[p] = [mem[p] EXCEPT !.claim = lastUid + 1]
    BY <1>4, KeepMoves DEF CreateClaim
  <2> QED
    BY <2>1 DEF Memory
<1>5. CASE ResolveSandbox(p)
  <2>1. PICK u \in Uid : /\ mem[p].phase = "bound" => u = mem[p].sandbox
                         /\ Keep(p, [mem[p] EXCEPT !.sandbox = u])
    BY <1>5 DEF ResolveSandbox, Named
  <2>2. mem'[p] = [mem[p] EXCEPT !.sandbox = u]
    BY <2>1, KeepMoves
  <2> QED
    BY <2>1, <2>2 DEF Memory
<1>6. CASE ResolveHome(p)
  <2>1. PICK h \in Uid : /\ mem[p].phase = "bound" => h = mem[p].home
                         /\ Keep(p, [mem[p] EXCEPT !.home = h])
    BY <1>6 DEF ResolveHome
  <2>2. mem'[p] = [mem[p] EXCEPT !.home = h]
    BY <2>1, KeepMoves
  <2> QED
    BY <2>1, <2>2 DEF Memory
<1>7. CASE SelectLink(p)
  <2>1. PICK u \in Uid : /\ mem'[p] = [mem[p] EXCEPT !.sandbox = u, !.link = conn[u]]
                         /\ mem[p].phase = "bound" => u = mem[p].sandbox
    BY <1>7, LinkChosen
  <2> QED
    BY <2>1 DEF Memory
<1>8. CASE FirstLink(p) \/ PrepareLink(p)
  <2>1. PICK link \in Links : mem'[p] = [mem[p] EXCEPT !.link = link]
    BY <1>8, KeepMoves DEF FirstLink, PrepareLink, Links
  <2> QED
    BY <2>1 DEF Memory
<1>9. CASE Reach(p)
  <2>1. PICK u \in Uid : /\ mem[p].sandbox \in {0, u}
                         /\ Keep(p, [mem[p] EXCEPT !.sandbox = u])
    BY <1>9 DEF Reach, Named
  <2>2. mem'[p] = [mem[p] EXCEPT !.sandbox = u]
    BY <2>1, KeepMoves
  <2>3. mem[p].phase = "bound" => mem[p].sandbox # 0
    BY DEF CompleteCopies
  <2> QED
    BY <2>1, <2>2, <2>3 DEF Memory
<1>10. CASE AdoptIdentity(p) \/ Attach(p)
  BY <1>10 DEF AdoptIdentity, Attach
<1>11. CASE ModeStep(p) /\ ~Returned(p)
  <2>1. CASE HomeAgain(p)
    BY <1>11, <2>1, Returning DEF HomeAgain
  <2>2. CASE ReadClaim(p)
    <3>1. mem'[p] = [mem[p] EXCEPT !.claim = claim]
      BY <2>2, KeepMoves DEF ReadClaim
    <3> QED
      BY <3>1 DEF Memory
  <2>3. CASE ~HomeAgain(p) /\ ~ReadClaim(p)
    BY <1>11, <2>3, QuietMode, HandKept DEF ModeStep, Quiet, SameCopy, SameHand
  <2> QED
    BY <2>1, <2>2, <2>3
<1>12. CASE RetainStep(p) /\ ~Forget(p)
  BY <1>12, QuietRetain, HandKept DEF Quiet, SameCopy, SameHand
<1>13. CASE EraseStep(p) /\ ~DropRetained(p)
  <2>1. mem[p].rec = 0 /\ mem[p].phase = "none"
    <3>1. pc[p] \in {"lock"} \cup ErasePcs
      BY <1>13, AtMoves DEF EraseStep, LockRetained, Reselect, CheckPending, InspectHome,
         InspectAllocation, InspectMounts, InspectVolume, MarkDeleting, DeletePVC, StorageGone,
         ErasePcs
    <3> QED
      BY <3>1 DEF CompleteCopies
  <2> QED
    BY <1>13, <2>1, QuietErase DEF Quiet, SameCopy
<1>14. CASE Returned(p)
  BY <1>14 DEF Returned, NoMemory
<1>15. CASE Forget(p)
  <2>1. mem'[p] = [NoMemory EXCEPT !.cmd = mem[p].cmd, !.home = mem[p].home]
    BY <1>15, KeepMoves DEF Forget
  <2> QED
    BY <2>1 DEF NoMemory
<1>16. CASE SaveLink(p) \/ Disconnect(p) \/ DropRetained(p)
  BY <1>14, <1>16, Returning
<1> QED
  BY <1>1, <1>2, <1>3, <1>4, <1>5, <1>6, <1>7, <1>8, <1>9, <1>10, <1>11, <1>12, <1>13, <1>14, <1>15, <1>16
  DEF Step, CreateStep, ConnectStep

\* What a command finds of the record, and writes of it, is its copy.
LEMMA CopiesCurrentKept ==
  ASSUME SInv, Serial, [Next]_vars
  PROVE  CopiesCurrent'
<1> USE Grounds
<1> SUFFICES ASSUME NEW p \in Procs, mem'[p].phase # "none"
             PROVE  /\ managed'[mem'[p].rec].phase = mem'[p].phase
                    /\ managed'[mem'[p].rec].phase = "bound" =>
                         /\ managed'[mem'[p].rec].sandbox = mem'[p].sandbox
                         /\ managed'[mem'[p].rec].home = mem'[p].home
  BY DEF CopiesCurrent
<1> mem[p] \in Memory
  BY DEF TypeOK
<1>1. CASE Start(p)
  <2>1. PICK i \in Uid, cmd \in Commands : Keep(p, Copy([NoMemory EXCEPT !.cmd = cmd], i)) /\ UNCHANGED managed
    <3>1. ~StartCreate(p)
      <4>1. StartCreate(p) => mem'[p] = [NoMemory EXCEPT !.cmd = "create"]
        BY KeepMoves DEF StartCreate
      <4> QED
        BY <4>1 DEF NoMemory
    <3>2. ~StartFromRetained(p)
      <4>1. ASSUME StartFromRetained(p) PROVE mem'[p].phase = "none"
        <5>1. PICK h : Keep(p, [NoMemory EXCEPT !.cmd = "delete", !.home = h])
          BY <4>1 DEF StartFromRetained
        <5>2. mem'[p] = [NoMemory EXCEPT !.cmd = "delete", !.home = h]
          BY <5>1, KeepMoves
        <5> QED
          BY <5>2 DEF NoMemory
      <4> QED
        BY <4>1
    <3>3. ~StartConnect(p)
      <4>1. ASSUME StartConnect(p) PROVE mem'[p].phase = "none"
        <5>1. PICK name : Keep(p, [NoMemory EXCEPT !.cmd = "connect", !.name = name])
          BY <4>1 DEF StartConnect
        <5>2. mem'[p] = [NoMemory EXCEPT !.cmd = "connect", !.name = name]
          BY <5>1, KeepMoves
        <5> QED
          BY <5>2 DEF NoMemory
      <4> QED
        BY <4>1
    <3>4. ~StartDisconnect(p)
      <4>1. ASSUME StartDisconnect(p) PROVE mem'[p].phase = "none"
        <5>1. PICK u : Keep(p, [NoMemory EXCEPT !.cmd = "disconnect", !.sandbox = u, !.link = conn[u]])
          BY <4>1 DEF StartDisconnect
        <5>2. mem'[p] = [NoMemory EXCEPT !.cmd = "disconnect", !.sandbox = u, !.link = conn[u]]
          BY <5>1, KeepMoves
        <5> QED
          BY <5>2 DEF NoMemory
      <4> QED
        BY <4>1
    <3> QED
      BY <1>1, <3>1, <3>2, <3>3, <3>4 DEF Start, StartFromRecord, records
  <2>2. mem'[p] = Copy([NoMemory EXCEPT !.cmd = cmd], i) /\ i # 0
    BY <2>1, KeepMoves, ClaimsAssumption DEF Uid
  <2>3. /\ mem'[p].rec = i /\ mem'[p].phase = managed[i].phase
        /\ mem'[p].sandbox = managed[i].sandbox /\ mem'[p].home = managed[i].home
    BY <2>2 DEF Copy, NoMemory
  <2> QED
    BY <2>1, <2>3
<1>2. CASE SelectSaved(p)
  <2>1. PICK i \in Uid0, rekey \in BOOLEAN : Keep(p, [Copy(mem[p], i) EXCEPT !.rekey = rekey])
    BY <1>2 DEF SelectSaved
  <2>2. mem'[p] = [Copy(mem[p], i) EXCEPT !.rekey = rekey] /\ UNCHANGED managed
    BY <1>2, <2>1, KeepMoves DEF SelectSaved, records
  <2>3. i # 0 /\ mem'[p].rec = i
    BY <2>2 DEF Copy, Memory
  <2>4. /\ mem'[p].phase = managed[i].phase
        /\ mem'[p].sandbox = managed[i].sandbox /\ mem'[p].home = managed[i].home
    BY <2>2, <2>3 DEF Copy, Memory
  <2> QED
    BY <2>2, <2>3, <2>4
<1>3. CASE RecordClaim(p)
  <2>1. CASE mem[p].rec # 0
    BY <1>3, <2>1 DEF RecordClaim, CopiesCurrent
  <2>2. CASE mem[p].rec = 0
    <3>1. /\ managed' = [managed EXCEPT ![mem[p].claim] = [NoManaged EXCEPT !.phase = "claimed"]]
          /\ mem'[p] = [mem[p] EXCEPT !.rec = mem[p].claim, !.phase = "claimed"]
      BY <1>3, <2>2, KeepMoves DEF RecordClaim
    <3>2. mem[p].claim \in Uid
      <4>1. pc[p] = "record"
        BY <1>3, AtMoves DEF RecordClaim
      <4> QED
        BY <4>1, UidFacts DEF CompleteCopies, Memory
    <3>3. managed'[mem[p].claim].phase = "claimed"
      BY <3>1, <3>2 DEF TypeOK, NoManaged
    <3>4. mem'[p].rec = mem[p].claim /\ mem'[p].phase = "claimed"
      BY <3>1 DEF Memory
    <3> QED
      BY <3>3, <3>4
  <2> QED
    BY <2>1, <2>2
<1>4. CASE SaveBinding(p)
  <2>1. /\ mem'[p] = [mem[p] EXCEPT !.phase = "bound", !.rekey = FALSE] /\ pc[p] = "bind"
        /\ managed' = IF mem[p].phase = "bound" /\ ~mem[p].rekey THEN managed
                      ELSE [managed EXCEPT ![mem[p].rec] =
                        [phase |-> "bound", sandbox |-> mem[p].sandbox, home |-> mem[p].home]]
    BY <1>4, KeepMoves, AtMoves DEF SaveBinding
  <2>2. mem[p].rec \in Uid
    <3>1. mem[p].claim # 0 /\ mem[p].rec = mem[p].claim
      BY <2>1 DEF CompleteCopies
    <3> QED
      BY <3>1, UidFacts DEF Memory
  <2>3. /\ mem'[p].rec = mem[p].rec /\ mem'[p].phase = "bound" /\ mem'[p].sandbox = mem[p].sandbox
        /\ mem'[p].home = mem[p].home
    BY <2>1 DEF Memory
  <2>4. CASE mem[p].phase = "bound" /\ ~mem[p].rekey
    BY <2>1, <2>3, <2>4 DEF CopiesCurrent
  <2>5. CASE ~(mem[p].phase = "bound" /\ ~mem[p].rekey)
    BY <2>1, <2>2, <2>3, <2>5 DEF TypeOK
  <2> QED
    BY <2>4, <2>5
<1>5. CASE Step(p) /\ ~SelectSaved(p) /\ ~RecordClaim(p) /\ ~SaveBinding(p)
  <2>1. ~Forget(p)
    <3>1. Forget(p) => mem'[p] = [NoMemory EXCEPT !.cmd = mem[p].cmd, !.home = mem[p].home]
      BY KeepMoves DEF Forget
    <3> QED
      BY <3>1 DEF NoMemory
  <2>2. UNCHANGED managed
    BY <1>5, <2>1, ManagedWriters DEF SInv, CustodyInv, Serial
  <2> QED
    BY <1>5, <2>2, CopyStays DEF CopiesCurrent
<1>6. CASE Interrupt(p)
  BY <1>6, Returning DEF Returned, NoMemory
<1>7. CASE UNCHANGED <<records, mem>>
  BY <1>7 DEF records, CopiesCurrent
<1> QED
  BY <1>1, <1>2, <1>3, <1>4, <1>5, <1>6, <1>7, Turns

-----------------------------------------------------------------------------
(* Sandboxes and their claims. *)

\* A claim comes with a new UID, and goes away by itself.
LEMMA ClaimMoves ==
  ASSUME TypeOK, CompleteCopies, [Next]_vars
  PROVE  \/ claim' \in {0, claim} /\ lastUid' = lastUid
         \/ claim' = lastUid + 1 /\ lastUid' = lastUid + 1 /\ \E p \in Procs : CreateClaim(p)
<1>1. ASSUME NEW p \in Procs, Start(p)
      PROVE  UNCHANGED <<claim, lastUid>>
  BY <1>1 DEF Start, StartCreate, StartConnect, StartDisconnect, StartFromRetained,
     StartFromRecord, cluster
<1>2. ASSUME NEW p \in Procs, Step(p) \/ Interrupt(p), ~CreateClaim(p)
      PROVE  UNCHANGED <<claim, lastUid>>
  BY <1>2, StepKinds DEF Quiet, Returned, SelectSaved, GetClaim, RecordClaim, ResolveHome,
     SaveBinding, ReadClaim, Forget, cluster
<1>3. ASSUME NEW p \in Procs, CreateClaim(p)
      PROVE  claim' = lastUid + 1 /\ lastUid' = lastUid + 1
  BY <1>3 DEF CreateClaim
<1>4. CASE Controllers \/ \E h \in Uid : LoseVolume(h) \/ PodFails(h)
  BY <1>4, ClusterMoving DEF ClusterMoves
<1>5. CASE UNCHANGED vars
  BY <1>5 DEF vars
<1> QED
  BY <1>1, <1>2, <1>3, <1>4, <1>5 DEF Next

\* A Sandbox comes for the claim there is, and a delete lets go of it after its claim.
LEMMA SandboxesFollowKept ==
  ASSUME SInv, Serial, [Next]_vars
  PROVE  SandboxesFollow'
<1> USE Grounds
<1>1. claim \in Nat /\ lastUid \in Nat /\ claim <= lastUid
  BY DEF TypeOK, Uid0, Issued
<1>2. lastUid' \in {lastUid, lastUid + 1} /\ claim' \in {0, claim, lastUid + 1}
  BY <1>1, ClaimMoves
<1>3. ASSUME NEW u \in Uid
      PROVE  /\ sandbox'[u].st # "none" => u <= lastUid'
             /\ sandbox'[u].st \in {"deleting", "gone"} => claim' # u
  <2>1. SandboxMoved(u) /\ u \in Nat /\ u # 0
    BY SandboxMoves, ClaimsAssumption DEF Uid
  <2>2. sandbox[u].st # "none" => u <= lastUid
    BY DEF SandboxesFollow
  <2>3. sandbox[u].st = "none" /\ sandbox'[u].st # "none" => u = claim
    <3>1. ASSUME NEW q \in Procs, PatchMode(q) \/ OrphanSandbox(q)
          PROVE  sandbox'[u].st # "none" => sandbox[u].st # "none"
      BY <3>1 DEF PatchMode, OrphanSandbox, Present, TypeOK, Sandbox
    <3>2. ASSUME NEW name \in SandboxNames, BindClaim(name), u # claim
          PROVE  sandbox'[u] = sandbox[u]
      BY <3>2 DEF BindClaim, TypeOK
    <3>3. ASSUME NEW v \in Uid, Reconcile(v) \/ PodStops(v) \/ PodFails(v) \/ FinishSandbox(v)
          PROVE  sandbox'[u].st # "none" => sandbox[u].st # "none"
      <4>1. \A w \in Uid \ {v} : sandbox'[w] = sandbox[w]
        BY <3>3 DEF Reconcile, PodStops, PodFails, FinishSandbox, TypeOK
      <4>2. ~PodStops(v) => sandbox[v].st # "none"
        BY <3>3 DEF Reconcile, PodFails, FinishSandbox, Present
      <4>3. PodStops(v) => sandbox'[v].st = sandbox[v].st
        BY DEF PodStops, TypeOK, Sandbox
      <4> QED
        BY <4>1, <4>2, <4>3
    <3> QED
      BY <3>1, <3>2, <3>3, SandboxWriters
  <2>4. sandbox'[u].st \in {"deleting", "gone"} =>
          \/ sandbox[u].st \in {"deleting", "gone"}
          \/ \E q \in Procs : OrphanSandbox(q) /\ mem[q].sandbox = u
    BY <2>1 DEF SandboxMoved
  <2>5. sandbox[u].st \in {"deleting", "gone"} => claim' # u
    BY <1>1, <1>2, <2>1, <2>2 DEF SandboxesFollow
  <2>6. ASSUME NEW q \in Procs, OrphanSandbox(q), mem[q].sandbox = u
        PROVE  claim' # u
    <3>1. pc[q] = "orphanSandbox" /\ claim' = claim
      BY <2>6, AtMoves DEF OrphanSandbox
    <3>2. claim # mem[q].rec /\ mem[q].phase = "bound"
      BY <3>1 DEF ClaimLeftBehind, CompleteCopies, ReleasePcs
    <3> QED
      BY <2>6, <3>1, <3>2, InHand
  <2>7. sandbox'[u].st # "none" => u <= lastUid
    BY <1>1, <2>2, <2>3
  <2>8. sandbox'[u].st # "none" => u <= lastUid'
    BY <1>1, <1>2, <2>1, <2>7
  <2> QED
    BY <2>4, <2>5, <2>6, <2>8
<1> QED
  BY <1>3 DEF SandboxesFollow
-----------------------------------------------------------------------------
(* What a create resolves. *)

\* A Sandbox is let go of by a delete only.
LEMMA LiveStays ==
  ASSUME SInv, [Next]_vars, NEW u \in Uid, sandbox[u].st = "live",
         \A q \in Procs : pc[q] = "orphanSandbox" => mem[q].sandbox # u
  PROVE  sandbox'[u].st = "live"
<1> USE Grounds
<1>1. SandboxMoved(u)
  BY SandboxMoves
<1>2. sandbox'[u].st \in {"none", "live", "deleting", "gone"}
  BY NextTypes DEF TypeOK, Sandbox
<1>3. \A q \in Procs : OrphanSandbox(q) => pc[q] = "orphanSandbox"
  BY AtMoves DEF OrphanSandbox
<1> QED
  BY <1>1, <1>2, <1>3 DEF SandboxMoved

\* The Sandbox of a claim that says it is ready is not on its way out.
LEMMA ReportedIsLive ==
  ASSUME SInv, claim \in Uid, Present(claim)
  PROVE  Live(claim)
  BY Grounds DEF Live, Present, SandboxesFollow

Resolving(p) ==
  /\ pc[p] \in {"origin", "select", "obtain"} => ~mem[p].ready
  /\ pc[p] \in {"record", "ready"} /\ mem[p].ready => Live(mem[p].claim)
  /\ pc[p] \in {"resolve", "resolveHome", "bind"} => Live(mem[p].claim)
  /\ pc[p] \in {"resolveHome", "bind"} => mem[p].sandbox = mem[p].claim

\* Only the deletion of a Sandbox ends its life, which no other command is about.
LEMMA StaysLive ==
  ASSUME SInv, Serial, [Next]_vars, NEW p \in Procs, pc[p] # "orphanSandbox",
         NEW u, Live(u)
  PROVE  Live(u)'
<1>1. \A q \in Procs : pc[q] # "orphanSandbox"
  BY DEF Serial
<1> QED
  BY <1>1, LiveStays DEF Live

\* The stages of create are entered from the start and from each other only.
LEMMA CreateEntered ==
  ASSUME TypeOK, NEW p \in Procs, Start(p) \/ Step(p) \/ Interrupt(p), pc'[p] \in CreatePcs
  PROVE  CreateStep(p) \/ StartCreate(p)
<1> USE DEF CreatePcs
<1>1. StartFromRetained(p) => pc'[p] = "lock"
  BY AtMoves DEF StartFromRetained
<1>2. \A cmd : StartFromRecord(p, cmd) => pc'[p] = "claim"
  BY AtMoves DEF StartFromRecord
<1>3. StartConnect(p) \/ StartDisconnect(p) => pc'[p] \in {"link", "detach"}
  BY AtMoves DEF StartConnect, StartDisconnect
<1>4. ConnectStep(p) \/ EraseStep(p) => FALSE
  BY StageMoves DEF ConnectPcs, ErasePcs
<1>5. ModeStep(p) => FALSE
  <2>1. ~ReadClaim(p) /\ ~ReadSandbox(p) /\ ~Disable(p) /\ ~PatchMode(p)
    BY AtMoves DEF ReadClaim, ReadSandbox, Disable, PatchMode
  <2>2. ASSUME ReadHome(p) PROVE FALSE
    <3>1. PICK next \in {"verify", "patch", "disable"} : At(p, "home", next)
      BY <2>2 DEF ReadHome, TypeOK, Memory
    <3> QED
      BY <3>1, AtMoves
  <2>3. ASSUME WaitMode(p) PROVE FALSE
    <3>1. PICK next \in {"again", "orphanClaim", "strip"} : At(p, "wait", next)
      BY <2>3 DEF WaitMode, TypeOK, Memory
    <3> QED
      BY <3>1, AtMoves
  <2>4. ASSUME HomeAgain(p) PROVE FALSE
    BY <2>4, AtMoves, ReturnMoves DEF HomeAgain
  <2> QED
    BY <2>1, <2>2, <2>3, <2>4 DEF ModeStep
<1>6. RetainStep(p) => FALSE
  BY AtMoves DEF RetainStep, OrphanClaim, ClaimGone, Recheck, StripLabels, OrphanSandbox,
     SandboxGone, VerifyRetained, SaveRetained, RemoveMachine, RemoveFiles, Forget
<1>7. Interrupt(p) => FALSE
  BY ReturnMoves DEF Interrupt
<1> QED
  BY <1>1, <1>2, <1>3, <1>4, <1>5, <1>6, <1>7 DEF Start, Step

\* What a create knows of its claim after a step of its own,
LEMMA CreateResolves ==
  ASSUME SInv, Serial, [Next]_vars, NEW p \in Procs, CreateStep(p)
  PROVE  Resolving(p)'
<1> USE Grounds
<1> mem[p] \in Memory
  BY DEF TypeOK
<1>0. Resolving(p)
  BY DEF ClaimResolved, Resolving
<1>1. CASE CheckOrigin(p)
  <2>1. pc[p] = "origin" /\ pc'[p] = "select" /\ mem'[p] = mem[p]
    BY <1>1, AtMoves DEF CheckOrigin
  <2> QED
    BY <1>0, <2>1 DEF Resolving
<1>2. CASE SelectSaved(p)
  <2>1. PICK i \in Uid0, rekey \in BOOLEAN : Keep(p, [Copy(mem[p], i) EXCEPT !.rekey = rekey])
    BY <1>2 DEF SelectSaved
  <2>2. pc[p] = "select" /\ pc'[p] = "obtain" /\ mem'[p] = [Copy(mem[p], i) EXCEPT !.rekey = rekey]
    BY <1>2, <2>1, AtMoves, KeepMoves DEF SelectSaved
  <2>3. mem'[p].ready = mem[p].ready
    BY <2>2 DEF Copy, Memory
  <2> QED
    BY <1>0, <2>2, <2>3 DEF Resolving
<1>3. CASE GetClaim(p)
  <2>1. /\ pc[p] = "obtain" /\ pc'[p] = "record"
        /\ mem'[p] = [mem[p] EXCEPT !.claim = claim, !.ready = claimReady]
    BY <1>3, AtMoves, KeepMoves DEF GetClaim
  <2>2. mem'[p].claim = claim /\ mem'[p].ready = claimReady
    BY <2>1 DEF Memory
  <2>3. UNCHANGED <<claim, sandbox>>
    BY <1>3 DEF GetClaim, cluster
  <2>4. mem'[p].ready => Live(mem[p].claim)'
    BY <2>2, <2>3 DEF Live, ClaimResolved
  <2> QED
    BY <2>1, <2>4 DEF Resolving
<1>4. CASE CreateClaim(p)
  <2>1. /\ pc[p] = "obtain" /\ pc'[p] = "record"
        /\ mem'[p] = [mem[p] EXCEPT !.claim = lastUid + 1]
    BY <1>4, AtMoves, KeepMoves DEF CreateClaim
  <2>2. mem'[p].ready = mem[p].ready
    BY <2>1 DEF Memory
  <2> QED
    BY <1>0, <2>1, <2>2 DEF Resolving
<1>5. CASE RecordClaim(p)
  <2>1. pc[p] = "record" /\ pc'[p] = "ready" /\ UNCHANGED sandbox
    BY <1>5, AtMoves DEF RecordClaim, cluster
  <2>2. mem'[p] = mem[p] \/ mem'[p] = [mem[p] EXCEPT !.rec = mem[p].claim, !.phase = "claimed"]
    BY <1>5, KeepMoves DEF RecordClaim
  <2>3. mem'[p].claim = mem[p].claim /\ mem'[p].ready = mem[p].ready
    BY <2>2 DEF Memory
  <2>4. mem'[p].ready => Live(mem[p].claim)'
    BY <1>0, <2>1, <2>3 DEF Resolving, Live
  <2> QED
    BY <2>1, <2>4 DEF Resolving
<1>6. CASE WaitReady(p)
  <2>1. /\ pc[p] = "ready" /\ pc'[p] = "resolve" /\ UNCHANGED sandbox
        /\ mem'[p] = [mem[p] EXCEPT !.ready = FALSE]
    BY <1>6, AtMoves, KeepMoves DEF WaitReady, cluster
  <2>2. mem'[p].claim = mem[p].claim
    BY <2>1 DEF Memory
  <2>3. Live(mem[p].claim)
    BY <1>0, <1>6, <2>1 DEF WaitReady, Resolving, ClaimResolved
  <2>4. Live(mem[p].claim)'
    BY <2>1, <2>2, <2>3 DEF Live
  <2> QED
    BY <2>1, <2>4 DEF Resolving
<1>7. CASE ResolveSandbox(p)
  <2>1. PICK u \in Named(sandbox[mem[p].claim].name) : Keep(p, [mem[p] EXCEPT !.sandbox = u])
    BY <1>7 DEF ResolveSandbox
  <2>2. /\ pc[p] = "resolve" /\ pc'[p] = "resolveHome" /\ UNCHANGED sandbox
        /\ mem'[p] = [mem[p] EXCEPT !.sandbox = u]
    BY <1>7, <2>1, AtMoves, KeepMoves DEF ResolveSandbox, cluster
  <2>3. mem'[p].claim = mem[p].claim /\ mem'[p].sandbox = u
    BY <2>2 DEF Memory
  <2>4. Live(mem[p].claim)
    BY <1>0, <2>2 DEF Resolving
  <2>5. u = mem[p].claim
    BY <2>1, <2>4 DEF NamesApart, Live, Named, Present
  <2>6. Live(mem[p].claim)'
    BY <2>2, <2>3, <2>4 DEF Live
  <2> QED
    BY <2>2, <2>3, <2>5, <2>6 DEF Resolving
<1>8. CASE ResolveHome(p)
  <2>1. PICK h \in Uid : Keep(p, [mem[p] EXCEPT !.home = h])
    BY <1>8 DEF ResolveHome
  <2>2. /\ pc[p] = "resolveHome" /\ pc'[p] = "bind" /\ UNCHANGED sandbox
        /\ mem'[p] = [mem[p] EXCEPT !.home = h]
    BY <1>8, <2>1, AtMoves, KeepMoves DEF ResolveHome, cluster
  <2>3. mem'[p].claim = mem[p].claim /\ mem'[p].sandbox = mem[p].sandbox
    BY <2>2 DEF Memory
  <2>4. Live(mem[p].claim)'
    BY <1>0, <2>2, <2>3 DEF Resolving, Live
  <2> QED
    BY <1>0, <2>2, <2>3, <2>4 DEF Resolving
<1>9. CASE SaveBinding(p)
  <2>1. pc'[p] = "link"
    BY <1>9, AtMoves DEF SaveBinding
  <2> QED
    BY <2>1 DEF Resolving
<1> QED
  BY <1>1, <1>2, <1>3, <1>4, <1>5, <1>6, <1>7, <1>8, <1>9 DEF CreateStep

\* The claim's Ready is written by the controllers, from a Sandbox that is there.
LEMMA ReadinessWriters ==
  ASSUME TypeOK, CompleteCopies, [Next]_vars
  PROVE  \/ UNCHANGED <<claim, claimReady>>
         \/ FinishClaim \/ ReportClaim \/ \E p \in Procs : CreateClaim(p)
<1>1. ASSUME NEW p \in Procs, Start(p) \/ Interrupt(p)
      PROVE  UNCHANGED <<claim, claimReady>>
  BY <1>1 DEF Start, StartCreate, StartConnect, StartDisconnect, StartFromRetained,
     StartFromRecord, Interrupt, cluster
<1>2. ASSUME NEW p \in Procs, CreateStep(p), ~CreateClaim(p)
      PROVE  UNCHANGED <<claim, claimReady>>
  BY <1>2 DEF CreateStep, CheckOrigin, SelectSaved, GetClaim, RecordClaim,
     WaitReady, ResolveSandbox, ResolveHome, SaveBinding, cluster
<1>3. ASSUME NEW p \in Procs, ConnectStep(p)
      PROVE  UNCHANGED <<claim, claimReady>>
  BY <1>3 DEF ConnectStep, SelectLink, FirstLink, AdoptIdentity, Reach, PrepareLink, Attach,
     SaveLink, Disconnect, cluster
<1>4. ASSUME NEW p \in Procs, ModeStep(p)
      PROVE  UNCHANGED <<claim, claimReady>>
  BY <1>4 DEF ModeStep, ReadClaim, ReadSandbox, ReadHome, Disable, PatchMode, WaitMode, HomeAgain,
     cluster
<1>5. ASSUME NEW p \in Procs, RetainStep(p)
      PROVE  UNCHANGED <<claim, claimReady>>
  BY <1>5 DEF RetainStep, OrphanClaim, ClaimGone, Recheck, StripLabels, OrphanSandbox,
     SandboxGone, VerifyRetained, SaveRetained, RemoveMachine, RemoveFiles, Forget, cluster
<1>6. ASSUME NEW p \in Procs, EraseStep(p)
      PROVE  UNCHANGED <<claim, claimReady>>
  BY <1>6 DEF EraseStep, LockRetained, Reselect, CheckPending, InspectHome, InspectAllocation,
     InspectMounts, InspectVolume, MarkDeleting, DeletePVC, StorageGone, DropRetained, cluster
<1>7. CASE Controllers /\ ~FinishClaim /\ ~ReportClaim
  BY <1>7 DEF Controllers, BindClaim, ProvisionHome, Reconcile, PodStops, FinishSandbox,
     AdoptHome, OrphanHome, FinishHome, Reclaim
<1>8. ASSUME NEW h \in Uid, LoseVolume(h) \/ PodFails(h)
      PROVE  UNCHANGED <<claim, claimReady>>
  BY <1>8 DEF LoseVolume, PodFails
<1> QED
  BY <1>1, <1>2, <1>3, <1>4, <1>5, <1>6, <1>7, <1>8 DEF Next, Step, vars

LEMMA ReadinessKept ==
  ASSUME SInv, Serial, [Next]_vars, claimReady'
  PROVE  Live(claim)'
<1> USE Grounds
<1>1. CASE FinishClaim
  BY <1>1 DEF FinishClaim
<1>2. CASE ReportClaim
  <2>1. Present(claim) /\ UNCHANGED <<claim, sandbox>>
    BY <1>2 DEF ReportClaim
  <2>2. Live(claim)
    BY <2>1, ReportedIsLive DEF Present
  <2> QED
    BY <2>1, <2>2 DEF Live
<1>3. ASSUME NEW p \in Procs, CreateClaim(p)
      PROVE  FALSE
  BY <1>3, ClaimsAssumption DEF CreateClaim, ClaimResolved, Live, Uid
<1>4. CASE UNCHANGED <<claim, claimReady>>
  <2>1. claim \in Uid /\ Live(claim)
    BY <1>4 DEF ClaimResolved, Live
  <2>2. \A q \in Procs : pc[q] = "orphanSandbox" => mem[q].sandbox # claim
    BY InHand DEF ClaimLeftBehind, CompleteCopies, ReleasePcs
  <2>3. sandbox'[claim].st = "live"
    BY <2>1, <2>2, LiveStays DEF Live
  <2> QED
    BY <1>4, <2>1, <2>3 DEF Live
<1> QED
  BY <1>1, <1>2, <1>3, <1>4, ReadinessWriters

\* and after any step, which is the cluster's if not its own.
LEMMA ClaimResolvedKept ==
  ASSUME SInv, Serial, [Next]_vars
  PROVE  ClaimResolved'
<1> USE Grounds
<1>1. ASSUME NEW i \in Uid, managed'[i].phase = "bound"
      PROVE  managed'[i].sandbox = i
  <2>1. CASE managed'[i] = managed[i]
    BY <1>1, <2>1 DEF ClaimResolved
  <2>2. ASSUME NEW p \in Procs, RecordClaim(p)
        PROVE  managed'[i] = managed[i]
    BY <1>1, <2>2 DEF RecordClaim, TypeOK, NoManaged
  <2>3. ASSUME NEW p \in Procs, Forget(p)
        PROVE  managed'[i] = managed[i]
    BY <1>1, <2>3 DEF Forget, TypeOK, NoManaged
  <2>4. ASSUME NEW p \in Procs, SaveBinding(p), managed'[i] # managed[i]
        PROVE  managed'[i].sandbox = i
    <3>1. i = mem[p].rec /\ managed'[i].sandbox = mem[p].sandbox
      BY <2>4 DEF SaveBinding, TypeOK
    <3>2. pc[p] = "bind"
      BY <2>4, AtMoves DEF SaveBinding
    <3> QED
      BY <3>1, <3>2 DEF CompleteCopies, ClaimResolved
  <2> QED
    BY <2>1, <2>2, <2>3, <2>4, ManagedWriters DEF SInv, CustodyInv
<1>2. ASSUME NEW p \in Procs
      PROVE  Resolving(p)'
  <2>1. CASE CreateStep(p)
    BY <2>1, CreateResolves
  <2>2. CASE StartCreate(p)
    <3>1. pc'[p] = "origin" /\ mem'[p] = [NoMemory EXCEPT !.cmd = "create"]
      BY <2>2, AtMoves, KeepMoves DEF StartCreate
    <3>2. ~mem'[p].ready
      BY <3>1 DEF NoMemory
    <3> QED
      BY <3>1, <3>2 DEF Resolving
  <2>3. CASE (Start(p) \/ Step(p) \/ Interrupt(p)) /\ ~CreateStep(p) /\ ~StartCreate(p)
    <3>1. pc'[p] \notin CreatePcs
      BY <2>3, CreateEntered
    <3> QED
      BY <3>1 DEF Resolving, CreatePcs
  <2>4. CASE UNCHANGED <<pc, mem>>
    <3>1. Resolving(p)
      BY DEF ClaimResolved, Resolving
    <3>2. ASSUME pc[p] # "orphanSandbox", Live(mem[p].claim)
          PROVE  Live(mem[p].claim)'
      <4>1. PICK u : u = mem[p].claim
        OBVIOUS
      <4>2. Live(u)'
        BY <3>2, <4>1, StaysLive
      <4> QED
        BY <2>4, <4>1, <4>2 DEF Live
    <3> QED
      BY <2>4, <3>1, <3>2 DEF Resolving
  <2> QED
    BY <2>1, <2>2, <2>3, <2>4, Turns
<1>3. claimReady' => Live(claim)'
  BY ReadinessKept
<1> QED
  BY <1>1, <1>2, <1>3 DEF ClaimResolved, Resolving
-----------------------------------------------------------------------------
(* Connections. *)

\* Four steps write connections, and four machines.
LEMMA LinkWriters ==
  ASSUME TypeOK, CompleteCopies, [Next]_vars
  PROVE  /\ \/ UNCHANGED conn
            \/ \E p \in Procs : AdoptIdentity(p) \/ PrepareLink(p) \/ SaveLink(p) \/ RemoveFiles(p)
         /\ \/ UNCHANGED machine
            \/ \E p \in Procs : Attach(p) \/ Disconnect(p) \/ Disable(p) \/ RemoveMachine(p)
<1> USE DEF links
<1>1. ASSUME NEW p \in Procs, Start(p) \/ Interrupt(p)
      PROVE  UNCHANGED <<conn, machine>>
  BY <1>1 DEF Start, StartCreate, StartConnect, StartDisconnect, StartFromRetained,
     StartFromRecord, Interrupt
<1>2. ASSUME NEW p \in Procs, CreateStep(p)
      PROVE  UNCHANGED <<conn, machine>>
  BY <1>2 DEF CreateStep, CheckOrigin, SelectSaved, GetClaim, CreateClaim, RecordClaim,
     WaitReady, ResolveSandbox, ResolveHome, SaveBinding
<1>3. ASSUME NEW p \in Procs, ConnectStep(p)
      PROVE  /\ UNCHANGED conn \/ AdoptIdentity(p) \/ PrepareLink(p) \/ SaveLink(p)
             /\ UNCHANGED machine \/ Attach(p) \/ Disconnect(p)
  BY <1>3 DEF ConnectStep, SelectLink, FirstLink, AdoptIdentity, Reach, PrepareLink, Attach,
     SaveLink, Disconnect
<1>4. ASSUME NEW p \in Procs, ModeStep(p)
      PROVE  UNCHANGED conn /\ (UNCHANGED machine \/ Disable(p))
  BY <1>4 DEF ModeStep, ReadClaim, ReadSandbox, ReadHome, Disable, PatchMode, WaitMode, HomeAgain
<1>5. ASSUME NEW p \in Procs, RetainStep(p)
      PROVE  /\ UNCHANGED conn \/ RemoveFiles(p)
             /\ UNCHANGED machine \/ RemoveMachine(p)
  BY <1>5 DEF RetainStep, OrphanClaim, ClaimGone, Recheck, StripLabels, OrphanSandbox,
     SandboxGone, VerifyRetained, SaveRetained, RemoveMachine, RemoveFiles, Forget
<1>6. ASSUME NEW p \in Procs, EraseStep(p)
      PROVE  UNCHANGED <<conn, machine>>
  BY <1>6 DEF EraseStep, LockRetained, Reselect, CheckPending, InspectHome, InspectAllocation,
     InspectMounts, InspectVolume, MarkDeleting, DeletePVC, StorageGone, DropRetained
<1>7. CASE Controllers \/ \E h \in Uid : LoseVolume(h) \/ PodFails(h)
  BY <1>7, ClusterMoving DEF ClusterMoves
<1>8. CASE UNCHANGED vars
  BY <1>8 DEF vars
<1> QED
  BY <1>1, <1>2, <1>3, <1>4, <1>5, <1>6, <1>7, <1>8 DEF Next, Step

\* A connection comes for a Sandbox that is to be reached.
LEMMA LinkComes ==
  ASSUME SInv, Serial, [Next]_vars, NEW u \in Uid,
         \/ conn'[u] # conn[u] /\ conn'[u] # "none"
         \/ machine'[u] # machine[u] /\ machine'[u] = "enabled"
  PROVE  Live(u) /\ Live(u)'
<1> USE Grounds
<1>1. PICK p \in Procs : AdoptIdentity(p) \/ PrepareLink(p) \/ SaveLink(p) \/ Attach(p)
  BY LinkWriters DEF RemoveFiles, Disconnect, Released, Disable, RemoveMachine, TypeOK
<1>2. u = mem[p].sandbox
  BY <1>1 DEF AdoptIdentity, PrepareLink, SaveLink, Attach, TypeOK
<1>3. ~AdoptIdentity(p)
  <2>1. AdoptIdentity(p) => conn[mem[p].sandbox] = mem[p].link
    BY AtMoves DEF AdoptIdentity, LinksCurrent, LinkPcs, LinkKnown
  <2>2. AdoptIdentity(p) => conn' = conn /\ machine' = machine
    BY <1>2, <2>1 DEF AdoptIdentity, TypeOK
  <2> QED
    BY <2>2
<1>4. pc[p] \in {"prepare", "attach", "save"} /\ UNCHANGED sandbox
  BY <1>1, <1>3, AtMoves DEF PrepareLink, SaveLink, Attach, cluster
<1> QED
  BY <1>2, <1>4 DEF Reached, Live

\* A bound record goes only after its connection and its Sandbox.
LEMMA BoundStays ==
  ASSUME SInv, Serial, [Next]_vars, NEW u \in Uid, managed[u].phase = "bound",
         conn[u] # "none" \/ sandbox[u].st = "deleting"
  PROVE  managed'[u].phase = "bound"
<1> USE Grounds
<1>1. ASSUME NEW p \in Procs, RecordClaim(p)
      PROVE  UNCHANGED managed
  <2>1. pc[p] = "record"
    BY <1>1, AtMoves DEF RecordClaim
  <2>2. mem[p].rec # 0
    BY <2>1 DEF SInv, CustodyInv, IInv, Bookkeeping, NothingSaved, Saved
  <2> QED
    BY <1>1, <2>2 DEF RecordClaim
<1>2. ASSUME NEW p \in Procs, SaveBinding(p)
      PROVE  managed'[u].phase = "bound"
  BY <1>2 DEF SaveBinding, TypeOK
<1>3. ASSUME NEW p \in Procs, Forget(p)
      PROVE  managed'[u] = managed[u]
  <2>1. pc[p] = "forget"
    BY <1>3, AtMoves DEF Forget
  <2>2. mem[p].phase = "bound" /\ conn[mem[p].sandbox] = "none" /\ sandbox[mem[p].sandbox].st = "gone"
    BY <2>1 DEF CompleteCopies, LinksCurrent, Reached, CleanupPcs
  <2>3. u # mem[p].rec
    BY <2>2, InHand
  <2> QED
    BY <1>3, <2>3 DEF Forget, TypeOK
<1> QED
  BY <1>1, <1>2, <1>3, ManagedWriters DEF SInv, CustodyInv

\* A Sandbox is let go of by the delete of a bound record.
LEMMA LetGo ==
  ASSUME SInv, Serial, [Next]_vars, NEW u \in Uid, sandbox[u].st = "live", sandbox'[u].st # "live"
  PROVE  /\ managed[u].phase = "bound" /\ UNCHANGED <<managed, links>>
         /\ \E p \in Procs : pc[p] = "orphanSandbox" /\ mem[p].sandbox = u
<1> USE Grounds
<1>1. PICK p \in Procs : OrphanSandbox(p) /\ mem[p].sandbox = u
  BY SandboxMoves, NextTypes DEF SandboxMoved, TypeOK, Sandbox
<1>2. pc[p] = "orphanSandbox" /\ UNCHANGED <<managed, links>>
  BY <1>1, AtMoves DEF OrphanSandbox, records
<1>3. mem[p].phase = "bound"
  BY <1>2 DEF CompleteCopies, ReleasePcs
<1> QED
  BY <1>1, <1>2, <1>3, InHand

\* A connection comes while its Sandbox is there, which goes while its record is bound.
LEMMA LinkedRecordsKept ==
  ASSUME SInv, Serial, [Next]_vars, NEW u \in Uid, conn'[u] # "none"
  PROVE  Live(u)' \/ managed'[u].phase = "bound"
<1> USE Grounds
<1>1. CASE conn[u] = "none"
  BY <1>1, LinkComes
<1>2. CASE conn[u] # "none" /\ sandbox[u].st = "live"
  BY <1>2, LetGo DEF Live
<1>3. CASE conn[u] # "none" /\ sandbox[u].st # "live"
  BY <1>3, BoundStays DEF LinksCurrent, Live
<1> QED
  BY <1>1, <1>2, <1>3

\* A Sandbox under deletion still has its record.
LEMMA DeletedRecordsKept ==
  ASSUME SInv, Serial, [Next]_vars, NEW u \in Uid, sandbox'[u].st = "deleting"
  PROVE  managed'[u].phase = "bound"
<1> USE Grounds
<1>1. sandbox[u].st \in {"live", "deleting"}
  BY SandboxMoves DEF SandboxMoved, TypeOK, Sandbox
<1>2. CASE sandbox[u].st = "live"
  BY <1>2, LetGo
<1>3. CASE sandbox[u].st = "deleting"
  BY <1>3, BoundStays DEF LinksCurrent
<1> QED
  BY <1>1, <1>2, <1>3

\* A Sandbox that has a connection has its name.
LEMMA LinkedIsMade ==
  ASSUME SInv, NEW u \in Uid, conn[u] # "none"
  PROVE  sandbox[u].st # "none"
<1> USE Grounds
<1>1. CASE managed[u].phase = "bound"
  BY <1>1, MatesNow DEF SInv, Mates, Pair, ClaimResolved
<1> QED
  BY <1>1 DEF LinksCurrent, Live

Linked(p) ==
  /\ pc[p] \in LinkPcs => LinkKnown(p)
  /\ pc[p] = "reach" => IF mem[p].link = "none" THEN LinksNamed(LinkName(p)) = {} ELSE LinkKnown(p)
  /\ pc[p] = "adopt" => mem[p].link # "none"
  /\ pc[p] = "prepare" => mem[p].link = "none"
  /\ pc[p] = "forget" => conn[mem[p].sandbox] = "none"

\* A command knows of its connection what it last read or wrote: in connect,
LEMMA ConnectLinks ==
  ASSUME SInv, Serial, [Next]_vars, NEW p \in Procs, ConnectStep(p)
  PROVE  Linked(p)'
<1> USE Grounds DEF LinkPcs, Linked, LinkKnown
<1> mem[p] \in Memory
  BY DEF TypeOK
<1>0. Linked(p)
  BY DEF LinksCurrent
<1>1. CASE SelectLink(p)
  <2>1. PICK u \in Uid : /\ mem'[p] = [mem[p] EXCEPT !.sandbox = u, !.link = conn[u]]
                         /\ conn[u] # "none"
    BY <1>1, LinkChosen
  <2>2. pc'[p] \in {"adopt", "reach"} /\ UNCHANGED conn
    BY <1>1, LinkChosen
  <2>3. mem'[p].sandbox = u /\ mem'[p].link = conn[u] /\ u # 0
    BY <2>1, ClaimsAssumption DEF Memory, Uid
  <2> QED
    BY <2>1, <2>2, <2>3 DEF ReleasePcs
<1>2. CASE FirstLink(p)
  <2>1. /\ pc'[p] = "reach" /\ mem'[p] = [mem[p] EXCEPT !.link = "none"]
        /\ LinksNamed(LinkName(p)) = {} /\ UNCHANGED <<sandbox, conn>>
    BY <1>2, AtMoves, KeepMoves DEF FirstLink, cluster, links
  <2>2. /\ mem'[p].link = "none" /\ mem'[p].phase = mem[p].phase
        /\ mem'[p].sandbox = mem[p].sandbox /\ mem'[p].name = mem[p].name
    BY <2>1 DEF Memory
  <2>3. LinksNamed(LinkName(p))' = {}
    BY <2>1, <2>2 DEF LinksNamed, LinkName
  <2> QED
    BY <2>1, <2>2, <2>3 DEF ReleasePcs
<1>3. CASE AdoptIdentity(p)
  <2>1. /\ pc[p] = "adopt" /\ pc'[p] = "reach" /\ UNCHANGED mem
        /\ conn' = [conn EXCEPT ![mem[p].sandbox] = mem[p].link]
    BY <1>3, AtMoves DEF AdoptIdentity
  <2>2. mem[p].sandbox \in Uid /\ mem[p].sandbox # 0 /\ mem[p].link # "none"
    BY <1>0, <2>1, UidFacts DEF Memory
  <2>3. conn'[mem'[p].sandbox] = mem'[p].link
    BY <2>1, <2>2 DEF TypeOK
  <2> QED
    BY <2>1, <2>2, <2>3 DEF ReleasePcs
<1>4. CASE Reach(p)
  <2>1. PICK u \in Named(LinkName(p)) : /\ mem[p].sandbox \in {0, u}
                                        /\ Keep(p, [mem[p] EXCEPT !.sandbox = u])
    BY <1>4 DEF Reach
  <2>2. /\ pc[p] = "reach" /\ pc'[p] = IF mem[p].link = "none" THEN "prepare" ELSE "attach"
        /\ mem'[p] = [mem[p] EXCEPT !.sandbox = u] /\ UNCHANGED conn
    BY <1>4, <2>1, AtMoves, KeepMoves DEF Reach, links
  <2>3. mem'[p].sandbox = u /\ mem'[p].link = mem[p].link /\ u \in Uid /\ u # 0
    BY <2>1, <2>2, ClaimsAssumption DEF Memory, Named, Uid
  <2>4. conn[u] = mem[p].link
    <3>1. CASE mem[p].link = "none"
      BY <1>0, <2>1, <2>2, <2>3, <3>1 DEF LinksNamed, Named
    <3>2. CASE mem[p].link # "none"
      BY <1>0, <2>1, <2>2, <3>2
    <3> QED
      BY <3>1, <3>2
  <2> QED
    BY <2>2, <2>3, <2>4 DEF ReleasePcs
<1>5. CASE PrepareLink(p)
  <2>1. /\ pc[p] = "prepare" /\ pc'[p] = "attach"
        /\ conn' = [conn EXCEPT ![mem[p].sandbox] = "prepared"]
        /\ mem'[p] = [mem[p] EXCEPT !.link = "prepared"]
    BY <1>5, AtMoves, KeepMoves DEF PrepareLink
  <2>2. mem'[p].sandbox = mem[p].sandbox /\ mem'[p].link = "prepared"
    BY <2>1 DEF Memory
  <2>3. mem[p].sandbox \in Uid /\ mem[p].sandbox # 0
    BY <1>0, <2>1, UidFacts DEF Memory
  <2> QED
    BY <2>1, <2>2, <2>3 DEF TypeOK, ReleasePcs
<1>6. CASE Attach(p)
  <2>1. pc[p] = "attach" /\ pc'[p] = "save" /\ UNCHANGED <<conn, mem>>
    BY <1>6, AtMoves DEF Attach
  <2> QED
    BY <1>0, <2>1 DEF ReleasePcs
<1>7. CASE SaveLink(p) \/ Disconnect(p)
  BY <1>7, ReturnMoves DEF SaveLink, Disconnect, ReleasePcs
<1> QED
  BY <1>1, <1>2, <1>3, <1>4, <1>5, <1>6, <1>7 DEF ConnectStep

\* and in the commands that look for a connection to let go of.
LEMMA StepLinks ==
  ASSUME SInv, Serial, [Next]_vars, NEW p \in Procs, ModeStep(p) \/ RetainStep(p)
  PROVE  Linked(p)'
<1> USE Grounds DEF LinkPcs, Linked, LinkKnown
<1> mem[p] \in Memory
  BY DEF TypeOK
<1>0. Linked(p)
  BY DEF LinksCurrent
<1>1. CASE ReadClaim(p) \/ ReadSandbox(p)
  BY <1>1, AtMoves DEF ReadClaim, ReadSandbox, ReleasePcs
<1>2. CASE ReadHome(p)
  <2>1. mem'[p] = [mem[p] EXCEPT !.link = conn[mem[p].sandbox]] /\ UNCHANGED conn
    BY <1>2, KeepMoves DEF ReadHome, links
  <2>2. mem'[p].sandbox = mem[p].sandbox /\ mem'[p].link = conn[mem[p].sandbox]
    BY <2>1 DEF Memory
  <2>3. pc[p] = "home" /\ pc'[p] \in {"verify", "patch", "disable"}
    <3>1. PICK next \in {"verify", "patch", "disable"} : At(p, "home", next)
      BY <1>2 DEF ReadHome, TypeOK, Memory
    <3> QED
      BY <3>1, AtMoves
  <2>4. mem[p].sandbox # 0
    BY <2>3 DEF CompleteCopies, ModePcs
  <2> QED
    BY <2>1, <2>2, <2>3, <2>4
<1>3. CASE Disable(p) \/ WaitMode(p)
  <2>1. /\ pc[p] \in {"disable", "wait"} /\ pc'[p] \in {"patch", "again", "orphanClaim", "strip"}
        /\ UNCHANGED <<conn, mem>>
    <3>1. CASE WaitMode(p)
      <4>1. PICK next \in {"again", "orphanClaim", "strip"} : At(p, "wait", next)
        BY <3>1 DEF WaitMode, TypeOK, Memory
      <4> QED
        BY <3>1, <4>1, AtMoves DEF WaitMode, links
    <3> QED
      BY <1>3, <3>1, AtMoves DEF Disable
  <2> QED
    BY <1>0, <2>1
<1>4. CASE PatchMode(p)
  <2>1. /\ pc[p] = "patch" /\ pc'[p] = "wait" /\ UNCHANGED conn
        /\ mem'[p] = [mem[p] EXCEPT !.mode = "Running", !.found = FALSE]
    BY <1>4, AtMoves, KeepMoves DEF PatchMode, links
  <2>2. mem'[p].sandbox = mem[p].sandbox /\ mem'[p].link = mem[p].link
    BY <2>1 DEF Memory
  <2> QED
    BY <1>0, <2>1, <2>2
<1>5. CASE HomeAgain(p)
  BY <1>5, AtMoves, ReturnMoves DEF HomeAgain, ReleasePcs
<1>6. CASE RetainStep(p) /\ ~RemoveFiles(p) /\ ~Forget(p)
  <2>1. /\ pc[p] \in ReleasePcs \cup {"removeMachine"}
        /\ pc'[p] \in ReleasePcs \cup {"removeMachine", "removeFiles"}
        /\ UNCHANGED <<conn, mem>>
    BY <1>6, AtMoves DEF RetainStep, OrphanClaim, ClaimGone, Recheck, StripLabels, OrphanSandbox,
       SandboxGone, VerifyRetained, SaveRetained, RemoveMachine, links, ReleasePcs
  <2> QED
    BY <1>0, <2>1 DEF ReleasePcs
<1>7. CASE RemoveFiles(p)
  <2>1. /\ pc[p] = "removeFiles" /\ pc'[p] = "forget" /\ UNCHANGED mem
        /\ conn' = IF mem[p].link = "none" THEN conn
                   ELSE [conn EXCEPT ![mem[p].sandbox] = "none"]
    BY <1>7, AtMoves DEF RemoveFiles
  <2>2. mem[p].sandbox \in Uid
    BY <1>0, <2>1, UidFacts DEF Memory
  <2> QED
    BY <1>0, <2>1, <2>2 DEF TypeOK, ReleasePcs
<1>8. CASE Forget(p)
  BY <1>8, AtMoves DEF Forget, ReleasePcs
<1> QED
  BY <1>1, <1>2, <1>3, <1>4, <1>5, <1>6, <1>7, <1>8 DEF ModeStep

\* No Sandbox of a name comes to a connection by the cluster's doing.
LEMMA StillUnlinked ==
  ASSUME SInv, Serial, [Next]_vars, UNCHANGED <<links, pc, mem>>, NEW p \in Procs,
         pc[p] = "reach", LinksNamed(LinkName(p)) = {}
  PROVE  LinksNamed(LinkName(p))' = {}
<1> USE Grounds
<1>1. LinkName(p)' = LinkName(p)
  <2>1. CASE mem[p].phase = "bound"
    <3>1. Live(mem[p].sandbox)
      BY <2>1 DEF Reached, ConnectPcs
    <3>2. sandbox'[mem[p].sandbox].name = sandbox[mem[p].sandbox].name
      BY <3>1, SandboxMoves DEF SandboxMoved, Live
    <3> QED
      BY <3>2 DEF LinkName
  <2>2. CASE mem[p].phase # "bound"
    BY <2>2 DEF LinkName
  <2> QED
    BY <2>1, <2>2
<1>2. \A u \in Uid : conn[u] # "none" => sandbox'[u].name = sandbox[u].name
  BY LinkedIsMade, SandboxMoves DEF SandboxMoved
<1> QED
  BY <1>1, <1>2 DEF LinksNamed, links

LEMMA LinksCurrentKept ==
  ASSUME SInv, Serial, [Next]_vars
  PROVE  LinksCurrent'
<1> USE Grounds
<1>1. \A u \in Uid : conn'[u] # "none" => Live(u)' \/ managed'[u].phase = "bound"
  BY LinkedRecordsKept
<1>2. \A u \in Uid : sandbox'[u].st = "deleting" => managed'[u].phase = "bound"
  BY DeletedRecordsKept
<1>3. ASSUME NEW p \in Procs
      PROVE  Linked(p)'
  <2>1. CASE ConnectStep(p)
    BY <2>1, ConnectLinks
  <2>2. CASE ModeStep(p) \/ RetainStep(p)
    BY <2>2, StepLinks
  <2>3. CASE CreateStep(p) \/ EraseStep(p) \/ Interrupt(p) \/ (Start(p) /\ ~StartDisconnect(p))
    <3>1. pc'[p] \in {"origin", "lock", "claim", "link", "idle"} \cup CreatePcs \cup ErasePcs
      <4>1. Start(p) /\ ~StartDisconnect(p) => pc'[p] \in {"origin", "link", "lock", "claim"}
        BY AtMoves DEF Start, StartCreate, StartConnect, StartFromRetained, StartFromRecord
      <4> QED
        BY <2>3, <4>1, StageMoves, ReturnMoves DEF Interrupt
    <3> QED
      BY <3>1 DEF Linked, LinkPcs, ReleasePcs, CreatePcs, ErasePcs
  <2>4. CASE StartDisconnect(p)
    <3>1. PICK u \in Uid : Keep(p, [NoMemory EXCEPT !.cmd = "disconnect", !.sandbox = u,
                                                    !.link = conn[u]])
      BY <2>4 DEF StartDisconnect
    <3>2. /\ mem'[p] = [NoMemory EXCEPT !.cmd = "disconnect", !.sandbox = u, !.link = conn[u]]
          /\ pc'[p] = "detach" /\ UNCHANGED conn
      BY <2>4, <3>1, AtMoves, KeepMoves DEF StartDisconnect, links
    <3>3. mem'[p].sandbox = u /\ mem'[p].link = conn[u] /\ u # 0
      BY <3>2, ClaimsAssumption DEF NoMemory, Uid
    <3> QED
      BY <3>2, <3>3 DEF Linked, LinkKnown, LinkPcs
  <2>5. CASE UNCHANGED <<links, pc, mem>>
    <3>1. pc[p] = "reach" /\ mem[p].link = "none" => LinksNamed(LinkName(p))' = {}
      BY <2>5, StillUnlinked DEF LinksCurrent
    <3> QED
      BY <2>5, <3>1 DEF links, Linked, LinkPcs, LinkKnown, LinksCurrent
  <2> QED
    BY <2>1, <2>2, <2>3, <2>4, <2>5, Turns DEF Step
<1> QED
  BY <1>1, <1>2, <1>3 DEF LinksCurrent, Linked
-----------------------------------------------------------------------------
(* Sandboxes that are connected, resumed or let go of. *)

Reaching(p) ==
  /\ pc[p] \in ConnectPcs /\ mem[p].phase = "bound" => Live(mem[p].sandbox)
  /\ pc[p] \in {"prepare", "attach", "save"} => Live(mem[p].sandbox)
  /\ pc[p] \in ModePcs \ {"claim"} /\ mem[p].cmd # "delete" => Live(mem[p].sandbox)
  /\ pc[p] \in {"verify", "retain"} \cup CleanupPcs => sandbox[mem[p].sandbox].st = "gone"

\* The Sandbox of a record whose claim is there is not on its way out.
LEMMA ClaimedIsLive ==
  ASSUME SInv, NEW p \in Procs, mem[p].phase = "bound", claim = mem[p].rec
  PROVE  Live(mem[p].sandbox)
<1>1. /\ mem[p].sandbox = mem[p].rec /\ mem[p].rec \in Uid
      /\ sandbox[mem[p].rec].st # "none"
  BY InHand
<1>2. sandbox[mem[p].rec].st \in {"none", "live", "deleting", "gone"}
  BY <1>1, Grounds DEF TypeOK, Sandbox
<1> QED
  BY <1>1, <1>2, Grounds DEF SandboxesFollow, Live

\* A Sandbox that can be reached is not under deletion.
LEMMA ReachableIsLive ==
  ASSUME SInv, NEW u \in Uid, Reachable(u)
  PROVE  Live(u)
  BY Grounds DEF Reachable, Present, Detaching, AtRest, Live

\* A command reaches its Sandbox by steps that leave the Sandbox alone, but for the patch.
LEMMA StepReaches ==
  ASSUME SInv, Serial, [Next]_vars, NEW p \in Procs, Step(p)
  PROVE  Reaching(p)'
<1> USE Grounds DEF Reaching
<1> mem[p] \in Memory
  BY DEF TypeOK
<1>0. Reaching(p)
  BY DEF Reached
<1>1. CASE CreateStep(p) /\ ~SaveBinding(p)
  <2>1. pc'[p] \in CreatePcs
    BY <1>1, AtMoves DEF CreateStep, CheckOrigin, SelectSaved, GetClaim, CreateClaim,
       RecordClaim, WaitReady, ResolveSandbox, ResolveHome, CreatePcs
  <2> QED
    BY <2>1 DEF CreatePcs, ConnectPcs, ModePcs, CleanupPcs
<1>2. CASE SaveBinding(p)
  <2>1. /\ pc[p] = "bind" /\ pc'[p] = "link" /\ UNCHANGED sandbox
        /\ mem'[p] = [mem[p] EXCEPT !.phase = "bound", !.rekey = FALSE]
    BY <1>2, AtMoves, KeepMoves DEF SaveBinding, cluster
  <2>2. mem'[p].sandbox = mem[p].sandbox
    BY <2>1 DEF Memory
  <2>3. Live(mem[p].sandbox)
    BY <2>1 DEF ClaimResolved
  <2> QED
    BY <2>1, <2>2, <2>3 DEF ModePcs, CleanupPcs, Live
<1>3. CASE ConnectStep(p)
  <2>1. CASE SelectLink(p)
    <3>1. PICK u \in Uid : /\ mem'[p] = [mem[p] EXCEPT !.sandbox = u, !.link = conn[u]]
                           /\ mem[p].phase = "bound" => u = mem[p].sandbox
      BY <2>1, LinkChosen
    <3>2. pc[p] = "link" /\ pc'[p] \in {"adopt", "reach"} /\ UNCHANGED sandbox
      BY <2>1, LinkChosen
    <3>3. mem'[p].phase = mem[p].phase /\ mem'[p].sandbox = u
      BY <3>1 DEF Memory
    <3> QED
      BY <1>0, <3>1, <3>2, <3>3 DEF ModePcs, CleanupPcs, ConnectPcs, Live
  <2>2. CASE FirstLink(p)
    <3>1. /\ pc[p] = "link" /\ pc'[p] = "reach" /\ UNCHANGED sandbox
          /\ mem'[p] = [mem[p] EXCEPT !.link = "none"]
      BY <2>2, AtMoves, KeepMoves DEF FirstLink, cluster
    <3>2. mem'[p].sandbox = mem[p].sandbox /\ mem'[p].phase = mem[p].phase
      BY <3>1 DEF Memory
    <3> QED
      BY <1>0, <3>1, <3>2 DEF ModePcs, CleanupPcs, ConnectPcs, Live
  <2>3. CASE AdoptIdentity(p)
    <3>1. pc[p] = "adopt" /\ pc'[p] = "reach" /\ UNCHANGED <<sandbox, mem>>
      BY <2>3, AtMoves DEF AdoptIdentity, cluster
    <3> QED
      BY <1>0, <3>1 DEF ModePcs, CleanupPcs, ConnectPcs, Live
  <2>4. CASE Reach(p)
    <3>1. PICK u \in Named(LinkName(p)) : Reachable(u) /\ Keep(p, [mem[p] EXCEPT !.sandbox = u])
      BY <2>4 DEF Reach
    <3>2. /\ pc'[p] \in {"prepare", "attach"} /\ UNCHANGED sandbox
          /\ mem'[p] = [mem[p] EXCEPT !.sandbox = u]
      BY <2>4, <3>1, AtMoves, KeepMoves DEF Reach, cluster
    <3>3. mem'[p].sandbox = u
      BY <3>2 DEF Memory
    <3>4. Live(u)
      BY <3>1, ReachableIsLive DEF Named
    <3> QED
      BY <3>2, <3>3, <3>4 DEF ModePcs, CleanupPcs, Live
  <2>5. CASE PrepareLink(p) \/ Attach(p)
    <3>1. /\ pc[p] \in {"prepare", "attach"} /\ pc'[p] \in {"attach", "save"} /\ UNCHANGED sandbox
          /\ mem'[p] = mem[p] \/ mem'[p] = [mem[p] EXCEPT !.link = "prepared"]
      BY <2>5, AtMoves, KeepMoves DEF PrepareLink, Attach, cluster
    <3>2. mem'[p].sandbox = mem[p].sandbox
      BY <3>1 DEF Memory
    <3> QED
      BY <1>0, <3>1, <3>2 DEF ModePcs, CleanupPcs, Live
  <2>6. CASE SaveLink(p) \/ Disconnect(p)
    BY <2>6, ReturnMoves DEF SaveLink, Disconnect, ConnectPcs, ModePcs, CleanupPcs
  <2> QED
    BY <1>3, <2>1, <2>2, <2>3, <2>4, <2>5, <2>6 DEF ConnectStep
<1>4. CASE ModeStep(p)
  <2>1. CASE ReadClaim(p)
    <3>1. /\ pc[p] = "claim" /\ pc'[p] = "sandbox" /\ UNCHANGED sandbox
          /\ mem'[p] = [mem[p] EXCEPT !.claim = claim]
          /\ claim = mem[p].rec \/ mem[p].cmd = "delete"
      BY <2>1, AtMoves, KeepMoves DEF ReadClaim, cluster
    <3>2. mem'[p].sandbox = mem[p].sandbox /\ mem'[p].cmd = mem[p].cmd
      BY <3>1 DEF Memory
    <3>3. mem[p].cmd # "delete" => Live(mem[p].sandbox)
      BY <3>1, ClaimedIsLive DEF CompleteCopies, ModePcs
    <3> QED
      BY <3>1, <3>2, <3>3 DEF ConnectPcs, CleanupPcs, Live
  <2>2. CASE ReadSandbox(p)
    <3>1. /\ pc[p] = "sandbox" /\ pc'[p] = "home" /\ UNCHANGED sandbox
          /\ mem'[p] = [mem[p] EXCEPT !.found = Present(mem[p].sandbox),
                                      !.mode = sandbox[mem[p].sandbox].mode]
      BY <2>2, AtMoves, KeepMoves DEF ReadSandbox, cluster
    <3>2. mem'[p].sandbox = mem[p].sandbox /\ mem'[p].cmd = mem[p].cmd
      BY <3>1 DEF Memory
    <3> QED
      BY <1>0, <3>1, <3>2 DEF ConnectPcs, CleanupPcs, ModePcs, Live
  <2>3. CASE ReadHome(p)
    <3>1. PICK next \in {"verify", "patch", "disable"} :
            At(p, "home", next) /\ (next = "verify" => ~mem[p].found)
      BY <2>3 DEF ReadHome, TypeOK, Memory
    <3>2. /\ pc[p] = "home" /\ pc'[p] = next /\ UNCHANGED sandbox
          /\ mem'[p] = [mem[p] EXCEPT !.link = conn[mem[p].sandbox]]
      BY <2>3, <3>1, AtMoves, KeepMoves DEF ReadHome, cluster
    <3>3. mem'[p].sandbox = mem[p].sandbox /\ mem'[p].cmd = mem[p].cmd
      BY <3>2 DEF Memory
    <3>4. next = "verify" => sandbox[mem[p].sandbox].st = "gone"
      BY <3>1, <3>2 DEF SInv, CustodyInv, Stripping
    <3> QED
      BY <1>0, <3>2, <3>3, <3>4 DEF ConnectPcs, CleanupPcs, ModePcs, Live
  <2>4. CASE Disable(p) \/ WaitMode(p)
    <3>1. /\ pc[p] \in {"disable", "wait"} /\ UNCHANGED <<sandbox, mem>>
          /\ pc'[p] \in {"patch", "again", "orphanClaim", "strip"}
      <4>1. CASE WaitMode(p)
        <5>1. PICK next \in {"again", "orphanClaim", "strip"} : At(p, "wait", next)
          BY <4>1 DEF WaitMode, TypeOK, Memory
        <5> QED
          BY <4>1, <5>1, AtMoves DEF WaitMode, cluster
      <4> QED
        BY <2>4, <4>1, AtMoves DEF Disable, cluster
    <3> QED
      BY <1>0, <3>1 DEF ConnectPcs, CleanupPcs, ModePcs, Live
  <2>5. CASE PatchMode(p)
    <3>1. /\ pc[p] = "patch" /\ pc'[p] = "wait"
          /\ mem'[p] = [mem[p] EXCEPT !.mode = "Running", !.found = FALSE]
      BY <2>5, AtMoves, KeepMoves DEF PatchMode
    <3>2. mem'[p].sandbox = mem[p].sandbox /\ mem'[p].cmd = mem[p].cmd
      BY <3>1 DEF Memory
    <3>3. mem[p].sandbox \in Uid
      BY <3>1, InHand DEF CompleteCopies, ModePcs
    <3>4. sandbox'[mem[p].sandbox].st = sandbox[mem[p].sandbox].st
      <4>1. sandbox'[mem[p].sandbox] \in {sandbox[mem[p].sandbox],
                [sandbox[mem[p].sandbox] EXCEPT !.mode = Wanted(p), !.seen = FALSE]}
        BY <2>5, <3>3 DEF PatchMode, TypeOK
      <4>2. sandbox[mem[p].sandbox] \in Sandbox
        BY <3>3 DEF TypeOK
      <4> QED
        BY <4>1, <4>2 DEF Sandbox
    <3> QED
      BY <1>0, <3>1, <3>2, <3>4 DEF ConnectPcs, CleanupPcs, ModePcs, Live
  <2>6. CASE HomeAgain(p) /\ mem[p].cmd = "resume"
    <3>1. pc[p] = "again" /\ pc'[p] = "link" /\ UNCHANGED <<sandbox, mem>>
      BY <2>6, AtMoves DEF HomeAgain, cluster
    <3> QED
      BY <1>0, <2>6, <3>1 DEF ConnectPcs, CleanupPcs, ModePcs, Live
  <2>7. CASE HomeAgain(p) /\ mem[p].cmd # "resume"
    BY <2>7, ReturnMoves DEF HomeAgain, ConnectPcs, CleanupPcs, ModePcs
  <2> QED
    BY <1>4, <2>1, <2>2, <2>3, <2>4, <2>5, <2>6, <2>7 DEF ModeStep
<1>5. CASE RetainStep(p)
  <2>1. CASE OrphanClaim(p) \/ ClaimGone(p) \/ Recheck(p) \/ StripLabels(p) \/ OrphanSandbox(p)
             \/ Forget(p)
    <3>1. pc'[p] \in {"claimGone", "recheck", "strip", "orphanSandbox", "sandboxGone", "lock"}
      BY <2>1, AtMoves DEF OrphanClaim, ClaimGone, Recheck, StripLabels, OrphanSandbox, Forget
    <3> QED
      BY <3>1 DEF ConnectPcs, CleanupPcs, ModePcs, Live
  <2>2. CASE SandboxGone(p)
    <3>1. pc[p] = "sandboxGone" /\ pc'[p] = "verify" /\ UNCHANGED <<sandbox, mem>>
      BY <2>2, AtMoves DEF SandboxGone, cluster
    <3>2. mem[p].sandbox \in Uid /\ sandbox[mem[p].sandbox].st # "none"
      BY <3>1, InHand DEF CompleteCopies, ReleasePcs
    <3>3. sandbox[mem[p].sandbox].st = "gone"
      BY <2>2, <3>2 DEF SandboxGone, Named, Present, TypeOK, Sandbox
    <3> QED
      BY <3>1, <3>3 DEF ConnectPcs, ModePcs
  <2>3. CASE VerifyRetained(p) \/ SaveRetained(p) \/ RemoveMachine(p) \/ RemoveFiles(p)
    <3>1. /\ pc[p] \in {"verify", "retain"} \cup CleanupPcs /\ pc'[p] \in {"retain"} \cup CleanupPcs
          /\ UNCHANGED <<sandbox, mem>>
      BY <2>3, AtMoves DEF VerifyRetained, SaveRetained, RemoveMachine, RemoveFiles, cluster,
         CleanupPcs
    <3> QED
      BY <1>0, <3>1 DEF ConnectPcs, ModePcs, CleanupPcs
  <2> QED
    BY <1>5, <2>1, <2>2, <2>3 DEF RetainStep
<1>6. CASE EraseStep(p)
  BY <1>6, StageMoves DEF ConnectPcs, ModePcs, CleanupPcs, ErasePcs
<1> QED
  BY <1>1, <1>2, <1>3, <1>4, <1>5, <1>6 DEF Step

LEMMA ReachedKept ==
  ASSUME SInv, Serial, [Next]_vars
  PROVE  Reached'
<1> USE Grounds
<1> SUFFICES ASSUME NEW p \in Procs
             PROVE  Reaching(p)'
  BY DEF Reached, Reaching
<1>1. CASE Step(p)
  BY <1>1, StepReaches
<1>2. CASE Start(p) \/ Interrupt(p)
  <2>1. pc'[p] \in {"origin", "lock", "claim", "idle", "link", "detach"}
    BY <1>2, StageMoves, ReturnMoves DEF Interrupt
  <2>2. pc'[p] \in {"link", "detach"} => mem'[p].phase # "bound"
    <3>1. ASSUME StartConnect(p) PROVE mem'[p].phase # "bound"
      <4>1. PICK name : Keep(p, [NoMemory EXCEPT !.cmd = "connect", !.name = name])
        BY <3>1 DEF StartConnect
      <4>2. mem'[p] = [NoMemory EXCEPT !.cmd = "connect", !.name = name]
        BY <4>1, KeepMoves
      <4> QED
        BY <4>2 DEF NoMemory
    <3>2. ASSUME StartDisconnect(p) PROVE mem'[p].phase # "bound"
      <4>1. PICK u : Keep(p, [NoMemory EXCEPT !.cmd = "disconnect", !.sandbox = u, !.link = conn[u]])
        BY <3>2 DEF StartDisconnect
      <4>2. mem'[p] = [NoMemory EXCEPT !.cmd = "disconnect", !.sandbox = u, !.link = conn[u]]
        BY <4>1, KeepMoves
      <4> QED
        BY <4>2 DEF NoMemory
    <3>3. StartCreate(p) \/ StartFromRetained(p) => pc'[p] \in {"origin", "lock"}
      BY AtMoves DEF StartCreate, StartFromRetained
    <3>4. \A cmd : StartFromRecord(p, cmd) => pc'[p] = "claim"
      BY AtMoves DEF StartFromRecord
    <3> QED
      BY <1>2, <3>1, <3>2, <3>3, <3>4, ReturnMoves DEF Start, Interrupt
  <2> QED
    BY <2>1, <2>2 DEF Reaching, ConnectPcs, ModePcs, CleanupPcs
<1>3. CASE UNCHANGED <<pc, mem>>
  <2>1. Reaching(p)
    BY DEF Reached, Reaching
  <2>2. pc[p] \in ConnectPcs \cup ModePcs /\ Live(mem[p].sandbox) => Live(mem[p].sandbox)'
    <3>1. ASSUME pc[p] # "orphanSandbox", Live(mem[p].sandbox)
          PROVE  Live(mem[p].sandbox)'
      <4>1. PICK u : u = mem[p].sandbox
        OBVIOUS
      <4>2. Live(u)'
        BY <3>1, <4>1, StaysLive
      <4> QED
        BY <1>3, <4>1, <4>2 DEF Live
    <3> QED
      BY <3>1 DEF ConnectPcs, ModePcs
  <2>3. pc[p] \in {"verify", "retain"} \cup CleanupPcs => sandbox'[mem[p].sandbox].st = "gone"
    <3>1. ASSUME pc[p] \in {"verify", "retain"} \cup CleanupPcs
          PROVE  sandbox'[mem[p].sandbox].st = "gone"
      <4>1. mem[p].sandbox \in Uid
        BY <3>1, InHand DEF CompleteCopies, ReleasePcs
      <4> QED
        BY <2>1, <3>1, <4>1, SandboxMoves DEF SandboxMoved, Reaching
    <3> QED
      BY <3>1
  <2> QED
    BY <1>3, <2>1, <2>2, <2>3 DEF Reaching, ConnectPcs
<1> QED
  BY <1>1, <1>2, <1>3, Turns
-----------------------------------------------------------------------------
(* Detaching before suspending. *)

\* A Sandbox is let go of once it is detached.
LEMMA EnabledIsLiveKept ==
  ASSUME SInv, Serial, [Next]_vars
  PROVE  EnabledIsLive'
<1> USE Grounds
<1> SUFFICES ASSUME NEW u \in Uid, conn'[u] = "connected", machine'[u] = "enabled"
             PROVE  sandbox'[u].st = "live"
  BY DEF EnabledIsLive
<1>1. CASE conn[u] # "connected" \/ machine[u] # "enabled"
  BY <1>1, LinkComes DEF Live
<1>2. ASSUME conn[u] = "connected", machine[u] = "enabled", sandbox'[u].st # "live"
      PROVE  FALSE
  <2>1. sandbox[u].st = "live"
    BY <1>2 DEF Detaching, EnabledIsLive
  <2>2. PICK p \in Procs : pc[p] = "orphanSandbox" /\ mem[p].sandbox = u
    BY <1>2, <2>1, LetGo
  <2> QED
    BY <1>2, <2>2 DEF Detaching, Suspending, ReleasePcs
<1> QED
  BY <1>1, <1>2

\* A Sandbox at rest stays so: it is resumed by a command only.
LEMMA RestStays ==
  ASSUME SInv, [Next]_vars, NEW u \in Uid, AtRest(u), sandbox[u].st # "none",
         \A q \in Procs : PatchMode(q) /\ mem[q].sandbox = u => mem[q].cmd # "resume"
  PROVE  AtRest(u)'
<1> USE Grounds DEF AtRest
<1> sandbox[u] \in Sandbox
  BY DEF TypeOK
<1>1. ASSUME NEW q \in Procs, PatchMode(q)
      PROVE  AtRest(u)'
  <2>1. \/ sandbox'[u] = sandbox[u]
        \/ sandbox'[u] = [sandbox[u] EXCEPT !.mode = "Suspended", !.seen = FALSE]
    <3>1. mem[q].sandbox = u => Wanted(q) = "Suspended"
      BY <1>1 DEF Wanted
    <3> QED
      BY <1>1, <3>1 DEF PatchMode, TypeOK
  <2> QED
    BY <2>1 DEF Sandbox
<1>2. ASSUME NEW q \in Procs, OrphanSandbox(q)
      PROVE  AtRest(u)'
  <2>1. sandbox'[u] \in {sandbox[u], [sandbox[u] EXCEPT !.st = "deleting"]}
    BY <1>2 DEF OrphanSandbox, TypeOK
  <2> QED
    BY <2>1 DEF Sandbox
<1>3. ASSUME NEW name \in SandboxNames, BindClaim(name)
      PROVE  AtRest(u)'
  BY <1>3 DEF BindClaim
<1>4. ASSUME NEW v \in Uid, Reconcile(v)
      PROVE  AtRest(u)'
  <2>1. CASE v = u
    <3>1. sandbox'[u] = [sandbox[u] EXCEPT !.seen = TRUE, !.ready = sandbox[u].mode = "Running",
                                           !.pod = PodAfter(u)]
      BY <1>4, <2>1 DEF Reconcile, TypeOK
    <3>2. ~PodAfter(u)
      BY DEF PodAfter
    <3> QED
      BY <3>1, <3>2 DEF Sandbox
  <2>2. CASE v # u
    BY <1>4, <2>2 DEF Reconcile
  <2> QED
    BY <2>1, <2>2
<1>5. ASSUME NEW v \in Uid, PodStops(v) \/ FinishSandbox(v)
      PROVE  AtRest(u)'
  <2>1. sandbox'[u] \in {sandbox[u], [sandbox[u] EXCEPT !.pod = FALSE],
                         [sandbox[u] EXCEPT !.st = "gone"]}
    BY <1>5 DEF PodStops, FinishSandbox, TypeOK
  <2> QED
    BY <2>1 DEF Sandbox
<1>6. ASSUME NEW v \in Uid, PodFails(v)
      PROVE  AtRest(u)'
  BY <1>6 DEF PodFails
<1> QED
  BY <1>1, <1>2, <1>3, <1>4, <1>5, <1>6, SandboxWriters

\* Only a Sandbox that has come to rest is deleted.
LEMMA DeletedRests ==
  ASSUME SInv, Serial, [Next]_vars, NEW u \in Uid, sandbox'[u].st = "deleting"
  PROVE  AtRest(u)'
<1> USE Grounds
<1>1. sandbox[u].st \in {"live", "deleting"}
  BY SandboxMoves DEF SandboxMoved, TypeOK, Sandbox
<1>2. AtRest(u)
  <2>1. CASE sandbox[u].st = "live"
    BY <2>1, LetGo DEF Detaching
  <2>2. CASE sandbox[u].st = "deleting"
    BY <2>2 DEF Detaching
  <2> QED
    BY <1>1, <2>1, <2>2
<1>3. ASSUME NEW q \in Procs, PatchMode(q), mem[q].sandbox = u
      PROVE  mem[q].cmd # "resume"
  <2>1. pc[q] = "patch"
    BY <1>3, AtMoves DEF PatchMode
  <2>2. mem[q].cmd = "resume" => Live(u)
    BY <1>3, <2>1 DEF Reached, ModePcs
  <2>3. sandbox[u].st = "live" => \E p \in Procs : pc[p] = "orphanSandbox"
    BY LetGo
  <2> QED
    BY <2>1, <2>2, <2>3 DEF Live, Serial
<1> QED
  BY <1>1, <1>2, <1>3, RestStays

Resting(p) ==
  \/ pc[p] = "again" /\ mem[p].cmd # "resume"
  \/ pc[p] \in {"orphanClaim", "claimGone", "recheck", "strip", "orphanSandbox"}

\* The stages after the patch are entered from it, and those of the release from each
\* other or for a Sandbox that is gone already.
LEMMA SuspendingEntered ==
  ASSUME TypeOK, NEW p \in Procs, Start(p) \/ Step(p) \/ Interrupt(p), Suspending(p)'
  PROVE  \/ Disable(p)
         \/ ReadHome(p) /\ pc'[p] = "verify" /\ ~mem[p].found
         \/ PatchMode(p) /\ Suspending(p)
         \/ WaitMode(p) /\ Suspending(p)
         \/ RetainStep(p) /\ pc[p] \in ReleasePcs /\ UNCHANGED <<links, mem>>
<1> USE DEF Suspending, ReleasePcs
<1>1. ~Start(p) /\ ~CreateStep(p) /\ ~ConnectStep(p) /\ ~EraseStep(p)
  BY StageMoves DEF CreatePcs, ConnectPcs, ErasePcs
<1>2. ~Interrupt(p)
  BY ReturnMoves DEF Interrupt
<1>3. ASSUME RetainStep(p)
      PROVE  pc[p] \in ReleasePcs /\ UNCHANGED <<links, mem>>
  <2>1. ~RemoveMachine(p) /\ ~RemoveFiles(p) /\ ~Forget(p) /\ ~SaveRetained(p)
    BY AtMoves DEF RemoveMachine, RemoveFiles, Forget, SaveRetained
  <2> QED
    BY <1>3, <2>1, AtMoves DEF RetainStep, OrphanClaim, ClaimGone, Recheck, StripLabels, OrphanSandbox,
       SandboxGone, VerifyRetained
<1>4. ~ReadClaim(p) /\ ~ReadSandbox(p) /\ ~HomeAgain(p)
  BY AtMoves, ReturnMoves DEF ReadClaim, ReadSandbox, HomeAgain
<1>5. ASSUME WaitMode(p)
      PROVE  Suspending(p)
  <2>1. pc[p] = "wait" /\ UNCHANGED mem
        /\ (pc'[p] = "again" \/ mem[p].cmd = "delete")
    BY <1>5, AtMoves DEF WaitMode
  <2> QED
    BY <2>1
<1>6. ASSUME PatchMode(p)
      PROVE  Suspending(p)
  <2>1. /\ pc[p] = "patch" /\ pc'[p] = "wait"
        /\ mem'[p] = [mem[p] EXCEPT !.mode = "Running", !.found = FALSE]
    BY <1>6, AtMoves, KeepMoves DEF PatchMode
  <2>2. mem'[p].cmd = mem[p].cmd
    BY <2>1 DEF TypeOK, Memory
  <2> QED
    BY <2>1, <2>2
<1>7. ASSUME ReadHome(p)
      PROVE  pc'[p] = "verify" /\ ~mem[p].found
  <2>1. PICK next \in {"verify", "patch", "disable"} :
          /\ At(p, "home", next)
          /\ next = "patch" => mem[p].cmd = "resume"
          /\ next = "verify" => ~mem[p].found
    BY <1>7 DEF ReadHome, TypeOK, Memory
  <2>2. mem'[p] = [mem[p] EXCEPT !.link = conn[mem[p].sandbox]]
    BY <1>7, KeepMoves DEF ReadHome
  <2>3. mem'[p].cmd = mem[p].cmd
    BY <2>2 DEF TypeOK, Memory
  <2> QED
    BY <2>1, <2>3, AtMoves
<1> QED
  BY <1>1, <1>2, <1>3, <1>4, <1>5, <1>6, <1>7 DEF Step, ModeStep

\* Herdr lets go before the patch and takes nothing back by itself.
LEMMA DetachedStays ==
  ASSUME SInv, Serial, [Next]_vars, NEW p \in Procs, Suspending(p)',
         conn'[mem'[p].sandbox] = "connected"
  PROVE  machine'[mem'[p].sandbox] # "enabled"
<1> USE Grounds
<1> mem[p] \in Memory
  BY DEF TypeOK
<1>1. CASE Disable(p)
  <2>1. /\ pc[p] = "disable" /\ UNCHANGED <<conn, mem>>
        /\ machine' = IF mem[p].link = "connected" /\ machine[mem[p].sandbox] = "enabled"
                      THEN [machine EXCEPT ![mem[p].sandbox] = "disabled"] ELSE machine
    BY <1>1, AtMoves DEF Disable, Released
  <2>2. mem[p].sandbox \in Uid
    BY <2>1, InHand DEF CompleteCopies, ModePcs
  <2>3. conn[mem[p].sandbox] = mem[p].link
    BY <2>1 DEF LinksCurrent, LinkPcs, LinkKnown
  <2> QED
    BY <2>1, <2>2, <2>3 DEF TypeOK
<1>2. CASE ReadHome(p) /\ ~mem[p].found
  <2>1. pc[p] = "home" /\ mem'[p] = [mem[p] EXCEPT !.link = conn[mem[p].sandbox]] /\ UNCHANGED links
    BY <1>2, AtMoves, KeepMoves DEF ReadHome
  <2>2. mem'[p].sandbox = mem[p].sandbox
    BY <2>1 DEF Memory
  <2>3. mem[p].sandbox \in Uid
    BY <2>1, InHand DEF CompleteCopies, ModePcs
  <2>4. sandbox[mem[p].sandbox].st = "gone"
    BY <1>2, <2>1 DEF SInv, CustodyInv, Stripping
  <2> QED
    BY <2>1, <2>2, <2>3, <2>4 DEF Detaching, EnabledIsLive, links
<1>3. CASE PatchMode(p) /\ Suspending(p)
  <2>1. mem'[p] = [mem[p] EXCEPT !.mode = "Running", !.found = FALSE] /\ UNCHANGED links
    BY <1>3, KeepMoves DEF PatchMode
  <2>2. mem'[p].sandbox = mem[p].sandbox
    BY <2>1 DEF Memory
  <2> QED
    BY <1>3, <2>1, <2>2 DEF Detaching, links
<1>4. CASE UNCHANGED <<links, mem>> /\ Suspending(p)
  BY <1>4 DEF Detaching, links
<1>5. WaitMode(p) => UNCHANGED <<links, mem>>
  BY DEF WaitMode
<1>6. pc[p] \in ReleasePcs => Suspending(p)
  BY DEF Suspending
<1>7. CASE UNCHANGED <<links, pc, mem>>
  BY <1>4, <1>7 DEF Suspending
<1> QED
  BY <1>1, <1>2, <1>3, <1>4, <1>5, <1>6, <1>7, SuspendingEntered, Turns

\* A command that has seen its Sandbox come to rest finds it so.
LEMMA RestingKept ==
  ASSUME SInv, Serial, [Next]_vars, NEW p \in Procs, Resting(p)'
  PROVE  AtRest(mem[p].sandbox)'
<1> USE Grounds
<1> mem[p] \in Memory
  BY DEF TypeOK
<1>1. CASE WaitMode(p)
  <2>1. /\ UNCHANGED <<sandbox, mem>>
        /\ pc'[p] = "again" \/ mem[p].cmd = "delete"
    BY <1>1, AtMoves DEF WaitMode, cluster
  <2>2. mem[p].cmd # "resume"
    BY <2>1 DEF Resting
  <2>3. AtRest(mem[p].sandbox)
    BY <1>1, <2>2 DEF WaitMode, Wanted, AtRest
  <2> QED
    BY <2>1, <2>3 DEF AtRest
<1>2. ASSUME Resting(p), UNCHANGED mem, \A q \in Procs : ~PatchMode(q)
      PROVE  AtRest(mem[p].sandbox)'
  <2>1. AtRest(mem[p].sandbox)
    BY <1>2 DEF Resting, Detaching
  <2>2. mem[p].phase = "bound"
    BY <1>2 DEF Resting, CompleteCopies, ModePcs, ReleasePcs
  <2>3. mem[p].sandbox \in Uid /\ sandbox[mem[p].sandbox].st # "none"
    BY <2>2, InHand
  <2>4. \A u \in Uid : AtRest(u) /\ sandbox[u].st # "none" => AtRest(u)'
    BY <1>2, RestStays
  <2> QED
    BY <1>2, <2>1, <2>3, <2>4 DEF AtRest
<1>3. Resting(p) => \A q \in Procs : ~PatchMode(q)
  BY AtMoves DEF Resting, PatchMode, Serial
<1>4. CASE UNCHANGED <<pc, mem>>
  BY <1>2, <1>3, <1>4 DEF Resting
<1>5. ASSUME RetainStep(p), pc[p] \in ReleasePcs, UNCHANGED mem
      PROVE  Resting(p)
  BY <1>5, AtMoves DEF RetainStep, OrphanClaim, ClaimGone, Recheck, StripLabels, OrphanSandbox,
     SandboxGone, VerifyRetained, SaveRetained, RemoveMachine, RemoveFiles, Forget, Resting,
     ReleasePcs
<1>6. Suspending(p)'
  BY DEF Resting, Suspending, ReleasePcs
<1>7. ~Disable(p) /\ ~PatchMode(p) /\ pc'[p] # "verify"
  BY AtMoves DEF Disable, PatchMode, Resting
<1> QED
  BY <1>1, <1>2, <1>3, <1>4, <1>5, <1>6, <1>7, SuspendingEntered, Turns

LEMMA DetachingKept ==
  ASSUME SInv, Serial, [Next]_vars
  PROVE  Detaching'
<1>1. EnabledIsLive'
  BY EnabledIsLiveKept
<1>2. \A u \in Uid : sandbox'[u].st = "deleting" => AtRest(u)'
  BY DeletedRests
<1>3. \A p \in Procs : Suspending(p)' /\ conn'[mem'[p].sandbox] = "connected" =>
        machine'[mem'[p].sandbox] # "enabled"
  BY DetachedStays
<1>4. \A p \in Procs : Resting(p)' => AtRest(mem[p].sandbox)'
  BY RestingKept
<1> QED
  BY <1>1, <1>2, <1>3, <1>4 DEF Detaching, Resting
-----------------------------------------------------------------------------
(* Destroying a home. *)

\* The deletion stage finds no managed record, and writes none.
LEMMA NothingSavedKept ==
  ASSUME SInv, Serial, [Next]_vars, NEW p \in Procs, pc'[p] \in {"lock"} \cup ErasePcs
  PROVE  Saved' = {}
<1> USE Grounds
<1>1. CASE Forget(p)
  <2>1. pc[p] = "forget" /\ managed' = [managed EXCEPT ![mem[p].rec] = NoManaged]
    BY <1>1, AtMoves DEF Forget
  <2>2. Saved = {mem[p].rec}
    BY <2>1, InHand DEF CompleteCopies, CleanupPcs
  <2> QED
    BY <2>1, <2>2 DEF Saved, NoManaged, TypeOK
<1>2. CASE StartFromRetained(p)
  BY <1>2 DEF StartFromRetained, Saved, records
<1>3. CASE EraseStep(p)
  <2>1. pc[p] \in {"lock"} \cup ErasePcs /\ UNCHANGED managed
    BY <1>3, AtMoves DEF EraseStep, LockRetained, Reselect, CheckPending, InspectHome,
       InspectAllocation, InspectMounts, InspectVolume, MarkDeleting, DeletePVC, StorageGone,
       DropRetained, records, ErasePcs
  <2>2. Saved = {}
    BY <2>1 DEF Destroying
  <2> QED
    BY <2>1, <2>2 DEF Saved
<1>4. CASE UNCHANGED <<records, pc>>
  <2>1. Saved = {}
    BY <1>4 DEF Destroying
  <2> QED
    BY <1>4, <2>1 DEF Saved, records
<1>5. ASSUME Start(p) \/ Step(p) \/ Interrupt(p), ~EraseStep(p)
      PROVE  Forget(p) \/ StartFromRetained(p)
  <2>1. pc'[p] = "lock"
    BY <1>5, EraseEntered DEF SInv, CustodyInv, IInv
  <2>2. ~CreateStep(p) /\ ~ConnectStep(p)
    BY <2>1, StageMoves DEF CreatePcs, ConnectPcs
  <2>3. ~Interrupt(p)
    BY <2>1, ReturnMoves DEF Interrupt
  <2>4. /\ ~StartCreate(p) /\ ~StartConnect(p) /\ ~StartDisconnect(p)
        /\ \A cmd : ~StartFromRecord(p, cmd)
    <3>1. ASSUME NEW cmd, StartFromRecord(p, cmd)
          PROVE  At(p, "idle", "claim")
      BY <3>1 DEF StartFromRecord
    <3>2. StartCreate(p) => At(p, "idle", "origin")
      BY DEF StartCreate
    <3>3. StartConnect(p) => At(p, "idle", "link")
      BY DEF StartConnect
    <3>4. StartDisconnect(p) => At(p, "idle", "detach")
      BY DEF StartDisconnect
    <3> QED
      BY <2>1, <3>1, <3>2, <3>3, <3>4, AtMoves
  <2>5. ~ReadClaim(p) /\ ~ReadSandbox(p) /\ ~Disable(p) /\ ~PatchMode(p) /\ ~HomeAgain(p)
    BY <2>1, AtMoves, ReturnMoves DEF ReadClaim, ReadSandbox, Disable, PatchMode, HomeAgain
  <2>6. ~WaitMode(p) /\ ~ReadHome(p)
    <3>1. WaitMode(p) => \E next \in {"again", "orphanClaim", "strip"} : At(p, "wait", next)
      BY DEF WaitMode, TypeOK, Memory
    <3>2. ReadHome(p) => \E next \in {"verify", "patch", "disable"} : At(p, "home", next)
      BY DEF ReadHome, TypeOK, Memory
    <3> QED
      BY <2>1, <3>1, <3>2, AtMoves
  <2>7. RetainStep(p) => Forget(p)
    BY <2>1, AtMoves DEF RetainStep, OrphanClaim, ClaimGone, Recheck, StripLabels,
       OrphanSandbox, SandboxGone, VerifyRetained, SaveRetained, RemoveMachine, RemoveFiles
  <2> QED
    BY <1>5, <2>2, <2>3, <2>4, <2>5, <2>6, <2>7 DEF Start, Step, ModeStep
<1> QED
  BY <1>1, <1>2, <1>3, <1>4, <1>5, Turns

\* A home becomes terminating by the request of the deletion stage only.
LEMMA TerminatingMoves ==
  ASSUME SInv, [Next]_vars, NEW h \in Uid, home'[h].st = "terminating"
  PROVE  home[h].st = "terminating" \/ \E p \in Procs : DeletePVC(p) /\ mem[p].home = h
<1>1. Provided(h) \/ Edited(h)
  BY HomeMoves, Grounds
<1> QED
  BY <1>1 DEF Provided, Edited, Untouched, Stripped, Requested, Adopted, Orphaned, Finished,
     Emptied, SameState

\* The home of a bound record is not being destroyed.
LEMMA BoundHomeKept ==
  ASSUME SInv, Serial, [Next]_vars, NEW i \in Uid, managed'[i].phase = "bound"
  PROVE  home'[managed'[i].home].st # "terminating"
<1> USE Grounds
<1>1. ASSUME managed'[i] = managed[i]
      PROVE  home'[managed'[i].home].st # "terminating"
  <2>1. managed[i].home \in Uid /\ home[managed[i].home].st # "terminating"
    BY <1>1, MatesNow DEF SInv, Mates, Destroying
  <2>2. ASSUME NEW p \in Procs, DeletePVC(p)
        PROVE  FALSE
    <3>1. pc[p] = "erase"
      BY <2>2, AtMoves DEF DeletePVC
    <3> QED
      BY <1>1, <3>1 DEF Destroying, ErasePcs, Saved
  <2> QED
    BY <1>1, <2>1, <2>2, TerminatingMoves
<1>2. ASSUME NEW p \in Procs, SaveBinding(p), managed'[i] # managed[i]
      PROVE  home'[managed'[i].home].st # "terminating"
  <2>1. pc[p] = "bind" /\ UNCHANGED home /\ managed'[i].home = mem[p].home
    BY <1>2, AtMoves DEF SaveBinding, TypeOK, cluster
  <2> QED
    BY <2>1 DEF Destroying
<1>3. ASSUME NEW p \in Procs, RecordClaim(p) \/ Forget(p)
      PROVE  managed'[i] = managed[i]
  BY <1>3 DEF RecordClaim, Forget, TypeOK, NoManaged
<1> QED
  BY <1>1, <1>2, <1>3, ManagedWriters DEF SInv, CustodyInv

\* Nor is the home that a create is about to save.
LEMMA BindingHomeKept ==
  ASSUME SInv, Serial, [Next]_vars, NEW p \in Procs, pc'[p] = "bind"
  PROVE  home'[mem'[p].home].st # "terminating"
<1> USE Grounds
<1> mem[p] \in Memory
  BY DEF TypeOK
<1>1. CASE ResolveHome(p)
  <2>1. PICK h \in Uid : OwnedHome(h, mem[p].sandbox) /\ Keep(p, [mem[p] EXCEPT !.home = h])
    BY <1>1 DEF ResolveHome
  <2>2. mem'[p] = [mem[p] EXCEPT !.home = h] /\ pc[p] = "resolveHome" /\ UNCHANGED home
    BY <1>1, <2>1, AtMoves, KeepMoves DEF ResolveHome, cluster
  <2>3. mem'[p].home = h
    BY <2>2 DEF Memory
  <2>4. home[h].owner # 0
    BY <2>1, <2>2 DEF OwnedHome, CompleteCopies
  <2> QED
    BY <2>2, <2>3, <2>4 DEF SInv, CustodyInv, HomesKept
<1>2. CASE UNCHANGED <<pc, mem>>
  <2>1. mem[p].home \in Uid /\ home[mem[p].home].st # "terminating"
    BY <1>2, MatesNow DEF SInv, Paired, Mates, Destroying
  <2>2. \A q \in Procs : ~DeletePVC(q)
    BY <1>2, AtMoves DEF Serial, DeletePVC
  <2> QED
    BY <1>2, <2>1, <2>2, TerminatingMoves
<1>3. ASSUME Start(p) \/ Step(p) \/ Interrupt(p)
      PROVE  ResolveHome(p)
  <2>1. CreateStep(p)
    BY <1>3, AtMoves, CreateEntered DEF CreatePcs, StartCreate
  <2> QED
    BY <2>1, AtMoves DEF CreateStep, CheckOrigin, SelectSaved, GetClaim, CreateClaim,
       RecordClaim, WaitReady, ResolveSandbox, SaveBinding
<1> QED
  BY <1>1, <1>2, <1>3, Turns

\* A deletion in hand is one on record.
LEMMA DeletingKept ==
  ASSUME SInv, Serial, [Next]_vars, NEW p \in Procs, pc'[p] \in ErasePcs \ {"reselect"},
         mem'[p].state = "deleting"
  PROVE  retained'[mem'[p].home].state = "deleting"
<1> USE Grounds
<1> mem[p] \in Memory
  BY DEF TypeOK
<1>1. CASE UNCHANGED <<records, pc, mem>>
  BY <1>1 DEF records, Destroying
<1>2. ASSUME EraseStep(p)
      PROVE  retained'[mem'[p].home].state = "deleting"
  <2>1. CASE LockRetained(p)
    BY <2>1, AtMoves DEF LockRetained
  <2>2. CASE Reselect(p)
    <3>1. mem'[p] = [mem[p] EXCEPT !.state = retained[mem[p].home].state,
                                   !.sandbox = retained[mem[p].home].origin,
                                   !.volume = retained[mem[p].home].volume]
          /\ UNCHANGED retained
      BY <2>2, KeepMoves DEF Reselect, records
    <3> QED
      BY <3>1 DEF Memory
  <2>3. CASE DropRetained(p)
    BY <2>3, ReturnMoves DEF DropRetained, ErasePcs
  <2>4. CASE MarkDeleting(p)
    <3>1. /\ pc[p] = "mark" /\ mem'[p] = [mem[p] EXCEPT !.state = "deleting"]
          /\ retained' = [retained EXCEPT ![mem[p].home] =
               [state |-> "deleting", origin |-> mem[p].sandbox, volume |-> mem[p].volume]]
      BY <2>4, AtMoves, KeepMoves DEF MarkDeleting
    <3>2. mem[p].home \in Uid
      BY <3>1, HomeInHand DEF SInv, CustodyInv, IInv, Bookkeeping, ErasePcs
    <3> QED
      BY <3>1, <3>2 DEF Memory, TypeOK
  <2>5. CASE ~LockRetained(p) /\ ~Reselect(p) /\ ~DropRetained(p) /\ ~MarkDeleting(p)
    <3>1. /\ mem'[p].home = mem[p].home /\ mem'[p].state = mem[p].state
          /\ pc[p] \in ErasePcs \ {"reselect"}
      BY <1>2, <2>5, EraseHeld
    <3>2. UNCHANGED retained
      BY <1>2, <2>5 DEF EraseStep, CheckPending, InspectHome, InspectAllocation, InspectMounts,
         InspectVolume, DeletePVC, StorageGone, records
    <3> QED
      BY <3>1, <3>2 DEF Destroying
  <2> QED
    BY <2>1, <2>2, <2>3, <2>4, <2>5
<1>3. Start(p) \/ Step(p) \/ Interrupt(p) => EraseStep(p)
  BY EraseEntered DEF SInv, CustodyInv, IInv
<1> QED
  BY <1>1, <1>2, <1>3, Turns

\* A record of the deletion is there before the request and as long as the home is.
LEMMA DeletionOnRecordKept ==
  ASSUME SInv, Serial, [Next]_vars, NEW h \in Uid, home'[h].st = "terminating"
  PROVE  /\ retained'[h].state = "deleting"
         /\ home'[h].pv = "bound" => retained'[h].volume
<1> USE Grounds
<1>0. HandedOver /\ HandedOver'
  BY NextCustody DEF SInv, CustodyInv, IInv
<1>1. home'[h].pv = "bound" /\ retained'[h].state = "deleting" => retained'[h].volume
  BY <1>0, NextTypes DEF HandedOver, TypeOK, Retained
<1>2. ASSUME NEW p \in Procs, DeletePVC(p), mem[p].home = h
      PROVE  retained'[h].state = "deleting"
  <2>1. pc[p] = "erase" /\ UNCHANGED retained
    BY <1>2, AtMoves DEF DeletePVC, records
  <2>2. mem[p].state = "deleting"
    BY <1>0, <2>1 DEF HandedOver
  <2> QED
    BY <1>2, <2>1, <2>2 DEF Destroying, ErasePcs
<1>3. ASSUME home[h].st = "terminating"
      PROVE  retained'[h].state = "deleting"
  <2>1. retained[h].state = "deleting"
    BY <1>3 DEF Destroying, DeletionOnRecord
  <2>2. ASSUME NEW p \in Procs, SaveRetained(p)
        PROVE  retained'[h] = retained[h]
    <3>1. pc[p] = "retain"
      BY <2>2, AtMoves DEF SaveRetained
    <3>2. /\ mem[p].rec \in Uid /\ managed[mem[p].rec].phase = "bound"
          /\ managed[mem[p].rec].home = mem[p].home
      BY <3>1, InHand DEF CompleteCopies, ReleasePcs
    <3>3. mem[p].home # h
      BY <1>3, <3>2 DEF Destroying
    <3> QED
      BY <2>2, <3>3 DEF SaveRetained, TypeOK
  <2>3. ASSUME NEW p \in Procs, MarkDeleting(p)
        PROVE  retained'[h].state = "deleting"
    BY <2>1, <2>3 DEF MarkDeleting, TypeOK
  <2>4. ASSUME NEW p \in Procs, DropRetained(p)
        PROVE  retained'[h] = retained[h]
    <3>1. home[mem[p].home].st = "gone"
      BY <1>0, <2>4 DEF DropRetained, HandedOver, Erased
    <3> QED
      BY <1>3, <2>4, <3>1 DEF DropRetained, TypeOK
  <2> QED
    BY <2>1, <2>2, <2>3, <2>4, RetainedWriters
<1> QED
  BY <1>1, <1>2, <1>3, TerminatingMoves

LEMMA DestroyingKept ==
  ASSUME SInv, Serial, [Next]_vars
  PROVE  Destroying'
<1>1. DeletionOnRecord'
  BY DeletionOnRecordKept DEF DeletionOnRecord
<1>2. \A i \in Uid : managed'[i].phase = "bound" => home'[managed'[i].home].st # "terminating"
  BY BoundHomeKept
<1>3. \A p \in Procs : pc'[p] = "bind" => home'[mem'[p].home].st # "terminating"
  BY BindingHomeKept
<1>4. \A p \in Procs : pc'[p] \in {"lock"} \cup ErasePcs => Saved' = {}
  BY NothingSavedKept
<1>5. \A p \in Procs : pc'[p] \in ErasePcs \ {"reselect"} /\ mem'[p].state = "deleting" =>
        retained'[mem'[p].home].state = "deleting"
  BY DeletingKept
<1> QED
  BY <1>1, <1>2, <1>3, <1>4, <1>5 DEF Destroying

-----------------------------------------------------------------------------
LEMMA InitSerial == Init => SerialInv
<1> SUFFICES ASSUME NEW legacy \in Legacies, Beginning(legacy)
             PROVE  SerialInv
  BY DEF Init
<1> USE DEF Beginning
<1>1. PICK name \in SandboxNames, policy \in Policies :
       /\ sandbox = [u \in Uid |->
            [st |-> IF u <= lastUid THEN "gone" ELSE "none", name |-> name,
             mode |-> "Running", seen |-> FALSE, ready |-> FALSE, pod |-> FALSE]]
       /\ home = [h \in Uid |->
            [st |-> IF h <= lastUid THEN "live" ELSE "none", name |-> name, owner |-> 0,
             adoptable |-> legacy = "restoring", pv |-> "bound", policy |-> policy]]
  OBVIOUS
<1>2. \A p \in Procs : pc[p] = "idle" /\ mem[p].phase = "none"
  BY DEF NoMemory
<1>3. \A i \in Uid : managed[i].phase = "none" /\ conn[i] = "none" /\ home[i].st # "terminating"
  BY <1>1 DEF NoManaged
<1>4. CopiesCurrent
  BY <1>2 DEF CopiesCurrent
<1>5. SandboxesFollow
  BY <1>1, ClaimsAssumption DEF SandboxesFollow, Uid
<1>6. ClaimResolved /\ LinksCurrent /\ Reached
  BY <1>1, <1>2, <1>3 DEF ClaimResolved, LinksCurrent, LinkPcs, Reached, ConnectPcs, ModePcs,
     ReleasePcs, CleanupPcs
<1>7. Detaching
  BY <1>1, <1>2, <1>3 DEF Detaching, EnabledIsLive, Suspending, ReleasePcs
<1>8. Destroying
  BY <1>2, <1>3 DEF Destroying, DeletionOnRecord, ErasePcs
<1> QED
  BY <1>4, <1>5, <1>6, <1>7, <1>8 DEF SerialInv

LEMMA NextSerial ==
  ASSUME SInv, Serial, [Next]_vars
  PROVE  SInv'
<1>1. CustodyInv'
  BY NextCustody DEF SInv
<1>2. RInv'
  BY RecordsKept DEF SInv, CustodyInv
<1> QED
  BY <1>1, <1>2, CopiesCurrentKept, SandboxesFollowKept, ClaimResolvedKept, LinksCurrentKept,
     ReachedKept, DetachingKept, DestroyingKept DEF SInv, SerialInv

\* SInv is inductive.
LEMMA SInvHolds == ASSUME Serial PROVE Spec => []SInv
<1>1. Init => SInv
  BY InitCustody, InitRecords, InitSerial DEF SInv
<1>2. SInv /\ [Next]_vars => SInv'
  BY NextSerial
<1> QED
  BY <1>1, <1>2, PTL DEF Spec

\* When commands run one after another, what a command has read is what is there, and
\* records, cluster and connections agree, wherever the commands before it stopped.
THEOREM SerialHolds == ASSUME Serial PROVE Spec => []SerialInv
<1>1. SInv => SerialInv
  BY DEF SInv
<1> QED
  BY <1>1, SInvHolds, PTL

\* A home under deletion has a record saying so, wherever an earlier deletion stopped
\* (deleteRetainedHome).
THEOREM DeletionsOnRecord == ASSUME Serial PROVE Spec => []DeletionOnRecord
<1>1. SInv => DeletionOnRecord
  BY DEF SInv, SerialInv, Destroying
<1> QED
  BY <1>1, SInvHolds, PTL

\* A connection whose Sandbox is gone still has its bound record (removeConnection, before
\* the record's os.Remove).
THEOREM LinksHaveRecords == ASSUME Serial PROVE Spec => []NoLinkLeftBehind
<1>1. SInv => NoLinkLeftBehind
  BY DEF SInv, SerialInv, LinksCurrent, ClaimResolved, NoLinkLeftBehind, Live, Present
<1> QED
  BY <1>1, SInvHolds, PTL

\* A Sandbox that Herdr is connected to is neither gone nor being deleted, wherever stops
\* and deletes were interrupted and connects followed (applyOperatingMode).
THEOREM EnabledAreLive == ASSUME Serial PROVE Spec => []EnabledIsLive
<1>1. SInv => EnabledIsLive
  BY DEF SInv, SerialInv, Detaching
<1> QED
  BY <1>1, SInvHolds, PTL

\* A stop that reports success has detached and suspended its Sandbox, also after an
\* earlier attempt (applyOperatingMode, waitForOperatingMode).
THEOREM StoppedAreDetached == ASSUME Serial PROVE Spec => []StoppedIsDetached
<1>1. ASSUME SInv
      PROVE  StoppedIsDetached
  <2> SUFFICES ASSUME NEW p \in Procs, pc[p] = "again", mem[p].cmd = "stop"
               PROVE  /\ Present(mem[p].sandbox) /\ AtRest(mem[p].sandbox)
                      /\ conn[mem[p].sandbox] = "connected" => machine[mem[p].sandbox] # "enabled"
    BY DEF StoppedIsDetached, AtRest
  <2>1. Live(mem[p].sandbox)
    BY <1>1, Grounds DEF Reached, ModePcs
  <2>2. AtRest(mem[p].sandbox)
    BY <1>1, Grounds DEF Detaching
  <2>3. conn[mem[p].sandbox] = "connected" => machine[mem[p].sandbox] # "enabled"
    BY <1>1, Grounds DEF Detaching, Suspending
  <2> QED
    BY <2>1, <2>2, <2>3 DEF Live, Present
<1> QED
  BY <1>1, SInvHolds, PTL
=============================================================================
