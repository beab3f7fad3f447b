----------------------------- MODULE Workspace -----------------------------
(***************************************************************************)
(* The steps of the sandbox commands create, connect, disconnect, stop,    *)
(* resume and delete, the cluster around them, and what the commands       *)
(* promise.  WorkspaceState declares the state and says how it is          *)
(* abstracted.                                                             *)
(***************************************************************************)
EXTENDS WorkspaceState

(* Faults: steps as a plausible slip in the code would make them.  Each can  *)
(* take the place of the step it is named after, to confirm that the         *)
(* property named in its comment notices.  No specification uses them.       *)

\* TypeOK: the managed phase written where a connection phase belongs.
SaveLinkAsBound(p) ==
  /\ pc[p] = "save"
  /\ conn' = [conn EXCEPT ![mem[p].sandbox] = "bound"]
  /\ Return(p)
  /\ UNCHANGED <<cluster, records, machine>>

\* DeletionOnRecord: the PVC is deleted before "deleting" is saved.
MarkDeletingLater(p) ==
  /\ At(p, "mark", "erase")
  /\ Keep(p, [mem[p] EXCEPT !.state = "deleting"])
  /\ UNCHANGED <<cluster, records, links, holder>>

\* NoLinkLeftBehind: the connection's files are left to a later clean-up.
RemoveFilesLater(p) ==
  /\ At(p, "removeFiles", "forget")
  /\ UNCHANGED <<cluster, records, links, holder, mem>>

\* EnabledIsLive: the machine is left to Herdr's own time-out.
DisableNever(p) ==
  /\ At(p, "disable", "patch")
  /\ UNCHANGED <<cluster, records, links, holder, mem>>

\* StoppedIsDetached: a Sandbox that is to be suspended already is taken for detached.
DisableRunning(p) ==
  LET u == mem[p].sandbox IN
  /\ At(p, "disable", "patch")
  /\ machine' = IF mem[p].mode = "Running" /\ mem[p].link = "connected" /\ machine[u] = "enabled"
                THEN [machine EXCEPT ![u] = "disabled"] ELSE machine
  /\ UNCHANGED <<cluster, records, conn, holder, mem>>

\* OneManagedRecord: a claim that replaced the saved one gets a record of its own.
RecordReplacedClaim(p) ==
  /\ At(p, "record", "ready")
  /\ IF mem[p].rec = mem[p].claim THEN UNCHANGED <<managed, mem>>
     ELSE /\ managed' = [managed EXCEPT ![mem[p].claim] = [NoManaged EXCEPT !.phase = "claimed"]]
          /\ Keep(p, [mem[p] EXCEPT !.rec = mem[p].claim, !.phase = "claimed"])
  /\ UNCHANGED <<cluster, retained, links, holder>>

\* BoundRecordFixed: the "claimed" record is saved even when one exists.
RecordClaimAlways(p) ==
  /\ At(p, "record", "ready")
  /\ mem[p].rec \in {0, mem[p].claim}
  /\ managed' = [managed EXCEPT ![mem[p].claim] = [NoManaged EXCEPT !.phase = "claimed"]]
  /\ Keep(p, [mem[p] EXCEPT !.rec = mem[p].claim, !.phase = "claimed"])
  /\ UNCHANGED <<cluster, retained, links, holder>>

\* Exclusive: the deletion stage does not take the lock.
LockRetainedNever(p) ==
  /\ At(p, "lock", "reselect")
  /\ retained[mem[p].home].state # "none"
  /\ UNCHANGED <<cluster, records, links, holder, mem>>

\* SerialInv: delete does not wait for its claim to be gone.
ClaimGoneAtOnce(p) ==
  /\ At(p, "claimGone", "recheck")
  /\ UNCHANGED <<cluster, records, links, holder, mem>>

\* RecordOutlivesStorage: the delete request's response is taken for its effect.
StorageGoneAtOnce(p) ==
  /\ At(p, "storageGone", "drop")
  /\ UNCHANGED <<cluster, records, links, holder, mem>>

\* RecordOutlivesStorage: the managed record is removed before the retained one is saved.
SaveRetainedLater(p) ==
  /\ At(p, "retain", "removeMachine")
  /\ UNCHANGED <<cluster, records, links, holder, mem>>

\* RetiredInv: the inspection trusts that the claim stays deleted.
InspectAllocationNever(p) ==
  /\ At(p, "inspectAllocation", "inspectMounts")
  /\ UNCHANGED <<cluster, records, links, holder, mem>>

\* EraseOnlyRetired: the inspection trusts that suspending removed every pod.
InspectMountsNever(p) ==
  /\ At(p, "inspectMounts", "inspectVolume")
  /\ home[mem[p].home].adoptable => mem[p].state = "restoring"
  /\ home' = [home EXCEPT ![mem[p].home].adoptable = FALSE]
  /\ UNCHANGED <<claim, dying, claimReady, lastUid, sandbox, records, links, holder, mem>>

\* EraseOnlyRetired: the reclaim policy of the volume is not looked at.
InspectVolumeAnyPolicy(p) ==
  LET m == mem[p]
      volume == home[m.home].pv = "bound" IN
  /\ \/ /\ m.state = "available"
        /\ At(p, "inspectVolume", "mark")
        /\ Keep(p, [m EXCEPT !.volume = volume])
     \/ /\ m.state = "deleting"
        /\ volume => m.volume
        /\ At(p, "inspectVolume", "erase")
        /\ UNCHANGED mem
  /\ UNCHANGED <<cluster, records, links, holder>>

\* NeverReadopted: the Sandbox is orphan-deleted with the home's labels in place.
StripLabelsNever(p) ==
  /\ At(p, "strip", "orphanSandbox")
  /\ OwnedHome(mem[p].home, mem[p].sandbox)
  /\ UNCHANGED <<cluster, records, links, holder, mem>>

\* DeleteCompletes: a PVC that an earlier attempt deleted is an error.
CheckPendingPresent(p) ==
  /\ At(p, "pending", "inspectHome")
  /\ HomePresent(mem[p].home)
  /\ UNCHANGED <<cluster, records, links, holder, mem>>

\* CreateCompletes: a claim that is not on record is taken for someone else's.
GetClaimRecorded(p) ==
  /\ At(p, "obtain", "record")
  /\ claim # 0 /\ mem[p].rec = claim
  /\ Keep(p, [mem[p] EXCEPT !.claim = claim, !.ready = claimReady])
  /\ UNCHANGED <<cluster, records, links, holder>>

-----------------------------------------------------------------------------
(* sandbox create *)

StartCreate(p) ==
  /\ At(p, "idle", "origin")
  /\ "create" \in Commands
  /\ Lock(p)
  /\ Keep(p, [NoMemory EXCEPT !.cmd = "create"])
  /\ UNCHANGED <<cluster, records, links>>

CheckOrigin(p) ==
  /\ At(p, "origin", "select")
  /\ RetainedFor(Alloc) = {}
  /\ UNCHANGED <<cluster, records, links, holder, mem>>

\* The copy of record i, or of no record, that a command works from.
Copy(m, i) ==
  [m EXCEPT !.rec = i,
            !.phase = IF i = 0 THEN "none" ELSE managed[i].phase,
            !.sandbox = IF i = 0 THEN 0 ELSE managed[i].sandbox,
            !.home = IF i = 0 THEN 0 ELSE managed[i].home]

\* rekey: the command names another identity file than the saved record.
SelectSaved(p) ==
  /\ At(p, "select", "obtain")
  /\ \E i \in Uid0, rekey \in BOOLEAN :
       /\ Saved \subseteq {i} /\ (i = 0 <=> Saved = {})
       /\ rekey => i # 0 /\ ~(managed[i].phase = "bound" /\ conn[managed[i].sandbox] = "connected")
       /\ Keep(p, [Copy(mem[p], i) EXCEPT !.rekey = rekey])
  /\ UNCHANGED <<cluster, records, links, holder>>

GetClaim(p) ==
  /\ At(p, "obtain", "record")
  /\ claim # 0
  /\ Keep(p, [mem[p] EXCEPT !.claim = claim, !.ready = claimReady])
  /\ UNCHANGED <<cluster, records, links, holder>>

\* The request may take effect although its response is lost: then Interrupt follows.
CreateClaim(p) ==
  /\ At(p, "obtain", "record")
  /\ claim = 0 /\ lastUid < MaxClaims
  /\ lastUid' = lastUid + 1
  /\ claim' = lastUid + 1
  /\ Keep(p, [mem[p] EXCEPT !.claim = lastUid + 1])
  /\ UNCHANGED <<dying, claimReady, sandbox, home, records, links, holder>>

RecordClaim(p) ==
  LET m == mem[p] IN
  /\ At(p, "record", "ready")
  /\ m.rec \in {0, m.claim}
  /\ IF m.rec # 0 THEN UNCHANGED <<managed, mem>>
     ELSE /\ managed' = [managed EXCEPT ![m.claim] = [NoManaged EXCEPT !.phase = "claimed"]]
          /\ Keep(p, [m EXCEPT !.rec = m.claim, !.phase = "claimed"])
  /\ UNCHANGED <<cluster, retained, links, holder>>

\* The first poll trusts the claim that obtainClaim read.  A claim that is ready, or still
\* says so, is not asked for the mode of its Sandbox.
WaitReady(p) ==
  /\ At(p, "ready", "resolve")
  /\ mem[p].ready \/ (claim = mem[p].claim /\ claimReady)
  /\ Keep(p, [mem[p] EXCEPT !.ready = FALSE])
  /\ UNCHANGED <<cluster, records, links, holder>>

\* A record without a Sandbox accepts whichever one has the bound name.
ResolveSandbox(p) ==
  /\ At(p, "resolve", "resolveHome")
  /\ \E u \in Named(sandbox[mem[p].claim].name) :
       /\ Reachable(u)
       /\ mem[p].phase = "bound" => u = mem[p].sandbox
       /\ Keep(p, [mem[p] EXCEPT !.sandbox = u])
  /\ UNCHANGED <<cluster, records, links, holder>>

\* The home goes by the Sandbox's name and must be controlled by it.
ResolveHome(p) ==
  /\ At(p, "resolveHome", "bind")
  /\ \E h \in Uid :
       /\ OwnedHome(h, mem[p].sandbox) /\ home[h].name = sandbox[mem[p].sandbox].name
       /\ mem[p].phase = "bound" => h = mem[p].home
       /\ Keep(p, [mem[p] EXCEPT !.home = h])
  /\ UNCHANGED <<cluster, records, links, holder>>

SaveBinding(p) ==
  LET m == mem[p] IN
  /\ At(p, "bind", "link")
  /\ managed' = IF m.phase = "bound" /\ ~m.rekey THEN managed
                ELSE [managed EXCEPT ![m.rec] =
                        [phase |-> "bound", sandbox |-> m.sandbox, home |-> m.home]]
  /\ Keep(p, [m EXCEPT !.phase = "bound", !.rekey = FALSE])
  /\ UNCHANGED <<cluster, retained, links, holder>>

CreateStep(p) ==
  \/ CheckOrigin(p) \/ SelectSaved(p) \/ GetClaim(p) \/ CreateClaim(p) \/ RecordClaim(p)
  \/ WaitReady(p) \/ ResolveSandbox(p) \/ ResolveHome(p) \/ SaveBinding(p)

-----------------------------------------------------------------------------
(* sandbox connect, on its own or called by create and resume, and sandbox disconnect *)

\* The user names the Sandbox, or means the only one that has a connection.
StartConnect(p) ==
  /\ At(p, "idle", "link")
  /\ "connect" \in Commands
  /\ \E name \in SandboxNames : Keep(p, [NoMemory EXCEPT !.cmd = "connect", !.name = name])
  /\ UNCHANGED <<cluster, records, links, holder>>

\* Create and resume name the Sandbox of the record they hold.
LinkName(p) == IF mem[p].phase = "bound" THEN sandbox[mem[p].sandbox].name ELSE mem[p].name

\* A saved connection decides the UID.  Another identity file than its own is refused once
\* it is connected, and adopted before.
SelectLink(p) ==
  /\ \E u \in Uid, other \in BOOLEAN :
       /\ At(p, "link", IF other THEN "adopt" ELSE "reach")
       /\ LinksNamed(LinkName(p)) = {u}
       /\ other => conn[u] # "connected"
       /\ Keep(p, [mem[p] EXCEPT !.sandbox = u, !.link = conn[u]])
  /\ UNCHANGED <<cluster, records, links, holder>>

FirstLink(p) ==
  /\ At(p, "link", "reach")
  /\ LinksNamed(LinkName(p)) = {}
  /\ Keep(p, [mem[p] EXCEPT !.link = "none"])
  /\ UNCHANGED <<cluster, records, links, holder>>

\* The whole copy is saved back.
AdoptIdentity(p) ==
  /\ At(p, "adopt", "reach")
  /\ conn' = [conn EXCEPT ![mem[p].sandbox] = mem[p].link]
  /\ UNCHANGED <<cluster, records, machine, holder, mem>>

\* A first connection of the user's takes whichever Sandbox has the name.
Reach(p) ==
  /\ At(p, "reach", IF mem[p].link = "none" THEN "prepare" ELSE "attach")
  /\ \E u \in Named(LinkName(p)) :
       /\ Reachable(u) /\ mem[p].sandbox \in {0, u}
       /\ Keep(p, [mem[p] EXCEPT !.sandbox = u])
  /\ UNCHANGED <<cluster, records, links, holder>>

PrepareLink(p) ==
  /\ At(p, "prepare", "attach")
  /\ conn' = [conn EXCEPT ![mem[p].sandbox] = "prepared"]
  /\ Keep(p, [mem[p] EXCEPT !.link = "prepared"])
  /\ UNCHANGED <<cluster, records, machine, holder>>

\* A connected record needs its profile; a prepared one adds a missing machine.
Attach(p) ==
  /\ At(p, "attach", "save")
  /\ mem[p].link = "connected" => machine[mem[p].sandbox] # "absent"
  /\ machine' = [machine EXCEPT ![mem[p].sandbox] = "enabled"]
  /\ UNCHANGED <<cluster, records, conn, holder, mem>>

SaveLink(p) ==
  /\ pc[p] = "save"
  /\ conn' = IF mem[p].link = "connected" THEN conn
             ELSE [conn EXCEPT ![mem[p].sandbox] = "connected"]
  /\ Return(p)
  /\ UNCHANGED <<cluster, records, machine>>

\* Herdr is told to let go of a connected Sandbox.
Released(p) ==
  IF mem[p].link = "connected" /\ machine[mem[p].sandbox] = "enabled"
  THEN [machine EXCEPT ![mem[p].sandbox] = "disabled"] ELSE machine

StartDisconnect(p) ==
  /\ At(p, "idle", "detach")
  /\ "disconnect" \in Commands
  /\ \E u \in Uid :
       /\ LinksNamed(sandbox[u].name) = {u}
       /\ Keep(p, [NoMemory EXCEPT !.cmd = "disconnect", !.sandbox = u, !.link = conn[u]])
  /\ UNCHANGED <<cluster, records, links, holder>>

Disconnect(p) ==
  /\ pc[p] = "detach"
  /\ machine' = Released(p)
  /\ Return(p)
  /\ UNCHANGED <<cluster, records, conn>>

ConnectStep(p) ==
  \/ SelectLink(p) \/ FirstLink(p) \/ AdoptIdentity(p) \/ Reach(p) \/ PrepareLink(p)
  \/ Attach(p) \/ SaveLink(p) \/ Disconnect(p)

-----------------------------------------------------------------------------
(* sandbox stop, sandbox resume and the first half of sandbox delete *)

\* All three start from the one saved record, which must be bound.
StartFromRecord(p, cmd) ==
  /\ At(p, "idle", "claim")
  /\ cmd \in Commands \cap {"stop", "resume", "delete"}
  /\ \E i \in Uid :
       /\ Saved = {i} /\ managed[i].phase = "bound"
       /\ Keep(p, Copy([NoMemory EXCEPT !.cmd = cmd], i))
  /\ UNCHANGED <<cluster, records, links, holder>>

\* Without a record, delete looks for retained data by the name of the origin Sandbox.
StartFromRetained(p) ==
  /\ At(p, "idle", "lock")
  /\ "delete" \in Commands
  /\ Saved = {}
  /\ \E h \in RetainedFor(Alloc) : Keep(p, [NoMemory EXCEPT !.cmd = "delete", !.home = h])
  /\ UNCHANGED <<cluster, records, links, holder>>

\* Only delete goes on without a claim; a claim of another UID is refused.
ReadClaim(p) ==
  /\ At(p, "claim", "sandbox")
  /\ claim = mem[p].rec \/ (claim = 0 /\ mem[p].cmd = "delete")
  /\ Keep(p, [mem[p] EXCEPT !.claim = claim])
  /\ UNCHANGED <<cluster, records, links, holder>>

\* A claim must still be bound to the saved Sandbox; without one, it may be gone.
ReadSandbox(p) ==
  LET m == mem[p]
      u == m.sandbox IN
  /\ At(p, "sandbox", "home")
  /\ \/ /\ Present(u)
        /\ m.claim # 0 => sandbox[m.claim].st # "none" /\ sandbox[m.claim].name = sandbox[u].name
     \/ Named(sandbox[u].name) = {} /\ m.claim = 0
  /\ Keep(p, [m EXCEPT !.found = Present(u), !.mode = sandbox[u].mode])
  /\ UNCHANGED <<cluster, records, links, holder>>

ReadHome(p) ==
  LET m == mem[p]
      u == m.sandbox IN
  /\ At(p, "home", CASE ~m.found -> "verify"
                     [] m.found /\ m.cmd = "resume" -> "patch"
                     [] m.found /\ m.cmd # "resume" -> "disable")
  /\ LinksNamed(sandbox[u].name) \subseteq {u}
  /\ m.found => OwnedHome(m.home, u)
  /\ Keep(p, [m EXCEPT !.link = conn[u]])
  /\ UNCHANGED <<cluster, records, links, holder>>

Disable(p) ==
  /\ At(p, "disable", "patch")
  /\ machine' = Released(p)
  /\ UNCHANGED <<cluster, records, conn, holder, mem>>

Wanted(p) == IF mem[p].cmd = "resume" THEN "Running" ELSE "Suspended"

\* The patch tests UID and resource version: it applies only to what was read.
PatchMode(p) ==
  LET u == mem[p].sandbox IN
  /\ At(p, "patch", "wait")
  /\ \/ mem[p].mode = Wanted(p) /\ UNCHANGED sandbox
     \/ /\ mem[p].mode # Wanted(p)
        /\ Present(u) /\ sandbox[u].mode = mem[p].mode
        /\ sandbox' = [sandbox EXCEPT ![u] = [@ EXCEPT !.mode = Wanted(p), !.seen = FALSE]]
  /\ Keep(p, [mem[p] EXCEPT !.mode = "Running", !.found = FALSE])
  /\ UNCHANGED <<claim, dying, claimReady, lastUid, home, records, links, holder>>

\* The condition must be about the current generation and the pods must agree.
WaitMode(p) ==
  LET u == mem[p].sandbox IN
  /\ At(p, "wait", CASE mem[p].cmd # "delete" -> "again"
                     [] mem[p].cmd = "delete" /\ mem[p].claim # 0 -> "orphanClaim"
                     [] mem[p].cmd = "delete" /\ mem[p].claim = 0 -> "strip")
  /\ Present(u)
  /\ sandbox[u].mode = Wanted(p) /\ sandbox[u].seen
  /\ IF Wanted(p) = "Running" THEN sandbox[u].ready /\ sandbox[u].pod ELSE ~sandbox[u].pod
  /\ UNCHANGED <<cluster, records, links, holder, mem>>

HomeAgain(p) ==
  /\ pc[p] = "again"
  /\ OwnedHome(mem[p].home, mem[p].sandbox)
  /\ IF mem[p].cmd = "resume" THEN At(p, "again", "link") /\ UNCHANGED <<holder, mem>>
     ELSE Return(p)
  /\ UNCHANGED <<cluster, records, links>>

ModeStep(p) ==
  \/ ReadClaim(p) \/ ReadSandbox(p) \/ ReadHome(p) \/ Disable(p) \/ PatchMode(p)
  \/ WaitMode(p) \/ HomeAgain(p)

-----------------------------------------------------------------------------
(* sandbox delete: the allocation is taken apart around its home *)

OrphanClaim(p) ==
  /\ At(p, "orphanClaim", "claimGone")
  /\ claim \in {0, mem[p].rec}
  /\ dying' = (claim # 0)
  /\ UNCHANGED <<claim, claimReady, lastUid, sandbox, home, records, links, holder, mem>>

ClaimGone(p) ==
  /\ At(p, "claimGone", "recheck")
  /\ claim = 0
  /\ UNCHANGED <<cluster, records, links, holder, mem>>

Recheck(p) ==
  /\ At(p, "recheck", "strip")
  /\ Present(mem[p].sandbox)
  /\ UNCHANGED <<cluster, records, links, holder, mem>>

\* Without its labels the controllers leave an unowned home alone.
StripLabels(p) ==
  /\ At(p, "strip", "orphanSandbox")
  /\ OwnedHome(mem[p].home, mem[p].sandbox)
  /\ home' = [home EXCEPT ![mem[p].home].adoptable = FALSE]
  /\ UNCHANGED <<claim, dying, claimReady, lastUid, sandbox, records, links, holder, mem>>

OrphanSandbox(p) ==
  LET u == mem[p].sandbox IN
  /\ At(p, "orphanSandbox", "sandboxGone")
  /\ Named(sandbox[u].name) \subseteq {u}
  /\ sandbox' = IF Present(u) THEN [sandbox EXCEPT ![u].st = "deleting"] ELSE sandbox
  /\ UNCHANGED <<claim, dying, claimReady, lastUid, home, records, links, holder, mem>>

SandboxGone(p) ==
  /\ At(p, "sandboxGone", "verify")
  /\ Named(sandbox[mem[p].sandbox].name) = {}
  /\ UNCHANGED <<cluster, records, links, holder, mem>>

VerifyRetained(p) ==
  /\ At(p, "verify", "retain")
  /\ HomePresent(mem[p].home) /\ home[mem[p].home].owner # mem[p].sandbox
  /\ UNCHANGED <<cluster, records, links, holder, mem>>

SaveRetained(p) ==
  LET m == mem[p] IN
  /\ At(p, "retain", "removeMachine")
  /\ retained' = [retained EXCEPT ![m.home] =
                    [state |-> "available", origin |-> m.sandbox, volume |-> FALSE]]
  /\ UNCHANGED <<cluster, managed, links, holder, mem>>

RemoveMachine(p) ==
  /\ At(p, "removeMachine", "removeFiles")
  /\ machine' = IF mem[p].link = "connected" THEN [machine EXCEPT ![mem[p].sandbox] = "absent"]
                ELSE machine
  /\ UNCHANGED <<cluster, records, conn, holder, mem>>

RemoveFiles(p) ==
  /\ At(p, "removeFiles", "forget")
  /\ conn' = IF mem[p].link = "none" THEN conn ELSE [conn EXCEPT ![mem[p].sandbox] = "none"]
  /\ UNCHANGED <<cluster, records, machine, holder, mem>>

\* What follows is told the home only.
Forget(p) ==
  /\ At(p, "forget", "lock")
  /\ managed' = [managed EXCEPT ![mem[p].rec] = NoManaged]
  /\ Keep(p, [NoMemory EXCEPT !.cmd = mem[p].cmd, !.home = mem[p].home])
  /\ UNCHANGED <<cluster, retained, links, holder>>

RetainStep(p) ==
  \/ OrphanClaim(p) \/ ClaimGone(p) \/ Recheck(p) \/ StripLabels(p) \/ OrphanSandbox(p)
  \/ SandboxGone(p) \/ VerifyRetained(p) \/ SaveRetained(p) \/ RemoveMachine(p)
  \/ RemoveFiles(p) \/ Forget(p)

-----------------------------------------------------------------------------
(* sandbox delete: the retained home is destroyed, under the lock *)

LockRetained(p) ==
  /\ At(p, "lock", "reselect")
  /\ retained[mem[p].home].state # "none"
  /\ Lock(p)
  /\ UNCHANGED <<cluster, records, links, mem>>

Reselect(p) ==
  LET r == retained[mem[p].home] IN
  /\ At(p, "reselect", IF r.state = "available" THEN "inspectHome" ELSE "pending")
  /\ r.state # "none"
  /\ Keep(p, [mem[p] EXCEPT !.state = r.state, !.sandbox = r.origin, !.volume = r.volume])
  /\ UNCHANGED <<cluster, records, links, holder>>

\* A deletion that is already under way needs no inspection once the PVC is gone.
CheckPending(p) ==
  /\ At(p, "pending", IF HomePresent(mem[p].home) THEN "inspectHome" ELSE "erase")
  /\ HomePresent(mem[p].home) \/ mem[p].state = "deleting"
  /\ UNCHANGED <<cluster, records, links, holder, mem>>

InspectHome(p) ==
  /\ At(p, "inspectHome", "inspectAllocation")
  /\ HomePresent(mem[p].home) /\ home[mem[p].home].owner = 0
  /\ UNCHANGED <<cluster, records, links, holder, mem>>

InspectAllocation(p) ==
  /\ At(p, "inspectAllocation", "inspectMounts")
  /\ claim = 0 /\ Named(sandbox[mem[p].sandbox].name) = {}
  /\ UNCHANGED <<cluster, records, links, holder, mem>>

\* Only a restore left by an older version may still be labelled, and is cancelled.
InspectMounts(p) ==
  LET h == mem[p].home IN
  /\ At(p, "inspectMounts", "inspectVolume")
  /\ ~Mounted(h)
  /\ home[h].adoptable => mem[p].state = "restoring"
  /\ home' = [home EXCEPT ![h].adoptable = FALSE]
  /\ UNCHANGED <<claim, dying, claimReady, lastUid, sandbox, records, links, holder, mem>>

\* A volume that still exists must be one whose removal Kubernetes confirms, and in a
\* pending deletion the recorded one.  Nothing continues from "restoring".
InspectVolume(p) ==
  LET m == mem[p]
      volume == home[m.home].pv = "bound" IN
  /\ \/ /\ m.state = "available"
        /\ volume => home[m.home].policy = "Delete"
        /\ At(p, "inspectVolume", "mark")
        /\ Keep(p, [m EXCEPT !.volume = volume])
     \/ /\ m.state = "deleting"
        /\ volume => m.volume
        /\ At(p, "inspectVolume", "erase")
        /\ UNCHANGED mem
  /\ UNCHANGED <<cluster, records, links, holder>>

MarkDeleting(p) ==
  LET m == mem[p] IN
  /\ At(p, "mark", "erase")
  /\ retained' = [retained EXCEPT ![m.home] =
                    [state |-> "deleting", origin |-> m.sandbox, volume |-> m.volume]]
  /\ Keep(p, [m EXCEPT !.state = "deleting"])
  /\ UNCHANGED <<cluster, managed, links, holder>>

DeletePVC(p) ==
  LET h == mem[p].home IN
  /\ At(p, "erase", "storageGone")
  /\ home' = IF HomePresent(h) THEN [home EXCEPT ![h].st = "terminating"] ELSE home
  /\ UNCHANGED <<claim, dying, claimReady, lastUid, sandbox, records, links, holder, mem>>

StorageGone(p) ==
  LET h == mem[p].home IN
  /\ At(p, "storageGone", "drop")
  /\ ~HomePresent(h) /\ (mem[p].volume => home[h].pv = "gone")
  /\ UNCHANGED <<cluster, records, links, holder, mem>>

DropRetained(p) ==
  /\ pc[p] = "drop"
  /\ retained' = [retained EXCEPT ![mem[p].home] = NoRetained]
  /\ Return(p)
  /\ UNCHANGED <<cluster, managed, links>>

EraseStep(p) ==
  \/ LockRetained(p) \/ Reselect(p) \/ CheckPending(p) \/ InspectHome(p)
  \/ InspectAllocation(p) \/ InspectMounts(p) \/ InspectVolume(p) \/ MarkDeleting(p)
  \/ DeletePVC(p) \/ StorageGone(p) \/ DropRetained(p)

-----------------------------------------------------------------------------
(* The cluster: what controllers and administrators do between the calls.  *)
(* External to the repository; the code waits for each of these effects.   *)

\* The claim is bound to a Sandbox whose name is free: its own, or a warm standby's.
BindClaim(name) ==
  /\ claim # 0 /\ ~dying /\ sandbox[claim].st = "none" /\ Named(name) = {}
  /\ sandbox' = [sandbox EXCEPT ![claim] = [@ EXCEPT !.st = "live", !.name = name]]
  /\ UNCHANGED <<claim, dying, claimReady, lastUid, home, records, links, holder, pc, mem>>

HomesNamed(name) == {h \in Uid : HomePresent(h) /\ home[h].name = name}

ProvisionHome(u) ==
  /\ sandbox[u].st = "live" /\ HomesNamed(sandbox[u].name) = {} /\ home[u].st = "none"
  /\ \E policy \in Policies : home' = [home EXCEPT ![u] =
       [st |-> "live", name |-> sandbox[u].name, owner |-> u, adoptable |-> TRUE,
        pv |-> "bound", policy |-> policy]]
  /\ UNCHANGED <<claim, dying, claimReady, lastUid, sandbox, records, links, holder, pc, mem>>

\* A Sandbox that finds an unowned home of its name adopts it if the labels allow it.
AdoptHome(h) ==
  /\ HomePresent(h) /\ home[h].owner = 0 /\ home[h].adoptable
  /\ \E u \in Named(home[h].name) : home' = [home EXCEPT ![h].owner = u]
  /\ UNCHANGED <<claim, dying, claimReady, lastUid, sandbox, records, links, holder, pc, mem>>

FinishClaim ==
  /\ dying
  /\ claim' = 0 /\ dying' = FALSE /\ claimReady' = FALSE
  /\ UNCHANGED <<lastUid, sandbox, home, records, links, holder, pc, mem>>

\* The controller acts on the current spec and reports its generation.  A pod needs the
\* home and is created at once; of a suspended Sandbox it goes away in its own time.
PodAfter(u) == sandbox[u].mode = "Running" \/ sandbox[u].pod

Reconcile(u) ==
  /\ Present(u)
  /\ \/ ~sandbox[u].seen
     \/ sandbox[u].mode = "Running" /\ ~(sandbox[u].ready /\ sandbox[u].pod)
  /\ sandbox[u].mode = "Running" => \E h \in Uid : OwnedHome(h, u)
  /\ sandbox' = [sandbox EXCEPT ![u] =
       [@ EXCEPT !.seen = TRUE, !.ready = sandbox[u].mode = "Running", !.pod = PodAfter(u)]]
  /\ UNCHANGED <<claim, dying, claimReady, lastUid, home, records, links, holder, pc, mem>>

PodStops(u) ==
  /\ sandbox[u].mode = "Suspended" /\ sandbox[u].pod
  /\ sandbox' = [sandbox EXCEPT ![u].pod = FALSE]
  /\ UNCHANGED <<claim, dying, claimReady, lastUid, home, records, links, holder, pc, mem>>

\* The claim repeats what its Sandbox says.
ReportClaim ==
  /\ claim # 0
  /\ claimReady' = (Present(claim) /\ sandbox[claim].ready)
  /\ UNCHANGED <<claim, dying, lastUid, sandbox, home, records, links, holder, pc, mem>>

\* A running Sandbox loses its pod, is found not ready, or both.
PodFails(u) ==
  /\ Present(u) /\ sandbox[u].mode = "Running"
  /\ \E ready, pod \in BOOLEAN :
       /\ ready => sandbox[u].ready
       /\ pod => sandbox[u].pod
       /\ sandbox' = [sandbox EXCEPT ![u] = [@ EXCEPT !.ready = ready, !.pod = pod]]
  /\ UNCHANGED <<claim, dying, claimReady, lastUid, home, records, links, holder, pc, mem>>

\* Orphaning strips the owner from the home before the Sandbox goes away.
OrphanHome(h) ==
  /\ home[h].owner # 0 /\ sandbox[home[h].owner].st = "deleting"
  /\ home' = [home EXCEPT ![h].owner = 0]
  /\ UNCHANGED <<claim, dying, claimReady, lastUid, sandbox, records, links, holder, pc, mem>>

FinishSandbox(u) ==
  /\ sandbox[u].st = "deleting" /\ \A h \in Uid : ~OwnedHome(h, u)
  /\ sandbox' = [sandbox EXCEPT ![u].st = "gone"]
  /\ UNCHANGED <<claim, dying, claimReady, lastUid, home, records, links, holder, pc, mem>>

FinishHome(h) ==
  /\ home[h].st = "terminating" /\ ~Mounted(h)
  /\ home' = [home EXCEPT ![h].st = "gone"]
  /\ UNCHANGED <<claim, dying, claimReady, lastUid, sandbox, records, links, holder, pc, mem>>

Reclaim(h) ==
  /\ home[h].st = "gone" /\ home[h].pv = "bound" /\ home[h].policy = "Delete"
  /\ home' = [home EXCEPT ![h].pv = "gone"]
  /\ UNCHANGED <<claim, dying, claimReady, lastUid, sandbox, records, links, holder, pc, mem>>

\* An administrator removes the volume behind a home.
LoseVolume(h) ==
  /\ home[h].st = "live" /\ home[h].pv = "bound"
  /\ home' = [home EXCEPT ![h].pv = "gone"]
  /\ UNCHANGED <<claim, dying, claimReady, lastUid, sandbox, records, links, holder, pc, mem>>

Controllers ==
  \/ \E name \in SandboxNames : BindClaim(name)
  \/ FinishClaim \/ ReportClaim
  \/ \E u \in Uid : ProvisionHome(u) \/ Reconcile(u) \/ PodStops(u) \/ FinishSandbox(u)
  \/ \E h \in Uid : AdoptHome(h) \/ OrphanHome(h) \/ FinishHome(h) \/ Reclaim(h)

-----------------------------------------------------------------------------
Start(p) ==
  \/ StartCreate(p) \/ StartConnect(p) \/ StartDisconnect(p) \/ StartFromRetained(p)
  \/ \E cmd \in Commands : StartFromRecord(p, cmd)

Step(p) == CreateStep(p) \/ ConnectStep(p) \/ ModeStep(p) \/ RetainStep(p) \/ EraseStep(p)

Next ==
  \/ \E p \in Procs : Start(p) \/ Step(p) \/ Interrupt(p)
  \/ Controllers
  \/ \E h \in Uid : LoseVolume(h) \/ PodFails(h)

Spec == Init /\ [][Next]_vars

-----------------------------------------------------------------------------
(* What the commands promise. *)

Recorded(h) ==
  \/ \E i \in Uid : managed[i].phase = "bound" /\ managed[i].home = h
  \/ retained[h].state # "none"

Erased(h) == home[h].st = "gone" /\ home[h].pv = "gone"

\* No interleaving or crash of the commands loses track of user data: the last
\* record that names a home goes away only after its PVC and its volume are gone
\* (retainSandboxHome's save-before-remove order, deleteRetainedHome's last step).
RecordOutlivesStorage ==
  [][\A h \in Uid : Recorded(h) /\ ~Recorded(h)' => Erased(h)]_vars

\* A home is destroyed only when nothing can be using it or come to use it: it has no
\* owner and no labels to be adopted by, no claim or Sandbox of its name is left, no
\* pod mounts it, and its volume is confirmed to go (inspectHomeDeletion, however
\* long before the delete request the inspection was made).
EraseOnlyRetired ==
  [][\A h \in Uid : home[h].st = "live" /\ home'[h].st = "terminating" =>
       /\ home[h].owner = 0 /\ ~home[h].adoptable
       /\ claim = 0 /\ Named(home[h].name) = {} /\ ~Mounted(h)
       /\ home[h].pv = "bound" => home[h].policy = "Delete"]_vars

\* Once its Sandbox has let go of a home, no controller hands the home to another
\* Sandbox (preventHomeReAdoption, before the Sandbox is orphan-deleted).
NeverReadopted ==
  [][\A h \in Uid : home[h].st # "none" /\ home[h].owner = 0 /\ retained[h].state # "restoring"
       => home'[h].owner = 0]_vars

\* At most one managed record exists for the allocation, so that selectManaged never
\* finds two and every later command can still tell which allocation is meant.
OneManagedRecord == \A i, j \in Saved : i = j

\* The claim, Sandbox and home of a bound record never change, however many commands
\* hold copies of it; the record is only ever removed (saveManagedBinding).
BoundRecordFixed ==
  [][\A i \in Uid : managed[i].phase = "bound" => managed'[i] \in {NoManaged, managed[i]}]_vars

\* The flock admits one create or deletion stage at a time (acquireSandboxLock), and a
\* process in either holds it.
Exclusive ==
  /\ \A p, q \in holder : p = q
  /\ \A p \in Procs : pc[p] \in CreatePcs \cup ErasePcs => p \in holder

\* With commands run one after another, whatever the crashes: a home under deletion
\* always has a record saying so, with the volume that must go with it
\* (deleteRetainedHome saves "deleting" before it deletes).
DeletionOnRecord ==
  \A h \in Uid : home[h].st = "terminating" =>
    /\ retained[h].state = "deleting"
    /\ home[h].pv = "bound" => retained[h].volume

\* With commands run one after another, whatever the crashes: a connection whose Sandbox
\* is gone still has the bound record through which a repeated delete finds it, so that a
\* deleted workspace leaves none behind to clash with the next Sandbox of the same name
\* (removeConnection before os.Remove; a connect may save one before anything is bound).
NoLinkLeftBehind ==
  \A u \in Uid : conn[u] # "none" /\ ~Present(u) =>
    \E i \in Uid : managed[i].phase = "bound" /\ managed[i].sandbox = u

\* With commands run one after another, whatever the crashes: a Sandbox that Herdr is
\* connected to is not being deleted and not gone, although a connect or create that
\* follows an interrupted stop or delete may attach a suspended one again
\* (applyOperatingMode detaches, then waitForOperatingMode sees no pod that could be
\* reached, then the Sandbox is deleted).
EnabledIsLive ==
  \A u \in Uid : conn[u] = "connected" /\ machine[u] = "enabled" => sandbox[u].st = "live"

\* With commands run one after another, whatever the crashes: when a stop is about to
\* report success its Sandbox is suspended, has no pod, and Herdr has let go of it, also
\* when an earlier attempt had patched it already and it was attached again since.
StoppedIsDetached ==
  \A p \in Procs : pc[p] = "again" /\ mem[p].cmd = "stop" =>
    LET u == mem[p].sandbox IN
    /\ Present(u) /\ sandbox[u].mode = "Suspended" /\ ~sandbox[u].pod
    /\ conn[u] = "connected" => machine[u] # "enabled"

\* "A stopped sandbox reports the same not-ready claim as one still provisioning"
\* (waitForReady), so that a create refuses it: no Sandbox that has been told to suspend
\* is connected to an enabled machine.  The code does not keep this.
SuspendedIsDetached ==
  \A u \in Uid : conn[u] = "connected" /\ Present(u) /\ sandbox[u].mode = "Suspended"
    => machine[u] # "enabled"

-----------------------------------------------------------------------------
(* Progress.  A command returns when it cannot go on, users repeat a command  *)
(* that failed, controllers do their part, and interruptions of a command     *)
(* that could go on and failures of pods come to an end.                      *)

Refuse(p) == Interrupt(p) /\ ~ENABLED Step(p)

Calm == <>[][\A p \in Procs : Interrupt(p) => ~ENABLED Step(p)]_vars

Steady == <>[][\A u \in Uid : ~PodFails(u)]_vars

Fairness ==
  /\ \A p \in Procs : WF_vars(Step(p) \/ Refuse(p))
  /\ WF_vars(Controllers)
  /\ Calm /\ Steady

\* Users repeat the command cmd.
Repeat(cmd) == \A p \in Procs :
  WF_vars(IF cmd = "create" THEN StartCreate(p)
          ELSE StartFromRecord(p, cmd) \/ (cmd = "delete" /\ StartFromRetained(p)))

FairSpec == Spec /\ Fairness

\* Retained data does not stay: a user who repeats "sandbox delete NAME" gets rid of it,
\* wherever earlier attempts stopped, provided its volume can be reclaimed.
RetainedIsErased == \A h \in Uid : retained[h].state # "none" ~> retained[h].state = "none"

\* A bound allocation does not stay once its user only deletes ("sandbox delete NAME
\* permanently deletes the sandbox"), whatever was created or interrupted before.
BoundIsDeleted == \A i \in Uid : managed[i].phase = "bound" ~> managed[i].phase # "bound"

\* A user who repeats "sandbox create" gets a connected sandbox, wherever earlier
\* attempts stopped.
CreateCompletes ==
  <>[](\E i \in Uid : managed[i].phase = "bound" /\ conn[managed[i].sandbox] = "connected"
         /\ machine[managed[i].sandbox] = "enabled" /\ Reachable(managed[i].sandbox))

\* A user who repeats "sandbox delete" ends with no claim, Sandbox, storage, machine
\* or state file of the workspace.
Deleted ==
  /\ claim = 0 /\ Saved = {}
  /\ \A u \in Uid : /\ ~Present(u) /\ (home[u].st = "none" \/ Erased(u))
                    /\ retained[u].state = "none" /\ conn[u] = "none" /\ machine[u] = "absent"
DeleteCompletes == <>[]Deleted

=============================================================================
