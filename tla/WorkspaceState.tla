--------------------------- MODULE WorkspaceState ---------------------------
(***************************************************************************)
(* The life of one allocation name of Kubeflock: the sandbox commands      *)
(* create, connect, disconnect, stop, resume and delete, run by several    *)
(* kubeflock processes on one state directory against one namespace, and   *)
(* interrupted at any call.                                                *)
(*                                                                         *)
(* One step is one call that other processes can see between: a read or a  *)
(* write of a state file, a request to the API server, a herdr command.    *)
(* The memory of a command (the copies it has read) is mem[p]; pc[p] names *)
(* its next call.  Every error path of the commands returns without        *)
(* undoing anything, so one action, Interrupt, stands for a crash, a       *)
(* failed request, an expired poll and a check that refuses.               *)
(*                                                                         *)
(* UIDs are numbers.  The n-th SandboxClaim the API server creates has UID *)
(* n; the Sandbox it is bound to and the home PVC made for that Sandbox    *)
(* carry the same number.  A home may outlive its Sandbox, and a later     *)
(* Sandbox of the same name could adopt it.                                *)
(*                                                                         *)
(* What the API server says of an object is what a controller reported     *)
(* last.  A patched Sandbox keeps the Ready condition and the pod of its   *)
(* old mode until the controller acts, and the claim's Ready follows the   *)
(* Sandbox's later still.                                                  *)
(***************************************************************************)
EXTENDS Naturals, FiniteSets

CONSTANTS
  Procs,        \* kubeflock processes that may run at the same time
  Commands,     \* the commands users issue in this instance
  MaxClaims,    \* bound: claims the API server creates
  Alloc,        \* the allocation name, also the claim's name
  SandboxNames, \* names a bound Sandbox may have: Alloc, or a warm standby's
  Policies,     \* reclaim policies of the volumes behind homes
  Legacies      \* states of a record that an older version may have left, or "none"

ASSUME ProcsAssumption == Procs # {}
ASSUME ClaimsAssumption == MaxClaims \in Nat \ {0}
ASSUME CommandsAssumption == 
  Commands \subseteq {"create", "connect", "disconnect", "stop", "resume", "delete"}
ASSUME PoliciesAssumption == Policies \subseteq {"Delete", "Retain"}
ASSUME LegacyAssumption == Legacies \subseteq {"none", "available", "restoring"}

VARIABLES
  claim,      \* UID of the SandboxClaim named Alloc, 0 when there is none
  dying,      \* that claim is being deleted
  claimReady, \* the Ready condition of that claim
  lastUid,    \* UIDs the API server has handed out
  sandbox,    \* Sandboxes by UID
  home,       \* home PVCs by UID, with their volumes
  managed,    \* managed-sandbox records by claim UID
  retained,   \* retained-home records by home UID
  conn,       \* phase of the connection record of a Sandbox
  machine,    \* its Herdr machine
  holder,     \* processes holding the allocation's file lock
  pc, mem

cluster == <<claim, dying, claimReady, lastUid, sandbox, home>>
links == <<conn, machine>>
records == <<managed, retained>>
vars == <<claim, dying, claimReady, lastUid, sandbox, home, managed, retained, conn, machine,
          holder, pc, mem>>

Uid == 1 .. MaxClaims
Uid0 == 0 .. MaxClaims
Modes == {"Running", "Suspended"}
Phases == {"none", "claimed", "bound"}
Links == {"none", "prepared", "connected"}
States == {"none", "available", "restoring", "deleting"}

CreatePcs == {"origin", "select", "obtain", "record", "ready", "resolve", "resolveHome", "bind"}
ConnectPcs == {"link", "adopt", "reach", "prepare", "attach", "save", "detach"}
ModePcs == {"claim", "sandbox", "home", "disable", "patch", "wait", "again"}
ReleasePcs == {"orphanClaim", "claimGone", "recheck", "strip", "orphanSandbox", "sandboxGone",
               "verify", "retain"}
CleanupPcs == {"removeMachine", "removeFiles", "forget"}
ErasePcs == {"reselect", "pending", "inspectHome", "inspectAllocation", "inspectMounts",
             "inspectVolume", "mark", "erase", "storageGone", "drop"}
Pcs == {"idle", "lock"} \cup CreatePcs \cup ConnectPcs \cup ModePcs \cup ReleasePcs
         \cup CleanupPcs \cup ErasePcs

Sandbox == [st : {"none", "live", "deleting", "gone"}, name : SandboxNames \cup {Alloc},
            mode : Modes, seen : BOOLEAN, ready : BOOLEAN, pod : BOOLEAN]
Home == [st : {"none", "live", "terminating", "gone"}, name : SandboxNames \cup {Alloc},
         owner : Uid0, adoptable : BOOLEAN, pv : {"bound", "gone"},
         policy : {"Delete", "Retain"}]
Managed == [phase : Phases, sandbox : Uid0, home : Uid0]
Retained == [state : States, origin : Uid0, volume : BOOLEAN]

\* What a command has been told and has read; what it does not look at again is forgotten.
Memory == [cmd : Commands \cup {"none"}, name : SandboxNames \cup {Alloc}, rec : Uid0,
           phase : Phases, sandbox : Uid0, home : Uid0, claim : Uid0, ready : BOOLEAN,
           found : BOOLEAN, mode : Modes, link : Links, rekey : BOOLEAN, state : States,
           volume : BOOLEAN]

NoManaged == [phase |-> "none", sandbox |-> 0, home |-> 0]
NoRetained == [state |-> "none", origin |-> 0, volume |-> FALSE]
NoMemory == [cmd |-> "none", name |-> Alloc, rec |-> 0, phase |-> "none", sandbox |-> 0,
             home |-> 0, claim |-> 0, ready |-> FALSE, found |-> FALSE, mode |-> "Running",
             link |-> "none", rekey |-> FALSE, state |-> "none", volume |-> FALSE]

TypeOK ==
  /\ claim \in Uid0 /\ dying \in BOOLEAN /\ claimReady \in BOOLEAN /\ lastUid \in Uid0
  /\ sandbox \in [Uid -> Sandbox]
  /\ home \in [Uid -> Home]
  /\ managed \in [Uid -> Managed]
  /\ retained \in [Uid -> Retained]
  /\ conn \in [Uid -> Links]
  /\ machine \in [Uid -> {"absent", "enabled", "disabled"}]
  /\ holder \subseteq Procs
  /\ pc \in [Procs -> Pcs]
  /\ mem \in [Procs -> Memory]

-----------------------------------------------------------------------------
(* What the API server answers. *)

Present(u) == u \in Uid /\ sandbox[u].st \in {"live", "deleting"}
Named(n) == {u \in Uid : Present(u) /\ sandbox[u].name = n}

\* The last Ready reported is true, whatever mode it was about, and there is a pod.
Reachable(u) == Present(u) /\ sandbox[u].ready /\ sandbox[u].pod

HomePresent(h) == h \in Uid /\ home[h].st \in {"live", "terminating"}
OwnedHome(h, u) == HomePresent(h) /\ home[h].owner = u

\* Pods are matched by the name of the claim they mount.
Mounted(h) == \E u \in Uid : sandbox[u].pod /\ sandbox[u].name = home[h].name

(* What the state directory holds. *)

Saved == {i \in Uid : managed[i].phase # "none"}
RetainedFor(n) == {h \in Uid : retained[h].state # "none" /\ sandbox[retained[h].origin].name = n}
LinksNamed(n) == {u \in Uid : conn[u] # "none" /\ sandbox[u].name = n}

-----------------------------------------------------------------------------
Beginning(legacy) ==
  /\ claim = 0 /\ dying = FALSE /\ claimReady = FALSE
  /\ lastUid = IF legacy = "none" THEN 0 ELSE 1
  /\ \E name \in SandboxNames, policy \in Policies :
       /\ sandbox = [u \in Uid |->
            [st |-> IF u <= lastUid THEN "gone" ELSE "none", name |-> name,
             mode |-> "Running", seen |-> FALSE, ready |-> FALSE, pod |-> FALSE]]
       /\ home = [h \in Uid |->
            [st |-> IF h <= lastUid THEN "live" ELSE "none", name |-> name, owner |-> 0,
             adoptable |-> legacy = "restoring", pv |-> "bound", policy |-> policy]]
  /\ managed = [i \in Uid |-> NoManaged]
  /\ retained = [h \in Uid |-> IF h <= lastUid
       THEN [state |-> legacy, origin |-> h, volume |-> FALSE] ELSE NoRetained]
  /\ conn = [u \in Uid |-> "none"]
  /\ machine = [u \in Uid |-> "absent"]
  /\ holder = {}
  /\ pc = [p \in Procs |-> "idle"]
  /\ mem = [p \in Procs |-> NoMemory]

Init == \E legacy \in Legacies : Beginning(legacy)

(* Control of one command. *)

At(p, here, next) == pc[p] = here /\ pc' = [pc EXCEPT ![p] = next]
Keep(p, m) == mem' = [mem EXCEPT ![p] = m]

\* A command that returns forgets its copies; a deferred unlock releases the lock.
Return(p) ==
  /\ pc' = [pc EXCEPT ![p] = "idle"]
  /\ Keep(p, NoMemory)
  /\ holder' = holder \ {p}

Lock(p) == holder = {} /\ holder' = {p}

Interrupt(p) ==
  /\ pc[p] # "idle"
  /\ Return(p)
  /\ UNCHANGED <<cluster, records, links>>
=============================================================================
