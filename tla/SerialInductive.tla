-------------------------- MODULE SerialInductive ---------------------------
(***************************************************************************)
(* Why DeletionOnRecord, NoLinkLeftBehind, EnabledIsLive and               *)
(* StoppedIsDetached hold when commands run one after another: what a      *)
(* command has read is then what is there, until its own next write, and   *)
(* what an interrupted one has left is never so far gone that the next     *)
(* command mistakes it.  None of these parts is true of commands that      *)
(* overlap.                                                                *)
(***************************************************************************)
EXTENDS CustodyInductive

Serial == \A p, q \in Procs : p = q

\* The copy of the managed record that a command holds is the record.
CopiesCurrent ==
  \A p \in Procs : mem[p].phase # "none" =>
    LET m == managed[mem[p].rec] IN
    /\ m.phase = mem[p].phase
    /\ m.phase = "bound" => m.sandbox = mem[p].sandbox /\ m.home = mem[p].home

\* A Sandbox is there only for a claim that was made, and is let go of only after it.
SandboxesFollow ==
  \A u \in Uid :
    /\ sandbox[u].st # "none" => u <= lastUid
    /\ sandbox[u].st \in {"deleting", "gone"} => claim # u

Live(u) == u \in Uid /\ sandbox[u].st = "live"

\* The Sandbox a create resolves from a name is the one made for its claim; Ready may be
\* out of date, but not so far that the Sandbox is on its way out.
ClaimResolved ==
  /\ \A i \in Uid : managed[i].phase = "bound" => managed[i].sandbox = i
  /\ claimReady => Live(claim)
  /\ \A p \in Procs :
       /\ pc[p] \in {"origin", "select", "obtain"} => ~mem[p].ready
       /\ pc[p] \in {"record", "ready"} /\ mem[p].ready => Live(mem[p].claim)
       /\ pc[p] \in {"resolve", "resolveHome", "bind"} => Live(mem[p].claim)
       /\ pc[p] \in {"resolveHome", "bind"} => mem[p].sandbox = mem[p].claim

\* The stages at which a command knows of the connection of its Sandbox.
LinkPcs == {"adopt", "prepare", "attach", "save", "detach", "disable", "patch", "wait", "again"}
             \cup ReleasePcs \cup {"removeMachine", "removeFiles"}

LinkKnown(p) == mem[p].sandbox # 0 /\ conn[mem[p].sandbox] = mem[p].link

\* A connection belongs to a Sandbox that is not on its way out or to a bound record, and
\* what was read of one is still so.
LinksCurrent ==
  /\ \A u \in Uid : conn[u] # "none" => Live(u) \/ managed[u].phase = "bound"
  /\ \A u \in Uid : sandbox[u].st = "deleting" => managed[u].phase = "bound"
  /\ \A p \in Procs :
       /\ pc[p] \in LinkPcs => LinkKnown(p)
       /\ pc[p] = "reach" =>
            IF mem[p].link = "none" THEN LinksNamed(LinkName(p)) = {} ELSE LinkKnown(p)
       /\ pc[p] = "adopt" => mem[p].link # "none"
       /\ pc[p] = "prepare" => mem[p].link = "none"
       /\ pc[p] = "forget" => conn[mem[p].sandbox] = "none"

\* A Sandbox to be connected or resumed is not on its way out.
Reached ==
  \A p \in Procs :
    /\ pc[p] \in ConnectPcs /\ mem[p].phase = "bound" => Live(mem[p].sandbox)
    /\ pc[p] \in {"prepare", "attach", "save"} => Live(mem[p].sandbox)
    /\ pc[p] \in ModePcs \ {"claim"} /\ mem[p].cmd # "delete" => Live(mem[p].sandbox)
    /\ pc[p] \in {"verify", "retain"} \cup CleanupPcs => sandbox[mem[p].sandbox].st = "gone"

\* A Sandbox that cannot be reached, and will not be.
AtRest(u) == sandbox[u].mode = "Suspended" /\ ~sandbox[u].pod

Suspending(p) ==
  \/ pc[p] \in {"patch", "wait", "again"} /\ mem[p].cmd # "resume"
  \/ pc[p] \in ReleasePcs

\* Herdr lets go of a connected Sandbox before it is told to suspend, and only one that has
\* come to rest is deleted.
Detaching ==
  /\ EnabledIsLive
  /\ \A u \in Uid : sandbox[u].st = "deleting" => AtRest(u)
  /\ \A p \in Procs :
       LET u == mem[p].sandbox IN
       /\ Suspending(p) /\ conn[u] = "connected" => machine[u] # "enabled"
       /\ pc[p] = "again" /\ mem[p].cmd # "resume" => AtRest(u)
       /\ pc[p] \in {"orphanClaim", "claimGone", "recheck", "strip", "orphanSandbox"} => AtRest(u)

\* A home is destroyed when no managed record is left, and the retained one says so.
Destroying ==
  /\ DeletionOnRecord
  /\ \A i \in Uid : managed[i].phase = "bound" => home[managed[i].home].st # "terminating"
  /\ \A p \in Procs :
       /\ pc[p] = "bind" => home[mem[p].home].st # "terminating"
       /\ pc[p] \in {"lock"} \cup ErasePcs => Saved = {}
       /\ pc[p] \in ErasePcs \ {"reselect"} /\ mem[p].state = "deleting" =>
            retained[mem[p].home].state = "deleting"

\* Between two steps of the only command, what it has read is what is there, and what it and
\* those before it have done agrees: the records with the cluster, Herdr with both.
SerialInv ==
  /\ CopiesCurrent /\ SandboxesFollow /\ ClaimResolved /\ LinksCurrent
  /\ Reached /\ Detaching /\ Destroying
=============================================================================
