------------------------- MODULE CustodyInductive --------------------------
(***************************************************************************)
(* Why Workspace implements HomeCustody: what is known of every home, of   *)
(* the Sandbox and home that a record or a copy pairs, and of the home     *)
(* that the deletion stage is about to destroy.                            *)
(***************************************************************************)
EXTENDS WorkspaceCustody

\* Names of Sandboxes and homes are unique among those that exist.
NamesApart ==
  /\ \A u, v \in Uid : Present(u) /\ Present(v) /\ sandbox[u].name = sandbox[v].name => u = v
  /\ \A h, k \in Uid : HomePresent(h) /\ HomePresent(k) /\ home[h].name = home[k].name => h = k

\* A home belongs to a Sandbox of its name, or may be adopted by one only if an older
\* version began to restore it; and a home that is destroyed belongs to nobody.
HomesKept ==
  \A h \in Uid :
    /\ HomePresent(h) /\ home[h].owner # 0 =>
         Present(home[h].owner) /\ sandbox[home[h].owner].name = home[h].name
    /\ HomePresent(h) /\ home[h].owner = 0 => ~home[h].adoptable \/ retained[h].state = "restoring"
    /\ home[h].st \in {"terminating", "gone"} => home[h].owner = 0 /\ ~home[h].adoptable
    /\ home[h].st # "none" /\ ~home[h].adoptable => Recorded(h) \/ Erased(h)

\* Once a Sandbox is deleted, no home of its name has its labels.
StrippedFirst ==
  \A u, h \in Uid :
    sandbox[u].st = "deleting" /\ HomePresent(h) /\ home[h].name = sandbox[u].name => ~home[h].adoptable

\* A Sandbox keeps the home of its name it was paired with, which is stripped before it goes.
Pair(u, h) ==
  /\ sandbox[u].st # "none" /\ sandbox[u].name = home[h].name
  /\ sandbox[u].st = "live" => OwnedHome(h, u)
  /\ sandbox[u].st \in {"deleting", "gone"} => ~home[h].adoptable

Paired(p) == (mem[p].phase = "bound" /\ pc[p] \notin ConnectPcs) \/ pc[p] = "bind"

Pairs ==
  /\ \A i \in Uid : managed[i].phase = "bound" => Pair(managed[i].sandbox, managed[i].home)
  /\ \A p \in Procs : Paired(p) => Pair(mem[p].sandbox, mem[p].home)
  /\ \A p \in Procs : mem[p].phase = "bound" => Recorded(mem[p].home) \/ Erased(mem[p].home)

\* What the retention stage knows before it saves the retained record.
Stripping ==
  \A p \in Procs :
    /\ pc[p] = "home" /\ ~mem[p].found => sandbox[mem[p].sandbox].st = "gone"
    /\ pc[p] \in {"orphanSandbox", "sandboxGone", "verify", "retain"} => ~home[mem[p].home].adoptable

\* What the deletion stage knows: a home that is there is nobody's and stays so.
Erasing ==
  \A p \in Procs : pc[p] \in ErasePcs \ {"reselect"} =>
    LET h == mem[p].home IN
    /\ retained[h].state # "none"
    /\ mem[p].state # "restoring" => retained[h].state # "restoring"
    /\ pc[p] = "mark" => mem[p].state = "available"
    /\ /\ pc[p] \in {"inspectAllocation", "inspectMounts", "inspectVolume", "mark", "erase"}
       /\ mem[p].state # "restoring" /\ HomePresent(h)
       => home[h].owner = 0 /\ ~home[h].adoptable

CustodyInv == IInv /\ NamesApart /\ HomesKept /\ StrippedFirst /\ Pairs /\ Stripping /\ Erasing
=============================================================================
