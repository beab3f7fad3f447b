------------------------ MODULE ConnectionsInductive ------------------------
(***************************************************************************)
(* Why the promises of Connections hold when commands on one Sandbox do    *)
(* not overlap, although any number of them run on different Sandboxes and *)
(* each may stop at any call.  They share Herdr's list of machines.        *)
(***************************************************************************)
EXTENDS Connections

\* A process has a Sandbox exactly while a command runs.
Busy == \A p \in Procs : pc[p] = "idle" <=> mem[p].sandbox = Nil

\* It has it to itself.
Alone == \A p, q \in Procs : p # q /\ mem[p].sandbox = mem[q].sandbox => mem[p].sandbox = Nil

\* What each call finds in the copy of the record, which is the record.
CopyAt(p) ==
  LET c == mem[p].copy IN
  /\ c = record[mem[p].sandbox]
  /\ pc[p] = "prepare" => c.phase = "none"
  /\ pc[p] \in {"adopt", "add", "relist", "save"} => c.phase = "prepared"
  /\ pc[p] \in {"readConfig", "include", "known", "entry", "proxy", "list", "enable"} =>
       c.phase # "none"
  /\ pc[p] \in DetachPcs \cup {"listToRemove", "remove"} => c.phase = "connected"

\* What each call finds of the files: written in one order, removed in another.
FilesAt(p) ==
  LET u == mem[p].sandbox
      Ready == {"list", "add", "relist", "enable", "save"} IN
  /\ pc[p] \in {"entry", "proxy"} \cup Ready => known[u] = mem[p].copy.pin
  /\ pc[p] \in {"proxy"} \cup Ready => entry[u] = mem[p].copy.identity
  /\ pc[p] \in Ready => u \in proxy
  /\ pc[p] \in {"rmEntry", "rmProxy", "rmRecord"} => known[u] = Nil
  /\ pc[p] \in {"rmProxy", "rmRecord"} => entry[u] = Nil
  /\ pc[p] = "rmRecord" => u \notin proxy

\* What each call finds of the machines, and that files go only after the Sandbox.
MachinesAt(p) ==
  LET u == mem[p].sandbox IN
  /\ pc[p] = "add" => Matching(u) = {}
  /\ pc[p] \in {"enable", "save"} => mem[p].machine \in Matching(u)
  /\ pc[p] \in RemovePcs \ {"orphan"} => u \in gone
  /\ pc[p] \in RemovePcs \ {"orphan", "listToRemove", "remove"} /\ mem[p].copy.phase = "connected" =>
       ~Present(mem[p].copy.profile)

Working(p) == pc[p] # "idle" => CopyAt(p) /\ FilesAt(p) /\ MachinesAt(p)

\* The promises about one Sandbox, and that the machine of a connected one is its own,
\* whether it is still in Herdr or not.
Sound(u) ==
  /\ record[u].phase = "none" => known[u] = Nil /\ entry[u] = Nil /\ u \notin proxy
  /\ record[u].phase = "connected" =>
       record[u].profile \in DOMAIN machines /\ machines[record[u].profile].of = u
  /\ record[u].phase = "connected" /\ u \notin gone =>
       /\ known[u] = record[u].pin /\ entry[u] = record[u].identity /\ u \in proxy
       /\ record[u].profile \in Matching(u)
  /\ \A m, n \in Matching(u) : m = n

LInv ==
  /\ TypeOK /\ Busy /\ Alone
  /\ \A p \in Procs : Working(p)
  /\ \A u \in Sandboxes : Sound(u)

\* What the calls of a command find of the SSH configuration when no other runs: the
\* file as it was read, and the Include line once it is written or removed.
IncludeAt(p) ==
  LET u == mem[p].sandbox IN
  /\ pc[p] = "include" => mem[p].config = include
  /\ pc[p] \in {"known", "entry", "proxy", "list", "add", "relist", "enable", "save"} => u \in include
  /\ pc[p] = "writeLines" => mem[p].config = include \ {u}
  /\ pc[p] \in {"rmKnown", "rmEntry", "rmProxy", "rmRecord"} => u \notin include

IncludeInv == LInv /\ IncludeFollowsRecord /\ \A p \in Procs : IncludeAt(p)
=============================================================================
