------------------------ MODULE WorkspaceInductive -------------------------
(***************************************************************************)
(* The inductive invariant behind RecordOutlivesStorage and Exclusive.     *)
(* The promise is easy to state and not inductive: the step that removes a *)
(* managed record acts on a copy of it that may be long out of date, next  *)
(* to other commands with copies of their own.  The parts below say what   *)
(* every copy can still be relied on for.                                  *)
(***************************************************************************)
EXTENDS Workspace

\* What the record of an allocation and the copies of it that commands hold consist of.
CompleteCopies ==
  /\ \A i \in Uid : managed[i].phase = "bound" => managed[i].sandbox # 0 /\ managed[i].home # 0
  /\ \A p \in Procs :
       /\ mem[p].rec = 0 <=> mem[p].phase = "none"
       /\ mem[p].phase = "bound" => mem[p].sandbox # 0 /\ mem[p].home # 0
       /\ pc[p] \in {"idle", "origin", "select", "lock"} \cup ErasePcs => mem[p].rec = 0
       /\ pc[p] \in {"lock"} \cup ErasePcs => mem[p].home # 0
       /\ pc[p] \in ModePcs \cup ReleasePcs \cup CleanupPcs => mem[p].phase = "bound"
       /\ pc[p] \in {"record", "ready", "resolve", "resolveHome", "bind"} => mem[p].claim # 0
       /\ pc[p] \in {"ready", "resolve", "resolveHome", "bind"} => mem[p].rec = mem[p].claim
       /\ pc[p] \in {"resolveHome", "bind"} => mem[p].sandbox # 0
       /\ pc[p] = "bind" => mem[p].home # 0

\* UIDs in use have been handed out, so a new claim is new to every copy.
Issued ==
  /\ claim <= lastUid
  /\ \A i \in Saved : i <= lastUid
  /\ \A p \in Procs : mem[p].claim <= lastUid /\ mem[p].rec <= lastUid

\* A home that a record or a copy names has been provisioned.
Provisioned ==
  /\ \A i \in Uid : managed[i].home # 0 => home[managed[i].home].st # "none"
  /\ \A h \in Uid : retained[h].state # "none" => home[h].st # "none"
  /\ \A p \in Procs : mem[p].home # 0 => home[mem[p].home].st # "none"

\* A create that found no record will still find none when it saves one.
NothingSaved ==
  \A p \in Procs : pc[p] \in {"obtain", "record"} /\ mem[p].rec = 0 => Saved = {}

\* A create that holds an unbound copy is the only command that knows the allocation.
ClaimedCopy ==
  \A p \in Procs : mem[p].phase = "claimed" =>
    /\ pc[p] \in CreatePcs
    /\ managed[mem[p].rec].phase = "claimed"
    /\ \A q \in Procs : mem[q].phase = "bound" => mem[q].rec # mem[p].rec

\* Bound copies agree with each other and with the record while it exists.
CopiesAgree ==
  \A p \in Procs : mem[p].phase = "bound" =>
    /\ managed[mem[p].rec].phase \in {"none", "bound"}
    /\ managed[mem[p].rec].phase = "bound" => managed[mem[p].rec].home = mem[p].home
    /\ \A q \in Procs : mem[q].phase = "bound" /\ mem[q].rec = mem[p].rec => mem[q].home = mem[p].home

\* A delete past its claim is past it for ever.
ClaimLeftBehind ==
  \A p \in Procs :
    /\ pc[p] \in (ModePcs \ {"claim"}) /\ mem[p].claim = 0 => claim # mem[p].rec
    /\ pc[p] = "home" /\ ~mem[p].found => mem[p].claim = 0
    /\ pc[p] \in {"recheck", "strip", "orphanSandbox", "sandboxGone", "verify", "retain"}
                   \cup CleanupPcs => claim # mem[p].rec

\* A record that is gone cannot come back as a new, unbound one.
GoneForGood ==
  \A p \in Procs : mem[p].phase = "bound" /\ managed[mem[p].rec].phase = "none" =>
    /\ claim # mem[p].rec
    /\ \A q \in Procs : pc[q] = "record" /\ mem[q].rec = 0 => mem[q].claim # mem[p].rec

\* The managed record is removed only after the retained one has taken over, and that
\* one goes away only with the storage.
HandedOver ==
  /\ \A p \in Procs : pc[p] \in CleanupPcs => retained[mem[p].home].state # "none" \/ Erased(mem[p].home)
  /\ \A h \in Uid : retained[h].state = "deleting" /\ ~retained[h].volume => home[h].pv = "gone"
  /\ \A p \in Procs :
       /\ pc[p] \in {"erase", "storageGone"} => mem[p].state = "deleting"
       /\ pc[p] \in ErasePcs \ {"reselect"} /\ (pc[p] = "mark" \/ mem[p].state = "deleting") /\ ~mem[p].volume
            => home[mem[p].home].pv = "gone"
       /\ pc[p] = "drop" => Erased(mem[p].home)

\* What the records and the copies of them mean to each other.
Bookkeeping ==
  /\ CompleteCopies /\ Issued /\ Provisioned /\ NothingSaved
  /\ ClaimedCopy /\ CopiesAgree /\ GoneForGood

IInv == TypeOK /\ Exclusive /\ Bookkeeping /\ ClaimLeftBehind /\ HandedOver
=============================================================================
