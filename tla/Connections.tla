---------------------------- MODULE Connections ----------------------------
(***************************************************************************)
(* Connections between Sandboxes and Herdr: what connect, reconnect,       *)
(* disconnect and the clean-up at the end of delete do to the connection   *)
(* record of a Sandbox, to the files under ssh/, to the user's SSH         *)
(* configuration and to Herdr's machines, when several processes run them  *)
(* and any of them may stop at any call.                                   *)
(*                                                                         *)
(* Workspace sees of all this the phase of the record and whether there is *)
(* a machine; here are the identity file, the host-key pin, the files and  *)
(* the machines one by one.  A step is a call that others can see between: *)
(* a read or an atomic write of one file, one herdr command, one kubectl   *)
(* exec.  As in Workspace, no command undoes anything: Interrupt stands    *)
(* for a crash, a failed call and a refused check.                         *)
(***************************************************************************)
EXTENDS Naturals, Sequences, FiniteSets

CONSTANTS
  Procs,        \* kubeflock processes that may run at the same time
  Commands,     \* the commands users issue in this instance
  Sandboxes,    \* Sandboxes by UID; each has a name of its own
  Identities,   \* SSH identity files users may name
  Authorized,   \* those whose public key the Sandboxes accept
  HostKeys,     \* host keys a Sandbox may present
  MaxMachines,  \* bound: machines ever added to Herdr
  Overlap,      \* commands on one Sandbox may run at the same time
  Nil

ASSUME CommandsAssumption == Commands \subseteq {"connect", "disconnect", "delete"}
ASSUME AuthorizedAssumption == Authorized \subseteq Identities
ASSUME MachinesAssumption == MaxMachines \in Nat
ASSUME OverlapAssumption == Overlap \in BOOLEAN
ASSUME NilAssumption == Nil \notin Identities \cup HostKeys \cup Sandboxes

VARIABLES
  record,    \* the connection record of a Sandbox
  include,   \* Sandboxes whose Include line the user's SSH configuration has
  known,     \* the pin in a Sandbox's known_hosts file, Nil when there is no file
  entry,     \* the identity in its host entry, Nil when there is no file
  proxy,     \* Sandboxes whose proxy script exists
  machines,  \* Herdr's machines in the order they were added; the index is the profile ID
  hostKey,   \* the key a Sandbox's SSH server has
  gone,      \* Sandboxes that are deleted
  pc, mem

files == <<known, entry, proxy>>
world == <<hostKey, gone>>
vars == <<record, include, known, entry, proxy, machines, hostKey, gone, pc, mem>>

Profiles == 1 .. MaxMachines

Record == [phase : {"none", "prepared", "connected"}, identity : Identities \cup {Nil},
           pin : HostKeys \cup {Nil}, profile : Profiles \cup {0}]
Machine == [of : Sandboxes, st : {"enabled", "disabled", "removed"}]

\* What a command remembers: its Sandbox, the copy of the record it works from, the
\* identity it was given, the key it was shown, the configuration and machine it found.
Memory == [cmd : {"none", "connect", "disconnect", "delete"}, sandbox : Sandboxes \cup {Nil},
           copy : Record, identity : Identities \cup {Nil}, key : HostKeys \cup {Nil},
           config : SUBSET Sandboxes, machine : Profiles \cup {0}]

ConnectPcs == {"adopt", "reach", "prepare", "readConfig", "include", "known", "entry", "proxy",
               "list", "add", "relist", "enable", "save"}
DetachPcs == {"listToDisable", "disable"}
RemovePcs == {"orphan", "listToRemove", "remove", "readLines", "writeLines", "rmKnown",
              "rmEntry", "rmProxy", "rmRecord"}

NoRecord == [phase |-> "none", identity |-> Nil, pin |-> Nil, profile |-> 0]
NoMemory == [cmd |-> "none", sandbox |-> Nil, copy |-> NoRecord, identity |-> Nil, key |-> Nil,
             config |-> {}, machine |-> 0]

TypeOK ==
  /\ record \in [Sandboxes -> Record]
  /\ include \subseteq Sandboxes
  /\ known \in [Sandboxes -> HostKeys \cup {Nil}]
  /\ entry \in [Sandboxes -> Identities \cup {Nil}]
  /\ proxy \subseteq Sandboxes
  /\ machines \in Seq(Machine) /\ Len(machines) <= MaxMachines
  /\ hostKey \in [Sandboxes -> HostKeys]
  /\ gone \subseteq Sandboxes
  /\ pc \in [Procs -> {"idle"} \cup ConnectPcs \cup DetachPcs \cup RemovePcs]
  /\ mem \in [Procs -> Memory]

Init ==
  /\ record = [u \in Sandboxes |-> NoRecord]
  /\ include = {} /\ proxy = {} /\ gone = {} /\ machines = <<>>
  /\ known = [u \in Sandboxes |-> Nil]
  /\ entry = [u \in Sandboxes |-> Nil]
  /\ hostKey \in [Sandboxes -> HostKeys]
  /\ pc = [p \in Procs |-> "idle"]
  /\ mem = [p \in Procs |-> NoMemory]

At(p, here, next) == pc[p] = here /\ pc' = [pc EXCEPT ![p] = next]
Keep(p, m) == mem' = [mem EXCEPT ![p] = m]
Return(p) == pc' = [pc EXCEPT ![p] = "idle"] /\ Keep(p, NoMemory)

\* Label, target and session of a machine are those of the Sandbox's record.
Present(m) == m \in DOMAIN machines /\ machines[m].st # "removed"
Matching(u) == {m \in DOMAIN machines : Present(m) /\ machines[m].of = u}
Set(m, st) == machines' = [machines EXCEPT ![m].st = st]

\* Commands on one Sandbox overlap only where the instance says so.
Free(u) == Overlap \/ \A p \in Procs : mem[p].sandbox # u

Open(p, cmd, u, identity) ==
  /\ cmd \in Commands
  /\ Free(u)
  /\ Keep(p, [NoMemory EXCEPT !.cmd = cmd, !.sandbox = u, !.copy = record[u], !.identity = identity])

-----------------------------------------------------------------------------
(* Faults: steps as a plausible slip in the code would make them, as in        *)
(* Workspace.  Each is named after the step whose place it can take; the       *)
(* property named in its comment notices.  No specification uses them.         *)

\* TypeOK: the profile of a prepared record is left unset.
PrepareUnset(p) ==
  LET c == [phase |-> "prepared", identity |-> mem[p].identity, pin |-> mem[p].key,
            profile |-> Nil] IN
  /\ At(p, "prepare", "readConfig")
  /\ record' = [record EXCEPT ![mem[p].sandbox] = c]
  /\ Keep(p, [mem[p] EXCEPT !.copy = c, !.identity = Nil, !.key = Nil])
  /\ UNCHANGED <<include, files, machines, world>>

\* PinKept: a key that differs from the pin prepares the connection anew.
ReachRepin(p) ==
  LET m == mem[p]
      new == m.copy.phase = "none" \/ hostKey[m.sandbox] # m.copy.pin IN
  /\ At(p, "reach", IF new THEN "prepare" ELSE "readConfig")
  /\ m.sandbox \notin gone
  /\ Keep(p, [m EXCEPT !.key = IF new THEN hostKey[m.sandbox] ELSE Nil])
  /\ UNCHANGED <<record, include, files, machines, world>>

\* ConnectedKept: another identity is adopted in any phase.
StartConnectAdopting(p, u, i) ==
  LET saved == record[u] IN
  /\ saved.phase = "none" => i # Nil
  /\ At(p, "idle", IF saved.phase # "none" /\ i \notin {Nil, saved.identity}
                   THEN "adopt" ELSE "reach")
  /\ Open(p, "connect", u, i)
  /\ UNCHANGED <<record, include, files, machines, world>>

\* ConnectedIsComplete: a host entry that exists is taken to be right.
WriteEntryOnce(p) ==
  /\ At(p, "entry", "proxy")
  /\ entry' = IF entry[mem[p].sandbox] # Nil THEN entry
              ELSE [entry EXCEPT ![mem[p].sandbox] = mem[p].copy.identity]
  /\ UNCHANGED <<record, include, known, proxy, machines, world, mem>>

\* IncludeFollowsRecord: the configuration is written without what was in it.
WriteIncludeAfresh(p) ==
  /\ At(p, "include", "known")
  /\ include' = {mem[p].sandbox}
  /\ UNCHANGED <<record, files, machines, world, mem>>

\* OneMachine: a prepared connection always adds a machine.
ListMatchingNever(p) ==
  /\ pc[p] \in {"list", "relist"} /\ mem[p].copy.phase = "prepared"
  /\ \/ \E m \in Matching(mem[p].sandbox) :
          /\ At(p, "relist", "save")
          /\ Keep(p, [mem[p] EXCEPT !.machine = m])
     \/ At(p, "list", "add") /\ UNCHANGED mem
  /\ UNCHANGED <<record, include, files, machines, world>>

\* NoStrayFiles: the host entry is forgotten.
RemoveEntryNever(p) ==
  /\ At(p, "rmEntry", "rmProxy")
  /\ UNCHANGED <<record, include, files, machines, world, mem>>

\* MachineGoesFirst: the machine is left in Herdr, disabled.
ListToRemoveNever(p) ==
  /\ At(p, "listToRemove", "readLines")
  /\ UNCHANGED <<record, include, files, machines, world, mem>>

\* ConnectCompletes: a prepared connection keeps the identity it began with.
AdoptNever(p) ==
  /\ At(p, "adopt", "reach")
  /\ UNCHANGED <<record, include, files, machines, world, mem>>

-----------------------------------------------------------------------------
(* connect and reconnect *)

\* A first connect needs an identity file; a connected record keeps the one it has.
StartConnect(p, u, i) ==
  LET saved == record[u] IN
  /\ saved.phase = "none" => i # Nil
  /\ saved.phase = "connected" => i \in {Nil, saved.identity}
  /\ At(p, "idle", IF saved.phase = "prepared" /\ i \notin {Nil, saved.identity}
                   THEN "adopt" ELSE "reach")
  /\ Open(p, "connect", u, IF saved.identity = i THEN Nil ELSE i)
  /\ UNCHANGED <<record, include, files, machines, world>>

Adopt(p) ==
  LET c == [mem[p].copy EXCEPT !.identity = mem[p].identity] IN
  /\ At(p, "adopt", "reach")
  /\ record' = [record EXCEPT ![mem[p].sandbox] = c]
  /\ Keep(p, [mem[p] EXCEPT !.copy = c, !.identity = Nil])
  /\ UNCHANGED <<include, files, machines, world>>

\* The key the Sandbox presents must be the one on record.
Reach(p) ==
  LET m == mem[p] IN
  /\ At(p, "reach", IF m.copy.phase = "none" THEN "prepare" ELSE "readConfig")
  /\ m.sandbox \notin gone
  /\ m.copy.phase # "none" => hostKey[m.sandbox] = m.copy.pin
  /\ Keep(p, [m EXCEPT !.key = IF m.copy.phase = "none" THEN hostKey[m.sandbox] ELSE Nil])
  /\ UNCHANGED <<record, include, files, machines, world>>

Prepare(p) ==
  LET c == [phase |-> "prepared", identity |-> mem[p].identity, pin |-> mem[p].key,
            profile |-> 0] IN
  /\ At(p, "prepare", "readConfig")
  /\ record' = [record EXCEPT ![mem[p].sandbox] = c]
  /\ Keep(p, [mem[p] EXCEPT !.copy = c, !.identity = Nil, !.key = Nil])
  /\ UNCHANGED <<include, files, machines, world>>

ReadConfig(p) ==
  /\ At(p, "readConfig", IF mem[p].sandbox \in include THEN "known" ELSE "include")
  /\ Keep(p, [mem[p] EXCEPT !.config = IF mem[p].sandbox \in include THEN {} ELSE include])
  /\ UNCHANGED <<record, include, files, machines, world>>

\* The whole file is written from what was read.
WriteInclude(p) ==
  /\ At(p, "include", "known")
  /\ include' = mem[p].config \cup {mem[p].sandbox}
  /\ Keep(p, [mem[p] EXCEPT !.config = {}])
  /\ UNCHANGED <<record, files, machines, world>>

WriteKnown(p) ==
  /\ At(p, "known", "entry")
  /\ known' = [known EXCEPT ![mem[p].sandbox] = mem[p].copy.pin]
  /\ UNCHANGED <<record, include, entry, proxy, machines, world, mem>>

WriteEntry(p) ==
  /\ At(p, "entry", "proxy")
  /\ entry' = [entry EXCEPT ![mem[p].sandbox] = mem[p].copy.identity]
  /\ UNCHANGED <<record, include, known, proxy, machines, world, mem>>

WriteProxy(p) ==
  /\ At(p, "proxy", "list")
  /\ proxy' = proxy \cup {mem[p].sandbox}
  /\ UNCHANGED <<record, include, known, entry, machines, world, mem>>

\* A connected record insists on its profile; a prepared one takes the machine that
\* matches and has one added when there is none.
ListSaved(p) ==
  LET c == mem[p].copy IN
  /\ pc[p] = "list" /\ c.phase = "connected"
  /\ c.profile \in Matching(mem[p].sandbox)
  /\ IF machines[c.profile].st = "enabled" THEN Return(p)
     ELSE At(p, "list", "enable") /\ Keep(p, [mem[p] EXCEPT !.machine = c.profile])
  /\ UNCHANGED <<record, include, files, machines, world>>

ListMatching(p) ==
  /\ pc[p] \in {"list", "relist"} /\ mem[p].copy.phase = "prepared"
  /\ \/ \E m \in Matching(mem[p].sandbox) :
          /\ Matching(mem[p].sandbox) = {m}
          /\ At(p, pc[p], IF machines[m].st = "enabled" THEN "save" ELSE "enable")
          /\ Keep(p, [mem[p] EXCEPT !.machine = m])
     \/ /\ Matching(mem[p].sandbox) = {}
        /\ At(p, "list", "add")
        /\ UNCHANGED mem
  /\ UNCHANGED <<record, include, files, machines, world>>

\* Herdr logs in to a machine before it adds it.
Reachable(u) ==
  /\ u \in include /\ u \in proxy /\ u \notin gone
  /\ known[u] = hostKey[u] /\ entry[u] \in Authorized

AddMachine(p) ==
  /\ At(p, "add", "relist")
  /\ Reachable(mem[p].sandbox) /\ Len(machines) < MaxMachines
  /\ machines' = Append(machines, [of |-> mem[p].sandbox, st |-> "enabled"])
  /\ UNCHANGED <<record, include, files, world, mem>>

EnableMachine(p) ==
  /\ pc[p] = "enable" /\ Present(mem[p].machine)
  /\ Set(mem[p].machine, "enabled")
  /\ IF mem[p].copy.phase = "connected" THEN Return(p)
     ELSE At(p, "enable", "save") /\ UNCHANGED mem
  /\ UNCHANGED <<record, include, files, world>>

SaveConnected(p) ==
  /\ pc[p] = "save"
  /\ record' = [record EXCEPT ![mem[p].sandbox] =
                  [mem[p].copy EXCEPT !.phase = "connected", !.profile = mem[p].machine]]
  /\ Return(p)
  /\ UNCHANGED <<include, files, machines, world>>

ConnectStep(p) ==
  \/ Adopt(p) \/ Reach(p) \/ Prepare(p) \/ ReadConfig(p) \/ WriteInclude(p) \/ WriteKnown(p)
  \/ WriteEntry(p) \/ WriteProxy(p) \/ ListSaved(p) \/ ListMatching(p) \/ AddMachine(p)
  \/ EnableMachine(p) \/ SaveConnected(p)

-----------------------------------------------------------------------------
(* disconnect, and the detachment that stop and delete begin with *)

\* Nothing is done for a connection that is only prepared.
StartDisconnect(p, u) ==
  /\ record[u].phase = "connected"
  /\ At(p, "idle", "listToDisable")
  /\ Open(p, "disconnect", u, Nil)
  /\ UNCHANGED <<record, include, files, machines, world>>

Detached(p) ==
  IF mem[p].cmd = "delete" THEN At(p, pc[p], "orphan") /\ UNCHANGED mem ELSE Return(p)

ListToDisable(p) ==
  LET m == mem[p].copy.profile IN
  /\ pc[p] = "listToDisable"
  /\ Present(m) => machines[m].of = mem[p].sandbox
  /\ IF Present(m) /\ machines[m].st = "enabled"
     THEN At(p, "listToDisable", "disable") /\ UNCHANGED mem ELSE Detached(p)
  /\ UNCHANGED <<record, include, files, machines, world>>

DisableMachine(p) ==
  /\ pc[p] = "disable" /\ Present(mem[p].copy.profile)
  /\ Set(mem[p].copy.profile, "disabled")
  /\ Detached(p)
  /\ UNCHANGED <<record, include, files, world>>

DetachStep(p) == ListToDisable(p) \/ DisableMachine(p)

-----------------------------------------------------------------------------
(* delete: the connection goes after its Sandbox *)

AfterSandbox(saved) == IF saved.phase = "connected" THEN "listToRemove" ELSE "readLines"

StartDelete(p, u) ==
  LET saved == record[u] IN
  /\ u \in gone => saved.phase # "none"
  /\ At(p, "idle", CASE u \in gone -> AfterSandbox(saved)
                     [] u \notin gone /\ saved.phase = "connected" -> "listToDisable"
                     [] u \notin gone /\ saved.phase # "connected" -> "orphan")
  /\ Open(p, "delete", u, Nil)
  /\ UNCHANGED <<record, include, files, machines, world>>

\* Everything delete does to the Sandbox between detaching and cleaning up.
Orphan(p) ==
  /\ pc[p] = "orphan"
  /\ gone' = gone \cup {mem[p].sandbox}
  /\ IF mem[p].copy.phase = "none" THEN Return(p)
     ELSE At(p, "orphan", AfterSandbox(mem[p].copy)) /\ UNCHANGED mem
  /\ UNCHANGED <<record, include, files, machines, hostKey>>

ListToRemove(p) ==
  LET m == mem[p].copy.profile IN
  /\ At(p, "listToRemove", IF Present(m) THEN "remove" ELSE "readLines")
  /\ Present(m) => machines[m].of = mem[p].sandbox
  /\ UNCHANGED <<record, include, files, machines, world, mem>>

RemoveMachine(p) ==
  /\ At(p, "remove", "readLines") /\ Present(mem[p].copy.profile)
  /\ Set(mem[p].copy.profile, "removed")
  /\ UNCHANGED <<record, include, files, world, mem>>

ReadLines(p) ==
  /\ At(p, "readLines", IF mem[p].sandbox \in include THEN "writeLines" ELSE "rmKnown")
  /\ Keep(p, [mem[p] EXCEPT !.config = IF mem[p].sandbox \in include
                                       THEN include \ {mem[p].sandbox} ELSE {}])
  /\ UNCHANGED <<record, include, files, machines, world>>

WriteLines(p) ==
  /\ At(p, "writeLines", "rmKnown")
  /\ include' = mem[p].config
  /\ Keep(p, [mem[p] EXCEPT !.config = {}])
  /\ UNCHANGED <<record, files, machines, world>>

RemoveKnown(p) ==
  /\ At(p, "rmKnown", "rmEntry")
  /\ known' = [known EXCEPT ![mem[p].sandbox] = Nil]
  /\ UNCHANGED <<record, include, entry, proxy, machines, world, mem>>

RemoveEntry(p) ==
  /\ At(p, "rmEntry", "rmProxy")
  /\ entry' = [entry EXCEPT ![mem[p].sandbox] = Nil]
  /\ UNCHANGED <<record, include, known, proxy, machines, world, mem>>

RemoveProxy(p) ==
  /\ At(p, "rmProxy", "rmRecord")
  /\ proxy' = proxy \ {mem[p].sandbox}
  /\ UNCHANGED <<record, include, known, entry, machines, world, mem>>

RemoveRecord(p) ==
  /\ pc[p] = "rmRecord"
  /\ record' = [record EXCEPT ![mem[p].sandbox] = NoRecord]
  /\ Return(p)
  /\ UNCHANGED <<include, files, machines, world>>

RemoveStep(p) ==
  \/ Orphan(p) \/ ListToRemove(p) \/ RemoveMachine(p) \/ ReadLines(p) \/ WriteLines(p)
  \/ RemoveKnown(p) \/ RemoveEntry(p) \/ RemoveProxy(p) \/ RemoveRecord(p)

-----------------------------------------------------------------------------
Start(p) ==
  \E u \in Sandboxes :
    StartDisconnect(p, u) \/ StartDelete(p, u) \/ \E i \in Identities \cup {Nil} : StartConnect(p, u, i)

Step(p) == ConnectStep(p) \/ DetachStep(p) \/ RemoveStep(p)

Interrupt(p) ==
  /\ pc[p] # "idle"
  /\ Return(p)
  /\ UNCHANGED <<record, include, files, machines, world>>

\* Another server answers in the Sandbox's place, or its key was lost with its home.
ChangeHostKey(u) ==
  /\ \E k \in HostKeys : hostKey' = [hostKey EXCEPT ![u] = k]
  /\ UNCHANGED <<record, include, files, machines, gone, pc, mem>>

Next ==
  \/ \E p \in Procs : Start(p) \/ Step(p) \/ Interrupt(p)
  \/ \E u \in Sandboxes : ChangeHostKey(u)

Spec == Init /\ [][Next]_vars

-----------------------------------------------------------------------------
\* The pin of a saved connection is never replaced, only forgotten with the record,
\* whatever keys the Sandbox presents and whichever commands stop half-way
\* ("refusing to replace the saved pin", and only a first connect prepares a record).
PinKept ==
  [][\A u \in Sandboxes : record[u].phase # "none" =>
       record'[u].phase = "none" \/ record'[u].pin = record[u].pin]_vars

\* "A connected sandbox keeps its identity so a later command cannot switch keys
\* silently": a connected record never changes, it is only removed (adoptIdentity,
\* activateConnection).
ConnectedKept ==
  [][\A u \in Sandboxes : record[u].phase = "connected" =>
       record'[u] \in {record[u], NoRecord}]_vars

\* ssh can only ever see a Sandbox under the pin and the identity of its record: a
\* connected Sandbox that still exists has the files its record asks for, and the
\* machine its record names (activateConnection saves "connected" last).
ConnectedIsComplete ==
  \A u \in Sandboxes : record[u].phase = "connected" /\ u \notin gone =>
    /\ known[u] = record[u].pin /\ entry[u] = record[u].identity /\ u \in proxy
    /\ record[u].profile \in Matching(u)

\* With commands run one after another, whatever the crashes: the user's SSH
\* configuration includes every connected Sandbox, and none that has no record
\* (ensureSSHFiles and removeSSHInclude leave the other lines as they are).
IncludeFollowsRecord ==
  \A u \in Sandboxes :
    /\ record[u].phase = "connected" /\ u \notin gone => u \in include
    /\ record[u].phase = "none" => u \notin include

\* Herdr gets at most one machine for a Sandbox, however often connect is interrupted
\* and repeated (ensureMachine looks before it adds).
OneMachine == \A u \in Sandboxes : \A m, n \in Matching(u) : m = n

\* No file of a connection is left without the record that names it, so that a
\* repeated delete still finds what is left (prepareConnection saves the record first,
\* removeStateFiles removes it last).
NoStrayFiles ==
  \A u \in Sandboxes : record[u].phase = "none" =>
    known[u] = Nil /\ entry[u] = Nil /\ u \notin proxy

\* A connected record is forgotten only after its machine (removeConnection).
MachineGoesFirst ==
  [][\A u \in Sandboxes : record[u].phase = "connected" /\ record'[u].phase = "none" =>
       ~Present(record[u].profile)]_vars

-----------------------------------------------------------------------------
(* Progress, under the assumptions of Workspace: commands go on or return, and *)
(* interruptions of a command that could go on come to an end.                 *)

Refuse(p) == Interrupt(p) /\ ~ENABLED Step(p)

Fairness ==
  /\ \A p \in Procs : WF_vars(Step(p) \/ Refuse(p))
  /\ <>[][\A p \in Procs : Interrupt(p) => ~ENABLED Step(p)]_vars

\* Users connect each Sandbox again and again, naming an identity file it accepts until
\* it is connected, and in the end do nothing else.
Reconnect(u) ==
  \E p \in Procs, i \in Authorized \cup {Nil} :
    (i = Nil <=> record[u].phase = "connected") /\ StartConnect(p, u, i)

OnlyConnects ==
  /\ \A u \in Sandboxes : SF_vars(Reconnect(u))
  /\ <>[][\A p \in Procs : Start(p) => \E u \in Sandboxes : Reconnect(u)]_vars

FairSpec == Spec /\ Fairness /\ OnlyConnects

Attached(u) ==
  /\ record[u].phase = "connected" /\ machines[record[u].profile].st = "enabled"
  /\ u \in include /\ known[u] = record[u].pin /\ entry[u] = record[u].identity /\ u \in proxy

\* Wherever earlier commands stopped, and although an Include line can be lost between
\* two that rewrite the SSH configuration at once: a Sandbox that exists, keeps the
\* pinned key and is connected again and again ends up connected, and complete.
ConnectCompletes ==
  \A u \in Sandboxes :
    <>[](u \notin gone /\ record[u].pin \in {Nil, hostKey[u]}) => <>[]Attached(u)
=============================================================================
