# Kubeflock in TLA+

Kubeflock gives a developer persistent sandboxes on Kubernetes: a command line
program on the workstation claims a sandbox from a warm pool, records what it
was given in small JSON files, connects it to Herdr over SSH, and later stops,
resumes or deletes it. Everything it does is a sequence of requests to the API
server, writes of state files and `herdr` commands. Any of them can fail or be
the last one before the program dies, and nothing stops a user from running two
commands at once. These modules model that, check it on small instances with
TLC and prove the central promises with TLAPS: no user's data is ever lost
track of, it is destroyed only when nothing can be using it, and a connected
sandbox has the machine, files, pin and identity its record names.

## 1. The system

| part | code (`src/internal/kubeflock/`) | state it keeps | operations |
|---|---|---|---|
| Workspace lifecycle | `sandbox.go`, `app.go:307` | none of its own: copies of records, for the time of a command | `createSandbox`, `changeSandboxMode` (stop, resume), `permanentlyDeleteWorkspace` = `retainSandboxHome` then `deleteRetainedHome`; `connect` and `disconnect`, alone or as part of these |
| State files | `state.go`, `types.go` | `ManagedSandbox` by claim UID, `RetainedHome` by home UID, `Connection` by Sandbox UID | atomic save, list, select by name or UID, remove |
| Allocation lock | `sandbox.go:394` | an advisory lock per context, namespace and name | taken without waiting by create and by the deletion stage; given up on return or death |
| Kubernetes client | `kube.go` | none | reads; deletes with UID preconditions and orphan propagation; JSON patches that test UID and resource version |
| Cluster (external) | API server and controllers | claims, Sandboxes, home PVCs, volumes, pods | binding, provisioning, adoption, orphaning, garbage collection, reclaim |
| Connections | `connection.go` | `Connection` records, files under `ssh/`, the user's SSH configuration, Herdr machines (external) | `connect`, `disconnect`, `disableMachine`, `removeConnection` |
| Sandbox status | `sandbox.go:732` | none | `list` |
| Approved templates | `kube.go:231` | none | the gate a template must pass before create uses it |
| Cluster check | `check.go`, `app.go:191` | the results so far | probes in order, concurrent permission questions, an overall deadline, a verdict |
| Configuration, exec credentials | `config.go`, `app.go` | the saved target | save, load |
| Process runner, proxy | `process.go`, `connection.go` | none | run kubectl and herdr with a deadline, relay bytes |
| Chart, sandbox image, plugin | `charts/`, `sandbox-image/`, `herdr-plugin.toml` | | declarative, or run on their own |

How they interact: a command reads records, talks to the API server for minutes,
and writes records again. The commands share the state directory, the
namespace, the SSH configuration and Herdr. Only create and the second half of
delete exclude each other, by the lock; connect, disconnect, stop, resume and the
first half of delete run under no lock. The controllers change the cluster all the time and
the commands wait for them by polling; what the API server says of an object is
what a controller reported last, which may be about an earlier mode of it.

What makes a part correct:

- *Workspace lifecycle*: a home is always named by a record until its storage is
  gone; a home is destroyed only when nothing uses it or can come to use it; one
  allocation has one record, and a bound record never changes; a command that is
  repeated finishes what an interrupted one began.
- *State files and lock*: a record is never half written; the lock excludes and
  does not outlive its process.
- *Connections*: a connection belongs to one Sandbox by UID and does not outlive
  the record by which it can be found; Herdr is never attached to a Sandbox that is
  being deleted or gone, and is detached from one that is reported stopped; pins and
  identities are never silently replaced; a machine is not registered twice.
- *Sandbox status*: an answer put together from reads at several moments says
  something that was true, and the advice it gives can be followed.
- *Templates*: what is approved can be connected to, and the home that is approved is
  the one the user later finds. The code keeps this for templates of a single
  container, where there is nothing to choose, and not for those of two (section 3,
  known limitations).
- *Cluster check*: a verdict is always given, "passed" has seen every answer, and
  a refusal is about the cluster and not about the deadline.

## 2. The modules

| module | what it is |
|---|---|
| `WorkspaceState` | constants with their assumptions, the variables, `TypeOK`, what the API server and the state directory answer, `Init`, and how a command starts waiting, returns and is interrupted |
| `Workspace` | one action per call of create, connect, disconnect, stop, resume and delete; the controllers; `Spec`; the promises; fairness |
| `HomeCustody` | the abstract specification of what all this promises about data: a home is in use, released for good, erased, forgotten, in that order and on record |
| `WorkspaceCustody` | the refinement mapping from `Workspace` to `HomeCustody` and the property `CustodyKept` |
| `SandboxStatus` | `sandbox list` as one more process that reads next to the actions of `Workspace` (it extends that module and adds its own variables) |
| `Connections` | connect, reconnect, disconnect and the clean-up of delete, in the detail that `Workspace` leaves out |
| `ClusterCheck` | `cluster check`: probes, permissions, deadline, verdict |
| `TemplateGate` | the gate on templates against what is later connected to |
| `WorkspaceInductive`, `CustodyInductive`, `RetirementInductive`, `SerialInductive`, `StatusInductive`, `ConnectionsInductive` | the inductive invariants, in named parts |
| `WorkspaceFrames` | proofs: every step keeps the types; what groups of steps leave alone |
| `WorkspaceProofs` | proofs: records and the lock |
| `CustodyProofs` | proofs: the refinement of `HomeCustody`; what is destroyed |
| `SerialProofs` | proofs: what commands promise that run one after another |
| `StatusProofs`, `ConnectionsProofs`, `ClusterCheckProofs`, `TemplateGateProofs` | proofs about the component of that name |
| `MCWorkspace`, `MCCompletes`, `MCConnections`, `MCClusterCheck`, `MCTemplateGate` | instances for TLC: initial states, symmetry, values of sequences, fair specifications |

Each component's module has sections of *faults*: steps as a plausible slip in
the code would make them, each with the property that is to notice it. No
specification uses them.

### Workspace: state and actions

`claim`, `dying`, `claimReady`, `lastUid`, `sandbox` and `home` are the cluster as seen
through the API; `managed`, `retained` and `conn` are the state directory; `machine` is
Herdr; `holder` is the lock. `mem[p]` is the memory of the command that process
`p` runs: the copy of the record it works from, and what it has read since.
`pc[p]` names the call it makes next, after the function that makes it.

One action is one call that another process can see between. The actions of
create, in order, are those of `createSandbox` with `ensureManagedSandbox`,
`obtainClaim`, `waitForReady`, `saveManagedBinding` and `connect` unfolded; those
of delete are `retainSandboxHome` (from `ReadClaim` to `Forget`) and
`deleteRetainedHome` (from `LockRetained` to `DropRetained`). `SelectLink` to `SaveLink` are
`connect`: create and resume run into it, and users start it on their own
(`StartConnect`), for any name and under any identity, also while nothing is bound
yet or a stop or delete has been left half-way. Stop and resume
share `ReadClaim` to `WaitMode` with delete, as `changeSandboxMode` and
`retainSandboxHome` share `applyOperatingMode`.

Abstractions:

- **Cluster.** `Sandbox` and `Home` hold what the code looks at in the API objects;
  the actions from `BindClaim` to `LoseVolume` are not in the repository and do what
  the code waits for or guards against, no more.
- **Errors.** No command undoes anything when it fails: every error path returns,
  which releases the lock. So one action, `Interrupt`, stands for a refused check,
  a failed request, an expired poll and a crash, and may happen at every call. A
  request whose response is lost is its action followed by `Interrupt`.
- **UIDs** are numbers. The n-th claim gets n, and the Sandbox bound to it and the
  home made for that Sandbox carry the same number. Names are kept apart: a
  Sandbox is named like the allocation (cold start) or like a warm standby, and
  is looked up by name where the code does so.
- **One allocation.** Claims of other allocations share no record and no lock with
  it. All Sandboxes that may have one name are modelled.
- **Records** hold what the commands decide by: phase, UIDs, state, whether a
  volume is on record. Template, warm pool, capacity and labels are left out.
- **Operating mode.** `mode` is the spec, `seen` says that the controller has
  observed the current generation. The test of the resource version in the patch
  is a test of the mode that was read.
- **What is reported.** `ready` and `pod` of a Sandbox are what was last reported of
  it: a patch leaves them as they were until the controller acts (`Reconcile`, `PodStops`),
  and a running Sandbox may lose either at any time (`PodFails`). The claim has a Ready
  condition of its own that follows the Sandbox's later still (`ReportClaim`). The
  commands see just that: `WaitReady` asks for the claim's condition, `Reachable` for the
  Sandbox's and a pod, neither for a mode or a generation, as `progress` and
  `resolveSandbox` do; only `WaitMode` looks at the generation.
- **Labels.** `adoptable` stands for the two labels that let a controller adopt a home;
  retention removes both, the cancelled restoration the one that matters.
- **Connection.** The record's phase and whether its machine is absent, enabled or
  disabled. `rekey` says that create names another identity than the managed
  record, which decides whether that is saved again; that connect names another
  than the connection's is a choice of `SelectLink`, since either can be changed
  without the other. The rest is in `Connections`.
- **Volumes.** A reclaim policy does not change; a volume may vanish on its own
  (`LoseVolume`), as the code expects of administrators.

### HomeCustody: the abstraction

It has no commands, claims, processes or lock: per home a `custody` (unused,
attached, released, erasing, erased) and whether a record names it. A home can be
released only while on record, erased only once released, and forgotten only
when erased; nothing leads back. `CustodyOf` maps a home of `Workspace` to this:
it is attached while a Sandbox owns it or its labels let one adopt it, released
when neither is so, erasing from the delete request until the volume is gone
too. Every step of `Workspace`, crashes and foreign controllers included, is one
step of `HomeCustody` or none.

### SandboxStatus

`list` reads the record files one by one, the claims, the connection files one by
one, Herdr's machines (only when something is connected) and the mode of each
Sandbox; each of these reads is an action, and the steps of `Workspace` go on in
between. What it reads of a claim is the condition that was last reported. A file that vanishes between the listing of its directory and its
reading makes the listing fail (`state.go:85`), as any failed request does.
`Answer` is the classification of `sandboxStatus`. `up` and `calm` are history
variables: what was attached at some moment of this listing, and whether the
commands and the claim have rested since it began.

### Connections

Here are the connection record with identity, pin and profile; the files under
`ssh/` (`known`, `entry`, `proxy`); the Include lines of the user's SSH configuration,
which is read by one step and rewritten as a whole by another; Herdr's machines
one by one; host keys, which may change at any time; and Sandboxes that are gone.
`StartConnect` to `SaveConnected` are `connect` with `adoptIdentity`,
`prepareConnection`, `activateConnection`, `ensureSSHFiles` and `ensureMachine`;
`ListToDisable` and `DisableMachine` are `disableMachine`; `ListToRemove` to
`RemoveRecord` are `removeConnection`, `removeSSHInclude` and `removeStateFiles`.
Everything delete does to the Sandbox between is the one step `Orphan`, which
`Workspace` unfolds. `Overlap` says whether commands on one and the same Sandbox may
run at the same time; commands on different Sandboxes always may.

### ClusterCheck and TemplateGate

`ClusterCheck` is `runCheck` with its concurrent permission questions, bounded by
`Slots`, and `checkCommand`, which looks at the deadline after the report is
complete. What a probe looks for in the output is one good or bad answer; calls
may also fail by themselves or be cut by the deadline. `TemplateGate` takes every
template of a bounded size and compares the container in which
`homeClaimTemplate` looks for the home with the one that `resolveSandbox` picks;
of the hardening rules only the verdict per container is kept.

## 3. What TLC checks

Every run but the violation runs completes its whole state space.

| run | instance | checks |
|---|---|---|
| `serial` | 1 process, all six commands, 2 claims, both policies, with and without a record of an older version (590 thousand states) | `TypeOK`, `SerialInv`, `DeletionOnRecord`, `NoLinkLeftBehind`, `EnabledIsLive`, `StoppedIsDetached`, `NeverReadopted`, `EraseOnlyRetired`, `CustodyKept` |
| `concurrent` | 2 processes, create and delete from a connected sandbox, 2 claims, no pod fails (510 thousand states up to symmetry) | `OneManagedRecord`, `Exclusive`, `RetiredInv`, `RecordOutlivesStorage`, `BoundRecordFixed`, `CustodyKept` |
| `completes` | 2 processes, 1 claim: creates from nothing, served cold or by a warm standby; or deletes of a connected sandbox next to stops and resumes (110 thousand states) | `Created`, `DeletedForGood`, `EraseOnlyRetired` |
| `status` | 1 process with create, connect, stop and delete, and a listing, 1 claim (440 thousand states) | `StatusTypeOK`, `StatusInv`, `MissingIsReal`, `ReadyWasAttached`, `StoppedCanResume`, `ListSettles` |
| `connections` | 1 process, 2 Sandboxes, 2 identities of which the Sandboxes accept one, 2 host keys, 3 machines (420 thousand states up to symmetry) | `TypeOK`, `IncludeInv`, `PinKept`, `ConnectedKept`, `ConnectedIsComplete`, `IncludeFollowsRecord`, `OneMachine`, `NoStrayFiles`, `MachineGoesFirst` |
| `connections_complete` | 2 processes, 2 Sandboxes, connect only | `ConnectCompletes` |
| `cluster_check` | 3 probes (one of a group, one advisory), 3 permissions, 2 slots | `CheckTypeOK`, `PassedIsTrue`, `RefusalIsReal`, `CheckEnds` |
| `template_gate` | all templates of up to 2 containers, 2 volumes and 2 claims; ports 0, 22 and 65536 | `GateTypeOK`, `ApprovedIsServed` |

What they show: wherever commands stop, and whichever overlap, data goes through
the custody of `HomeCustody` and no other way; the records of a home, an
allocation and a connection stay true of what they are about; a repeated create,
delete, connect or list gets to its end from whatever the earlier attempts left;
answers and verdicts say what was so.

**Bounds.** Two claims are one replacement, which is what every UID check is
about: copies of the first generation meet the records and objects of the second.
In `serial` (`NamedSpec`) both generations have the allocation's name, so that the
second meets everything the first has left, or a standby's name while a home of an
older version waits to be adopted; in `concurrent` and `status` Sandboxes are named
like the allocation, in `completes` either way, and in the proofs in any way. Resume
and disconnect are left out of `status`: what a listing can meet of them is what
create and stop leave, and the proofs are for all six commands. Pods fail
everywhere but in `concurrent` (`SteadySafetySpec`), whose properties are about records,
locks and homes, and in the end of `completes`. Two processes suffice for a
race; a third would only race in the same ways, and the safety properties that are
proved hold for any number. In `completes` one claim is enough, since what is
asked is that no second one is needed; creates overlap freely there, and deletes
overlap stops and resumes and come one at a time (see the limitations). Two
Sandboxes are what two writers of one SSH configuration need, two host keys and
two identities what a change needs, three machines one more than there are
Sandboxes, so that a second one for either could be added. Two slots for three
permissions make one wait. 65536 is the first number that is no port. `Symmetry`
permutes processes (`MCWorkspace`), or Sandboxes and host keys (`MCConnections`),
which no constant tells apart, and is used in runs without liveness only.

`DeletionOnRecord`, `NoLinkLeftBehind`, `EnabledIsLive` and `StoppedIsDetached` are promises
about commands run one after another, with a crash at any point: with two at a time
they do not hold, since connect, stop, resume and retention take no lock. `SerialInv`,
and what `StatusInv` says of answers other than "claim missing", are of this kind too. The same goes for the
safety properties of `connections`, where one Sandbox has one command at a time;
all but `IncludeFollowsRecord` are proved for any number of commands on different
Sandboxes. Deadlock is checked where commands can always be issued again. It is
off where the system may really stop: when everything is deleted and no create is
allowed, when a claim cannot be made within the bound, and after a check's or a
gate's only verdict.

### Fairness

- **`Workspace`.** A command that can make its next call makes it, and one that cannot
  returns (`Step \/ Refuse`): each poll has a timeout and each failed check returns.
  Controllers that have something to do do it; this is weak fairness of their
  disjunction, the least that the code relies on when it waits. And `Calm`:
  interruptions of a command that could go on come to an end, and `Steady`: so do
  failures of pods. Without them nothing can be promised of a command that dies
  each time, or whose Sandbox does. `Repeat`, and `Repeated` in
  `MCCompletes`, add that users issue the command again; `OnlyDeletes` that in the end
  they only delete, and `NothingElse` that in the end they issue only the command they want.
  `LoseVolume` and starting other commands have no fairness.
- **`Connections`.** The same for commands. Users connect each Sandbox again and again
  (`Reconnect`); strong fairness, because another command may hold the Sandbox in
  between.
- **`SandboxStatus`.** A listing that can go on does, users repeat it, and requests fail
  only for a while; a file that is gone makes it fail at any time. Controllers are
  fair, and pods fail only for a while. Commands need not be.
- **`ClusterCheck`.** Weak fairness of its own steps: every call ends, since each has a
  timeout (`check.go:115`). The deadline need not pass.

### Where code and documentation disagree

Four runs end in a violation; each checks one property.

| run | property | what happens |
|---|---|---|
| `standby_delete` | `RetainedIsErased` | Retained data is looked up by the origin Sandbox's name (`state.go:217`). For a warm standby that is not the allocation's name, so a delete interrupted after the managed record is removed cannot be resumed, although `docs/agents/domain.md` says that retained-home records support interrupted permanent deletion. |
| `leaked_claim` | `BoundIsDeleted` | Create after an interrupted delete makes a claim that no record names (`sandbox.go:342`), and delete then refuses for ever, although `sandbox delete NAME` "permanently deletes the sandbox". |
| `identity_overwritten` | `ConnectedKept` | Of two connects that name different identity files, the slower puts its copy of the record over the connected one (`connection.go:335`), although "a connected sandbox keeps its identity so a later command cannot switch keys silently". |
| `stale_ready` | `SuspendedIsDetached` | A create right after an interrupted stop finds the claim and the Sandbox still Ready and the pod still there (`sandbox.go:227`, `kube.go:686`) and enables the machine of the suspended Sandbox again, although "a stopped sandbox reports the same not-ready claim as one still provisioning" (`sandbox.go:233`), on which create's refusal of stopped sandboxes rests. |

`stale_ready` limits what the passing runs promise: a connected, suspended Sandbox can
have an enabled machine. `EnabledIsLive` and `StoppedIsDetached` say what is left: it is
not one that is being deleted, and a stop that is repeated and reports success has
detached it.

### Known limitations of the code

Behaviour the models show and no property excludes; of most of it the documents say
nothing.

- The second of two deletes that run at once may save a retained record as
  "available" after the first has deleted the PVC (`sandbox.go:638`); a delete does not
  accept that record again.
- An allocation that was claimed and never bound cannot be deleted
  (`sandbox.go:566`).
- A record that an older version left in state "restoring" is never accepted for
  deletion, though its restoration is cancelled (`sandbox.go:471`).
- For a warm standby create does not see that its allocation name still has
  retained data (`sandbox.go:265`).
- Two connects of one Sandbox at once can each find no machine and each add one
  (`connection.go:77`); Herdr has no conditional add.
- The machine of a connection that was added but not saved stays in Herdr when the
  sandbox is deleted (`connection.go:161`): the record does not know its profile.
- A connect that stops after adding the machine, repeated under another identity
  file, becomes connected without Herdr having logged in with that file
  (`connection.go:333`).
- A resume that overtakes a delete, after it has suspended the Sandbox and before it
  lets go of it, starts a pod that stays when the Sandbox is orphan-deleted. The
  inspection sees that it mounts the home (`kube.go:530`) and refuses until somebody
  stops the pod; `DeletedForGood` makes this exception (`PodLeft`).
- Of a template with several containers the home is approved in the first that has an
  SSH port and mounts one (`kube.go:327`), and the default container is connected to
  (`kube.go:697`). They can differ: then the home that is approved and recorded is not
  what the user finds at `/home/agent`. Without a default container such a template is
  approved and cannot be connected to at all. `ApprovedIsServed` is about templates of
  one container.
- A connect of the user's own, between an interrupted create and its repetition and
  under another identity file, can be the first to become connected; create then
  binds its record and is refused at its connection (`connection.go:331`), as resume is
  later, and under the other identity by `verifySavedIdentity`. Connect and delete work.
- "ready" in a listing may rest on a Ready condition of the claim that is out of
  date (`sandbox.go:38`); `ReadyWasAttached` is about the rest of the answer.

## 4. What is proved

Everything below holds for every value of the constants that the named
assumptions of its module allow: any processes, any number of claims, Sandboxes,
permissions.

| module | theorem | statement |
|---|---|---|
| `WorkspaceProofs` | `TypeCorrect` | `Spec => []TypeOK` |
| | `Inductive` | `Spec => []IInv` |
| | `LockExcludes` | `Spec => []Exclusive` |
| | `RecordsOutliveStorage` | `Spec => RecordOutlivesStorage` |
| | `OneRecord` | `Spec => []OneManagedRecord` |
| | `BoundRecordsFixed` | `Spec => BoundRecordFixed` |
| `CustodyProofs` | `CustodyHolds` | `Spec => []CustodyInv` |
| | `HomesNeverReadopted` | `Spec => NeverReadopted` |
| | `CustodyImplemented` | `Spec => CustodyKept`, the refinement |
| | `RetiredHolds` | `Spec => []RetiredInv` |
| | `ErasedIsRetired` | `Spec => EraseOnlyRetired` |
| `SerialProofs` | `SerialHolds` | `Spec => []SerialInv`, with one process |
| | `DeletionsOnRecord`, `LinksHaveRecords` | `Spec => []DeletionOnRecord`, `[]NoLinkLeftBehind`, with one process |
| | `EnabledAreLive`, `StoppedAreDetached` | `Spec => []EnabledIsLive`, `[]StoppedIsDetached`, with one process |
| `StatusProofs` | `StatusTypeCorrect` | `StatusSpec => []StatusTypeOK` |
| | `MissingClaimsAreMissing` | `StatusSpec => []MissingIsReal` |
| | `StatusHolds` | `StatusSpec => []StatusInv`, with one process |
| | `ReadyWereAttached`, `StoppedCanBeResumed` | `StatusSpec => []ReadyWasAttached`, `[]StoppedCanResume`, with one process |
| `ConnectionsProofs` | `ConnectionsTypeCorrect` | `Spec => []TypeOK` |
| | `Connected`, `MachinesAreUnique`, `FilesHaveRecords` | `Spec => []ConnectedIsComplete`, `[]OneMachine`, `[]NoStrayFiles`, without `Overlap` |
| | `PinsKept`, `ConnectionsKept`, `MachinesGoFirst` | `Spec => PinKept`, `ConnectedKept`, `MachineGoesFirst`, without `Overlap` |
| | `IncludeInductive`, `IncludesFollow` | `Spec => []IncludeInv`, `[]IncludeFollowsRecord`, without `Overlap` and with one process |
| `ClusterCheckProofs` | `ChecksTypeCorrect` | `Spec => []CheckTypeOK` |
| | `PassedChecks`, `RefusedChecks` | `Spec => []PassedIsTrue`, `[]RefusalIsReal` |
| `TemplateGateProofs` | `GateTypeCorrect` | `Spec => []GateTypeOK` |
| | `ApprovedTemplateIsServed` | `Spec => []ApprovedIsServed` |

"With one process" is the hypothesis `Serial`, that `Procs` has at most one element:
commands come one after another, from any state that an interrupted one may
leave. It is what these promises are about, and without it they are false.

**Records (`IInv`).** `RecordOutlivesStorage` says that the last record naming a home goes
away only when the PVC and its volume are gone. Two steps remove records.
`DropRetained` is easy: its process has seen the storage disappear, and what is
gone stays gone. `Forget` is not: it removes the managed record named in a copy
that the command read before minutes of waiting, while others run. That is safe
because

1. the retained record of *the copy's* home has been saved, or its storage is
   already gone (`HandedOver`);
2. the record that is removed names *that same* home (`CopiesAgree`), for all
   copies of one allocation and the record agree while the record exists;
3. and a record once removed does not come back with another home: that would
   take a create that records the same claim UID again. Its claim is gone
   (`ClaimLeftBehind`, `GoneForGood`), UIDs are not handed out twice (`Issued`),
   and a create that found no record holds the lock and still finds none when it
   saves one (`NothingSaved`).

None of these is inductive without the others; `Exclusive` enters through the
third, and `CompleteCopies`, `Provisioned` and `ClaimedCopy` say what the copies
consist of at each call. `WorkspaceFrames` proves once that every action preserves
`TypeOK`, and says what groups of actions leave alone; `WorkspaceProofs` proves `IInv`
part by part. It then adds that a create between its
reading and its writing of the record works on the only one, from which
`OneManagedRecord` and `BoundRecordFixed` follow.

**Custody (`CustodyInv`).** The refinement needs to know, at the step that releases a
home, that it is on record, and at the delete request, that it has been
released. Both are facts about other processes' homes and Sandboxes. The parts
added to `IInv` say that names are unique among what exists (`NamesApart`), that a
home's owner exists and has its name (`HomesKept`), that labels go before the
Sandbox does (`StrippedFirst`), that a Sandbox and the home a record or a copy pairs
it with stay a pair until the home is stripped (`Pairs`), and what the retention and
the deletion stage know at each call (`Stripping`, `Erasing`). The mapping then goes
home by home: a step writes homes or records and never both, and either concerns
one home (`OneHomeMoves`, `OneIsRecorded`), so it is one step of `HomeCustody` about
that home or none (`EditMaps`, `RecordStepMaps`).

**Retirement (`RetiredInv`).** The inspection of a home is over several calls before
the delete request. What it found stays so: the lock keeps every create out
(`Exclusive`), so no claim comes (`NoClaimComes`); without a claim no Sandbox comes
(`NobodyComes`); without a Sandbox of its name no pod comes that mounts the home
(`NoPodComes`). The name that the inspection goes by is the home's (`NamesFollow`),
and a volume found to go with its home, or on record as such, still does
(`VolumesFollow`).

**One command at a time (`SerialInv`).** Then what a command has read is what is there
until its own next write (`CopiesCurrent`, and for connections `LinksCurrent`), which is
the step the rest is built on. The exception is Ready, which may be of an earlier
mode at any time: all that is claimed of a Sandbox whose claim says Ready, or that
was found reachable, is that it is not on its way out (`ClaimResolved`, `Reached`),
since a Sandbox is let go of only after its claim (`SandboxesFollow`) and only after
it has come to rest: suspended and without a pod (`Detaching`). From there no stale
condition makes it reachable again, so that although a connect or a create may
attach a suspended Sandbox (`stale_ready`), it cannot attach one that is being
deleted: that is `EnabledIsLive`, and the same fact at the end of a stop is
`StoppedIsDetached`. A connection may be saved before anything is bound, by the user's
own connect; `LinksCurrent` says that it belongs to a Sandbox that is not on its way
out or to a bound record, and that a Sandbox on its way out has one, from which
`NoLinkLeftBehind` follows. `Destroying` is `DeletionOnRecord` with what the deletion stage
has in hand. What is hard is that a command starts from what an interrupted one
left: each part has to be true of every such state, not only of finished commands.

**Listing (`StatusInv`).** The listing changes nothing, so what is proved of `Workspace`
holds beside it (`BesideSpec`), and the invariant says what its stale reads are still
worth. "Claim missing" needs no more than the order of its reads and that claims
are made before their records (`MissingInv`), for any number of processes. "Ready" is
the opposite: every read may be out of date when the answer is given, and the claim's
Ready was out of date when it was read. `ReadyInv` follows the one case that could go
wrong, an allocation that was bound and said Ready when the claims were listed and
has not been attached since. Herdr's machines are read after that, and none can come
to be enabled for it without it being attached at that very moment: the connection
that was read stays until the Sandbox is gone, the record that was read stays as
long as its claim or Sandbox does (`RecordsRead`), and only a Sandbox that is not on its
way out is attached (`EnabledIsLive`). `CalmInv` says that nothing that was read changes
while no command moves.

**Connections (`LInv`, `IncludeInv`).** With one command per Sandbox, the copy a command
holds is the record (`CopyAt`), and what it has written or removed so far is there
or not (`FilesAt`, `MachinesAt`); `Sound` says what holds of a Sandbox at rest, wherever
its last command stopped. Commands on other Sandboxes enter through the list of
machines they share. The SSH configuration is also shared and is rewritten as
a whole, so what is proved about it takes one command at a time (`IncludeAt`).

**Templates.** The approval never looks at the container that connect will pick. It
takes the first that passes a test; a first one exists because the places of a list
are numbers (`MinIsLeast`) and passes what is asked for, an SSH port that is one
included, so the only container of a template, when it is approved, is one that
can be connected to. Nothing is assumed of templates but that containers are listed
in an order and ports are natural numbers (`GateAssumption`).

### Only model-checked

All liveness: `Created`, `DeletedForGood`, `ConnectCompletes`, `ListSettles` and `CheckEnds`.
Liveness under fairness, and `ENABLED`, are outside what the prover does; so are
induction over data and recursive operators, which the models avoid. Every other
property that a passing run checks is the statement of a theorem. Each inductive
invariant is also checked by TLC: `RetiredInv` (with `CustodyInv` and `IInv` in it) in the run
`concurrent`, `SerialInv` in `serial`, `StatusInv` in `status` and `IncludeInv` (with `LInv`) in
`connections`. `RecordOutlivesStorage` and `EraseOnlyRetired` follow from the first by a
proof and are checked with two processes in `concurrent` and `completes`; `EraseOnlyRetired`
also with both policies in `serial`.

## 5. Not modelled

- *Configuration and exec credentials*: one file that is saved atomically and read at
  the start of a command; no state shared between commands beyond that.
- *Command line and plugin wizards*: flags, prompts and output around the commands
  that are modelled.
- *Process runner and SSH proxy*: run a child with a deadline, relay bytes. A call
  that times out or fails is an `Interrupt`, or a cut or failed probe.
- *Validation of state files* that another program wrote, and the hardening rules for
  pods and containers one by one: decisions over one object, without state.
- *Chart and sandbox image*: declarative, or run on their own.
- *`Workspace` and `Connections` composed in full*: each has of the other what its
  properties tell apart (the phase and the machine, or the one step `Orphan`). The
  product is beyond TLC at sizes where either is interesting.
