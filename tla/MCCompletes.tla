---------------------------- MODULE MCCompletes ----------------------------
(* Users who in the end repeat one command, whichever it is they want: create, from     *)
(* nothing, or delete, of a connected sandbox that is stopped and resumed meanwhile.     *)
EXTENDS MCWorkspace

VARIABLE wish

Wanting ==
  \/ wish = "create" /\ Init
  \/ wish = "delete" /\ Allocated /\ sandbox[1].name = Alloc

\* Any number of creates at a time, one delete at a time.
Wanters == IF wish = "create" THEN Procs ELSE {CHOOSE p \in Procs : TRUE}

\* Meanwhile the others stop and resume the sandbox.
Tried(p) == IF p \in Wanters THEN {wish} ELSE {"stop", "resume"}

WantedNext ==
  /\ Next /\ UNCHANGED wish
  /\ \A p \in Procs : mem'[p].cmd \in Tried(p) \cup {"none"}

Repeated == \A p \in Procs :
  WF_<<vars, wish>>(/\ p \in Wanters
                    /\ StartCreate(p) \/ StartFromRecord(p, wish) \/ StartFromRetained(p)
                    /\ mem'[p].cmd = wish /\ UNCHANGED wish)

NothingElse ==
  <>[][\A p \in Procs : mem[p].cmd = "none" => mem'[p].cmd \in {"none", wish}]_<<vars, wish>>

WantedSpec == Wanting /\ [][WantedNext]_<<vars, wish>> /\ Fairness /\ Repeated /\ NothingElse

\* Fairness and Calm of Workspace, and either promise to whoever asked for it.
Created == wish = "create" => CreateCompletes

\* A resume that overtakes a delete may leave a pod behind, which the inspection of the home
\* sees and only an administrator can stop.
PodLeft == \E u \in Uid : sandbox[u].st = "gone" /\ sandbox[u].pod
DeletedForGood == wish = "delete" => DeleteCompletes \/ <>[]PodLeft
=============================================================================
