---------------------------- MODULE ClusterCheck ----------------------------
(***************************************************************************)
(* cluster check: one kubectl call after the other and then, some at a     *)
(* time, one per permission; a report; and a verdict, unless the time the  *)
(* user gave the whole check has run out.                                  *)
(*                                                                         *)
(* The overall deadline ends every call in progress and every later one,   *)
(* which then look like failed probes.  A call may also fail on its own.   *)
(***************************************************************************)
EXTENDS Naturals, Sequences, FiniteSets

CONSTANTS
  Probes,      \* the calls made in order, after the one that tries the connection
  Groups,      \* those among them that ask for an API group
  Advisories,  \* those among them that only advise
  Permissions, \* the permissions asked for concurrently
  Slots        \* how many of these at a time

ASSUME ProbesAssumption == Probes \in Seq({Probes[n] : n \in DOMAIN Probes})
ASSUME GroupsAssumption == Groups \cup Advisories \subseteq {Probes[n] : n \in DOMAIN Probes}
ASSUME SlotsAssumption == Slots \in Nat \ {0}

VARIABLES
  expired,  \* the overall deadline has passed
  online,   \* the API could be reached at first
  next,     \* the probe that is made next
  running,  \* permissions being asked for
  result,   \* results by check; a permission's has its place before it is known
  answer,   \* what was learned: "good", "bad", "failed" by itself, or "cut" by the deadline
  verdict

LastProbe == Len(Probes)
Calls == {Probes[n] : n \in DOMAIN Probes} \cup Permissions
Checks == Calls \cup {"connection"}
Required == Checks \ Advisories

vars == <<expired, online, next, running, result, answer, verdict>>

CheckTypeOK ==
  /\ expired \in BOOLEAN /\ online \in BOOLEAN
  /\ next \in 0 .. LastProbe + 1
  /\ running \subseteq Permissions
  /\ result \in [Checks -> {"none", "ok", "failed"}]
  /\ answer \in [Checks -> {"none", "good", "bad", "failed", "cut"}]
  /\ verdict \in {"none", "passed", "refused", "timed out"}

Init ==
  /\ expired = FALSE /\ online = FALSE
  /\ next = 0 /\ running = {}
  /\ result = [c \in Checks |-> "none"]
  /\ answer = [c \in Checks |-> "none"]
  /\ verdict = "none"

\* A call ends: with the cluster's answer, by itself, or by the deadline.
Outcomes == {"good", "bad", "failed"} \cup (IF expired THEN {"cut"} ELSE {})

\* CheckTypeOK: the answer is taken for the result.
LearnAnswer(c, a) ==
  /\ answer' = [answer EXCEPT ![c] = a]
  /\ result' = [result EXCEPT ![c] = a]

Learn(c, a) ==
  /\ answer' = [answer EXCEPT ![c] = a]
  /\ result' = [result EXCEPT ![c] = IF a = "good" THEN "ok" ELSE "failed"]

-----------------------------------------------------------------------------
(* Faults, as in Workspace. *)

\* PassedIsTrue: the results are gone through before the permissions are among them.
ReportFirst ==
  /\ next > LastProbe /\ verdict = "none"
  /\ \A c \in Permissions : result[c] # "none"
  /\ verdict' = IF expired THEN "timed out"
                ELSE IF \E c \in Required \ Permissions : result[c] # "ok" THEN "refused"
                ELSE "passed"
  /\ UNCHANGED <<expired, online, next, running, result, answer>>

\* RefusalIsReal: the deadline is not looked at again.
ReportUntimely ==
  /\ next > LastProbe /\ verdict = "none"
  /\ \A c \in Permissions : result[c] # "none"
  /\ verdict' = IF \E c \in Required : result[c] # "ok" THEN "refused" ELSE "passed"
  /\ UNCHANGED <<expired, online, next, running, result, answer>>

\* CheckEnds: a permission that was cut keeps its slot.
FinishPermissionHolding(c) ==
  /\ c \in running
  /\ \E a \in Outcomes : Learn(c, a) /\ running' = IF a = "good" THEN running \ {c} ELSE running
  /\ UNCHANGED <<expired, online, next, verdict>>

-----------------------------------------------------------------------------
Connect ==
  /\ next = 0 /\ next' = 1
  /\ \E a \in Outcomes : Learn("connection", a) /\ online' = (a = "good")
  /\ UNCHANGED <<expired, running, verdict>>

\* A group that the first call did not list needs no call of its own.
Probe ==
  /\ next \in DOMAIN Probes /\ next' = next + 1
  /\ LET c == Probes[next] IN
     \/ c \in Groups /\ online /\ Learn(c, "bad")
     \/ \E a \in Outcomes : Learn(c, a)
  /\ UNCHANGED <<expired, online, running, verdict>>

Asked == running \cup {c \in Permissions : result[c] # "none"}

AskPermission(c) ==
  /\ next > LastProbe /\ c \in Permissions \ Asked
  /\ Cardinality(running) < Slots
  /\ running' = running \cup {c}
  /\ UNCHANGED <<expired, online, next, result, answer, verdict>>

FinishPermission(c) ==
  /\ c \in running /\ running' = running \ {c}
  /\ \E a \in Outcomes : Learn(c, a)
  /\ UNCHANGED <<expired, online, next, verdict>>

\* All permissions are waited for; a result of an advisory check does not count.
Report ==
  /\ next > LastProbe /\ verdict = "none"
  /\ \A c \in Permissions : result[c] # "none"
  /\ verdict' = IF expired THEN "timed out"
                ELSE IF \E c \in Required : result[c] # "ok" THEN "refused" ELSE "passed"
  /\ UNCHANGED <<expired, online, next, running, result, answer>>

Expire ==
  /\ verdict = "none" /\ ~expired
  /\ expired' = TRUE
  /\ UNCHANGED <<online, next, running, result, answer, verdict>>

Step ==
  \/ Connect \/ Probe \/ Report
  \/ \E c \in Permissions : AskPermission(c) \/ FinishPermission(c)

Spec == Init /\ [][Step \/ Expire]_vars /\ WF_vars(Step)

-----------------------------------------------------------------------------
\* A check that passes has seen every required probe and permission answered well, none
\* of them left out (the report is made after group.Wait).
PassedIsTrue == verdict = "passed" => \A c \in Required : answer[c] = "good"

\* A check is only refused for something that the cluster, or a call of its own, got
\* wrong, and never for calls that the overall deadline cut short: those that have
\* finished too late are not reported at all (checkCommand looks at the context after
\* runCheck, not before it).
RefusalIsReal ==
  verdict = "refused" =>
    /\ \A c \in Checks : answer[c] # "cut"
    /\ \E c \in Required : answer[c] \in {"bad", "failed"}

\* Every check ends with a verdict, however many calls fail while all slots are taken.
CheckEnds == <>(verdict # "none")
=============================================================================
