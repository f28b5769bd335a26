------------------------------- MODULE Readiness -------------------------------
(***************************************************************************)
(* GET /ready (api.py, ReadinessProbeRunner): requests on the event loop   *)
(* share one probe slot; a daemon thread asks the database and hands its   *)
(* outcome to the loop, which may have answered long before.               *)
(***************************************************************************)
EXTENDS Integers, FiniteSets

CONSTANTS Checks  \* requests to /ready

VARIABLES
  active,  \* _active_count
  closed,  \* _closed
  stopped, \* the event loop is closed
  up,      \* what the probe's query would find now
  check,   \* each request: how far it is, and whether up was ever true meanwhile
  probe    \* each request's thread, with the outcome of its query

runner == <<active, closed>>
probeVars == <<runner, stopped, up, check, probe>>

Outcomes == {"ready", "failed"}
Stages == {"none", "admitted", "waiting", "resumed"}
Answers == {"ready", "failed", "busy", "timeout", "error"}
Threads == {"none", "running", "asked", "released", "ended"}

ProbeInit ==
  /\ active = 0 /\ closed = FALSE /\ stopped = FALSE
  /\ up \in BOOLEAN
  /\ check = [c \in Checks |-> [stage |-> "none", outcome |-> "failed", wasUp |-> FALSE]]
  /\ probe = [c \in Checks |-> [thread |-> "none", outcome |-> "failed"]]

Step(c, stage) == check' = [check EXCEPT ![c].stage = stage]
Thread(c, thread) == probe' = [probe EXCEPT ![c].thread = thread]
-----------------------------------------------------------------------------
(* run: under the lock, a closed runner or a taken slot answers at once. *)
Admitted == ~closed /\ active = 0

Arrive(c) ==
  /\ check[c].stage = "none" /\ ~stopped
  /\ IF Admitted
     THEN /\ active' = active + 1
          /\ check' = [check EXCEPT ![c].stage = "admitted", ![c].wasUp = up]
     ELSE Step(c, "busy") /\ UNCHANGED active
  /\ UNCHANGED <<closed, stopped, up, probe>>

(* Thread.start raises when the process may not have more threads: the request
   fails with the slot taken. *)
Start(c) ==
  /\ check[c].stage = "admitted"
  /\ \/ Step(c, "waiting") /\ Thread(c, "running")
     \/ Step(c, "error") /\ UNCHANGED probe
  /\ UNCHANGED <<runner, stopped, up>>

(* _probe_database_readiness: any exception is an outcome. *)
AskDatabase(c) ==
  /\ probe[c].thread = "running"
  /\ \E o \in IF up THEN Outcomes ELSE {"failed"} :
       probe' = [probe EXCEPT ![c] = [thread |-> "asked", outcome |-> o]]
  /\ UNCHANGED <<runner, stopped, up, check>>

Released_OnlyReady(c) == IF probe[c].outcome = "ready" THEN active - 1 ELSE active
Released(c) == active - 1

Release(c) ==
  /\ probe[c].thread = "asked"
  /\ active' = Released(c)
  /\ Thread(c, "released")
  /\ UNCHANGED <<closed, stopped, up, check>>

(* call_soon_threadsafe(_deliver): a closed loop is no error, an answered request
   no longer looks at its future. *)
Recipients_Waiting(c) == {d \in Checks : check[d].stage = "waiting"}
Recipients(c) == IF check[c].stage = "waiting" THEN {c} ELSE {}

Deliver(c) ==
  /\ probe[c].thread = "released"
  /\ check' = [d \in Checks |->
                 IF d \in Recipients(c) /\ ~stopped
                 THEN [check[d] EXCEPT !.stage = "resumed", !.outcome = probe[c].outcome]
                 ELSE check[d]]
  /\ Thread(c, "ended")
  /\ UNCHANGED <<runner, stopped, up>>

Respond(c) ==
  /\ check[c].stage = "resumed"
  /\ Step(c, check[c].outcome)
  /\ UNCHANGED <<runner, stopped, up, probe>>

(* wait_for gives up after two seconds, whatever the thread does. *)
TimeOut_WhenDelivered(c) ==
  /\ check[c].stage = "resumed"
  /\ Step(c, "timeout")
  /\ UNCHANGED <<runner, stopped, up, probe>>
TimeOut(c) ==
  /\ check[c].stage \in {"waiting", "resumed"}
  /\ Step(c, "timeout")
  /\ UNCHANGED <<runner, stopped, up, probe>>
-----------------------------------------------------------------------------
Close ==
  /\ ~closed /\ closed' = TRUE
  /\ UNCHANGED <<active, stopped, up, check, probe>>

(* The server answers its requests and closes the loop; it does not wait for the
   thread. *)
Stop ==
  /\ closed /\ ~stopped
  /\ \A c \in Checks : check[c].stage \in {"none"} \cup Answers
  /\ stopped' = TRUE
  /\ UNCHANGED <<runner, up, check, probe>>

DatabaseChanges ==
  /\ up' = ~up
  /\ check' = [c \in Checks |->
                 IF check[c].stage \in Stages \ {"none"}
                 THEN [check[c] EXCEPT !.wasUp = TRUE] ELSE check[c]]
  /\ UNCHANGED <<runner, stopped, probe>>

Request(c) == Arrive(c) \/ Start(c) \/ Respond(c) \/ TimeOut(c)
Daemon(c) == AskDatabase(c) \/ Release(c) \/ Deliver(c)
ProbeNext == (\E c \in Checks : Request(c) \/ Daemon(c)) \/ Close \/ Stop \/ DatabaseChanges
ProbeSpec == ProbeInit /\ [][ProbeNext]_probeVars

(* The loop and the released thread go on; nothing says that the query ends. *)
ProbeFairSpec ==
  /\ ProbeSpec
  /\ \A c \in Checks : WF_probeVars(Start(c) \/ Respond(c) \/ TimeOut(c))
  /\ \A c \in Checks : WF_probeVars(Release(c) \/ Deliver(c))
-----------------------------------------------------------------------------
CheckType == [stage : Stages \cup Answers, outcome : Outcomes, wasUp : BOOLEAN]
ProbeType == [thread : Threads, outcome : Outcomes]
TypeOK ==
  /\ active \in 0..Cardinality(Checks)
  /\ closed \in BOOLEAN /\ stopped \in BOOLEAN /\ up \in BOOLEAN
  /\ check \in [Checks -> CheckType]
  /\ probe \in [Checks -> ProbeType]

Asking(c) == probe[c].thread \in {"running", "asked"}

(* However many requests meet, time out and come again, at most one thread asks
   the database ("only one daemon probe can be active", docs/architecture.md). *)
OneProbe == \A c, d \in Checks : Asking(c) /\ Asking(d) => c = d

(* "ready" is never the outcome of a probe that an earlier, abandoned request
   left behind: the database answered during this very request. *)
ReadyWasTrue == \A c \in Checks : check[c].stage = "ready" => check[c].wasUp

(* After shutdown began no request takes the slot. *)
ClosedAdmitsNothing == [][closed => active' <= active]_probeVars

(* Every admitted request is answered, also when its query never ends. *)
ChecksAnswered ==
  \A c \in Checks : check[c].stage = "admitted" ~> check[c].stage \in Answers

(* A query that ended, however it ended, gives the slot back. *)
SlotComesBack ==
  \A c \in Checks : probe[c].thread = "asked" ~> active = 0
=============================================================================
