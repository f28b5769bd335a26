---------------------------- MODULE ReportingSlots ----------------------------
(***************************************************************************)
(* Report reads and exports of ReportingRuntime (reporting_api.py): each   *)
(* kind has a bounded semaphore that is never waited for, a deadline that  *)
(* is checked when the work is over, and an export owns a private          *)
(* temporary file until its response has been streamed.                    *)
(***************************************************************************)
EXTENDS Integers, FiniteSets

CONSTANTS
  Reports, Exports,   \* requests of each kind
  MaxReports,         \* MAX_CONCURRENT_REPORTS
  MaxExports          \* MAX_CONCURRENT_EXPORTS

ASSUME RequestsAssumption == Reports \cap Exports = {} /\ IsFiniteSet(Reports \cup Exports)
ASSUME SlotsAssumption == MaxReports \in Nat \ {0} /\ MaxExports \in Nat \ {0}

VARIABLES
  free,     \* permits left of each semaphore
  request,  \* stage of each request
  files     \* exports whose temporary file exists

vars == <<free, request, files>>

Kinds == {"report", "export"}
Limit == [k \in Kinds |-> IF k = "report" THEN MaxReports ELSE MaxExports]
Requests == Reports \cup Exports
Kind(r) == IF r \in Reports THEN "report" ELSE "export"

Holding == {"held", "working", "worked", "overdue", "raised"}
Ended == {"answered", "busy", "timeout", "error"}
Stages == {"new", "returned", "streaming"} \cup Holding \cup Ended
Go(r, stage) == request' = [request EXCEPT ![r] = stage]

Init ==
  /\ free = Limit
  /\ request = [r \in Requests |-> "new"]
  /\ files = {}
-----------------------------------------------------------------------------
(* _slot: acquire(blocking=False), or reporting_busy. *)
Available(r) == free[Kind(r)] > 0

Acquire(r) ==
  /\ request[r] = "new"
  /\ IF Available(r)
     THEN Go(r, "held") /\ free' = [free EXCEPT ![Kind(r)] = @ - 1]
     ELSE Go(r, "busy") /\ UNCHANGED free
  /\ UNCHANGED files

(* An export creates its temporary inside the slot. *)
Begin(r) ==
  /\ request[r] = "held"
  /\ \/ Go(r, "working") /\ files' = IF r \in Exports THEN files \cup {r} ELSE files
     \/ Go(r, "raised") /\ UNCHANGED files
  /\ UNCHANGED free

(* Rendering ends, within the deadline or past it, or raises: then export removes
   its file before the slot sees the exception. *)
Removed_ByPrefix(r) == {}
Removed(r) == files \ {r}

Work(r) ==
  /\ request[r] = "working"
  /\ \/ Go(r, "worked") /\ UNCHANGED files
     \/ Go(r, "overdue") /\ UNCHANGED files
     \/ Go(r, "raised") /\ files' = Removed(r)
  /\ UNCHANGED free

(* The slot's finally: the permit goes back however the work ended. *)
Released_OnSuccess(r) ==
  IF request[r] = "worked" THEN [free EXCEPT ![Kind(r)] = @ + 1] ELSE free
Released(r) == [free EXCEPT ![Kind(r)] = @ + 1]

LeaveSlot(r) ==
  /\ request[r] \in {"worked", "overdue", "raised"}
  /\ free' = Released(r)
  /\ CASE request[r] = "worked" ->
            Go(r, IF r \in Exports THEN "returned" ELSE "answered")
       [] request[r] = "overdue" -> Go(r, "timeout")
       [] request[r] = "raised" -> Go(r, "error") \/ Go(r, "timeout")
  /\ UNCHANGED files

(* PrivateExportResponse: the file is opened and sent, and removed at the end,
   also when the client is gone. *)
Stream(r) ==
  /\ request[r] = "returned"
  /\ Go(r, "streaming")
  /\ UNCHANGED <<free, files>>

FinishStream(r) ==
  /\ request[r] = "streaming"
  /\ Go(r, "answered") \/ Go(r, "error")
  /\ files' = Removed(r)
  /\ UNCHANGED free

Step(r) ==
  Acquire(r) \/ Begin(r) \/ Work(r) \/ LeaveSlot(r) \/ Stream(r) \/ FinishStream(r)
Next == \E r \in Requests : Step(r)
Spec == Init /\ [][Next]_vars
-----------------------------------------------------------------------------
TypeOK ==
  /\ free \in [Kinds -> Nat]
  /\ request \in [Requests -> Stages]
  /\ files \subseteq Exports

Holders(k) == {r \in Requests : Kind(r) = k /\ request[r] \in Holding}

(* No permit is lost or returned twice, however a request ends: the ceiling of
   concurrent work stays what it is for the life of the process. *)
PermitsAreKept == \A k \in Kinds : free[k] + Cardinality(Holders(k)) = Limit[k]

(* reporting_busy is answered only while the ceiling of that very kind is in use:
   an export does not keep reports out. *)
BusyMeansBusy ==
  [][\A r \in Requests : request[r] = "new" /\ request'[r] = "busy" =>
       Cardinality(Holders(Kind(r))) = Limit[Kind(r)]]_vars

(* What is streamed is still there. *)
StreamedIsThere ==
  \A r \in Exports : request[r] \in {"returned", "streaming"} => r \in files

(* "Disconnect, timeout, limit, and rendering failures remove the owned temporary"
   (ADR 0004). *)
TemporariesRemoved == \A r \in files : request[r] \notin Ended
=============================================================================
