------------------------------ MODULE SyncUpload ------------------------------
(***************************************************************************)
(* The commands sync and upload-db (cli.py) sending snapshots to one       *)
(* collector through SyncClient (sync.py): capabilities are negotiated     *)
(* once, an upload is tried up to three times under one idempotency key    *)
(* when the collector keeps receipts and once when it does not.            *)
(*                                                                         *)
(* The network loses and delays: a request the client has given up, or     *)
(* that a gateway has answered for, may still reach the collector.  The    *)
(* collector executes a request as one step, which is what Ingestion shows *)
(* of ingest_snapshot, and its store keeps the highest version.            *)
(***************************************************************************)
EXTENDS Integers, Sequences, FiniteSets

CONSTANTS
  Commands,     \* running commands
  Plans,        \* what they may be asked to upload, and how
  MaxAttempts,  \* MAX_UPLOAD_ATTEMPTS
  Absent        \* "no value"

Providers == {"claude", "codex"}
Snapshot == [provider : Providers, version : Nat]
PlanType == [database : BOOLEAN, strict : BOOLEAN, snapshots : Seq(Snapshot) \ {<<>>}]

ASSUME PlansAssumption == Plans \subseteq [Commands -> PlanType]
ASSUME MaxAttemptsAssumption == MaxAttempts \in Nat \ {0}
ASSUME AbsentAssumption ==
  Absent \notin [of : Snapshot] \cup [command : Commands, at : Nat] \cup Nat

VARIABLES
  plan,      \* what each command uploads
  supports,  \* whether the collector keeps receipts
  runs,      \* its ingestion runs, in commit order
  stored,    \* the version it stores of each provider's conversations
  posts,     \* requests that may still reach it
  answers,   \* responses on their way to a client
  client     \* each command's progress

collector == <<supports, runs, stored>>
uploadVars == <<plan, collector, posts, answers, client>>

(* sync draws a key for each snapshot and keeps it over the attempts; upload-db
   derives it from the snapshot. *)
KeyOf_PerAttempt(p) == [command |-> p.command, at |-> p.at, attempt |-> p.attempt]
KeyOf(p) ==
  IF plan[p.command].database
  THEN [of |-> plan[p.command].snapshots[p.at]]
  ELSE [command |-> p.command, at |-> p.at]

(* One attempt of one upload. *)
ThisPost(c) == [command |-> c, at |-> client[c].at, attempt |-> client[c].attempt]

Attempts(c) == IF client[c].idempotent THEN MaxAttempts ELSE 1

Beginning ==
  [stage |-> "negotiate", checked |-> FALSE, idempotent |-> FALSE, at |-> 1,
   attempt |-> 1, outcomes |-> <<>>]

UploadInit ==
  /\ plan \in Plans
  /\ supports \in BOOLEAN
  /\ runs = <<>>
  /\ stored = [p \in Providers |-> 0]
  /\ posts = {}
  /\ answers = {}
  /\ client = [c \in Commands |-> Beginning]
-----------------------------------------------------------------------------
(* An upload has ended: go on with the next snapshot, stop, or be done.  What a
   strict upload-db did not try is reported as skipped. *)
Rest(c) ==
  [i \in 1..Len(plan[c].snapshots) - client[c].at |-> [status |-> "skipped", run |-> Absent]]
GivesUp(c, outcome) ==
  plan[c].database /\ plan[c].strict /\ outcome.status = "failed"

Last(c) == client[c].at = Len(plan[c].snapshots)

Conclude(c, outcome) ==
  LET outcomes == Append(client[c].outcomes, outcome)
      last == Last(c)
  IN  client' = [client EXCEPT
        ![c].outcomes = IF GivesUp(c, outcome) THEN outcomes \o Rest(c) ELSE outcomes,
        ![c].stage = IF last \/ GivesUp(c, outcome) THEN "done" ELSE "negotiate",
        ![c].at = IF last \/ GivesUp(c, outcome) THEN @ ELSE @ + 1,
        ![c].attempt = 1]

Abort(c) == client' = [client EXCEPT ![c].stage = "aborted"]

(* _negotiate_capabilities asks once; 404 and a collector that does not advertise
   receipts mean single attempts, which upload-db refuses before it posts. *)
Refused(c, keeps) == plan[c].database /\ ~keeps

Negotiate(c) ==
  /\ client[c].stage = "negotiate"
  /\ LET keeps == IF client[c].checked THEN client[c].idempotent ELSE supports
     IN  IF Refused(c, keeps)
         THEN Abort(c)
         ELSE client' = [client EXCEPT ![c].stage = "post", ![c].checked = TRUE,
                                       ![c].idempotent = keeps]
  /\ UNCHANGED <<plan, collector, posts, answers>>

(* The capabilities cannot be read: upload-db ends, sync gives this snapshot up
   and asks again for the next one. *)
NegotiationFails(c) ==
  /\ client[c].stage = "negotiate" /\ ~client[c].checked
  /\ IF plan[c].database THEN Abort(c)
     ELSE Conclude(c, [status |-> "failed", run |-> Absent])
  /\ UNCHANGED <<plan, collector, posts, answers>>

Send(c) ==
  /\ client[c].stage = "post"
  /\ posts' = posts \cup {ThisPost(c)}
  /\ client' = [client EXCEPT ![c].stage = "wait"]
  /\ UNCHANGED <<plan, collector, answers>>

(* A transport error or a 500, 502, 503 or 504: try again after the backoff, or
   report the upload as failed after the last attempt. *)
RetryOrFail_Forever(c) == client' = [client EXCEPT ![c].stage = "post"]
RetryOrFail(c) ==
  IF client[c].attempt < Attempts(c)
  THEN client' = [client EXCEPT ![c].attempt = @ + 1, ![c].stage = "post"]
  ELSE Conclude(c, [status |-> "failed", run |-> Absent])

Forget(c) == answers' = {a \in answers : a.post # ThisPost(c)}

TransportError(c) ==
  /\ client[c].stage = "wait"
  /\ RetryOrFail(c)
  /\ Forget(c)
  /\ UNCHANGED <<plan, collector, posts>>

Receive(c) ==
  /\ client[c].stage = "wait"
  /\ \E a \in answers :
       /\ a.post = ThisPost(c)
       /\ CASE a.status = "ok" -> Conclude(c, [status |-> "succeeded", run |-> a.run])
            [] a.status = "refused" -> Conclude(c, [status |-> "failed", run |-> Absent])
            [] a.status = "unavailable" -> RetryOrFail(c)
  /\ Forget(c)
  /\ UNCHANGED <<plan, collector, posts>>
-----------------------------------------------------------------------------
(* Only the attempt a client still waits for gets its answer through. *)
Answer(p, status, run) ==
  answers' = IF client[p.command].stage = "wait" /\ ThisPost(p.command) = p
             THEN answers \cup {[post |-> p, status |-> status, run |-> run]}
             ELSE answers

RunsOf(key) == {n \in 1..Len(runs) : runs[n].key = key}

(* POST /api/v1/snapshots: a known key answers its run, anything else is a new
   run; a collector without receipts does not look at the key. *)
StoredVersion_Latest(current, snapshot) == snapshot.version
StoredVersion(current, snapshot) ==
  IF snapshot.version > current THEN snapshot.version ELSE current

Execute(p) ==
  /\ p \in posts
  /\ posts' = posts \ {p}
  /\ LET snapshot == plan[p.command].snapshots[p.at]
         known == IF supports THEN RunsOf(KeyOf(p)) ELSE {}
         key == IF supports THEN KeyOf(p) ELSE Absent
     IN  IF known # {}
         THEN /\ Answer(p, "ok", CHOOSE n \in known : TRUE)
              /\ UNCHANGED <<runs, stored>>
         ELSE /\ runs' = Append(runs, [key |-> key, snapshot |-> snapshot,
                                       command |-> p.command, at |-> p.at])
              /\ stored' = [stored EXCEPT ![snapshot.provider] =
                              StoredVersion(@, snapshot)]
              /\ Answer(p, "ok", Len(runs) + 1)
  /\ UNCHANGED <<plan, supports, client>>

(* A 4xx: nothing is stored, and the client does not try again. *)
Refuse(p) ==
  /\ p \in posts
  /\ posts' = posts \ {p}
  /\ Answer(p, "refused", Absent)
  /\ UNCHANGED <<plan, collector, client>>

(* A 5xx from the collector, or from a gateway while the request goes on. *)
Unavailable(p) ==
  /\ p \in posts
  /\ posts' = posts \/ posts' = posts \ {p}
  /\ Answer(p, "unavailable", Absent)
  /\ UNCHANGED <<plan, collector, client>>

Drop(p) ==
  /\ p \in posts
  /\ posts' = posts \ {p}
  /\ UNCHANGED <<plan, collector, answers, client>>

(* The collector is deployed before its clients: receipts appear, never vanish. *)
UpgradeCollector ==
  /\ ~supports
  /\ supports' = TRUE
  /\ UNCHANGED <<plan, runs, stored, posts, answers, client>>

Client(c) ==
  Negotiate(c) \/ NegotiationFails(c) \/ Send(c) \/ TransportError(c) \/ Receive(c)

UploadNext ==
  \/ \E c \in Commands : Client(c)
  \/ \E p \in posts : Execute(p) \/ Refuse(p) \/ Unavailable(p) \/ Drop(p)
  \/ UpgradeCollector

UploadSpec == UploadInit /\ [][UploadNext]_uploadVars

(* Every request has the client's 60 s timeout, so a command never waits for ever. *)
UploadFairSpec == UploadSpec /\ \A c \in Commands : WF_uploadVars(Client(c))
-----------------------------------------------------------------------------

SameUpload(a, b) ==
  \/ a.command = b.command /\ a.at = b.at
  \/ /\ plan[a.command].database /\ plan[b.command].database
     /\ a.snapshot = b.snapshot

(* However its requests are lost, delayed and repeated, one upload is ingested
   at most once; so is one snapshot that upload-db commands send again (KeyOf). *)
UploadedOnce ==
  \A m, n \in 1..Len(runs) : SameUpload(runs[m], runs[n]) => m = n

(* A command reports success only for a run that ingested its own snapshot, and
   no request of anyone that arrives later takes the stored version back
   (Execute, Receive). *)
SuccessesAreStored ==
  \A c \in Commands : \A i \in 1..Len(client[c].outcomes) :
    LET outcome == client[c].outcomes[i]
        snapshot == plan[c].snapshots[i]
    IN  outcome.status = "succeeded" =>
          /\ outcome.run \in 1..Len(runs)
          /\ runs[outcome.run].snapshot = snapshot
          /\ stored[snapshot.provider] >= snapshot.version

(* A strict upload-db that has reported a failure has sent nothing of what comes
   after it, and never does (Conclude). *)
NothingAfterFailure ==
  \A c \in Commands : plan[c].database /\ plan[c].strict =>
    \A i \in 1..Len(client[c].outcomes) : client[c].outcomes[i].status = "failed" =>
      /\ \A p \in posts : p.command = c => p.at <= i
      /\ \A n \in 1..Len(runs) : runs[n].command = c => runs[n].at <= i

(* What a command reports is what has happened to its snapshots. *)
OutcomesAreTrue == SuccessesAreStored /\ NothingAfterFailure

(* Every command ends with one outcome for each snapshot, unless it was refused
   (RetryOrFail, Rest). *)
UploadsEnd ==
  \A c \in Commands :
    <>(\/ client[c].stage = "aborted"
       \/ /\ client[c].stage = "done"
          /\ Len(client[c].outcomes) = Len(plan[c].snapshots))
=============================================================================
