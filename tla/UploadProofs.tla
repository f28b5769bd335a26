------------------------------ MODULE UploadProofs ------------------------------
(***************************************************************************)
(* What SyncUpload promises, for any commands with any plans, any number   *)
(* of attempts and any collector that may be upgraded at any moment.       *)
(*                                                                         *)
(* Two different arguments make an upload unique.  Where the client knows  *)
(* that receipts are kept, every run of it carries its key, and a key has  *)
(* one run.  Where it does not, its single request is executed before      *)
(* there is any run of it, with or without a key.  The invariant has both, *)
(* and where a client is when its requests and its runs are behind it.     *)
(***************************************************************************)
EXTENDS SyncUpload, TLAPS

Keys == [of : Snapshot] \cup [command : Commands, at : Nat]
Run == [key : Keys \cup {Absent}, snapshot : Snapshot, command : Commands, at : Nat]
Post == [command : Commands, at : Nat, attempt : Nat]
MaybeRun == Nat \cup {Absent}
Stages == {"negotiate", "post", "wait", "done", "aborted"}
Outcome == [status : {"succeeded", "failed", "skipped"}, run : MaybeRun]
Progress ==
  [stage : Stages, checked : BOOLEAN, idempotent : BOOLEAN, at : Nat, attempt : Nat,
   outcomes : Seq(Outcome)]
Response == [post : Post, status : {"ok", "refused", "unavailable"}, run : MaybeRun]

TypeOK ==
  /\ plan \in [Commands -> PlanType]
  /\ supports \in BOOLEAN
  /\ runs \in Seq(Run)
  /\ stored \in [Providers -> Nat]
  /\ posts \subseteq Post
  /\ answers \subseteq Response
  /\ client \in [Commands -> Progress]

Uploads(c) == 1..Len(plan[c].snapshots)

(* An upload of which nothing has been sent yet. *)
Fresh(c) ==
  client[c].stage = "negotiate" \/ (client[c].stage = "post" /\ client[c].attempt = 1)

Progressing(c) ==
  /\ client[c].at \in Uploads(c)
  /\ client[c].attempt >= 1
  /\ ~client[c].idempotent => client[c].attempt = 1
  /\ client[c].idempotent => client[c].checked /\ supports
  /\ client[c].stage \in {"post", "wait"} =>
       client[c].checked /\ (plan[c].database => client[c].idempotent)
  /\ client[c].stage \in {"negotiate", "post", "wait"} =>
       Len(client[c].outcomes) = client[c].at - 1

(* Requests, and the runs they make, are of uploads their client has begun. *)
Begun(c, i) ==
  /\ i \in Uploads(c) /\ i <= client[c].at
  /\ Fresh(c) => i < client[c].at
  /\ client[c].checked
  /\ plan[c].database => client[c].idempotent

SameOrigin(x, y) == x.command = y.command /\ x.at = y.at

(* The only request of an upload without a key waits for the upload's first run. *)
Requested(p) ==
  /\ Begun(p.command, p.at)
  /\ ~client[p.command].idempotent =>
       p.attempt = 1 /\ \A n \in 1..Len(runs) : ~SameOrigin(runs[n], p)

Ingested(r) ==
  /\ Begun(r.command, r.at)
  /\ r.snapshot = plan[r.command].snapshots[r.at]
  /\ r.key \in {KeyOf(r), Absent}
  /\ r.key = Absent => ~client[r.command].idempotent
  /\ stored[r.snapshot.provider] >= r.snapshot.version

Distinct(m, n) ==
  /\ runs[m].key = runs[n].key /\ runs[m].key # Absent => m = n
  /\ SameOrigin(runs[m], runs[n]) /\ ~client[runs[m].command].idempotent => m = n

(* n is a run of upload i of command c. *)
RunOf(n, c, i) == n \in 1..Len(runs) /\ runs[n].snapshot = plan[c].snapshots[i]

Told(c) ==
  \A i \in 1..Len(client[c].outcomes) :
    client[c].outcomes[i].status = "succeeded" => RunOf(client[c].outcomes[i].run, c, i)

(* A strict upload-db has not gone on after a failure. *)
Unfailed(c) ==
  plan[c].database /\ plan[c].strict =>
    \A i \in 1..client[c].at - 1 : client[c].outcomes[i].status # "failed"

Truthful(a) == a.status = "ok" => RunOf(a.run, a.post.command, a.post.at)

IInv ==
  /\ TypeOK
  /\ \A c \in Commands : Progressing(c) /\ Told(c) /\ Unfailed(c)
  /\ \A p \in posts : Requested(p)
  /\ \A n \in 1..Len(runs) : Ingested(runs[n])
  /\ \A m, n \in 1..Len(runs) : Distinct(m, n)
  /\ \A a \in answers : Truthful(a)
-----------------------------------------------------------------------------
(* Keys name uploads: only requests for one snapshot share one. *)
LEMMA PlanTypes ==
  ASSUME TypeOK, NEW c \in Commands
  PROVE  /\ plan[c].database \in BOOLEAN /\ plan[c].strict \in BOOLEAN
         /\ plan[c].snapshots \in Seq(Snapshot) /\ Len(plan[c].snapshots) \in Nat \ {0}
         /\ \A i \in Uploads(c) : plan[c].snapshots[i] \in Snapshot
BY DEF TypeOK, PlanType, Uploads

LEMMA KeyTypes ==
  ASSUME TypeOK, NEW x, x.command \in Commands, x.at \in Uploads(x.command)
  PROVE  KeyOf(x) \in Keys /\ KeyOf(x) # Absent
<1>1. plan[x.command].snapshots[x.at] \in Snapshot /\ x.at \in Nat
  BY PlanTypes DEF Uploads
<1>2. KeyOf(x) \in Keys
  BY <1>1 DEF KeyOf, Keys
<1> QED
  BY <1>2, AbsentAssumption DEF Keys

LEMMA KeysNameUploads ==
  ASSUME TypeOK,
         NEW x, x.command \in Commands, x.at \in Uploads(x.command),
         NEW y, y.command \in Commands, y.at \in Uploads(y.command),
         KeyOf(x) = KeyOf(y)
  PROVE  plan[x.command].snapshots[x.at] = plan[y.command].snapshots[y.at]
<1>1. CASE plan[x.command].database /\ plan[y.command].database
  BY <1>1 DEF KeyOf
<1>2. CASE ~plan[x.command].database /\ ~plan[y.command].database
  <2>1. [command |-> x.command, at |-> x.at] = [command |-> y.command, at |-> y.at]
    BY <1>2 DEF KeyOf
  <2> QED
    BY <2>1
<1>3. ASSUME NEW snapshot, NEW c, NEW i
      PROVE  [of |-> snapshot] # [command |-> c, at |-> i]
  <2>1. DOMAIN [of |-> snapshot] = {"of"} /\ DOMAIN [command |-> c, at |-> i] = {"command", "at"}
    OBVIOUS
  <2> QED
    BY <2>1
<1> QED
  BY <1>1, <1>2, <1>3 DEF KeyOf
-----------------------------------------------------------------------------
(* One client moves on, and nobody else does. *)
Onward(c) ==
  /\ client' \in [Commands -> Progress]
  /\ \A d \in Commands : d # c => client'[d] = client[d]
  /\ client[c].checked =>
       client'[c].checked /\ client'[c].idempotent = client[c].idempotent
  /\ client'[c].at >= client[c].at
  /\ Fresh(c)' => Fresh(c) \/ client'[c].at > client[c].at
  /\ Progressing(c)' /\ Told(c)' /\ Unfailed(c)'

LEMMA MovesOn ==
  ASSUME IInv, NEW c \in Commands, Onward(c), UNCHANGED <<plan, collector>>,
         \A p \in posts' : p \in posts \/ (p \in Post /\ Requested(p)'),
         answers' \subseteq answers
  PROVE  IInv'
<1> USE DEF IInv
<1>1. TypeOK'
  BY DEF Onward, TypeOK, collector
<1>2. ASSUME NEW d \in Commands, NEW i, Begun(d, i)
      PROVE  Begun(d, i)' /\ client'[d].idempotent = client[d].idempotent
  <2>1. CASE d = c
    <3>1. i \in Nat /\ client[c] \in Progress /\ client'[c] \in Progress
      BY <1>2, <2>1, PlanTypes DEF Begun, Uploads, TypeOK, Onward
    <3>2. client[c].at \in Nat /\ client'[c].at \in Nat
      BY <3>1 DEF Progress
    <3>3. /\ client[c].checked /\ client'[c].checked
          /\ client'[c].idempotent = client[c].idempotent
      BY <1>2, <2>1 DEF Begun, Onward
    <3>4. i <= client'[c].at /\ (Fresh(c)' => i < client'[c].at)
      BY <1>2, <2>1, <3>1, <3>2 DEF Onward, Begun
    <3> QED
      BY <1>2, <2>1, <3>3, <3>4 DEF Begun, Uploads
  <2>2. CASE d # c
    <3>1. client'[d] = client[d]
      BY <2>2 DEF Onward
    <3> QED
      BY <1>2, <3>1 DEF Begun, Uploads, Fresh
  <2> QED
    BY <2>1, <2>2
<1>3. ASSUME NEW d \in Commands PROVE Progressing(d)' /\ Told(d)' /\ Unfailed(d)'
  <2>1. CASE d = c
    BY <2>1 DEF Onward
  <2>2. CASE d # c
    <3>1. client'[d] = client[d] /\ supports' = supports /\ runs' = runs
      BY <2>2 DEF Onward, collector
    <3> QED
      BY <3>1 DEF Progressing, Told, Unfailed, RunOf, Uploads
  <2> QED
    BY <2>1, <2>2
<1>4. ASSUME NEW p \in posts' PROVE Requested(p)'
  <2> SUFFICES ASSUME p \in posts PROVE Requested(p)'
    OBVIOUS
  <2>1. p.command \in Commands /\ Requested(p)
    BY DEF TypeOK, Post
  <2> QED
    BY <2>1, <1>2 DEF Requested, SameOrigin, collector
<1>5. ASSUME NEW n \in 1..Len(runs) PROVE Ingested(runs[n])'
  <2>1. runs[n].command \in Commands /\ Ingested(runs[n])
    <3>1. runs[n] \in Run
      BY <1>5 DEF TypeOK
    <3> QED
      BY <1>5, <3>1 DEF Run
  <2>2. KeyOf(runs[n])' = KeyOf(runs[n])
    BY DEF KeyOf, collector
  <2> QED
    BY <2>1, <2>2, <1>2 DEF Ingested, collector
<1>6. ASSUME NEW m \in 1..Len(runs), NEW n \in 1..Len(runs) PROVE Distinct(m, n)'
  <2>1. runs[m].command \in Commands /\ Ingested(runs[m]) /\ Distinct(m, n)
    <3>1. runs[m] \in Run
      BY <1>6 DEF TypeOK
    <3> QED
      BY <1>6, <3>1 DEF Run
  <2> QED
    BY <2>1, <1>2 DEF Distinct, Ingested, SameOrigin, collector
<1>7. ASSUME NEW a \in answers PROVE Truthful(a)'
  BY DEF Truthful, RunOf, collector
<1> QED
  BY <1>1, <1>3, <1>4, <1>5, <1>6, <1>7 DEF collector

(* An upload that ends leaves its outcome, and the outcomes of what a strict
   upload-db does not try. *)
LEMMA Reported ==
  ASSUME IInv, NEW c \in Commands, client[c].stage \in {"negotiate", "wait"},
         NEW outcome \in Outcome,
         outcome.status = "succeeded" => RunOf(outcome.run, c, client[c].at),
         Conclude(c, outcome), UNCHANGED <<plan, collector>>
  PROVE  Onward(c)
<1> DEFINE at == client[c].at
           total == Len(plan[c].snapshots)
           ends == Last(c) \/ GivesUp(c, outcome)
           said == Append(client[c].outcomes, outcome)
           outcomes == IF GivesUp(c, outcome) THEN said \o Rest(c) ELSE said
<1>1. client[c] \in Progress /\ Progressing(c) /\ Told(c) /\ client \in [Commands -> Progress]
  BY DEF IInv, TypeOK
<1>2. /\ at \in Nat /\ total \in Nat /\ at \in 1..total
      /\ client[c].outcomes \in Seq(Outcome) /\ Len(client[c].outcomes) = at - 1
  BY <1>1, PlanTypes DEF Progress, Progressing, IInv, Uploads
<1>3. /\ said \in Seq(Outcome) /\ Len(said) = at
      /\ said[at] = outcome /\ \A i \in 1..at - 1 : said[i] = client[c].outcomes[i]
  BY <1>2
<1>4. /\ Rest(c) \in Seq(Outcome) /\ Len(Rest(c)) = total - at
      /\ \A i \in 1..total - at : Rest(c)[i].status = "skipped"
  <2>1. [status |-> "skipped", run |-> Absent] \in Outcome
    BY DEF Outcome, MaybeRun
  <2>2. Rest(c) = [i \in 1..total - at |-> [status |-> "skipped", run |-> Absent]]
    BY DEF Rest
  <2>3. total - at \in Nat
    BY <1>2
  <2> HIDE DEF at, total
  <2> QED
    BY <2>1, <2>2, <2>3
<1>5. /\ outcomes \in Seq(Outcome) /\ Len(outcomes) >= at
      /\ ~GivesUp(c, outcome) => Len(outcomes) = at
      /\ \A i \in 1..at : outcomes[i] = said[i]
      /\ \A i \in 1..Len(outcomes) : i > at => outcomes[i].status = "skipped"
  <2> HIDE DEF at, total, said
  <2>1. CASE GivesUp(c, outcome)
    <3>1. outcomes = said \o Rest(c)
      BY <2>1
    <3> HIDE DEF outcomes
    <3> QED
      BY <1>2, <1>3, <1>4, <2>1, <3>1
  <2>2. CASE ~GivesUp(c, outcome)
    <3>1. outcomes = said
      BY <2>2
    <3> HIDE DEF outcomes
    <3> QED
      BY <1>2, <1>3, <2>2, <3>1
  <2> QED
    BY <2>1, <2>2
<1>6. client' = [client EXCEPT
        ![c] = [@ EXCEPT !.outcomes = outcomes,
                         !.stage = IF ends THEN "done" ELSE "negotiate",
                         !.at = IF ends THEN at ELSE at + 1,
                         !.attempt = 1]]
  BY <1>1 DEF Conclude, Progress
<1> HIDE DEF outcomes, ends, said
<1>7. /\ client' \in [Commands -> Progress]
      /\ \A d \in Commands : d # c => client'[d] = client[d]
      /\ client'[c].outcomes = outcomes /\ client'[c].attempt = 1
      /\ client'[c].stage = IF ends THEN "done" ELSE "negotiate"
      /\ client'[c].at = IF ends THEN at ELSE at + 1
      /\ client'[c].checked = client[c].checked
      /\ client'[c].idempotent = client[c].idempotent
  <2> DEFINE stage == IF ends THEN "done" ELSE "negotiate"
             next == IF ends THEN at ELSE at + 1
             moved == [client[c] EXCEPT !.outcomes = outcomes, !.stage = stage,
                                        !.at = next, !.attempt = 1]
  <2>1. stage \in Stages /\ next \in Nat
    BY <1>2 DEF Stages
  <2>2. client' = [client EXCEPT ![c] = moved]
    BY <1>6
  <2> HIDE DEF stage, next, at
  <2>3. /\ moved \in Progress
        /\ moved.outcomes = outcomes /\ moved.attempt = 1
        /\ moved.stage = stage /\ moved.at = next
        /\ moved.checked = client[c].checked
        /\ moved.idempotent = client[c].idempotent
    BY <1>1, <1>5, <2>1 DEF Progress
  <2> HIDE DEF moved
  <2>4. /\ client' \in [Commands -> Progress] /\ client'[c] = moved
        /\ \A d \in Commands : d # c => client'[d] = client[d]
    BY <1>1, <2>2, <2>3
  <2> QED
    BY <2>3, <2>4 DEF stage, next
<1>8. Progressing(c)'
  <2>1. ~ends => at < total /\ Len(outcomes) = at
    BY <1>2, <1>5 DEF ends, Last
  <2>2. client'[c].at \in 1..total
    BY <1>2, <1>7, <2>1
  <2>3. client'[c].stage = "negotiate" => Len(outcomes) = client'[c].at - 1
    BY <1>2, <1>7, <2>1
  <2> QED
    BY <1>1, <1>7, <2>2, <2>3 DEF Progressing, Uploads, collector
<1>9. Told(c)'
  <2> SUFFICES ASSUME NEW i \in 1..Len(outcomes), outcomes[i].status = "succeeded"
               PROVE  RunOf(outcomes[i].run, c, i)
    BY <1>7 DEF Told, RunOf, collector
  <2>1. CASE i < at
    <3>1. i \in 1..at - 1 /\ outcomes[i] = client[c].outcomes[i]
      BY <1>2, <1>3, <1>5, <2>1
    <3> QED
      BY <1>1, <1>2, <3>1 DEF Told
  <2>2. CASE i = at
    BY <1>2, <1>3, <1>5, <2>2
  <2>3. CASE i > at
    BY <1>5, <2>3
  <2> QED
    BY <1>2, <1>5, <2>1, <2>2, <2>3
<1>10. client'[c].at >= client[c].at /\ (Fresh(c)' => client'[c].at > client[c].at)
  BY <1>2, <1>7 DEF Fresh
<1>11. Unfailed(c)'
  <2> SUFFICES ASSUME plan[c].database, plan[c].strict, NEW i \in 1..client'[c].at - 1
               PROVE  outcomes[i].status # "failed"
    BY <1>7 DEF Unfailed
  <2>1. CASE i < at
    <3>1. i \in 1..at - 1 /\ outcomes[i] = client[c].outcomes[i]
      BY <1>2, <1>3, <1>5, <2>1
    <3> QED
      BY <3>1 DEF IInv, Unfailed
  <2>2. CASE ~(i < at)
    <3>1. i = at /\ ~ends
      BY <1>2, <1>7, <2>2
    <3>2. outcomes[i] = outcome
      BY <1>2, <1>3, <1>5, <3>1
    <3> QED
      BY <3>1, <3>2 DEF ends, GivesUp
  <2> QED
    BY <2>1, <2>2
<1> QED
  BY <1>7, <1>8, <1>9, <1>10, <1>11 DEF Onward

LEMMA Changed ==
  ASSUME IInv, NEW c \in Commands, NEW moved \in Progress, client' = [client EXCEPT ![c] = moved],
         UNCHANGED <<plan, collector>>,
         moved.outcomes = client[c].outcomes, moved.at = client[c].at,
         client[c].checked => moved.checked /\ moved.idempotent = client[c].idempotent,
         moved.stage # "negotiate",
         moved.stage = "post" /\ moved.attempt = 1 => Fresh(c),
         Progressing(c)'
  PROVE  Onward(c)
<1>1. /\ client' \in [Commands -> Progress] /\ client'[c] = moved
      /\ \A d \in Commands : d # c => client'[d] = client[d]
  BY DEF IInv, TypeOK
<1>2. client'[c].at >= client[c].at
  BY <1>1 DEF IInv, TypeOK, Progress
<1>3. Told(c)'
  BY <1>1 DEF Told, IInv, RunOf, collector
<1>4. Fresh(c)' => Fresh(c)
  BY <1>1 DEF Fresh
<1>5. Unfailed(c)'
  BY <1>1 DEF Unfailed, IInv
<1> QED
  BY <1>1, <1>2, <1>3, <1>4, <1>5 DEF Onward

LEMMA Aborted ==
  ASSUME IInv, NEW c \in Commands, Abort(c), UNCHANGED <<plan, collector>>
  PROVE  Onward(c)
<1> DEFINE moved == [client[c] EXCEPT !.stage = "aborted"]
<1>1. client[c] \in Progress /\ Progressing(c) /\ client \in [Commands -> Progress]
  BY DEF IInv, TypeOK
<1>2. /\ client' = [client EXCEPT ![c] = moved] /\ moved \in Progress
      /\ moved = [client[c] EXCEPT !.stage = "aborted"]
  BY <1>1 DEF Abort, Progress, Stages
<1>3. /\ moved.outcomes = client[c].outcomes /\ moved.at = client[c].at
      /\ moved.checked = client[c].checked /\ moved.idempotent = client[c].idempotent
      /\ moved.stage = "aborted" /\ moved.attempt = client[c].attempt
  BY <1>1 DEF Progress
<1> HIDE DEF moved
<1>4. client'[c] = moved
  BY <1>1, <1>2
<1>5. Progressing(c)'
  BY <1>1, <1>3, <1>4 DEF Progressing, Uploads, collector
<1> QED
  BY <1>2, <1>3, <1>5, Changed

LEMMA NegotiateKeeps ==
  ASSUME IInv, NEW c \in Commands, Negotiate(c)
  PROVE  IInv'
<1> DEFINE keeps == IF client[c].checked THEN client[c].idempotent ELSE supports
           moved == [client[c] EXCEPT !.stage = "post", !.checked = TRUE, !.idempotent = keeps]
<1>1. client[c] \in Progress /\ Progressing(c) /\ client \in [Commands -> Progress]
  BY DEF IInv, TypeOK
<1>2. UNCHANGED <<plan, collector, posts>> /\ answers' \subseteq answers
  BY DEF Negotiate
<1>3. CASE Refused(c, keeps)
  BY <1>2, <1>3, Aborted, MovesOn DEF Negotiate
<1>4. CASE ~Refused(c, keeps)
  <2>1. keeps \in BOOLEAN
    BY <1>1 DEF Progress, IInv, TypeOK
  <2>2. keeps => supports
    BY <1>1 DEF Progressing
  <2>3. ~client[c].checked => client[c].attempt = 1
    BY <1>1 DEF Progressing, Progress
  <2>4. /\ plan[c].database => keeps
        /\ client[c].checked => keeps = client[c].idempotent
    BY <1>4 DEF Refused
  <2>5. client' = [client EXCEPT ![c] = moved] /\ client[c].stage = "negotiate"
    BY <1>1, <1>4 DEF Negotiate
  <2> HIDE DEF keeps
  <2>6. /\ moved \in Progress
        /\ moved.outcomes = client[c].outcomes /\ moved.at = client[c].at
        /\ moved.checked /\ moved.idempotent = keeps
        /\ moved.stage = "post" /\ moved.attempt = client[c].attempt
    BY <1>1, <2>1 DEF Progress, Stages
  <2> HIDE DEF moved
  <2>7. client'[c] = moved
    BY <1>1, <2>5
  <2>8. Progressing(c)'
    BY <1>1, <1>2, <2>2, <2>3, <2>4, <2>5, <2>6, <2>7 DEF Progressing, Uploads, collector
  <2>9. Onward(c)
    BY <1>2, <2>4, <2>5, <2>6, <2>8, Changed DEF Fresh
  <2> QED
    BY <1>2, <2>9, MovesOn
<1> QED
  BY <1>3, <1>4

LEMMA NegotiationFailsKeeps ==
  ASSUME IInv, NEW c \in Commands, NegotiationFails(c)
  PROVE  IInv'
<1>1. UNCHANGED <<plan, collector, posts>> /\ answers' \subseteq answers
  BY DEF NegotiationFails
<1>2. [status |-> "failed", run |-> Absent] \in Outcome
  BY DEF Outcome, MaybeRun
<1>3. Onward(c)
  BY <1>1, <1>2, Aborted, Reported DEF NegotiationFails
<1> QED
  BY <1>1, <1>3, MovesOn

LEMMA TriesAgain ==
  ASSUME IInv, NEW c \in Commands, client[c].stage = "wait", RetryOrFail(c),
         UNCHANGED <<plan, collector>>
  PROVE  Onward(c)
<1>1. client[c] \in Progress /\ Progressing(c) /\ client \in [Commands -> Progress]
  BY DEF IInv, TypeOK
<1>2. CASE client[c].attempt < Attempts(c)
  <2> DEFINE next == client[c].attempt + 1
             moved == [client[c] EXCEPT !.attempt = next, !.stage = "post"]
  <2>1. client' = [client EXCEPT ![c] = moved]
    BY <1>1, <1>2 DEF RetryOrFail
  <2>2. client[c].attempt \in Nat /\ client[c].attempt >= 1 /\ client[c].idempotent
    BY <1>1, <1>2 DEF Progressing, Progress, Attempts
  <2>3. next \in Nat /\ next >= 1 /\ next # 1
    BY <2>2
  <2> HIDE DEF next
  <2>4. /\ moved \in Progress
        /\ moved.outcomes = client[c].outcomes /\ moved.at = client[c].at
        /\ moved.checked = client[c].checked /\ moved.idempotent = client[c].idempotent
        /\ moved.stage = "post" /\ moved.attempt = next
    BY <1>1, <2>3 DEF Progress, Stages
  <2> HIDE DEF moved
  <2>5. client'[c] = moved
    BY <1>1, <2>1
  <2>6. Progressing(c)'
    BY <1>1, <2>2, <2>3, <2>4, <2>5 DEF Progressing, Uploads, collector
  <2> QED
    BY <2>1, <2>3, <2>4, <2>6, Changed
<1>3. CASE ~(client[c].attempt < Attempts(c))
  <2>1. [status |-> "failed", run |-> Absent] \in Outcome
    BY DEF Outcome, MaybeRun
  <2> QED
    BY <1>3, <2>1, Reported DEF RetryOrFail
<1> QED
  BY <1>2, <1>3

LEMMA TransportErrorKeeps ==
  ASSUME IInv, NEW c \in Commands, TransportError(c)
  PROVE  IInv'
BY TriesAgain, MovesOn DEF TransportError, Forget

(* An answer that gets through is about the upload the client is at. *)
LEMMA ReceiveKeeps ==
  ASSUME IInv, NEW c \in Commands, Receive(c)
  PROVE  IInv'
<1>1. UNCHANGED <<plan, collector, posts>> /\ answers' \subseteq answers
  BY DEF Receive, Forget
<1>2. PICK a \in answers :
        /\ a.post = ThisPost(c)
        /\ CASE a.status = "ok" -> Conclude(c, [status |-> "succeeded", run |-> a.run])
             [] a.status = "refused" -> Conclude(c, [status |-> "failed", run |-> Absent])
             [] a.status = "unavailable" -> RetryOrFail(c)
  BY DEF Receive
<1>3. a \in Response /\ Truthful(a) /\ client[c].stage = "wait"
  BY DEF IInv, TypeOK, Receive
<1>4. CASE a.status = "ok"
  <2>1. [status |-> "succeeded", run |-> a.run] \in Outcome
    BY <1>3 DEF Outcome, Response
  <2>2. RunOf(a.run, c, client[c].at)
    BY <1>2, <1>3, <1>4 DEF Truthful, ThisPost
  <2>3. Conclude(c, [status |-> "succeeded", run |-> a.run])
    BY <1>2, <1>4
  <2> QED
    BY <1>1, <1>3, <2>1, <2>2, <2>3, Reported, MovesOn
<1>5. CASE a.status = "refused"
  <2>1. [status |-> "failed", run |-> Absent] \in Outcome
    BY DEF Outcome, MaybeRun
  <2>2. Conclude(c, [status |-> "failed", run |-> Absent])
    BY <1>2, <1>5
  <2> QED
    BY <1>1, <1>3, <2>1, <2>2, Reported, MovesOn
<1>6. CASE a.status = "unavailable"
  <2>1. RetryOrFail(c)
    BY <1>2, <1>6
  <2> QED
    BY <1>1, <1>3, <2>1, TriesAgain, MovesOn
<1> QED
  BY <1>3, <1>4, <1>5, <1>6 DEF Response
LEMMA ThisPostType ==
  ASSUME TypeOK, NEW c \in Commands
  PROVE  /\ ThisPost(c) \in Post /\ ThisPost(c).command = c
         /\ ThisPost(c).at = client[c].at /\ ThisPost(c).attempt = client[c].attempt
BY DEF ThisPost, Post, TypeOK, Progress

LEMMA SendKeeps ==
  ASSUME IInv, NEW c \in Commands, Send(c)
  PROVE  IInv'
<1> DEFINE moved == [client[c] EXCEPT !.stage = "wait"]
<1>1. client[c] \in Progress /\ Progressing(c) /\ client \in [Commands -> Progress]
  BY DEF IInv, TypeOK
<1>2. /\ client' = [client EXCEPT ![c] = moved] /\ client[c].stage = "post"
      /\ posts' = posts \cup {ThisPost(c)} /\ UNCHANGED <<plan, collector>>
      /\ answers' = answers
  BY <1>1 DEF Send
<1>3. /\ moved \in Progress
      /\ moved.outcomes = client[c].outcomes /\ moved.at = client[c].at
      /\ moved.checked = client[c].checked /\ moved.idempotent = client[c].idempotent
      /\ moved.stage = "wait" /\ moved.attempt = client[c].attempt
  BY <1>1 DEF Progress, Stages
<1> HIDE DEF moved
<1>4. client'[c] = moved /\ \A d \in Commands : d # c => client'[d] = client[d]
  BY <1>1, <1>2
<1>5. Progressing(c)'
  BY <1>1, <1>2, <1>3, <1>4 DEF Progressing, Uploads, collector
<1>6. Onward(c)
  BY <1>2, <1>3, <1>5, Changed
<1>7. PICK p \in Post :
        /\ p = ThisPost(c)
        /\ p.command = c /\ p.at = client[c].at /\ p.attempt = client[c].attempt
  BY ThisPostType DEF IInv
<1>8. Requested(p)'
  <2>1. client[c].at \in Nat /\ client[c].attempt \in Nat
    BY <1>1 DEF Progress
  <2>2. Begun(c, client[c].at)'
    BY <1>1, <1>2, <1>3, <1>4, <2>1 DEF Begun, Progressing, Fresh, Uploads, collector
  <2>3. ASSUME ~client[c].idempotent, NEW n \in 1..Len(runs) PROVE ~SameOrigin(runs[n], p)
    <3>1. Fresh(c)
      BY <1>1, <1>2, <2>3 DEF Progressing, Fresh
    <3>2. runs[n].command = c => runs[n].at < client[c].at
      BY <3>1 DEF IInv, Ingested, Begun
    <3> QED
      BY <1>7, <2>1, <3>2 DEF SameOrigin
  <2> QED
    BY <1>1, <1>2, <1>3, <1>4, <1>7, <2>2, <2>3 DEF Requested, Progressing, SameOrigin, collector
<1> QED
  BY <1>2, <1>6, <1>7, <1>8, MovesOn-----------------------------------------------------------------------------
(* A request that is lost, refused, answered for by a gateway, or known: nothing
   is stored. *)
LEMMA NothingIngested ==
  ASSUME IInv, UNCHANGED <<plan, collector, client>>, posts' \subseteq posts,
         \A a \in answers' : a \in answers \/ (a \in Response /\ Truthful(a))
  PROVE  IInv'
<1> USE DEF IInv
<1>1. TypeOK'
  BY DEF TypeOK, collector
<1>2. \A c \in Commands : Progressing(c)' /\ Told(c)' /\ Unfailed(c)'
  BY DEF Progressing, Uploads, Told, Unfailed, RunOf, collector
<1>3. \A c \in Commands : \A i : Begun(c, i) => Begun(c, i)'
  BY DEF Begun, Uploads, Fresh
<1>4. ASSUME NEW p \in posts' PROVE Requested(p)'
  BY <1>3 DEF Requested, SameOrigin, collector, TypeOK, Post
<1>5. ASSUME NEW n \in 1..Len(runs) PROVE Ingested(runs[n])' /\ runs'[n] = runs[n]
  <2>1. runs[n].command \in Commands /\ Ingested(runs[n]) /\ runs' = runs
    <3>1. runs[n] \in Run
      BY <1>5 DEF TypeOK
    <3> QED
      BY <1>5, <3>1 DEF Run, collector
  <2> QED
    BY <1>3, <2>1 DEF Ingested, KeyOf, collector
<1>6. \A m, n \in 1..Len(runs) : Distinct(m, n)'
  BY DEF Distinct, SameOrigin, collector
<1>7. \A a \in answers' : Truthful(a)'
  BY DEF Truthful, RunOf, collector
<1>8. runs' = runs
  BY DEF collector
<1> QED
  BY <1>1, <1>2, <1>4, <1>5, <1>6, <1>7, <1>8

(* Whoever asks what the collector did reads this of its answer. *)
LEMMA AnswerAdds ==
  ASSUME NEW p \in Post, NEW status \in {"ok", "refused", "unavailable"}, NEW run \in MaybeRun,
         Answer(p, status, run)
  PROVE  \A a \in answers' :
           \/ a \in answers
           \/ a \in Response /\ a.post = p /\ a.status = status /\ a.run = run
BY DEF Answer, Response

LEMMA LostKeeps ==
  ASSUME IInv, NEW p \in posts, Refuse(p) \/ Unavailable(p) \/ Drop(p)
  PROVE  IInv'
<1>1. p \in Post /\ Absent \in MaybeRun
  BY DEF IInv, TypeOK, MaybeRun
<1>2. CASE Refuse(p)
  BY <1>1, <1>2, AnswerAdds, NothingIngested DEF Refuse, Truthful
<1>3. CASE Unavailable(p)
  BY <1>1, <1>3, AnswerAdds, NothingIngested DEF Unavailable, Truthful
<1>4. CASE Drop(p)
  BY <1>4, NothingIngested DEF Drop
<1> QED
  BY <1>2, <1>3, <1>4

LEMMA UpgradeKeeps ==
  ASSUME IInv, UpgradeCollector
  PROVE  IInv'
<1> USE DEF IInv
<1>1. /\ UNCHANGED <<plan, runs, stored, posts, answers, client>> /\ supports'
      /\ supports' = TRUE
  BY DEF UpgradeCollector
<1>2. TypeOK'
  BY <1>1 DEF TypeOK
<1>3. \A c \in Commands : Progressing(c)' /\ Told(c)' /\ Unfailed(c)'
  BY <1>1 DEF Progressing, Uploads, Told, Unfailed, RunOf
<1>4. \A c \in Commands : \A i : Begun(c, i) => Begun(c, i)'
  BY <1>1 DEF Begun, Uploads, Fresh
<1>5. ASSUME NEW p \in posts PROVE Requested(p)'
  BY <1>1, <1>4 DEF Requested, SameOrigin, TypeOK, Post
<1>6. ASSUME NEW n \in 1..Len(runs) PROVE Ingested(runs[n])'
  <2>1. runs[n].command \in Commands /\ Ingested(runs[n])
    <3>1. runs[n] \in Run
      BY <1>6 DEF TypeOK
    <3> QED
      BY <1>6, <3>1 DEF Run
  <2> QED
    BY <1>1, <1>4, <2>1 DEF Ingested, KeyOf
<1>7. \A m, n \in 1..Len(runs) : Distinct(m, n)'
  BY <1>1 DEF Distinct, SameOrigin
<1>8. \A a \in answers : Truthful(a)'
  BY <1>1 DEF Truthful, RunOf
<1> QED
  BY <1>1, <1>2, <1>3, <1>5, <1>6, <1>7, <1>8-----------------------------------------------------------------------------
(* A run that has the key of a request ingested the same snapshot. *)
LEMMA KnownRun ==
  ASSUME IInv, NEW p \in posts, NEW n \in RunsOf(KeyOf(p))
  PROVE  RunOf(n, p.command, p.at) /\ n \in MaybeRun
<1>1. n \in 1..Len(runs) /\ n \in Nat /\ runs[n].key = KeyOf(p) /\ Ingested(runs[n])
  BY DEF RunsOf, IInv, TypeOK
<1>2. runs[n] \in Run /\ p \in Post
  BY <1>1 DEF IInv, TypeOK
<1>3. /\ runs[n].command \in Commands /\ p.command \in Commands
      /\ runs[n].at \in Uploads(runs[n].command) /\ p.at \in Uploads(p.command)
  BY <1>1, <1>2 DEF Run, Post, Ingested, Begun, IInv, Requested
<1>4. KeyOf(p) # Absent
  BY <1>3, KeyTypes DEF IInv
<1>5. KeyOf(runs[n]) = KeyOf(p)
  BY <1>1, <1>4 DEF Ingested
<1>6. plan[runs[n].command].snapshots[runs[n].at] = plan[p.command].snapshots[p.at]
  BY <1>3, <1>5, KeysNameUploads DEF IInv
<1> QED
  BY <1>1, <1>6 DEF Ingested, RunOf, MaybeRun

(* A snapshot leaves the version of its provider at least at its own and at the old one. *)
LEMMA VersionsGrow ==
  ASSUME NEW old \in [Providers -> Nat], NEW new, NEW s \in Snapshot,
         new = [old EXCEPT ![s.provider] = StoredVersion(@, s)]
  PROVE  /\ new \in [Providers -> Nat]
         /\ \A q \in Providers : new[q] >= old[q]
         /\ new[s.provider] >= s.version
<1> DEFINE version == StoredVersion(old[s.provider], s)
<1>1. s.provider \in Providers /\ s.version \in Nat /\ old[s.provider] \in Nat
  BY DEF Snapshot
<1>2. version \in Nat /\ version >= s.version /\ version >= old[s.provider]
  BY <1>1 DEF StoredVersion
<1>3. new = [old EXCEPT ![s.provider] = version]
  OBVIOUS
<1> HIDE DEF version
<1>4. /\ new \in [Providers -> Nat] /\ new[s.provider] = version
      /\ \A q \in Providers : q # s.provider => new[q] = old[q]
  BY <1>1, <1>2, <1>3
<1>5. ASSUME NEW q \in Providers PROVE new[q] >= old[q]
  BY <1>2, <1>4
<1> QED
  BY <1>2, <1>4, <1>5

(* A new run is the first with its key, or the only one of a single request. *)
LEMMA NewRun ==
  ASSUME IInv, NEW p \in posts, NEW r, posts' = posts \ {p},
         r = [key |-> IF supports THEN KeyOf(p) ELSE Absent,
              snapshot |-> plan[p.command].snapshots[p.at],
              command |-> p.command, at |-> p.at],
         supports => RunsOf(KeyOf(p)) = {},
         runs' = Append(runs, r),
         stored' = [stored EXCEPT ![r.snapshot.provider] = StoredVersion(@, r.snapshot)],
         Answer(p, "ok", Len(runs) + 1),
         UNCHANGED <<plan, supports, client>>
  PROVE  IInv'
<1> DEFINE last == Len(runs) + 1
<1>1. p \in Post /\ p.command \in Commands /\ p.at \in Uploads(p.command) /\ Requested(p)
  BY DEF IInv, TypeOK, Post, Requested, Begun
<1>2. KeyOf(p) \in Keys /\ KeyOf(p) # Absent /\ p.at \in Nat
  BY <1>1, KeyTypes DEF IInv, Post
<1>3. plan[p.command].snapshots[p.at] \in Snapshot
  BY <1>1, PlanTypes DEF IInv
<1>4. /\ r \in Run /\ r.snapshot \in Snapshot /\ r.command = p.command /\ r.at = p.at
      /\ r.key = (IF supports THEN KeyOf(p) ELSE Absent)
      /\ r.snapshot = plan[p.command].snapshots[p.at]
  BY <1>1, <1>2, <1>3 DEF Run
<1>5. /\ Len(runs) \in Nat /\ last \in Nat /\ runs \in Seq(Run)
      /\ runs' \in Seq(Run) /\ Len(runs') = last /\ runs'[last] = r
      /\ \A n \in 1..Len(runs) : runs'[n] = runs[n] /\ runs[n] \in Run
      /\ \A n \in 1..last : n # last => n \in 1..Len(runs)
  BY <1>4 DEF IInv, TypeOK
<1>6. /\ stored' \in [Providers -> Nat]
      /\ \A q \in Providers : stored'[q] >= stored[q]
      /\ stored'[r.snapshot.provider] >= r.snapshot.version
  <2>1. stored \in [Providers -> Nat]
    BY DEF IInv, TypeOK
  <2> QED
    BY <1>4, <2>1, VersionsGrow
<1> HIDE DEF last
<1>7. answers' \subseteq Response /\ \A a \in answers' :
        a \in answers \/ (a.post = p /\ a.run = last)
  <2>1. last \in MaybeRun /\ Answer(p, "ok", last)
    BY <1>5 DEF MaybeRun, last
  <2> QED
    BY <1>1, <2>1, AnswerAdds DEF IInv, TypeOK
<1>8. TypeOK'
  BY <1>5, <1>6, <1>7 DEF IInv, TypeOK
<1>9. ASSUME NEW c \in Commands, NEW i, NEW n, RunOf(n, c, i) PROVE RunOf(n, c, i)'
  BY <1>5, <1>9 DEF RunOf
<1>10. ASSUME NEW c \in Commands PROVE Progressing(c)' /\ Told(c)' /\ Unfailed(c)'
  BY <1>9 DEF IInv, Progressing, Uploads, Told, Unfailed
<1>11. ASSUME NEW c, NEW i, Begun(c, i) PROVE Begun(c, i)'
  BY <1>11 DEF Begun, Uploads, Fresh
<1>12. ASSUME NEW q \in posts' PROVE Requested(q)'
  <2>1. q \in Post /\ q # p /\ Requested(q)
    BY DEF IInv, TypeOK
  <2>2. ~client[q.command].idempotent => ~SameOrigin(r, q)
    <3> SUFFICES ASSUME ~client[q.command].idempotent, r.command = q.command, r.at = q.at
                 PROVE  FALSE
      BY DEF SameOrigin
    <3>1. q.attempt = 1 /\ p.attempt = 1 /\ q.command = p.command /\ q.at = p.at
      BY <1>1, <1>4, <2>1 DEF Requested
    <3> QED
      BY <1>1, <2>1, <3>1 DEF Post
  <2>3. ASSUME ~client[q.command].idempotent, NEW n \in 1..last
        PROVE  ~SameOrigin(runs'[n], q)
    BY <1>5, <2>1, <2>2, <2>3 DEF Requested
  <2> QED
    BY <1>5, <1>11, <2>1, <2>3 DEF Requested, SameOrigin
<1>13. ASSUME NEW n \in 1..last PROVE Ingested(runs[n])'
  <2>1. CASE n = last
    <3>1. supports \/ ~client[p.command].idempotent
      BY <1>1 DEF IInv, Progressing
    <3>2. runs'[n] = r /\ KeyOf(runs[n])' = KeyOf(p)
      <4>1. runs'[n] = r
        BY <1>5, <2>1
      <4> QED
        BY <1>4, <4>1 DEF KeyOf
    <3> QED
      BY <1>1, <1>2, <1>4, <1>6, <1>11, <3>1, <3>2 DEF Ingested, Requested
  <2>2. CASE n # last
    <3>1. /\ runs'[n] = runs[n] /\ Ingested(runs[n])
          /\ runs[n].snapshot \in Snapshot /\ runs[n].command \in Commands
      BY <1>5, <2>2 DEF IInv, Run
    <3>2. /\ runs[n].snapshot.provider \in Providers /\ runs[n].snapshot.version \in Nat
          /\ stored[runs[n].snapshot.provider] >= runs[n].snapshot.version
      BY <3>1 DEF Ingested, Snapshot
    <3>3. /\ stored[runs[n].snapshot.provider] \in Nat
          /\ stored'[runs[n].snapshot.provider] \in Nat
          /\ stored'[runs[n].snapshot.provider] >= stored[runs[n].snapshot.provider]
      BY <1>6, <3>2 DEF IInv, TypeOK
    <3>4. stored'[runs[n].snapshot.provider] >= runs[n].snapshot.version
      <4>1. ASSUME NEW x \in Nat, NEW y \in Nat, NEW z \in Nat, x >= y, y >= z PROVE x >= z
        BY <4>1
      <4> QED
        BY <3>2, <3>3, <4>1
    <3>5. KeyOf(runs[n])' = KeyOf(runs[n])
      BY <3>1 DEF KeyOf
    <3> QED
      BY <1>11, <3>1, <3>4, <3>5 DEF Ingested
  <2> QED
    BY <2>1, <2>2
<1>14. ASSUME NEW m \in 1..last, NEW n \in 1..last PROVE Distinct(m, n)'
  <2>1. ASSUME NEW k \in 1..Len(runs)
        PROVE  /\ runs[k].key = r.key => r.key = Absent
               /\ SameOrigin(runs[k], r) => client[p.command].idempotent
    <3>1. runs[k].key = r.key => r.key = Absent
      BY <1>4 DEF RunsOf
    <3>2. SameOrigin(runs[k], r) => client[p.command].idempotent
      BY <1>1, <1>4 DEF Requested, SameOrigin
    <3> QED
      BY <3>1, <3>2
  <2>2. CASE m # last /\ n # last
    BY <1>5, <2>2 DEF IInv, Distinct, SameOrigin
  <2>3. CASE m = last /\ n # last
    BY <1>4, <1>5, <2>1, <2>3 DEF Distinct, SameOrigin
  <2>4. CASE m # last /\ n = last
    BY <1>4, <1>5, <2>1, <2>4 DEF Distinct, SameOrigin
  <2> QED
    BY <2>2, <2>3, <2>4 DEF Distinct
<1>15. ASSUME NEW a \in answers' PROVE Truthful(a)'
  <2>1. CASE a \in answers
    <3>1. Truthful(a) /\ a.post.command \in Commands
      BY <2>1 DEF IInv, TypeOK, Response, Post
    <3> QED
      BY <1>9, <3>1 DEF Truthful
  <2>2. CASE a.post = p /\ a.run = last
    BY <1>4, <1>5, <2>2 DEF Truthful, RunOf
  <2> QED
    BY <1>7, <2>1, <2>2
<1>16. /\ \A c \in Commands : Progressing(c)' /\ Told(c)' /\ Unfailed(c)'
       /\ \A q \in posts' : Requested(q)'
       /\ \A a \in answers' : Truthful(a)'
  BY <1>10, <1>12, <1>15
<1>17. /\ \A n \in 1..Len(runs') : Ingested(runs[n])'
       /\ \A m, n \in 1..Len(runs') : Distinct(m, n)'
  BY <1>5, <1>13, <1>14
<1> QED
  BY <1>8, <1>16, <1>17 DEF IInv
LEMMA ExecuteKeeps ==
  ASSUME IInv, NEW p \in posts, Execute(p)
  PROVE  IInv'
<1> DEFINE known == IF supports THEN RunsOf(KeyOf(p)) ELSE {}
<1>1. p \in Post /\ posts' \subseteq posts /\ UNCHANGED <<plan, supports, client>>
  BY DEF Execute, IInv, TypeOK
<1>2. CASE known # {}
  <2>1. PICK n \in known : n = CHOOSE k \in known : TRUE
    BY <1>2
  <2>2. Answer(p, "ok", n) /\ UNCHANGED <<runs, stored>>
    BY <1>2, <2>1 DEF Execute
  <2>3. RunOf(n, p.command, p.at) /\ n \in MaybeRun
    BY <2>1, KnownRun
  <2>4. \A a \in answers' : a \in answers \/ (a \in Response /\ Truthful(a))
    BY <1>1, <2>2, <2>3, AnswerAdds DEF Truthful
  <2> QED
    BY <1>1, <2>2, <2>4, NothingIngested DEF collector
<1>3. CASE known = {}
  <2> DEFINE r == [key |-> IF supports THEN KeyOf(p) ELSE Absent,
                   snapshot |-> plan[p.command].snapshots[p.at],
                   command |-> p.command, at |-> p.at]
  <2>1. /\ posts' = posts \ {p} /\ runs' = Append(runs, r)
        /\ stored' = [stored EXCEPT ![r.snapshot.provider] = StoredVersion(@, r.snapshot)]
        /\ Answer(p, "ok", Len(runs) + 1)
    BY <1>3 DEF Execute
  <2>2. supports => RunsOf(KeyOf(p)) = {}
    BY <1>3
  <2> QED
    BY <1>1, <2>1, <2>2, NewRun
<1> QED
  BY <1>2, <1>3
-----------------------------------------------------------------------------
LEMMA InitKeeps == UploadInit => IInv
<1> SUFFICES ASSUME UploadInit PROVE IInv
  OBVIOUS
<1>1. plan \in [Commands -> PlanType]
  BY PlansAssumption DEF UploadInit
<1>2. Beginning \in Progress
  BY DEF Beginning, Progress, Stages
<1>3. TypeOK
  BY <1>1, <1>2 DEF UploadInit, TypeOK
<1>4. ASSUME NEW c \in Commands PROVE Progressing(c) /\ Told(c) /\ Unfailed(c)
  <2>1. client[c] = Beginning /\ Len(plan[c].snapshots) \in Nat \ {0}
    BY <1>3, PlanTypes DEF UploadInit
  <2> QED
    BY <2>1 DEF Beginning, Progressing, Told, Unfailed, Uploads
<1>5. posts = {} /\ answers = {} /\ Len(runs) = 0
  BY DEF UploadInit
<1> QED
  BY <1>3, <1>4, <1>5 DEF IInv

LEMMA StepKeeps == IInv /\ [UploadNext]_uploadVars => IInv'
<1> SUFFICES ASSUME IInv, [UploadNext]_uploadVars PROVE IInv'
  OBVIOUS
<1>1. ASSUME NEW c \in Commands, Client(c) PROVE IInv'
  BY <1>1, NegotiateKeeps, NegotiationFailsKeeps, SendKeeps, TransportErrorKeeps,
     ReceiveKeeps DEF Client
<1>2. ASSUME NEW p \in posts, Execute(p) \/ Refuse(p) \/ Unavailable(p) \/ Drop(p) PROVE IInv'
  BY <1>2, ExecuteKeeps, LostKeeps
<1>3. CASE UpgradeCollector
  BY <1>3, UpgradeKeeps
<1>4. CASE UNCHANGED uploadVars
  BY <1>4, NothingIngested DEF uploadVars
<1> QED
  BY <1>1, <1>2, <1>3, <1>4 DEF UploadNext

(* The types of SyncUpload, and all else its steps preserve. *)
LEMMA Always == UploadSpec => []IInv
BY InitKeeps, StepKeeps, PTL DEF UploadSpec

(* One upload is ingested at most once, and so is one snapshot that upload-db
   commands send again, whatever the network does and whenever the collector
   starts to keep receipts (Execute, KeyOf). *)
THEOREM UploadedOnceAlways == UploadSpec => []UploadedOnce
<1>1. IInv => UploadedOnce
  <2> SUFFICES ASSUME IInv, NEW m \in 1..Len(runs), NEW n \in 1..Len(runs),
                      SameUpload(runs[m], runs[n])
               PROVE  m = n
    BY DEF UploadedOnce
  <2>1. runs[m] \in Run /\ runs[n] \in Run
    BY DEF IInv, TypeOK
  <2>2. Ingested(runs[m]) /\ Ingested(runs[n]) /\ Distinct(m, n)
    BY DEF IInv
  <2>3. CASE SameOrigin(runs[m], runs[n])
    <3>1. KeyOf(runs[m]) = KeyOf(runs[n])
      BY <2>3 DEF KeyOf, SameOrigin
    <3> QED
      BY <2>2, <2>3, <3>1 DEF Ingested, Distinct, SameOrigin
  <2>4. CASE /\ plan[runs[m].command].database /\ plan[runs[n].command].database
             /\ runs[m].snapshot = runs[n].snapshot
    <3>1. KeyOf(runs[m]) = KeyOf(runs[n])
      BY <2>2, <2>4 DEF KeyOf, Ingested
    <3> QED
      BY <2>2, <2>4, <3>1 DEF Ingested, Distinct, Begun
  <2> QED
    BY <2>3, <2>4 DEF SameUpload, SameOrigin
<1> QED
  BY <1>1, Always, PTL

(* A reported success is a run of the command's own snapshot, and what it stored
   is never taken back (Receive, Execute); nothing is sent after a failure that a
   strict upload-db has reported (Conclude). *)
THEOREM OutcomesAlways == UploadSpec => []OutcomesAreTrue
<1>1. IInv => SuccessesAreStored
  <2> SUFFICES ASSUME IInv, NEW c \in Commands, NEW i \in 1..Len(client[c].outcomes),
                      client[c].outcomes[i].status = "succeeded"
               PROVE  LET run == client[c].outcomes[i].run
                          snapshot == plan[c].snapshots[i]
                      IN  /\ run \in 1..Len(runs) /\ runs[run].snapshot = snapshot
                          /\ stored[snapshot.provider] >= snapshot.version
    BY DEF SuccessesAreStored
  <2>1. RunOf(client[c].outcomes[i].run, c, i)
    BY DEF IInv, Told
  <2> QED
    BY <2>1 DEF IInv, RunOf, Ingested
<1>2. IInv => NothingAfterFailure
  <2> SUFFICES ASSUME IInv, NEW c \in Commands, plan[c].database, plan[c].strict,
                      NEW i \in 1..Len(client[c].outcomes),
                      client[c].outcomes[i].status = "failed"
               PROVE  /\ \A p \in posts : p.command = c => p.at <= i
                      /\ \A n \in 1..Len(runs) : runs[n].command = c => runs[n].at <= i
    BY DEF NothingAfterFailure
  <2>1. client[c].at \in Nat /\ client[c].at <= i
    <3>1. client[c] \in Progress /\ Unfailed(c)
      BY DEF IInv, TypeOK
    <3> QED
      BY <3>1 DEF Progress, Unfailed
  <2>2. ASSUME NEW at, Begun(c, at) PROVE at <= i
    <3>1. at \in Nat /\ at <= client[c].at
      BY <2>2 DEF Begun, Uploads
    <3> QED
      BY <2>1, <3>1
  <2>3. ASSUME NEW p \in posts, p.command = c PROVE p.at <= i
    BY <2>2, <2>3 DEF IInv, Requested
  <2>4. ASSUME NEW n \in 1..Len(runs), runs[n].command = c PROVE runs[n].at <= i
    BY <2>2, <2>4 DEF IInv, Ingested
  <2> QED
    BY <2>3, <2>4
<1> QED
  BY <1>1, <1>2, Always, PTL DEF OutcomesAreTrue
=============================================================================
