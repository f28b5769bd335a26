---------------------------- MODULE ReportingProofs ----------------------------
(***************************************************************************)
(* The permits of exports and reports, whole lists and whole files, and    *)
(* reports of one database, for any number of requests, clients, sessions, *)
(* pages, writers and commits.                                             *)
(***************************************************************************)
EXTENDS MCReporting, FiniteSetTheorems, SequenceTheorems, TLAPS

(* What is streamed is there because it was there from its creation on: the file
   has to be followed through the whole of the work. *)
WorkHasFile ==
  \A r \in Exports :
    request[r] \in {"working", "worked", "overdue", "returned", "streaming"} => r \in files

PInv == TypeOK /\ PermitsAreKept /\ WorkHasFile

(* Every request has one of the two kinds, and finitely many hold a permit. *)
LEMMA HoldersAreFinite ==
  ASSUME NEW k \in Kinds
  PROVE  IsFiniteSet(Holders(k)) /\ Cardinality(Holders(k)) \in Nat
<1>1. Holders(k) \subseteq Requests /\ IsFiniteSet(Requests)
  BY RequestsAssumption DEF Holders, Requests
<1> QED
  BY <1>1, FS_Subset, FS_CardinalityType

LEMMA KindType == \A r \in Requests : Kind(r) \in Kinds
BY DEF Kind, Kinds

(* A request that takes a permit is one more holder of its kind. *)
LEMMA Entered ==
  ASSUME TypeOK, PermitsAreKept, NEW r \in Requests, NEW stage \in Holding,
         request[r] \notin Holding, free[Kind(r)] > 0,
         Go(r, stage), free' = [free EXCEPT ![Kind(r)] = @ - 1]
  PROVE  PermitsAreKept' /\ free' \in [Kinds -> Nat]
<1> USE KindType
<1>1. free' \in [Kinds -> Nat] /\ free'[Kind(r)] = free[Kind(r)] - 1
  BY DEF TypeOK
<1>2. ASSUME NEW k \in Kinds PROVE free'[k] + Cardinality(Holders(k)') = Limit[k]
  <2>0. request \in [Requests -> Stages] /\ request' = [request EXCEPT ![r] = stage]
    BY DEF TypeOK, Go
  <2>1. CASE k = Kind(r)
    <3>1. Holders(k)' = Holders(k) \cup {r} /\ r \notin Holders(k)
      BY <2>0, <2>1 DEF Holders
    <3>2. Cardinality(Holders(k)') = Cardinality(Holders(k)) + 1
      BY <3>1, HoldersAreFinite, FS_AddElement
    <3>3. free[k] \in Nat /\ free[k] + Cardinality(Holders(k)) = Limit[k]
      BY DEF TypeOK, PermitsAreKept
    <3> QED
      BY <1>1, <2>1, <3>2, <3>3, HoldersAreFinite
  <2>2. CASE k # Kind(r)
    <3>1. Holders(k)' = Holders(k)
      BY <2>0, <2>2 DEF Holders
    <3>2. free'[k] = free[k]
      BY <2>2 DEF TypeOK
    <3> QED
      BY <3>1, <3>2 DEF PermitsAreKept
  <2> QED
    BY <2>1, <2>2
<1> QED
  BY <1>1, <1>2 DEF PermitsAreKept

(* A request that gives its permit back is one holder less. *)
LEMMA Left ==
  ASSUME TypeOK, PermitsAreKept, NEW r \in Requests, NEW stage \in Stages \ Holding,
         request[r] \in Holding, Go(r, stage), free' = Released(r)
  PROVE  PermitsAreKept' /\ free' \in [Kinds -> Nat]
<1> USE KindType
<1>1. free' \in [Kinds -> Nat] /\ free'[Kind(r)] = free[Kind(r)] + 1
  BY DEF TypeOK, Released
<1>2. ASSUME NEW k \in Kinds PROVE free'[k] + Cardinality(Holders(k)') = Limit[k]
  <2>0. request \in [Requests -> Stages] /\ request' = [request EXCEPT ![r] = stage]
    BY DEF TypeOK, Go
  <2>1. CASE k = Kind(r)
    <3>1. Holders(k)' = Holders(k) \ {r} /\ r \in Holders(k)
      BY <2>0, <2>1 DEF Holders
    <3>2. Cardinality(Holders(k)') = Cardinality(Holders(k)) - 1
      BY <3>1, HoldersAreFinite, FS_RemoveElement
    <3>3. free[k] \in Nat /\ free[k] + Cardinality(Holders(k)) = Limit[k]
      BY DEF TypeOK, PermitsAreKept
    <3> QED
      BY <1>1, <2>1, <3>2, <3>3, HoldersAreFinite
  <2>2. CASE k # Kind(r)
    <3>1. Holders(k)' = Holders(k)
      BY <2>0, <2>2 DEF Holders
    <3>2. free'[k] = free[k]
      BY <2>2 DEF TypeOK, Released
    <3> QED
      BY <3>1, <3>2 DEF PermitsAreKept
  <2> QED
    BY <2>1, <2>2
<1> QED
  BY <1>1, <1>2 DEF PermitsAreKept

(* A step within the work, or outside of it, leaves the holders alone. *)
LEMMA Stayed ==
  ASSUME TypeOK, PermitsAreKept, NEW r \in Requests, NEW stage \in Stages,
         request[r] \in Holding <=> stage \in Holding, Go(r, stage), UNCHANGED free
  PROVE  PermitsAreKept'
<1>1. \A k \in Kinds : Holders(k)' = Holders(k)
  BY DEF TypeOK, Go, Holders
<1> QED
  BY <1>1 DEF PermitsAreKept
-----------------------------------------------------------------------------
(* All permits are there before the first request. *)
LEMMA InitPInv == Init => PInv
<1> SUFFICES ASSUME Init PROVE PInv
  OBVIOUS
<1>1. \A k \in Kinds : Holders(k) = {}
  BY DEF Init, Holders, Holding
<1>2. \A k \in Kinds : Limit[k] \in Nat /\ free[k] = Limit[k]
  BY SlotsAssumption DEF Init, Limit, Kinds
<1>3. PermitsAreKept
  BY <1>1, <1>2, FS_EmptySet DEF PermitsAreKept
<1>4. TypeOK
  BY <1>2 DEF Init, TypeOK, Limit, Stages
<1>5. WorkHasFile
  BY RequestsAssumption DEF Init, WorkHasFile, Requests
<1> QED
  BY <1>3, <1>4, <1>5 DEF PInv

(* Each step of a request keeps the permits, the types and its own file. *)
LEMMA StepPInv ==
  ASSUME PInv, NEW r \in Requests, Step(r)
  PROVE  PInv'
<1> USE DEF PInv
<1>0. Exports \subseteq Requests /\ request \in [Requests -> Stages]
      /\ free \in [Kinds -> Nat] /\ files \subseteq Exports /\ Kind(r) \in Kinds
  BY KindType DEF Requests, TypeOK
<1>1. CASE Acquire(r)
  <2>1. CASE Available(r)
    <3>1. Go(r, "held") /\ free' = [free EXCEPT ![Kind(r)] = @ - 1] /\ files' = files
      BY <1>1, <2>1 DEF Acquire
    <3>2. PermitsAreKept' /\ free' \in [Kinds -> Nat]
      BY <1>1, <2>1, <3>1, Entered DEF Acquire, Available, Holding
    <3>3. TypeOK' /\ WorkHasFile'
      BY <1>0, <3>1, <3>2 DEF Go, TypeOK, Stages, Holding, WorkHasFile
    <3> QED
      BY <3>2, <3>3
  <2>2. CASE ~Available(r)
    <3>1. Go(r, "busy") /\ free' = free /\ files' = files /\ request[r] = "new"
      BY <1>1, <2>2 DEF Acquire
    <3>2. PermitsAreKept'
      BY <3>1, Stayed DEF Stages, Holding, Ended
    <3>3. TypeOK' /\ WorkHasFile'
      BY <1>0, <3>1 DEF Go, TypeOK, Stages, Ended, WorkHasFile
    <3> QED
      BY <3>2, <3>3
  <2> QED
    BY <2>1, <2>2
<1>2. CASE Begin(r)
  <2>1. PICK stage \in {"working", "raised"} :
          Go(r, stage) /\ (stage = "working" /\ r \in Exports => files' = files \cup {r})
    BY <1>2 DEF Begin
  <2>2. request[r] = "held" /\ free' = free /\ files' \in {files, files \cup {r}}
        /\ files' \subseteq Exports
    BY <1>0, <1>2 DEF Begin
  <2>3. PermitsAreKept'
    BY <2>1, <2>2, Stayed DEF Stages, Holding
  <2>4. TypeOK' /\ WorkHasFile'
    BY <1>0, <2>1, <2>2 DEF Go, TypeOK, Stages, Holding, WorkHasFile
  <2> QED
    BY <2>3, <2>4
<1>3. CASE Work(r)
  <2>1. PICK stage \in {"worked", "overdue", "raised"} :
          Go(r, stage) /\ (stage # "raised" => files' = files)
    BY <1>3 DEF Work
  <2>2. request[r] = "working" /\ free' = free /\ files' \in {files, files \ {r}}
    BY <1>3 DEF Work, Removed
  <2>3. PermitsAreKept'
    BY <2>1, <2>2, Stayed DEF Stages, Holding
  <2>4. TypeOK' /\ WorkHasFile'
    BY <1>0, <2>1, <2>2 DEF Go, TypeOK, Stages, Holding, WorkHasFile
  <2> QED
    BY <2>3, <2>4
<1>4. CASE LeaveSlot(r)
  <2>1. request[r] \in Holding /\ free' = Released(r) /\ files' = files
    BY <1>4 DEF LeaveSlot, Holding
  <2>2. PICK stage \in {"returned", "answered", "timeout", "error"} :
          Go(r, stage) /\ (stage = "returned" => request[r] = "worked" /\ r \in Exports)
    BY <1>4 DEF LeaveSlot
  <2>3. PermitsAreKept' /\ free' \in [Kinds -> Nat]
    BY <2>1, <2>2, Left DEF Stages, Holding, Ended
  <2>4. TypeOK' /\ WorkHasFile'
    BY <1>0, <2>1, <2>2, <2>3 DEF Go, TypeOK, Stages, Ended, WorkHasFile
  <2> QED
    BY <2>3, <2>4
<1>5. CASE Stream(r)
  <2>1. request[r] = "returned" /\ Go(r, "streaming") /\ free' = free /\ files' = files
    BY <1>5 DEF Stream
  <2>2. PermitsAreKept'
    BY <2>1, Stayed DEF Stages, Holding
  <2>3. TypeOK' /\ WorkHasFile'
    BY <1>0, <2>1 DEF Go, TypeOK, Stages, WorkHasFile
  <2> QED
    BY <2>2, <2>3
<1>6. CASE FinishStream(r)
  <2>1. PICK stage \in {"answered", "error"} : Go(r, stage)
    BY <1>6 DEF FinishStream
  <2>2. request[r] = "streaming" /\ free' = free /\ files' = files \ {r}
    BY <1>6 DEF FinishStream, Removed
  <2>3. PermitsAreKept'
    BY <2>1, <2>2, Stayed DEF Stages, Holding, Ended
  <2>4. TypeOK' /\ WorkHasFile'
    BY <1>0, <2>1, <2>2 DEF Go, TypeOK, Stages, Ended, WorkHasFile
  <2> QED
    BY <2>3, <2>4
<1> QED
  BY <1>1, <1>2, <1>3, <1>4, <1>5, <1>6 DEF Step

(* The accounting of permits is an invariant of every run. *)
LEMMA Inv == Spec => []PInv
<1>1. PInv /\ [Next]_vars => PInv'
  <2> SUFFICES ASSUME PInv, [Next]_vars PROVE PInv'
    OBVIOUS
  <2>1. CASE Next
    BY <2>1, StepPInv DEF Next
  <2>2. CASE UNCHANGED vars
    <3>1. free' = free /\ request' = request /\ files' = files
      BY <2>2 DEF vars
    <3>2. \A k \in Kinds : Holders(k)' = Holders(k)
      BY <3>1 DEF Holders
    <3>3. PermitsAreKept'
      BY <3>1, <3>2 DEF PInv, PermitsAreKept
    <3> QED
      BY <3>1, <3>3 DEF PInv, TypeOK, WorkHasFile
  <2> QED
    BY <2>1, <2>2
<1> QED
  BY InitPInv, <1>1, PTL DEF Spec
-----------------------------------------------------------------------------
(* However requests end, the permits that are free and those held add up to the
   ceiling of their kind. *)
THEOREM PermitsKept == Spec => []PermitsAreKept
BY Inv, PTL DEF PInv

(* Requests, permits and temporaries keep their types. *)
THEOREM SlotsTypes == Spec => []TypeOK
BY Inv, PTL DEF PInv

(* The file of an export is there until its response has been streamed. *)
THEOREM StreamedFilesAreThere == Spec => []StreamedIsThere
<1>1. PInv => StreamedIsThere
  BY DEF PInv, WorkHasFile, StreamedIsThere
<1> QED
  BY Inv, <1>1, PTL

(* A request is refused only while the whole ceiling of its own kind is in use. *)
THEOREM BusyOnlyWhenFull == Spec => BusyMeansBusy
<1>1. ASSUME PInv, [Next]_vars, NEW r \in Requests,
             request[r] = "new", request'[r] = "busy"
      PROVE  Cardinality(Holders(Kind(r))) = Limit[Kind(r)]
  <2>1. PICK s \in Requests : Step(s)
    BY <1>1 DEF Next, vars
  <2>2. request \in [Requests -> Stages]
    BY <1>1 DEF PInv, TypeOK
  <2>3. s = r /\ Acquire(r)
    BY <1>1, <2>1, <2>2
    DEF Step, Acquire, Begin, Work, LeaveSlot, Stream, FinishStream, Go
  <2>4. ~Available(r)
    BY <1>1, <2>2, <2>3 DEF Acquire, Go
  <2>5. Kind(r) \in Kinds
    BY KindType
  <2>6. free[Kind(r)] = 0
    BY <1>1, <2>4, <2>5 DEF Available, PInv, TypeOK
  <2> QED
    BY <1>1, <2>5, <2>6, HoldersAreFinite DEF PInv, PermitsAreKept
<1>2. PInv /\ [Next]_vars =>
        [\A r \in Requests : request[r] = "new" /\ request'[r] = "busy" =>
           Cardinality(Holders(Kind(r))) = Limit[Kind(r)]]_vars
  BY <1>1
<1> QED
  BY Inv, <1>2, PTL DEF Spec, BusyMeansBusy
-----------------------------------------------------------------------------
Owning == {"reading", "listing", "page", "complete"}

ClientType ==
  [stage : Owning \cup {"idle", "create"}, query : Queries \cup {None}, time : Nat,
   rows : Seq(Nat), session : Nat, offset : Nat, shown : Seq(Nat), made : Nat, last : Nat]
SessionType ==
  [created : Nat, accessed : Nat, query : Queries \cup {None}, rows : Seq(Nat)]

ListTypes ==
  /\ clock \in Nat /\ handles \in Nat /\ database \in Selections
  /\ client \in [Clients -> ClientType]
  /\ \A h \in DOMAIN sessions : h \in 1..handles /\ sessions[h] \in SessionType

(* What a client walks is the selection that its session retains, as far as its
   offset: while the session lives nobody changes its rows, and a number is never
   given to another session. *)
WalksItsSession(c) ==
  /\ client[c].stage \in Owning \cup {"create"} => client[c].rows \in Selections
  /\ client[c].stage \in Owning =>
       /\ client[c].session \in 1..handles
       /\ client[c].offset \in 0..Len(client[c].rows)
       /\ client[c].shown = SubSeq(client[c].rows, 1, client[c].offset)
       /\ client[c].session \in DOMAIN sessions =>
            sessions[client[c].session].rows = client[c].rows
  /\ client[c].stage = "create" => client[c].offset = 0 /\ client[c].shown = <<>>
  /\ client[c].stage = "complete" => client[c].offset = Len(client[c].rows)

ListInv == ListTypes /\ \A c \in Clients : WalksItsSession(c)
-----------------------------------------------------------------------------
LEMMA ListInit == Lists!Init => ListInv
<1> SUFFICES ASSUME Lists!Init PROVE ListInv
  OBVIOUS
<1>1. clock = 0 /\ handles = 0 /\ database \in Selections /\ sessions = <<>>
      /\ client = [c \in Clients |-> Lists!Fresh]
  BY DEF Lists!Init
<1>2. <<>> \in Seq(Nat) /\ DOMAIN sessions = {}
  BY <1>1
<1>3. Lists!Fresh \in ClientType /\ Lists!Fresh.stage = "idle"
  BY <1>2 DEF Lists!Fresh, ClientType
<1> HIDE DEF Lists!Fresh
<1> QED
  BY <1>1, <1>2, <1>3 DEF ListInv, ListTypes, WalksItsSession, Owning

(* What expiry leaves of a store. *)
LEMMA UnexpiredKeeps ==
  ASSUME NEW f, NEW time
  PROVE  /\ DOMAIN Lists!Unexpired(f, time) \subseteq DOMAIN f
         /\ \A h \in DOMAIN Lists!Unexpired(f, time) : Lists!Unexpired(f, time)[h] = f[h]
BY DEF Lists!Unexpired, Lists!Restrict

(* Sessions may expire and be read, but keep their rows: the other clients still
   walk theirs. *)
KeepsRows ==
  /\ handles' \in Nat /\ handles' >= handles
  /\ \A h \in DOMAIN sessions' :
       /\ h \in 1..handles' /\ sessions'[h] \in SessionType
       /\ h \in 1..handles => h \in DOMAIN sessions /\ sessions'[h].rows = sessions[h].rows

LEMMA OthersWalkOn ==
  ASSUME ListInv, KeepsRows, NEW c \in Clients, client'[c] = client[c]
  PROVE  WalksItsSession(c)'
<1>1. handles \in Nat /\ handles' \in Nat
  BY DEF ListInv, ListTypes, KeepsRows
<1> QED
  BY <1>1 DEF ListInv, WalksItsSession, KeepsRows

LEMMA ExpiryKeepsRows ==
  ASSUME ListInv, NEW time, sessions' = Lists!Unexpired(sessions, time), UNCHANGED handles
  PROVE  KeepsRows
BY UnexpiredKeeps DEF ListInv, ListTypes, KeepsRows

LEMMA NoChangeKeepsRows ==
  ASSUME ListInv, UNCHANGED <<handles, sessions>>
  PROVE  KeepsRows
BY DEF ListInv, ListTypes, KeepsRows

(* One client moves on, the others walk on. *)
LEMMA ClientMoves ==
  ASSUME ListInv, KeepsRows, clock' \in Nat, database' \in Selections,
         NEW c \in Clients, NEW new \in ClientType,
         client' = [client EXCEPT ![c] = new], WalksItsSession(c)'
  PROVE  ListInv'
<1>1. client' \in [Clients -> ClientType]
      /\ \A d \in Clients \ {c} : client'[d] = client[d]
  BY DEF ListInv, ListTypes
<1>2. \A d \in Clients : WalksItsSession(d)'
  BY <1>1, OthersWalkOn
<1> QED
  BY <1>1, <1>2 DEF ListInv, ListTypes, KeepsRows

LEMMA SelectStep ==
  ASSUME ListInv, NEW c \in Clients, NEW q \in Queries, Lists!Select(c, q)
  PROVE  ListInv'
<1> DEFINE new == [Lists!Fresh EXCEPT !.stage = "create", !.query = q, !.rows = database,
                                      !.time = clock]
<1>1. client' = [client EXCEPT ![c] = new] /\ UNCHANGED <<clock, database, handles, sessions>>
  BY DEF Lists!Select, Lists!store
<1>2. clock \in Nat /\ database \in Selections /\ database \in Seq(Nat) /\ <<>> \in Seq(Nat)
  BY ReportingAssumption DEF ListInv, ListTypes
<1>3. new \in ClientType /\ new.stage = "create" /\ new.rows = database
      /\ new.offset = 0 /\ new.shown = <<>>
  BY <1>2 DEF Lists!Fresh, ClientType
<1> HIDE DEF new
<1>4. client'[c] = new
  BY <1>1 DEF ListInv, ListTypes
<1>5. WalksItsSession(c)'
  BY <1>2, <1>3, <1>4 DEF WalksItsSession, Owning
<1> QED
  BY <1>1, <1>2, <1>3, <1>5, NoChangeKeepsRows, ClientMoves

(* A list that ends, expires or is left is forgotten. *)
LEMMA ForgottenStep ==
  ASSUME ListInv, KeepsRows, clock' \in Nat, database' \in Selections, NEW c \in Clients,
         client' = [client EXCEPT ![c] = Lists!Fresh]
  PROVE  ListInv'
<1>1. Lists!Fresh \in ClientType /\ Lists!Fresh.stage = "idle"
  BY EmptySeq DEF Lists!Fresh, ClientType
<1> HIDE DEF Lists!Fresh
<1>2. client'[c] = Lists!Fresh
  BY DEF ListInv, ListTypes
<1>3. WalksItsSession(c)'
  BY <1>1, <1>2 DEF WalksItsSession, Owning
<1> QED
  BY <1>1, <1>3, ClientMoves

LEMMA CreateStep ==
  ASSUME ListInv, NEW c \in Clients, Lists!Create(c)
  PROVE  ListInv'
<1> DEFINE time == client[c].time
           kept == Lists!Unexpired(sessions, time)
           new == handles + 1
           row == [created |-> time, accessed |-> time,
                   query |-> client[c].query, rows |-> client[c].rows]
           asking == [client[c] EXCEPT !.stage = "reading", !.session = new,
                                        !.made = time, !.last = time]
<1>1. /\ client[c] \in ClientType /\ client[c].stage = "create"
      /\ clock \in Nat /\ database \in Selections /\ UNCHANGED <<clock, database>>
  BY DEF ListInv, ListTypes, Lists!Create
<1>2. CASE Lists!Full(kept)
  <2>1. sessions' = kept /\ client' = [client EXCEPT ![c] = Lists!Fresh] /\ UNCHANGED handles
    BY <1>2 DEF Lists!Create
  <2> QED
    BY <1>1, <2>1, ExpiryKeepsRows, ForgottenStep
<1>3. CASE ~Lists!Full(kept)
  <2>1. /\ handles' = new
        /\ sessions' = [h \in DOMAIN kept \cup {new} |-> IF h = new THEN row ELSE kept[h]]
        /\ client' = [client EXCEPT ![c].stage = "reading", ![c].session = new,
                                    ![c].made = time, ![c].last = time]
    BY <1>3 DEF Lists!Create
  <2>2. handles \in Nat /\ new \in Nat /\ new = handles + 1 /\ new \notin 1..handles
    BY DEF ListInv, ListTypes
  <2>3. row \in SessionType /\ row.rows = client[c].rows
    BY <1>1 DEF ClientType, SessionType
  <2>4. /\ asking \in ClientType /\ asking.stage = "reading" /\ asking.session = new
        /\ asking.rows = client[c].rows /\ asking.offset = client[c].offset
        /\ asking.shown = client[c].shown
    BY <1>1, <2>2 DEF ClientType, Owning
  <2>5. client' = [client EXCEPT ![c] = asking]
    BY <1>1, <2>1 DEF ListInv, ListTypes, ClientType
  <2>6. /\ DOMAIN kept \subseteq DOMAIN sessions
        /\ \A h \in DOMAIN kept : kept[h] = sessions[h]
    BY UnexpiredKeeps
  <2> HIDE DEF kept, new, row, asking
  <2>7. \A h \in DOMAIN kept : h \in 1..handles /\ kept[h] \in SessionType
    BY <2>6 DEF ListInv, ListTypes
  <2>8. KeepsRows
    BY <2>1, <2>2, <2>3, <2>6, <2>7 DEF KeepsRows
  <2>9. client'[c] = asking /\ sessions'[new].rows = client[c].rows
    BY <2>1, <2>3, <2>5 DEF ListInv, ListTypes
  <2>10. /\ client[c].rows \in Selections /\ client[c].rows \in Seq(Nat)
         /\ client[c].offset = 0 /\ client[c].shown = SubSeq(client[c].rows, 1, 0)
    BY <1>1, SubSeqEmpty DEF ListInv, WalksItsSession, ClientType
  <2>11. /\ client'[c].stage = "reading" /\ client'[c].session = new /\ new \in 1..handles'
         /\ client'[c].rows = client[c].rows /\ client'[c].offset = 0
         /\ client'[c].shown = SubSeq(client'[c].rows, 1, 0)
         /\ 0 \in 0..Len(client[c].rows)
    <3>1. Len(client[c].rows) \in Nat
      BY <2>10, LenProperties
    <3>2. new \in 1..handles'
      BY <2>1, <2>2
    <3> QED
      BY <2>4, <2>9, <2>10, <3>1, <3>2
  <2>12. WalksItsSession(c)'
    BY <2>9, <2>10, <2>11 DEF WalksItsSession, Owning
  <2> QED
    BY <1>1, <2>4, <2>5, <2>8, <2>12, ClientMoves
<1> QED
  BY <1>2, <1>3

(* A page is the next part of the rows; a response may be lost on its way. *)
LEMMA PageOfRows ==
  ASSUME ListInv, NEW c \in Clients, client[c].stage = "reading"
  PROVE  LET rows == client[c].rows
             stop == Lists!NextOffset(c)
             more == client[c].shown \o SubSeq(rows, client[c].offset + 1, stop)
         IN  /\ stop \in 0..Len(rows) /\ more = SubSeq(rows, 1, stop) /\ more \in Seq(Nat)
             /\ ~Lists!HasMore(c) => stop = Len(rows)
<1> DEFINE rows == client[c].rows
           stop == Lists!NextOffset(c)
           offset == client[c].offset
<1>1. /\ rows \in Seq(Nat) /\ Len(rows) \in Nat /\ offset \in 0..Len(rows)
      /\ client[c].shown = SubSeq(rows, 1, offset)
  BY DEF ListInv, ListTypes, WalksItsSession, Owning, ClientType
<1>2. PageSize \in Nat \ {0}
  BY ReportingAssumption
<1>3. stop = IF offset + PageSize < Len(rows) THEN offset + PageSize ELSE Len(rows)
  BY DEF Lists!NextOffset, Lists!Cut
<1>4. Lists!HasMore(c) <=> stop < Len(rows)
  BY DEF Lists!HasMore, Lists!Cut
<1> HIDE DEF rows, stop, offset
<1>5. stop \in offset..Len(rows) /\ (~Lists!HasMore(c) => stop = Len(rows))
  BY <1>1, <1>2, <1>3, <1>4
<1>6. SubSeq(rows, 1, offset) \o SubSeq(rows, offset + 1, stop) = SubSeq(rows, 1, stop)
  <2>1. 1 \in 1..Len(rows) + 1 /\ offset \in 1 - 1..Len(rows)
    BY <1>1
  <2> QED
    BY <1>1, <1>5, <2>1, ConcatAdjacentSubSeq
<1>7. SubSeq(rows, 1, stop) \in Seq(Nat) /\ stop \in 0..Len(rows)
  BY <1>1, <1>5, SubSeqProperties
<1> QED
  BY <1>1, <1>5, <1>6, <1>7 DEF rows, stop, offset

LEMMA DeliverStep ==
  ASSUME ListInv, NEW c \in Clients, Lists!Deliver(c)
  PROVE  ListInv'
<1> DEFINE stop == Lists!NextOffset(c)
           more == Lists!HasMore(c)
           shown == client[c].shown \o SubSeq(client[c].rows, client[c].offset + 1, stop)
           next == [client[c] EXCEPT !.stage = IF more THEN "listing" ELSE "complete",
                                     !.offset = stop, !.shown = shown]
           again == [client[c] EXCEPT !.stage = "listing"]
<1>1. /\ client[c] \in ClientType /\ client[c].stage = "reading" /\ WalksItsSession(c)
      /\ clock' \in Nat /\ database' \in Selections /\ KeepsRows
  BY NoChangeKeepsRows DEF ListInv, ListTypes, Lists!Deliver
<1>2. /\ stop \in 0..Len(client[c].rows) /\ shown = SubSeq(client[c].rows, 1, stop)
      /\ shown \in Seq(Nat) /\ (~more => stop = Len(client[c].rows))
  BY <1>1, PageOfRows
<1>3. /\ next \in ClientType /\ again \in ClientType
      /\ next.stage = IF more THEN "listing" ELSE "complete"
      /\ next.offset = stop /\ next.shown = shown /\ again.stage = "listing"
      /\ next.rows = client[c].rows /\ again.rows = client[c].rows
      /\ next.session = client[c].session /\ again.session = client[c].session
      /\ again.offset = client[c].offset /\ again.shown = client[c].shown
  <2>1. stop \in Nat
    BY <1>2
  <2> HIDE DEF stop, shown, more
  <2> QED
    BY <1>1, <1>2, <2>1 DEF ClientType, Owning
<1>4. \/ client' = [client EXCEPT ![c] = next]
      \/ client' = [client EXCEPT ![c] = again]
      \/ client' = [client EXCEPT ![c] = Lists!Fresh]
  BY <1>1 DEF Lists!Deliver, Lists!Cut, ListInv, ListTypes, ClientType
<1> HIDE DEF next, again, stop, shown, more
<1>5. CASE client' = [client EXCEPT ![c] = next]
  <2>1. client'[c] = next /\ UNCHANGED <<handles, sessions>>
    BY <1>5 DEF ListInv, ListTypes, Lists!Deliver
  <2>2. WalksItsSession(c)'
    BY <1>1, <1>2, <1>3, <2>1 DEF WalksItsSession, Owning
  <2> QED
    BY <1>1, <1>3, <1>5, <2>2, ClientMoves
<1>6. CASE client' = [client EXCEPT ![c] = again]
  <2>1. client'[c] = again /\ UNCHANGED <<handles, sessions>>
    BY <1>6 DEF ListInv, ListTypes, Lists!Deliver
  <2>2. WalksItsSession(c)'
    BY <1>1, <1>3, <2>1 DEF WalksItsSession, Owning
  <2> QED
    BY <1>1, <1>3, <1>6, <2>2, ClientMoves
<1> QED
  BY <1>1, <1>4, <1>5, <1>6, ForgottenStep

LEMMA AskPageStep ==
  ASSUME ListInv, NEW c \in Clients, Lists!AskPage(c)
  PROVE  ListInv'
<1> DEFINE asking == [client[c] EXCEPT !.stage = "page", !.time = clock]
<1>1. /\ client[c] \in ClientType /\ client[c].stage = "listing" /\ WalksItsSession(c)
      /\ clock \in Nat /\ clock' \in Nat /\ database' \in Selections /\ KeepsRows
      /\ UNCHANGED <<handles, sessions>>
  BY NoChangeKeepsRows DEF ListInv, ListTypes, Lists!AskPage, Lists!store
<1>2. /\ asking \in ClientType /\ asking.stage = "page" /\ asking.rows = client[c].rows
      /\ asking.session = client[c].session /\ asking.offset = client[c].offset
      /\ asking.shown = client[c].shown
  BY <1>1 DEF ClientType, Owning
<1>3. client' = [client EXCEPT ![c] = asking]
  BY DEF Lists!AskPage, ListInv, ListTypes, ClientType
<1> HIDE DEF asking
<1>4. client'[c] = asking
  BY <1>3 DEF ListInv, ListTypes
<1>5. WalksItsSession(c)'
  BY <1>1, <1>2, <1>4 DEF WalksItsSession, Owning
<1> QED
  BY <1>1, <1>2, <1>3, <1>5, ClientMoves

(* A following page comes from the session that the cursor belongs to. *)
LEMMA PageStep ==
  ASSUME ListInv, NEW c \in Clients, Lists!Page(c)
  PROVE  ListInv'
<1> DEFINE time == client[c].time
           kept == Lists!Unexpired(sessions, time)
           session == client[c].session
           used == [kept[session] EXCEPT !.accessed = time]
           listing == [client[c] EXCEPT !.stage = "listing"]
           asking == [client[c] EXCEPT !.stage = "reading", !.last = time,
                                        !.rows = kept[session].rows]
<1>1. /\ client[c] \in ClientType /\ client[c].stage = "page" /\ WalksItsSession(c)
      /\ clock' \in Nat /\ database' \in Selections /\ UNCHANGED handles
      /\ client \in [Clients -> ClientType]
  BY DEF ListInv, ListTypes, Lists!Page
<1>2. /\ DOMAIN kept \subseteq DOMAIN sessions
      /\ \A h \in DOMAIN kept : kept[h] = sessions[h]
  BY UnexpiredKeeps
<1>3. listing \in ClientType /\ listing.stage = "listing" /\ listing.rows = client[c].rows
      /\ listing.session = client[c].session /\ listing.offset = client[c].offset
      /\ listing.shown = client[c].shown
  BY <1>1 DEF ClientType, Owning
<1>4. PICK asked \in Queries :
        IF <<session, client[c].offset>> \notin Lists!KeptCursors(kept)
        THEN /\ sessions' = kept
             /\ client' = [client EXCEPT ![c] = Lists!Fresh]
        ELSE IF kept[session].query # asked
        THEN /\ sessions' = kept
             /\ client' = [client EXCEPT ![c].stage = "listing"]
        ELSE /\ sessions' = [kept EXCEPT ![session] = Lists!Accessed(@, time)]
             /\ client' = [client EXCEPT ![c].stage = "reading", ![c].last = time,
                                         ![c].rows = kept[session].rows]
  BY DEF Lists!Page
<1>5. CASE /\ sessions' = kept
           /\ client' = [client EXCEPT ![c] = Lists!Fresh]
  BY <1>1, <1>5, ExpiryKeepsRows, ForgottenStep
<1>6. CASE /\ sessions' = kept
           /\ client' = [client EXCEPT ![c].stage = "listing"]
  <2>1. client' = [client EXCEPT ![c] = listing]
    BY <1>1, <1>6 DEF ClientType
  <2>2. KeepsRows
    BY <1>1, <1>6, ExpiryKeepsRows
  <2> HIDE DEF listing, kept
  <2>3. client'[c] = listing
    BY <1>1, <2>1
  <2>4. WalksItsSession(c)'
    BY <1>1, <1>2, <1>3, <1>6, <2>3 DEF WalksItsSession, Owning
  <2> QED
    BY <1>1, <1>3, <2>1, <2>2, <2>4, ClientMoves
<1>7. CASE /\ <<session, client[c].offset>> \in Lists!KeptCursors(kept)
           /\ sessions' = [kept EXCEPT ![session] = Lists!Accessed(@, time)]
           /\ client' = [client EXCEPT ![c].stage = "reading", ![c].last = time,
                                       ![c].rows = kept[session].rows]
  <2>1. session \in DOMAIN kept
    BY <1>7 DEF Lists!KeptCursors
  <2>2. kept[session] = sessions[session] /\ sessions[session] \in SessionType
        /\ sessions[session].rows = client[c].rows
    BY <1>1, <1>2, <2>1 DEF ListInv, ListTypes, WalksItsSession, Owning
  <2>3. used \in SessionType /\ used.rows = client[c].rows
    BY <1>1, <2>2 DEF SessionType, ClientType
  <2>4. asking \in ClientType /\ asking.stage = "reading" /\ asking.rows = client[c].rows
        /\ asking.session = client[c].session /\ asking.offset = client[c].offset
        /\ asking.shown = client[c].shown
    BY <1>1, <2>2 DEF ClientType, SessionType, Owning
  <2>5. client' = [client EXCEPT ![c] = asking]
        /\ sessions' = [kept EXCEPT ![session] = used]
    BY <1>1, <1>7 DEF ClientType, Lists!Accessed
  <2> HIDE DEF asking, kept, used
  <2>6. /\ DOMAIN sessions' = DOMAIN kept /\ sessions'[session] = used
        /\ \A h \in DOMAIN kept \ {session} : sessions'[h] = kept[h]
    BY <2>1, <2>5
  <2>7. KeepsRows
    BY <1>1, <1>2, <2>2, <2>3, <2>6 DEF KeepsRows, ListInv, ListTypes
  <2>8. client'[c] = asking
    BY <1>1, <2>5
  <2>9. WalksItsSession(c)'
    BY <1>1, <2>2, <2>3, <2>4, <2>6, <2>8 DEF WalksItsSession, Owning
  <2> QED
    BY <1>1, <2>4, <2>5, <2>7, <2>9, ClientMoves
<1> QED
  BY <1>4, <1>5, <1>6, <1>7

(* Steps that leave the clients as they are. *)
LEMMA ClientsStay ==
  ASSUME ListInv, KeepsRows, clock' \in Nat, database' \in Selections, UNCHANGED client
  PROVE  ListInv'
<1>1. \A c \in Clients : WalksItsSession(c)'
  BY OthersWalkOn
<1> QED
  BY <1>1 DEF ListInv, ListTypes, KeepsRows

LEMMA ResolveStep ==
  ASSUME ListInv, NEW c \in Clients, Lists!Resolve(c)
  PROVE  ListInv'
<1>1. PICK time : sessions' = Lists!Unexpired(sessions, time)
  BY DEF Lists!Resolve
<1>2. UNCHANGED <<clock, database, handles, client>>
  BY DEF Lists!Resolve
<1>3. clock' \in Nat /\ database' \in Selections
  BY <1>2 DEF ListInv, ListTypes
<1> QED
  BY <1>1, <1>2, <1>3, ExpiryKeepsRows, ClientsStay

LEMMA ListStep == ListInv /\ [Lists!Next]_listed => ListInv'
<1> SUFFICES ASSUME ListInv, [Lists!Next]_listed PROVE ListInv'
  OBVIOUS
<1>1. clock \in Nat /\ database \in Selections
  BY DEF ListInv, ListTypes
<1>2. ASSUME NEW c \in Clients, Lists!Leave(c) PROVE ListInv'
  <2>1. /\ clock' \in Nat /\ database' \in Selections /\ UNCHANGED <<handles, sessions>>
        /\ client' = [client EXCEPT ![c] = Lists!Fresh]
    BY <1>1, <1>2 DEF Lists!Leave, Lists!store
  <2> QED
    BY <2>1, NoChangeKeepsRows, ForgottenStep
<1>3. CASE Lists!Tick \/ Lists!Ingest \/ UNCHANGED listed
  <2>1. clock' \in Nat /\ database' \in Selections /\ UNCHANGED <<handles, sessions, client>>
    BY <1>1, <1>3 DEF Lists!Tick, Lists!Ingest, Lists!store, listed
  <2> QED
    BY <2>1, NoChangeKeepsRows, ClientsStay
<1> QED
  BY <1>2, <1>3, SelectStep, CreateStep, DeliverStep, AskPageStep, PageStep, ResolveStep
     DEF Lists!Next

(* A list that was read to its end is one selection, whole and in order. *)
THEOREM WholeLists == ReportingSpec => []ListsAreWhole
<1>1. ReportingInit => ListInv
  BY ListInit DEF ReportingInit
<1>2. [ReportingNext]_all => [Lists!Next]_listed
  BY DEF ReportingNext, all
<1>3. ListInv => ListsAreWhole
  <2> SUFFICES ASSUME ListInv, NEW c \in Clients
               PROVE  /\ client[c].stage = "complete" => client[c].shown \in Selections
                      /\ client[c].stage = "listing" =>
                           \E s \in Selections :
                             client[c].shown = SubSeq(s, 1, client[c].offset)
    BY DEF ListsAreWhole, Lists!ListsAreWhole
  <2>1. WalksItsSession(c) /\ client[c].rows \in Seq(Nat)
    BY DEF ListInv, ListTypes, ClientType
  <2>2. SubSeq(client[c].rows, 1, Len(client[c].rows)) = client[c].rows
    BY <2>1, SubSeqFull
  <2> QED
    BY <2>1, <2>2 DEF WalksItsSession, Owning
<1> QED
  BY <1>1, <1>2, <1>3, ListStep, PTL DEF ReportingSpec
-----------------------------------------------------------------------------
(* Expiry is for cause.  A list is still there for its reader, with the cursor that
   its reader holds; else its reader paused too long, or it is too old, by the
   clock.  The times of a session are those of its one reader. *)
HasCursor(c) ==
  \/ client[c].stage \in {"listing", "page"}
  \/ client[c].stage = "reading" /\ client[c].offset # 0

Overdue(c) == clock - client[c].last > Idle \/ clock - client[c].made > MaxAge

Retained(c) ==
  /\ client[c].session \in DOMAIN sessions
  /\ HasCursor(c) => <<client[c].session, client[c].offset>> \in cursors

TimesKnown(c) ==
  client[c].session \in DOMAIN sessions =>
    /\ sessions[client[c].session].created = client[c].made
    /\ sessions[client[c].session].accessed = client[c].last

Entitled(c) ==
  /\ client[c].time <= clock
  /\ client[c].stage \in Owning => TimesKnown(c) /\ (Retained(c) \/ Overdue(c))

OneReader(c, d) ==
  /\ client[c].stage \in Owning /\ client[d].stage \in Owning
  /\ client[c].session = client[d].session
  => c = d

EntitledInv ==
  /\ \A c \in Clients : Entitled(c)
  /\ \A c, d \in Clients : OneReader(c, d)

LEMMA EntitledInit == Lists!Init => EntitledInv
<1> SUFFICES ASSUME Lists!Init PROVE EntitledInv
  OBVIOUS
<1>1. \A c \in Clients : client[c].stage = "idle" /\ client[c].time = 0 /\ clock = 0
  BY DEF Lists!Init, Lists!Fresh
<1> QED
  BY <1>1 DEF EntitledInv, Entitled, OneReader, Owning

(* A call of another reader, who may use and extend session x, takes a session or
   its cursors away only when the clock says so. *)
SparesTheLive(x) ==
  /\ \A h \in DOMAIN sessions' \ {x} : h \in 1..handles =>
       /\ h \in DOMAIN sessions
       /\ sessions'[h].created = sessions[h].created
       /\ sessions'[h].accessed = sessions[h].accessed
  /\ \A h \in DOMAIN sessions \ {x} :
       \/ /\ h \in DOMAIN sessions'
          /\ \A o : <<h, o>> \in cursors => <<h, o>> \in cursors'
       \/ ~Lists!Live(sessions[h], clock)

LEMMA OthersStayEntitled ==
  ASSUME ListInv, EntitledInv, NEW x, SparesTheLive(x), clock' \in Nat, clock' >= clock,
         NEW c \in Clients, client'[c] = client[c],
         client[c].stage \in Owning => client[c].session # x
  PROVE  Entitled(c)'
<1>1. client[c].time \in Nat /\ client[c].last \in Nat /\ client[c].made \in Nat
      /\ clock \in Nat /\ Entitled(c) /\ client[c].time <= clock
  BY DEF ListInv, ListTypes, ClientType, EntitledInv, Entitled
<1>2. client'[c].time <= clock'
  BY <1>1
<1>3. Idle \in Nat /\ MaxAge \in Nat
  BY ReportingAssumption
<1>4. Overdue(c) => Overdue(c)'
  BY <1>1, <1>3 DEF Overdue
<1>5. ASSUME client[c].stage \in Owning PROVE TimesKnown(c)' /\ (Retained(c)' \/ Overdue(c)')
  <2> DEFINE h == client[c].session
  <2>1. h # x /\ h \in 1..handles /\ TimesKnown(c) /\ (Retained(c) \/ Overdue(c))
    BY <1>1, <1>5 DEF Entitled, ListInv, WalksItsSession
  <2>2. TimesKnown(c)'
    BY <2>1 DEF TimesKnown, SparesTheLive
  <2>3. CASE Retained(c)
    <3>1. h \in DOMAIN sessions /\ sessions[h] \in SessionType
      BY <2>3 DEF Retained, ListInv, ListTypes
    <3>2. CASE /\ h \in DOMAIN sessions'
               /\ \A o : <<h, o>> \in cursors => <<h, o>> \in cursors'
      BY <2>2, <2>3, <3>2 DEF Retained, HasCursor
    <3>3. CASE ~Lists!Live(sessions[h], clock)
      <4>1. sessions[h].created = client[c].made /\ sessions[h].accessed = client[c].last
        BY <2>1, <3>1 DEF TimesKnown
      <4>2. Overdue(c)
        BY <1>1, <1>3, <3>3, <4>1 DEF Lists!Live, Overdue
      <4> QED
        BY <1>4, <2>2, <4>2
    <3> QED
      BY <2>1, <3>1, <3>2, <3>3 DEF SparesTheLive
  <2> QED
    BY <1>4, <2>1, <2>2, <2>3
<1> QED
  BY <1>2, <1>5 DEF Entitled

(* One reader moves on, alone with its session. *)
LEMMA ReaderMoves ==
  ASSUME ListInv, EntitledInv, NEW x, SparesTheLive(x), clock' \in Nat, clock' >= clock,
         NEW c \in Clients, \A d \in Clients \ {c} : client'[d] = client[d],
         \A d \in Clients \ {c} : client[d].stage \in Owning => client[d].session # x,
         Entitled(c)',
         client'[c].stage \in Owning => client'[c].session = x
  PROVE  EntitledInv'
<1>1. \A d \in Clients \ {c} : Entitled(d)'
  BY OthersStayEntitled
<1>2. \A d, e \in Clients : OneReader(d, e)'
  BY DEF EntitledInv, OneReader
<1> QED
  BY <1>1, <1>2 DEF EntitledInv

(* Expiry at a time that the clock has shown spares what the clock spares. *)
LEMMA ExpirySpares ==
  ASSUME ListInv, NEW time \in Nat, time <= clock, NEW x,
         LET kept == Lists!Unexpired(sessions, time)
         IN  /\ cursors' = Lists!KeptCursors(kept)
             /\ DOMAIN kept \subseteq DOMAIN sessions'
             /\ \A h \in DOMAIN sessions' \ {x} :
                  h \in 1..handles => h \in DOMAIN kept /\ sessions'[h] = kept[h]
  PROVE  SparesTheLive(x)
<1> DEFINE kept == Lists!Unexpired(sessions, time)
<1>1. /\ DOMAIN kept = {h \in DOMAIN sessions : Lists!Live(sessions[h], time)}
      /\ \A h \in DOMAIN kept : kept[h] = sessions[h]
  BY DEF Lists!Unexpired, Lists!Restrict
<1>2. \A h \in DOMAIN sessions : Lists!Live(sessions[h], clock) => Lists!Live(sessions[h], time)
  <2>1. clock \in Nat /\ Idle \in Nat /\ MaxAge \in Nat
    BY ReportingAssumption DEF ListInv, ListTypes
  <2> QED
    BY <2>1 DEF ListInv, ListTypes, SessionType, Lists!Live
<1> HIDE DEF kept
<1>3. cursors' = {y \in cursors : y[1] \in DOMAIN kept}
  BY DEF Lists!KeptCursors, kept
<1>4. \A h, o : <<h, o>>[1] = h
  OBVIOUS
<1>5. \A h \in DOMAIN kept : \A o : <<h, o>> \in cursors => <<h, o>> \in cursors'
  BY <1>3, <1>4
<1> QED
  BY <1>1, <1>2, <1>5 DEF SparesTheLive, kept

LEMMA ExpiryOnlySpares ==
  ASSUME ListInv, NEW time \in Nat, time <= clock, NEW x,
         sessions' = Lists!Unexpired(sessions, time),
         cursors' = Lists!KeptCursors(sessions')
  PROVE  SparesTheLive(x)
BY ExpirySpares

LEMMA NothingExpires ==
  ASSUME ListInv, UNCHANGED sessions, cursors \subseteq cursors', NEW x
  PROVE  SparesTheLive(x)
BY DEF SparesTheLive

(* The session of a reader is nobody else's, nor are 0 and the next number. *)
LEMMA AloneWithSession ==
  ASSUME ListInv, EntitledInv, NEW c \in Clients, NEW d \in Clients \ {c},
         client[d].stage \in Owning
  PROVE  /\ client[d].session \notin {0, handles + 1}
         /\ client[c].stage \in Owning => client[d].session # client[c].session
<1>1. handles \in Nat /\ client[d].session \in 1..handles
  BY DEF ListInv, ListTypes, WalksItsSession
<1> QED
  BY <1>1 DEF EntitledInv, OneReader

(* What a step of one client leaves of the other clients. *)
LEMMA OthersWait ==
  ASSUME client \in [Clients -> ClientType], NEW c \in Clients, NEW new,
         client' = [client EXCEPT ![c] = new]
  PROVE  client'[c] = new /\ \A d \in Clients \ {c} : client'[d] = client[d]
OBVIOUS

LEMMA ForgottenEntitled ==
  ASSUME ListInv, EntitledInv, SparesTheLive(0), UNCHANGED clock, NEW c \in Clients,
         client' = [client EXCEPT ![c] = Lists!Fresh]
  PROVE  EntitledInv'
<1>1. client \in [Clients -> ClientType] /\ clock \in Nat
  BY DEF ListInv, ListTypes
<1>2. Lists!Fresh.stage = "idle" /\ Lists!Fresh.time = 0
  BY DEF Lists!Fresh
<1>3. Entitled(c)' /\ client'[c].stage \notin Owning
  BY <1>1, <1>2, OthersWait DEF Entitled, Owning
<1> QED
  BY <1>1, <1>3, OthersWait, AloneWithSession, ReaderMoves

LEMMA SelectEntitled ==
  ASSUME ListInv, EntitledInv, NEW c \in Clients, NEW q \in Queries, Lists!Select(c, q)
  PROVE  EntitledInv'
<1> DEFINE new == [Lists!Fresh EXCEPT !.stage = "create", !.query = q, !.rows = database,
                                      !.time = clock]
<1>1. client' = [client EXCEPT ![c] = new] /\ UNCHANGED <<clock, sessions, cursors>>
  BY DEF Lists!Select, Lists!store
<1>2. client \in [Clients -> ClientType] /\ clock \in Nat
  BY DEF ListInv, ListTypes
<1>3. new.stage = "create" /\ new.time = clock
  BY DEF Lists!Fresh
<1> HIDE DEF new
<1>4. Entitled(c)' /\ client'[c].stage \notin Owning
  BY <1>1, <1>2, <1>3, OthersWait DEF Entitled, Owning
<1> QED
  <2>1. SparesTheLive(0) /\ clock' \in Nat /\ clock' >= clock
    BY <1>1, <1>2, NothingExpires
  <2> QED
    BY <1>1, <1>2, <1>4, <2>1, OthersWait, AloneWithSession, ReaderMoves

LEMMA CreateEntitled ==
  ASSUME ListInv, EntitledInv, NEW c \in Clients, Lists!Create(c)
  PROVE  EntitledInv'
<1> DEFINE time == client[c].time
           kept == Lists!Unexpired(sessions, time)
           new == handles + 1
           row == [created |-> time, accessed |-> time,
                   query |-> client[c].query, rows |-> client[c].rows]
           asking == [client[c] EXCEPT !.stage = "reading", !.session = new,
                                        !.made = time, !.last = time]
<1>1. /\ client \in [Clients -> ClientType] /\ client[c] \in ClientType
      /\ client[c].stage = "create" /\ client[c].offset = 0
      /\ clock \in Nat /\ handles \in Nat /\ UNCHANGED clock
      /\ time \in Nat /\ time <= clock
      /\ cursors' = Lists!KeptCursors(kept)
  BY DEF ListInv, ListTypes, WalksItsSession, Lists!Create, ClientType, EntitledInv, Entitled
<1>2. CASE Lists!Full(kept)
  <2>1. sessions' = kept /\ client' = [client EXCEPT ![c] = Lists!Fresh]
    BY <1>2 DEF Lists!Create
  <2> QED
    BY <1>1, <2>1, ExpiryOnlySpares, ForgottenEntitled
<1>3. CASE ~Lists!Full(kept)
  <2>1. /\ sessions' = [h \in DOMAIN kept \cup {new} |-> IF h = new THEN row ELSE kept[h]]
        /\ client' = [client EXCEPT ![c].stage = "reading", ![c].session = new,
                                    ![c].made = time, ![c].last = time]
    BY <1>3 DEF Lists!Create
  <2>2. row.created = time /\ row.accessed = time
    OBVIOUS
  <2>3. /\ asking.stage = "reading" /\ asking.session = new /\ asking.time = time
        /\ asking.made = time /\ asking.last = time /\ asking.offset = 0
    BY <1>1 DEF ClientType
  <2>4. client' = [client EXCEPT ![c] = asking]
    BY <1>1, <2>1 DEF ClientType
  <2> HIDE DEF row, asking
  <2>5. client'[c] = asking /\ \A d \in Clients \ {c} : client'[d] = client[d]
    BY <1>1, <2>4, OthersWait
  <2>6. /\ sessions'[new] = row /\ new \in DOMAIN sessions'
        /\ DOMAIN kept \subseteq DOMAIN sessions'
        /\ \A h \in DOMAIN sessions' \ {new} :
             h \in 1..handles => h \in DOMAIN kept /\ sessions'[h] = kept[h]
    BY <2>1
  <2>7. SparesTheLive(new)
    BY <1>1, <2>6, ExpirySpares
  <2> HIDE DEF kept, new, time
  <2>8. Entitled(c)'
    BY <1>1, <2>2, <2>3, <2>5, <2>6 DEF Entitled, TimesKnown, Retained, HasCursor
  <2>9. \A d \in Clients \ {c} : client[d].stage \in Owning => client[d].session # new
    BY AloneWithSession DEF new
  <2>10. client'[c].session = new
    BY <2>3, <2>5
  <2> QED
    BY <1>1, <2>5, <2>7, <2>8, <2>9, <2>10, ReaderMoves
<1> QED
  BY <1>2, <1>3

LEMMA DeliverEntitled ==
  ASSUME ListInv, EntitledInv, NEW c \in Clients, Lists!Deliver(c)
  PROVE  EntitledInv'
<1> DEFINE stop == Lists!NextOffset(c)
           more == Lists!HasMore(c)
           shown == client[c].shown \o SubSeq(client[c].rows, client[c].offset + 1, stop)
           next == [client[c] EXCEPT !.stage = IF more THEN "listing" ELSE "complete",
                                     !.offset = stop, !.shown = shown]
           again == [client[c] EXCEPT !.stage = "listing"]
<1>1. /\ client \in [Clients -> ClientType] /\ client[c] \in ClientType
      /\ client[c].stage = "reading" /\ Entitled(c)
      /\ clock \in Nat /\ UNCHANGED <<clock, sessions>>
      /\ cursors' = IF more THEN cursors \cup {<<client[c].session, stop>>} ELSE cursors
  BY DEF ListInv, ListTypes, Lists!Deliver, EntitledInv
<1>2. /\ next.stage = IF more THEN "listing" ELSE "complete"
      /\ next.offset = stop /\ again.stage = "listing" /\ again.offset = client[c].offset
      /\ next.session = client[c].session /\ again.session = client[c].session
      /\ next.made = client[c].made /\ again.made = client[c].made
      /\ next.last = client[c].last /\ again.last = client[c].last
      /\ next.time = client[c].time /\ again.time = client[c].time
  <2> HIDE DEF stop, shown, more
  <2> QED
    BY <1>1 DEF ClientType
<1>3. \/ client' = [client EXCEPT ![c] = next]
      \/ client' = [client EXCEPT ![c] = again] /\ client[c].offset # 0
      \/ client' = [client EXCEPT ![c] = Lists!Fresh]
  BY <1>1 DEF Lists!Deliver, Lists!Cut, ClientType
<1> HIDE DEF next, again, stop, shown, more
<1>4. cursors \subseteq cursors' /\ \A x : SparesTheLive(x)
  BY <1>1, NothingExpires
<1>5. CASE client' = [client EXCEPT ![c] = next]
  <2>1. client'[c] = next /\ \A d \in Clients \ {c} : client'[d] = client[d]
    BY <1>1, <1>5, OthersWait
  <2>2. Entitled(c)'
    BY <1>1, <1>2, <1>4, <2>1
       DEF Entitled, TimesKnown, Retained, HasCursor, Overdue, Owning
  <2> QED
    BY <1>1, <1>2, <1>4, <2>1, <2>2, AloneWithSession, ReaderMoves DEF Owning
<1>6. CASE client' = [client EXCEPT ![c] = again] /\ client[c].offset # 0
  <2>1. client'[c] = again /\ \A d \in Clients \ {c} : client'[d] = client[d]
    BY <1>1, <1>6, OthersWait
  <2>2. Entitled(c)'
    BY <1>1, <1>2, <1>4, <1>6, <2>1
       DEF Entitled, TimesKnown, Retained, HasCursor, Overdue, Owning
  <2> QED
    BY <1>1, <1>2, <1>4, <2>1, <2>2, AloneWithSession, ReaderMoves DEF Owning
<1> QED
  BY <1>1, <1>3, <1>4, <1>5, <1>6, ForgottenEntitled

LEMMA AskPageEntitled ==
  ASSUME ListInv, EntitledInv, NEW c \in Clients, Lists!AskPage(c)
  PROVE  EntitledInv'
<1> DEFINE asking == [client[c] EXCEPT !.stage = "page", !.time = clock]
<1>1. /\ client \in [Clients -> ClientType] /\ client[c] \in ClientType
      /\ client[c].stage = "listing" /\ Entitled(c)
      /\ clock \in Nat /\ UNCHANGED <<clock, sessions, cursors>>
  BY DEF ListInv, ListTypes, Lists!AskPage, Lists!store, EntitledInv
<1>2. /\ asking.stage = "page" /\ asking.time = clock /\ asking.offset = client[c].offset
      /\ asking.session = client[c].session
      /\ asking.made = client[c].made /\ asking.last = client[c].last
  BY <1>1 DEF ClientType
<1>3. client' = [client EXCEPT ![c] = asking]
  BY <1>1 DEF Lists!AskPage, ClientType
<1> HIDE DEF asking
<1>4. client'[c] = asking /\ \A d \in Clients \ {c} : client'[d] = client[d]
  BY <1>1, <1>3, OthersWait
<1>5. Entitled(c)'
  BY <1>1, <1>2, <1>4 DEF Entitled, TimesKnown, Retained, HasCursor, Overdue, Owning
<1>6. SparesTheLive(client[c].session)
  BY <1>1, NothingExpires
<1> QED
  BY <1>1, <1>2, <1>4, <1>5, <1>6, AloneWithSession, ReaderMoves DEF Owning

LEMMA PageEntitled ==
  ASSUME ListInv, EntitledInv, NEW c \in Clients, Lists!Page(c)
  PROVE  EntitledInv'
<1> DEFINE time == client[c].time
           kept == Lists!Unexpired(sessions, time)
           session == client[c].session
           used == [kept[session] EXCEPT !.accessed = time]
           listing == [client[c] EXCEPT !.stage = "listing"]
           asking == [client[c] EXCEPT !.stage = "reading", !.last = time,
                                        !.rows = kept[session].rows]
<1>1. /\ client \in [Clients -> ClientType] /\ client[c] \in ClientType
      /\ client[c].stage = "page" /\ Entitled(c)
      /\ clock \in Nat /\ UNCHANGED clock /\ time \in Nat /\ time <= clock
      /\ cursors' = Lists!KeptCursors(kept)
  BY DEF ListInv, ListTypes, Lists!Page, EntitledInv, Entitled, ClientType
<1>2. /\ DOMAIN kept \subseteq DOMAIN sessions
      /\ \A h \in DOMAIN kept : kept[h] = sessions[h]
  BY UnexpiredKeeps
<1>3. TimesKnown(c) /\ (Retained(c) \/ Overdue(c))
  BY <1>1 DEF Entitled, Owning
<1>4. PICK asked \in Queries :
        IF <<session, client[c].offset>> \notin Lists!KeptCursors(kept)
        THEN /\ sessions' = kept
             /\ client' = [client EXCEPT ![c] = Lists!Fresh]
        ELSE IF kept[session].query # asked
        THEN /\ sessions' = kept
             /\ client' = [client EXCEPT ![c].stage = "listing"]
        ELSE /\ sessions' = [kept EXCEPT ![session] = Lists!Accessed(@, time)]
             /\ client' = [client EXCEPT ![c].stage = "reading", ![c].last = time,
                                         ![c].rows = kept[session].rows]
  BY DEF Lists!Page
<1>5. CASE /\ sessions' = kept
           /\ client' = [client EXCEPT ![c] = Lists!Fresh]
  BY <1>1, <1>5, ExpiryOnlySpares, ForgottenEntitled
<1> SUFFICES ASSUME <<session, client[c].offset>> \in Lists!KeptCursors(kept)
             PROVE  EntitledInv'
  BY <1>4, <1>5
<1>6. session \in DOMAIN kept /\ <<session, client[c].offset>> \in cursors'
  BY <1>1 DEF Lists!KeptCursors
<1>7. CASE /\ sessions' = kept
           /\ client' = [client EXCEPT ![c].stage = "listing"]
  <2>1. /\ listing.stage = "listing" /\ listing.time = time
        /\ listing.offset = client[c].offset /\ listing.session = session
        /\ listing.made = client[c].made /\ listing.last = client[c].last
    BY <1>1 DEF ClientType
  <2>2. client' = [client EXCEPT ![c] = listing]
    BY <1>1, <1>7 DEF ClientType
  <2>3. SparesTheLive(session)
    BY <1>1, <1>7, ExpiryOnlySpares
  <2> HIDE DEF listing, kept, time, session
  <2>4. client'[c] = listing /\ \A d \in Clients \ {c} : client'[d] = client[d]
    BY <1>1, <2>2, OthersWait
  <2>5. client[c].session = session /\ client[c].time = time
    BY DEF session, time
  <2>6. Entitled(c)'
    BY <1>1, <1>2, <1>3, <1>6, <1>7, <2>1, <2>4, <2>5
       DEF Entitled, TimesKnown, Retained, HasCursor
  <2> QED
    BY <1>1, <2>1, <2>3, <2>4, <2>5, <2>6, AloneWithSession, ReaderMoves DEF Owning
<1>8. CASE /\ sessions' = [kept EXCEPT ![session] = Lists!Accessed(@, time)]
           /\ client' = [client EXCEPT ![c].stage = "reading", ![c].last = time,
                                       ![c].rows = kept[session].rows]
  <2>1. /\ asking.stage = "reading" /\ asking.time = time
        /\ asking.offset = client[c].offset /\ asking.session = session
        /\ asking.made = client[c].made /\ asking.last = time
    BY <1>1 DEF ClientType
  <2>2. client' = [client EXCEPT ![c] = asking]
    BY <1>1, <1>8 DEF ClientType
  <2>3. kept[session] \in SessionType /\ kept[session].created = client[c].made
    BY <1>2, <1>3, <1>6 DEF ListInv, ListTypes, TimesKnown
  <2>4. used.created = client[c].made /\ used.accessed = time
    BY <2>3 DEF SessionType
  <2>5. sessions' = [kept EXCEPT ![session] = used]
    BY <1>8, <2>3 DEF Lists!Accessed
  <2> HIDE DEF asking, used
  <2>6. /\ sessions'[session] = used /\ DOMAIN sessions' = DOMAIN kept
        /\ \A h \in DOMAIN kept \ {session} : sessions'[h] = kept[h]
    BY <1>6, <2>5
  <2>7. SparesTheLive(session)
    BY <1>1, <2>6, ExpirySpares
  <2> HIDE DEF kept, time, session
  <2>8. client'[c] = asking /\ \A d \in Clients \ {c} : client'[d] = client[d]
    BY <1>1, <2>2, OthersWait
  <2>9. client[c].session = session /\ client[c].time = time
    BY DEF session, time
  <2>10. Entitled(c)'
    BY <1>1, <1>6, <2>1, <2>4, <2>6, <2>8 DEF Entitled, TimesKnown, Retained, HasCursor
  <2> QED
    BY <1>1, <2>1, <2>7, <2>8, <2>9, <2>10, AloneWithSession, ReaderMoves DEF Owning
<1> QED
  BY <1>4, <1>7, <1>8

LEMMA ResolveEntitled ==
  ASSUME ListInv, EntitledInv, NEW c \in Clients, Lists!Resolve(c)
  PROVE  EntitledInv'
<1>1. PICK time \in {clock - 1, clock} \cap Nat :
        sessions' = Lists!Unexpired(sessions, time) /\ cursors' = Lists!KeptCursors(sessions')
  BY DEF Lists!Resolve
<1>2. clock \in Nat /\ time \in Nat /\ time <= clock /\ UNCHANGED <<clock, client>>
  BY DEF ListInv, ListTypes, Lists!Resolve
<1>3. SparesTheLive(0)
  BY <1>1, <1>2, ExpiryOnlySpares
<1>4. \A d \in Clients : client[d].stage \in Owning => client[d].session # 0
  BY DEF ListInv, ListTypes, WalksItsSession
<1>5. \A d \in Clients : Entitled(d)'
  BY <1>2, <1>3, <1>4, OthersStayEntitled
<1> QED
  BY <1>2, <1>5 DEF EntitledInv, OneReader

LEMMA EntitledStep == ListInv /\ EntitledInv /\ [Lists!Next]_listed => EntitledInv'
<1> SUFFICES ASSUME ListInv, EntitledInv, [Lists!Next]_listed PROVE EntitledInv'
  OBVIOUS
<1>1. ASSUME NEW c \in Clients, Lists!Leave(c) PROVE EntitledInv'
  <2>1. UNCHANGED <<clock, sessions, cursors>>
        /\ client' = [client EXCEPT ![c] = Lists!Fresh]
    BY <1>1 DEF Lists!Leave, Lists!store
  <2> QED
    BY <2>1, NothingExpires, ForgottenEntitled
<1>2. CASE Lists!Tick \/ Lists!Ingest \/ UNCHANGED listed
  <2>1. /\ clock' \in Nat /\ clock' >= clock /\ UNCHANGED <<sessions, cursors, client>>
    BY <1>2 DEF Lists!Tick, Lists!Ingest, Lists!store, listed, ListInv, ListTypes
  <2>2. SparesTheLive(0)
    BY <2>1, NothingExpires
  <2>3. \A d \in Clients : client[d].stage \in Owning => client[d].session # 0
    BY DEF ListInv, ListTypes, WalksItsSession
  <2>4. \A d \in Clients : Entitled(d)'
    BY <2>1, <2>2, <2>3, OthersStayEntitled
  <2> QED
    BY <2>1, <2>4 DEF EntitledInv, OneReader
<1> QED
  BY <1>1, <1>2, SelectEntitled, CreateEntitled, DeliverEntitled, AskPageEntitled,
     PageEntitled, ResolveEntitled
     DEF Lists!Next

LEMMA EntitledAlways == ReportingSpec => [](ListInv /\ EntitledInv)
<1>1. ReportingInit => ListInv /\ EntitledInv
  BY ListInit, EntitledInit DEF ReportingInit
<1>2. [ReportingNext]_all => [Lists!Next]_listed
  BY DEF ReportingNext, all
<1> QED
  BY <1>1, <1>2, ListStep, EntitledStep, PTL DEF ReportingSpec

(* Whoever changes a client is that client. *)
LEMMA OwnSteps ==
  ASSUME ListInv, [Lists!Next]_listed, NEW c \in Clients, client'[c] # client[c]
  PROVE  \/ \E q \in Queries : Lists!Select(c, q)
         \/ Lists!Create(c) \/ Lists!Deliver(c) \/ Lists!AskPage(c) \/ Lists!Page(c)
         \/ Lists!Leave(c)
<1>1. client \in [Clients -> ClientType] /\ ~UNCHANGED client
  BY DEF ListInv, ListTypes
<1>2. PICK d \in Clients :
        \/ \E q \in Queries : Lists!Select(d, q)
        \/ Lists!Create(d) \/ Lists!Deliver(d) \/ Lists!AskPage(d) \/ Lists!Page(d)
        \/ Lists!Leave(d)
  BY <1>1 DEF Lists!Next, Lists!Resolve, Lists!Tick, Lists!Ingest, listed
<1>3. \E new : client' = [client EXCEPT ![d] = new]
  <2>1. CASE \E q \in Queries : Lists!Select(d, q)
    BY <1>1, <2>1 DEF Lists!Select
  <2>2. CASE Lists!Create(d) \/ Lists!Deliver(d)
    BY <1>1, <2>2 DEF Lists!Create, Lists!Deliver
  <2>3. CASE Lists!AskPage(d) \/ Lists!Page(d) \/ Lists!Leave(d)
    BY <1>1, <2>3 DEF Lists!AskPage, Lists!Page, Lists!Leave
  <2> QED
    BY <1>2, <2>1, <2>2, <2>3
<1>4. d = c
  BY <1>1, <1>3
<1> QED
  BY <1>2, <1>4

LEMMA BusyStep ==
  ASSUME ListInv, [Lists!Next]_listed, NEW c \in Clients,
         client[c].stage = "create", client'[c].stage = "idle"
  PROVE  Lists!Cardinality({h \in DOMAIN sessions : Lists!Live(sessions[h], client[c].time)})
           >= MaxSessions
<1> DEFINE kept == Lists!Unexpired(sessions, client[c].time)
<1>1. Lists!Create(c)
  BY OwnSteps DEF Lists!Select, Lists!Deliver, Lists!AskPage, Lists!Page, Lists!Leave
<1>2. client \in [Clients -> ClientType]
  BY DEF ListInv, ListTypes
<1>3. Lists!Full(kept)
  <2> SUFFICES ASSUME ~Lists!Full(kept) PROVE client'[c].stage = "reading"
    OBVIOUS
  <2>1. client' = [client EXCEPT ![c].stage = "reading", ![c].session = handles + 1,
                                 ![c].made = client[c].time, ![c].last = client[c].time]
    BY <1>1 DEF Lists!Create
  <2> QED
    BY <1>2, <2>1 DEF ClientType
<1>4. DOMAIN kept = {h \in DOMAIN sessions : Lists!Live(sessions[h], client[c].time)}
  BY DEF Lists!Unexpired, Lists!Restrict
<1> QED
  BY <1>3, <1>4 DEF Lists!Full

LEMMA KeptStep ==
  ASSUME ListInv, EntitledInv, [Lists!Next]_listed, NEW c \in Clients,
         client[c].stage = "page", client'[c].stage = "idle"
  PROVE  Overdue(c)
<1> DEFINE time == client[c].time
           session == client[c].session
           kept == Lists!Unexpired(sessions, time)
<1>1. Lists!Page(c)
  BY OwnSteps DEF Lists!Select, Lists!Create, Lists!Deliver, Lists!AskPage, Lists!Leave
<1>2. /\ client \in [Clients -> ClientType] /\ time \in Nat /\ time <= clock /\ clock \in Nat
      /\ TimesKnown(c) /\ (Retained(c) \/ Overdue(c)) /\ HasCursor(c)
  BY DEF ListInv, ListTypes, ClientType, EntitledInv, Entitled, Owning, HasCursor
<1>3. <<session, client[c].offset>> \notin cursors' /\ cursors' = Lists!KeptCursors(kept)
      /\ sessions' = kept
  <2>1. client[c] \in ClientType
    BY <1>2
  <2> QED
    BY <1>1, <1>2, <2>1 DEF Lists!Page, ClientType
<1>4. SparesTheLive(0)
  BY <1>2, <1>3, ExpiryOnlySpares
<1>5. CASE Retained(c)
  <2>1. /\ session \in DOMAIN sessions /\ session # 0 /\ sessions[session] \in SessionType
        /\ <<session, client[c].offset>> \in cursors
    BY <1>2, <1>5 DEF Retained, ListInv, ListTypes
  <2>2. ~Lists!Live(sessions[session], clock)
    BY <1>3, <1>4, <2>1 DEF SparesTheLive
  <2>3. /\ sessions[session].created = client[c].made
        /\ sessions[session].accessed = client[c].last
    BY <1>2, <2>1 DEF TimesKnown
  <2>4. client[c].made \in Nat /\ client[c].last \in Nat /\ Idle \in Nat /\ MaxAge \in Nat
    BY <1>2, ReportingAssumption DEF ClientType
  <2> QED
    BY <1>2, <2>2, <2>3, <2>4 DEF Lists!Live, Overdue
<1> QED
  BY <1>2, <1>5

(* Nobody is turned away early: a report or an export is refused only while that many
   requests hold permits, a list only while that many sessions, finished ones among
   them, have not expired; a list expires only by its reader's own pause or its age. *)
THEOREM RefusalsHaveCauses == ReportingSpec => RefusedWithCause
<1>1. [ReportingNext]_all => [Lists!Next]_listed /\ [Next]_vars
  BY DEF ReportingNext, all, vars
<1>2. ListInv /\ EntitledInv /\ [Lists!Next]_listed =>
        [\A c \in Clients :
           client[c].stage = "create" /\ client'[c].stage = "idle" =>
             Lists!Cardinality({h \in DOMAIN sessions : Lists!Live(sessions[h], client[c].time)})
               >= MaxSessions]_(Lists!vars)
  BY BusyStep
<1>3. ListInv /\ EntitledInv /\ [Lists!Next]_listed =>
        [\A c \in Clients :
           client[c].stage = "page" /\ client'[c].stage = "idle" =>
             \/ clock - client[c].last > Idle
             \/ clock - client[c].made > MaxAge]_(Lists!vars)
  BY KeptStep DEF Overdue
<1>4. ReportingInit => Init
  BY DEF ReportingInit
<1>5. ReportingSpec => Spec
  BY <1>1, <1>4, PTL DEF ReportingSpec, Spec
<1>6. ReportingSpec => BusyMeansBusy
  BY <1>5, BusyOnlyWhenFull
<1>7. ReportingSpec => Lists!BusyMeansBusy /\ Lists!ReadersAreKept
  BY <1>1, <1>2, <1>3, EntitledAlways, PTL
     DEF ReportingSpec, Lists!BusyMeansBusy, Lists!ReadersAreKept
<1> QED
  BY <1>6, <1>7 DEF RefusedWithCause
-----------------------------------------------------------------------------
(* Every directory that a crash may bring back names, as the output, a file that is
   complete and synchronized; only then may a file be named so, and only a file that
   is not written any more. *)
Directory == UNION {[N -> Files!Files] : N \in SUBSET (Writers \cup {Output})}
Directories == dirs \in Seq(Directory) /\ Len(dirs) > 0

FileTypes ==
  /\ fsync \in BOOLEAN
  /\ data \in [Files!Files -> 1..3] /\ synced \in [Files!Files -> 1..3]
  /\ \A f \in Files!Files : synced[f] <= data[f]
  /\ pc \in [Writers -> {"start", "failed", "killed", "done"} \cup Files!Running]

Progress ==
  /\ synced[Old] = 3
  /\ \A w \in Writers :
       /\ pc[w] \in {"start", "writing"} => data[w] < 3
       /\ pc[w] = "written" => data[w] = 3
       /\ pc[w] \in {"flushed", "replaced", "done"} => synced[w] = 3

Whole(d) == Output \in DOMAIN d => synced[d[Output]] = 3
New(d) == Output \in DOMAIN d /\ d[Output] # Old

Durable ==
  /\ \A i \in DOMAIN dirs : Whole(dirs[i])
  /\ (\E w \in Writers : pc[w] = "replaced") => New(Files!Dir)
  /\ fsync /\ (\E w \in Writers : pc[w] = "done") => \A i \in DOMAIN dirs : New(dirs[i])

FileInv == Directories /\ FileTypes /\ Progress /\ Durable

LEMMA FileInit == Files!Init => FileInv
<1> SUFFICES ASSUME Files!Init PROVE FileInv
  OBVIOUS
<1>1. /\ fsync \in BOOLEAN /\ data = [f \in Files!Files |-> IF f = Old THEN 3 ELSE 1]
      /\ synced = data /\ pc = [w \in Writers |-> "start"]
      /\ dirs \in {<< <<>> >>, << [n \in {Output} |-> Old] >>}
  BY DEF Files!Init
<1>2. Old \in Files!Files /\ Writers \subseteq Files!Files /\ Old \notin Writers
  BY ReportingAssumption DEF Files!Files
<1>3. FileTypes /\ Progress
  BY <1>1, <1>2 DEF FileTypes, Progress
<1>4. <<>> \in Directory /\ [n \in {Output} |-> Old] \in Directory
  <2>1. [n \in {Output} |-> Old] \in [{Output} -> Files!Files]
    BY <1>2
  <2>2. <<>> \in [{} -> Files!Files]
    OBVIOUS
  <2> QED
    BY <2>1, <2>2 DEF Directory
<1>5. PICK d \in Directory : dirs = <<d>> /\ Whole(d)
  <2>1. Whole(<<>>) /\ Whole([n \in {Output} |-> Old])
    BY <1>1, <1>2 DEF Whole
  <2> QED
    BY <1>1, <1>4, <2>1
<1>6. Directories /\ \A i \in DOMAIN dirs : Whole(dirs[i])
  BY <1>5 DEF Directories
<1>7. Durable
  BY <1>1, <1>6 DEF Durable
<1> QED
  BY <1>3, <1>6, <1>7 DEF FileInv

(* The output of a directory, as the properties see it. *)
SameOutput(d, e) ==
  /\ Output \in DOMAIN d <=> Output \in DOMAIN e
  /\ Output \in DOMAIN d => d[Output] = e[Output]

LEMMA LinkedNames ==
  ASSUME NEW d \in Directory, NEW n \in Writers \cup {Output}, NEW f \in Files!Files
  PROVE  /\ Files!Linked(d, n, f) \in Directory
         /\ n \in DOMAIN Files!Linked(d, n, f) /\ Files!Linked(d, n, f)[n] = f
         /\ n # Output => SameOutput(d, Files!Linked(d, n, f))
<1>1. PICK N \in SUBSET (Writers \cup {Output}) : d \in [N -> Files!Files]
  BY DEF Directory
<1>2. Files!Linked(d, n, f) \in [N \cup {n} -> Files!Files]
  BY <1>1 DEF Files!Linked
<1>3. Files!Linked(d, n, f) \in Directory
  BY <1>2 DEF Directory
<1> QED
  BY <1>1, <1>3 DEF Files!Linked, SameOutput

LEMMA UnlinkedNames ==
  ASSUME NEW d \in Directory, NEW w \in Writers
  PROVE  Files!Unlinked(d, w) \in Directory /\ SameOutput(d, Files!Unlinked(d, w))
<1>1. PICK N \in SUBSET (Writers \cup {Output}) : d \in [N -> Files!Files]
  BY DEF Directory
<1>2. Files!Unlinked(d, w) \in [N \ {w} -> Files!Files]
  BY <1>1 DEF Files!Unlinked
<1>3. Files!Unlinked(d, w) \in Directory
  BY <1>2 DEF Directory
<1> QED
  BY <1>1, <1>3, ReportingAssumption DEF Files!Unlinked, SameOutput

LEMMA DirIsDirectory ==
  ASSUME Directories
  PROVE  /\ Files!Dir \in Directory /\ Len(dirs) \in DOMAIN dirs
         /\ Files!Dir = dirs[Len(dirs)]
BY LenProperties, ElementOfSeq DEF Directories, Files!Dir, Files!Last

(* What a directory operation adds. *)
LEMMA ChangedDirectory ==
  ASSUME Directories, NEW d \in Directory, Files!Change(d)
  PROVE  /\ Directories' /\ Files!Dir' = d
         /\ \A i \in DOMAIN dirs' : dirs'[i] = d \/ (i \in DOMAIN dirs /\ dirs'[i] = dirs[i])
<1>1. dirs' = Append(dirs, d) /\ dirs \in Seq(Directory) /\ Len(dirs) \in Nat
  BY LenProperties DEF Files!Change, Directories
<1>2. /\ dirs' \in Seq(Directory) /\ Len(dirs') = Len(dirs) + 1 /\ dirs'[Len(dirs) + 1] = d
      /\ \A i \in 1..Len(dirs) : dirs'[i] = dirs[i]
  BY <1>1, AppendProperties
<1>3. DOMAIN dirs = 1..Len(dirs) /\ DOMAIN dirs' = 1..(Len(dirs) + 1)
  BY <1>1, <1>2, LenProperties
<1> QED
  BY <1>1, <1>2, <1>3 DEF Directories, Files!Dir, Files!Last

(* Nothing of what is synchronized is lost, and the directory is left or changed to
   one that is whole and, where it matters, new. *)
LEMMA DurableStep ==
  ASSUME FileInv, UNCHANGED fsync, synced' \in [Files!Files -> 1..3],
         \A f \in Files!Files : synced[f] = 3 => synced'[f] = 3,
         \/ UNCHANGED dirs
         \/ \E d \in Directory :
              /\ Files!Change(d)
              /\ Whole(d)'
              /\ New(Files!Dir) => New(d),
         \A w \in Writers : pc'[w] = "replaced" => pc[w] = "replaced" \/ New(Files!Dir'),
         \A w \in Writers : pc'[w] = "done" => pc[w] = "done"
  PROVE  Directories' /\ Durable'
<1>1. \A d \in Directory : Whole(d) => Whole(d)'
  BY DEF Whole, Directory
<1>2. dirs \in Seq(Directory) /\ \A i \in DOMAIN dirs : dirs[i] \in Directory /\ Whole(dirs[i])
  BY LenProperties, ElementOfSeq DEF FileInv, Directories, Durable
<1>3. CASE UNCHANGED dirs
  <2>1. Directories' /\ Files!Dir' = Files!Dir
    BY <1>3 DEF FileInv, Directories, Files!Dir, Files!Last
  <2>2. \A i \in DOMAIN dirs' : Whole(dirs[i])'
    BY <1>1, <1>2, <1>3 DEF Whole
  <2> QED
    BY <1>3, <2>1, <2>2 DEF FileInv, Durable, New
<1>4. ASSUME NEW d \in Directory, Files!Change(d), Whole(d)',
             New(Files!Dir) => New(d)
      PROVE  Directories' /\ Durable'
  <2>1. /\ Directories' /\ Files!Dir' = d
        /\ \A i \in DOMAIN dirs' : dirs'[i] = d \/ (i \in DOMAIN dirs /\ dirs'[i] = dirs[i])
    BY <1>4, ChangedDirectory DEF FileInv
  <2>2. \A i \in DOMAIN dirs' : Whole(dirs[i])'
    BY <1>1, <1>2, <1>4, <2>1 DEF Whole
  <2>3. Len(dirs) \in DOMAIN dirs /\ Files!Dir = dirs[Len(dirs)]
    BY DirIsDirectory DEF FileInv
  <2> QED
    BY <1>4, <2>1, <2>2, <2>3 DEF FileInv, Durable, New
<1> QED
  BY <1>3, <1>4

(* An attempt writes its own temporary, which nobody else writes and which is no
   output before it is complete and synchronized. *)
LEMMA AttemptTypes ==
  ASSUME FileInv, NEW w \in Writers,
         \/ Files!Create(w) \/ Files!Write(w) \/ Files!Flush(w) \/ Files!Replace(w)
         \/ Files!SyncDirectory(w) \/ Files!Fail(w) \/ Files!Kill(w)
  PROVE  /\ FileTypes' /\ Progress' /\ UNCHANGED fsync
         /\ \A f \in Files!Files : synced[f] = 3 => synced'[f] = 3
<1>1. FileTypes /\ Progress /\ w \in Files!Files /\ Old \in Files!Files /\ w # Old
      /\ Writers \subseteq Files!Files
  BY ReportingAssumption DEF FileInv, Files!Files
<1>2. PICK stage \in {"start", "failed", "killed", "done"} \cup Files!Running :
        pc' = [pc EXCEPT ![w] = stage]
  BY <1>1 DEF FileTypes, Files!Create, Files!Write, Files!Flush, Files!Replace,
              Files!SyncDirectory, Files!Fail, Files!Kill, Files!Go, Files!Running
<1>3. /\ pc' \in [Writers -> {"start", "failed", "killed", "done"} \cup Files!Running]
      /\ pc'[w] = stage /\ \A v \in Writers \ {w} : pc'[v] = pc[v]
  BY <1>1, <1>2 DEF FileTypes
<1>4. CASE Files!Write(w)
  <2>1. /\ pc[w] = "writing" /\ data[w] < 3 /\ data[w] \in 1..3 /\ UNCHANGED <<fsync, synced>>
        /\ data' = [data EXCEPT ![w] = data[w] + 1]
    BY <1>1, <1>4 DEF Files!Write, Progress, FileTypes
  <2>2. /\ data' \in [Files!Files -> 1..3] /\ data'[w] = data[w] + 1
        /\ \A f \in Files!Files \ {w} : data'[f] = data[f]
    BY <1>1, <2>1 DEF FileTypes
  <2>3. \/ stage = "writing" /\ data'[w] < 3
        \/ stage = "written" /\ data'[w] = 3
    BY <1>1, <1>3, <1>4, <2>1, <2>2 DEF Files!Write, Files!Go
  <2>4. FileTypes'
    BY <1>1, <1>3, <2>1, <2>2 DEF FileTypes
  <2>5. Progress'
    BY <1>1, <1>3, <2>1, <2>2, <2>3 DEF Progress
  <2> QED
    BY <2>1, <2>4, <2>5
<1>5. CASE Files!Flush(w)
  <2>1. /\ pc[w] = "written" /\ stage = "flushed" /\ UNCHANGED <<fsync, data>>
        /\ synced' = [synced EXCEPT ![w] = data[w]] /\ data[w] = 3
    BY <1>1, <1>3, <1>5 DEF Files!Flush, Files!Synced, Files!Go, Progress
  <2>2. /\ synced' \in [Files!Files -> 1..3] /\ synced'[w] = 3
        /\ \A f \in Files!Files \ {w} : synced'[f] = synced[f]
    BY <1>1, <2>1 DEF FileTypes
  <2>3. FileTypes'
    BY <1>1, <1>3, <2>1, <2>2 DEF FileTypes
  <2>4. Progress'
    BY <1>1, <1>3, <2>1, <2>2 DEF Progress
  <2> QED
    BY <2>1, <2>2, <2>3, <2>4
<1>6. CASE ~Files!Write(w) /\ ~Files!Flush(w)
  <2>1. UNCHANGED <<fsync, data, synced>>
    BY <1>6 DEF Files!Create, Files!Replace, Files!SyncDirectory, Files!Fail, Files!Kill
  <2>2. \/ pc[w] = "start" /\ stage = "writing"
        \/ pc[w] = "flushed" /\ stage = "replaced"
        \/ pc[w] = "replaced" /\ stage = "done"
        \/ stage \in {"failed", "killed"}
    BY <1>1, <1>3, <1>6
       DEF Files!Create, Files!Replace, Files!SyncDirectory, Files!Fail, Files!Kill,
           Files!Go, FileTypes
  <2>3. FileTypes'
    BY <1>1, <1>3, <2>1 DEF FileTypes
  <2>4. Progress'
    BY <1>1, <1>3, <2>1, <2>2 DEF Progress
  <2> QED
    BY <2>1, <2>3, <2>4
<1> QED
  BY <1>4, <1>5, <1>6

LEMMA AttemptStep ==
  ASSUME FileInv, NEW w \in Writers,
         \/ Files!Create(w) \/ Files!Write(w) \/ Files!Flush(w) \/ Files!Replace(w)
         \/ Files!Fail(w) \/ Files!Kill(w)
  PROVE  FileInv'
<1>1. /\ FileTypes' /\ Progress' /\ UNCHANGED fsync
      /\ \A f \in Files!Files : synced[f] = 3 => synced'[f] = 3
      /\ synced' \in [Files!Files -> 1..3]
  BY AttemptTypes DEF FileTypes
<1>2. /\ w \in Files!Files /\ w # Output /\ w # Old
      /\ pc \in [Writers -> {"start", "failed", "killed", "done"} \cup Files!Running]
      /\ Files!Dir \in Directory /\ Files!Dir = dirs[Len(dirs)] /\ Len(dirs) \in DOMAIN dirs
      /\ Whole(Files!Dir)
  BY ReportingAssumption, DirIsDirectory DEF FileInv, FileTypes, Files!Files, Durable
<1>3. \A d, e : SameOutput(d, e) => (New(d) <=> New(e)) /\ (Whole(d) => Whole(e))
  BY DEF SameOutput, New, Whole
<1>5. CASE Files!Replace(w)
  <2> DEFINE rest == Files!Unlinked(Files!Dir, w)
  <2>1. rest \in Directory
    BY <1>2, UnlinkedNames
  <2>2. PICK d \in Directory :
          d = Files!Linked(rest, Output, w) /\ Output \in DOMAIN d /\ d[Output] = w
    BY <1>2, <2>1, LinkedNames
  <2>3. Files!Change(d) /\ pc[w] = "flushed" /\ pc' = [pc EXCEPT ![w] = "replaced"]
        /\ UNCHANGED synced
    BY <1>5, <2>2 DEF Files!Replace, Files!Go
  <2> HIDE DEF rest
  <2>4. New(d) /\ Whole(d)'
    BY <1>2, <2>2, <2>3 DEF New, Whole, FileInv, Progress
  <2>5. Files!Dir' = d
    BY <2>2, <2>3, ChangedDirectory DEF FileInv
  <2>6. \A v \in Writers : pc'[v] = "done" => pc[v] = "done"
    BY <1>2, <2>3
  <2>7. Directories' /\ Durable'
    <3>1. New(Files!Dir')
      BY <2>4, <2>5
    <3> QED
      BY <1>1, <2>2, <2>3, <2>4, <2>6, <3>1, DurableStep
  <2> QED
    BY <1>1, <2>7 DEF FileInv
<1>6. CASE ~Files!Replace(w)
  <2>1. \A v \in Writers : /\ pc'[v] = "done" => pc[v] = "done"
                           /\ pc'[v] = "replaced" => pc[v] = "replaced"
    BY <1>2, <1>6 DEF Files!Create, Files!Write, Files!Flush, Files!Fail, Files!Kill, Files!Go
  <2>2. \/ UNCHANGED dirs
        \/ /\ UNCHANGED synced
           /\ \E d \in Directory : Files!Change(d) /\ SameOutput(Files!Dir, d)
    <3>1. CASE Files!Create(w)
      BY <1>2, <3>1, LinkedNames DEF Files!Create
    <3>2. CASE Files!Fail(w)
      BY <1>2, <3>2, UnlinkedNames DEF Files!Fail, Files!CleanUp
    <3> QED
      BY <1>6, <3>1, <3>2 DEF Files!Write, Files!Flush, Files!Kill
  <2>3. CASE UNCHANGED dirs
    <3>1. Directories' /\ Durable'
      BY <1>1, <2>1, <2>3, DurableStep
    <3> QED
      BY <1>1, <3>1 DEF FileInv
  <2>4. ASSUME UNCHANGED synced, NEW d \in Directory, Files!Change(d),
               SameOutput(Files!Dir, d)
        PROVE  FileInv'
    <3>1. Whole(d)' /\ (New(Files!Dir) => New(d))
      BY <1>2, <1>3, <2>4 DEF Whole
    <3>2. Directories' /\ Durable'
      BY <1>1, <2>1, <2>4, <3>1, DurableStep
    <3> QED
      BY <1>1, <3>2 DEF FileInv
  <2> QED
    BY <2>2, <2>3, <2>4
<1> QED
  BY <1>5, <1>6

(* The synchronized directory is the only one that a crash may bring back. *)
LEMMA SyncDirectoryStep ==
  ASSUME FileInv, NEW w \in Writers, Files!SyncDirectory(w)
  PROVE  FileInv'
<1>1. FileTypes' /\ Progress' /\ UNCHANGED <<fsync, synced>>
  BY AttemptTypes DEF Files!SyncDirectory
<1>2. /\ pc[w] = "replaced" /\ pc' = [pc EXCEPT ![w] = "done"]
      /\ pc \in [Writers -> {"start", "failed", "killed", "done"} \cup Files!Running]
      /\ dirs' = IF fsync THEN <<Files!Dir>> ELSE dirs
  BY DEF Files!SyncDirectory, Files!DirsAfterSync, Files!Go, FileInv, FileTypes
<1>3. /\ Files!Dir \in Directory /\ Files!Dir = dirs[Len(dirs)] /\ Len(dirs) \in DOMAIN dirs
      /\ Whole(Files!Dir) /\ New(Files!Dir)
  BY <1>2, DirIsDirectory DEF FileInv, Durable
<1>4. CASE fsync
  <2>1. PICK d \in Directory : d = Files!Dir
    BY <1>3
  <2>2. dirs' = <<d>> /\ Len(<<d>>) = 1 /\ <<d>>[1] = d /\ DOMAIN <<d>> = {1}
        /\ <<d>> \in Seq(Directory)
    BY <1>2, <1>4, <2>1
  <2>3. Directories' /\ Files!Dir' = d
    BY <2>2 DEF Directories, Files!Dir, Files!Last
  <2>4. Whole(d)' /\ New(d)
    BY <1>1, <1>3, <2>1 DEF Whole
  <2>5. Durable'
    BY <2>2, <2>3, <2>4 DEF Durable, Whole, New
  <2> QED
    BY <1>1, <2>3, <2>5 DEF FileInv
<1>5. CASE ~fsync
  <2>1. UNCHANGED dirs
    BY <1>2, <1>5
  <2>2. Directories' /\ Files!Dir' = Files!Dir
    BY <2>1 DEF FileInv, Directories, Files!Dir, Files!Last
  <2>3. \A v \in Writers : pc'[v] = "replaced" => pc[v] = "replaced"
    BY <1>2
  <2>4. Durable'
    BY <1>1, <1>5, <2>1, <2>2, <2>3 DEF FileInv, Durable, Whole, New
  <2> QED
    BY <1>1, <2>2, <2>4 DEF FileInv
<1> QED
  BY <1>4, <1>5

(* What is synchronized survives, and so does one of the directories. *)
LEMMA PowerLossStep ==
  ASSUME FileInv, Files!PowerLoss
  PROVE  FileInv'
<1>1. /\ FileTypes /\ Progress /\ UNCHANGED fsync /\ synced' = data'
      /\ data' \in [Files!Files -> 1..3]
      /\ \A f \in Files!Files : data'[f] \in synced[f]..data[f]
      /\ pc' = [w \in Writers |-> IF pc[w] \in Files!Running THEN "killed" ELSE pc[w]]
      /\ Old \in Files!Files /\ Writers \subseteq Files!Files
  BY DEF FileInv, Files!PowerLoss, Files!Files
<1>2. \A f \in Files!Files : synced[f] \in 1..3 /\ data[f] \in 1..3
  BY <1>1 DEF FileTypes
<1>3. \A f \in Files!Files : synced[f] = 3 => synced'[f] = 3
  BY <1>1, <1>2
<1>4. FileTypes'
  BY <1>1, <1>2 DEF FileTypes
<1>5. \A f \in Files!Files : data[f] < 3 => data'[f] < 3
  BY <1>1, <1>2
<1>6. Progress'
  BY <1>1, <1>3, <1>5 DEF Progress, Files!Running
<1>7. PICK i \in DOMAIN dirs : dirs' = <<dirs[i]>>
  BY DEF Files!PowerLoss
<1>8. PICK d \in Directory : d = dirs[i] /\ Whole(d)
  BY LenProperties, ElementOfSeq DEF FileInv, Directories, Durable
<1>9. dirs' = <<d>> /\ Len(<<d>>) = 1 /\ <<d>>[1] = d /\ DOMAIN <<d>> = {1}
      /\ <<d>> \in Seq(Directory)
  BY <1>7, <1>8
<1>10. Directories'
  BY <1>9 DEF Directories
<1>11. Whole(d)'
  BY <1>3, <1>8 DEF Whole, Directory
<1>12. fsync /\ (\E w \in Writers : pc'[w] = "done") => New(d)
  BY <1>1, <1>8 DEF FileInv, Durable
<1>13. \A w \in Writers : pc'[w] # "replaced"
  BY <1>1 DEF Files!Running
<1>14. Durable'
  BY <1>1, <1>9, <1>11, <1>12, <1>13 DEF Durable, Whole, New
<1> QED
  BY <1>4, <1>6, <1>10, <1>14 DEF FileInv

LEMMA FileStep == FileInv /\ [Files!Next]_written => FileInv'
<1>1. FileInv /\ UNCHANGED written => FileInv'
  BY DEF written, FileInv, Directories, FileTypes, Progress, Durable, Whole, New,
         Files!Dir, Files!Last
<1> QED
  BY <1>1, AttemptStep, SyncDirectoryStep, PowerLossStep DEF Files!Next

LEMMA FilesAlways == ReportingSpec => []FileInv
<1>1. ReportingInit => FileInv
  BY FileInit DEF ReportingInit
<1>2. [ReportingNext]_all => [Files!Next]_written
  BY DEF ReportingNext, all
<1> QED
  BY <1>1, <1>2, FileStep, PTL DEF ReportingSpec

(* Whoever opens the output, at any time and after any crash, finds the old file or
   a complete new one. *)
THEOREM WholeOutputs == ReportingSpec => []OutputIsWhole
<1>1. FileInv => OutputIsWhole
  <2> SUFFICES ASSUME FileInv, Output \in DOMAIN Files!Dir
               PROVE  data[Files!Dir[Output]] = 3
    BY DEF OutputIsWhole, Files!OutputIsWhole
  <2>1. /\ Files!Dir \in Directory /\ Files!Dir = dirs[Len(dirs)]
        /\ Len(dirs) \in DOMAIN dirs
    BY DirIsDirectory DEF FileInv
  <2>2. Files!Dir[Output] \in Files!Files /\ synced[Files!Dir[Output]] = 3
    BY <2>1 DEF FileInv, Durable, Whole, Directory
  <2> QED
    BY <2>2 DEF FileInv, FileTypes
<1> QED
  BY FilesAlways, <1>1, PTL

(* What a command reported as written is there, complete and not older, after a
   power loss too, where a directory can be synchronized. *)
THEOREM DurableOutputs == ReportingSpec => []DoneIsDurable
<1>1. FileInv => DoneIsDurable
  BY DEF FileInv, Durable, New, Whole, DoneIsDurable, Files!DoneIsDurable
<1> QED
  BY FilesAlways, <1>1, PTL
-----------------------------------------------------------------------------
(* Reports and snapshots.  Coherent says of one reader more than               *)
(* ReadsAreCoherent does: already while it runs, every answer it got is what   *)
(* its view answers, and the view was committed while it ran.  That is what    *)
(* makes the next answer agree with the earlier ones, and no row a stray.      *)
Tables == {"estimate", "conversations", "turns"}
Answers == {Answer(table, db, filter) : table \in Tables, db \in Databases, filter \in Nat}

Reader ==
  [kind : ReadKinds, filter : Nat, stage : ReadStages, view : Databases, got : Seq(Answers),
   during : SUBSET Databases]

ReadTypes == tables \in Databases /\ commits \in Nat /\ reading \in [Readers -> Reader]

Agrees(x, db) ==
  \A i \in 1..Len(x.got) : x.got[i] = Answer(Statements(x.kind)[i], db, x.filter)

Coherent(x) ==
  /\ x.stage = "new" => x.got = <<>>
  /\ x.stage = "open" => tables \in x.during /\ Len(x.got) < Len(Statements(x.kind))
  /\ x.stage = "done" => Len(x.got) = Len(Statements(x.kind))
  /\ x.kind # "csv" =>
       /\ x.stage # "stray"
       /\ x.got # <<>> => x.view \in x.during /\ Agrees(x, x.view)
       /\ x.stage \in {"open", "done"} /\ x.got # <<>> => WithinLimit(x.got[1])

ReadInv == ReadTypes /\ \A r \in Readers : Coherent(reading[r])
-----------------------------------------------------------------------------
(* Every reader but a CSV export asks for the estimate first. *)
LEMMA StatementsShape ==
  ASSUME NEW kind \in ReadKinds
  PROVE  /\ Statements(kind) \in Seq(Tables)
         /\ Len(Statements(kind)) \in Nat \ {0, 1}
         /\ kind # "csv" => Statements(kind)[1] = "estimate"
<1>1. CASE kind = "dashboard"
  BY <1>1 DEF Statements, Tables
<1>2. CASE kind = "detail"
  BY <1>2 DEF Statements, Tables
<1>3. CASE kind = "list"
  BY <1>3 DEF Statements, Tables
<1>4. CASE kind = "filters"
  BY <1>4 DEF Statements, Tables
<1>5. CASE kind = "extraction"
  BY <1>5 DEF Statements, Tables
<1>6. CASE kind = "csv"
  BY <1>6 DEF Statements, Tables
<1> QED BY <1>1, <1>2, <1>3, <1>4, <1>5, <1>6 DEF ReadKinds

(* What one database answers to later statements has no row that its answers to
   the earlier ones do not know. *)
LEMMA NothingStrays ==
  ASSUME ReadTypes, NEW r \in Readers, NEW db \in Databases,
         reading[r].kind # "csv",
         Agrees(reading[r], db),
         Len(reading[r].got) < Len(Statements(reading[r].kind)),
         NEW table \in Tables
  PROVE  ~Strays(r, table, Answer(table, db, reading[r].filter))
<1> DEFINE x == reading[r]
           rows == Answer(table, db, x.filter)
<1>1. /\ x \in Reader /\ x.kind \in ReadKinds /\ x.got \in Seq(Answers)
      /\ Statements(x.kind) \in Seq(Tables)
  BY StatementsShape DEF ReadTypes, Reader
<1>2. ASSUME NEW i \in Asked(r, table)
      PROVE  x.got[i] = rows
  <2>1. i \in 1..Len(x.got) /\ Statements(x.kind)[i] = table
    BY <1>1, <1>2 DEF Asked
  <2> QED BY <2>1 DEF Agrees
<1>3. CASE table = "estimate"
  BY <1>3 DEF Strays
<1>4. CASE table = "turns" /\ x.kind = "extraction"
  <2>1. ASSUME NEW i \in Asked(r, "conversations"), NEW row \in rows
        PROVE  \E known \in x.got[i] : known[1] = row[1]
    <3>1. i \in 1..Len(x.got) /\ Statements(x.kind)[i] = "conversations"
      BY <1>1, <2>1 DEF Asked
    <3>2. x.got[i] = Conversations(db, x.filter)
      BY <3>1 DEF Agrees, Answer
    <3>3. row \in Turns(db, x.filter)
      BY <1>4, <2>1 DEF Answer
    <3>4. PICK c \in Selected(db, x.filter) : row[1] = c
      BY <3>3 DEF Turns
    <3>5. <<c, db[c]>> \in Conversations(db, x.filter)
      BY DEF Conversations
    <3> QED BY <3>2, <3>4, <3>5
  <2> QED BY <1>4, <2>1 DEF Strays
<1>5. CASE x.kind # "extraction" /\ table # "estimate"
  BY <1>2, <1>5 DEF Strays
<1>6. CASE x.kind = "extraction" /\ table = "conversations"
  BY <1>6 DEF Strays
<1> QED BY <1>3, <1>4, <1>5, <1>6 DEF Tables
-----------------------------------------------------------------------------
LEMMA ReadsInit == ReadInit => ReadInv
<1> SUFFICES ASSUME ReadInit PROVE ReadInv
  OBVIOUS
<1>1. tables \in Databases /\ commits = 0 /\ Fresh \in Reader
  <2>1. <<>> \in Seq(Answers) /\ {} \in SUBSET Databases
    OBVIOUS
  <2> QED BY <2>1 DEF ReadInit, Fresh, Reader, ReadKinds, ReadStages
<1>2. Coherent(Fresh)
  BY DEF Fresh, Coherent
<1> QED BY <1>1, <1>2 DEF ReadInit, ReadInv, ReadTypes

(* A step of one reader leaves the others and what is committed alone. *)
LEMMA ReaderGoes ==
  ASSUME ReadInv, NEW r \in Readers, NEW x \in Reader,
         reading' = [reading EXCEPT ![r] = x],
         UNCHANGED <<tables, commits>>,
         Coherent(x)
  PROVE  ReadInv'
<1>1. ReadTypes'
  BY DEF ReadInv, ReadTypes
<1>2. ASSUME NEW s \in Readers PROVE Coherent(reading[s])'
  <2>1. CASE s = r
    <3>1. reading'[s] = x
      BY <2>1 DEF ReadInv, ReadTypes
    <3> QED BY <3>1 DEF Coherent, Agrees
  <2>2. CASE s # r
    <3>1. reading'[s] = reading[s] /\ Coherent(reading[s])
      BY <2>2 DEF ReadInv, ReadTypes
    <3> QED BY <3>1 DEF Coherent, Agrees
  <2> QED BY <2>1, <2>2
<1> QED BY <1>1, <1>2 DEF ReadInv

LEMMA OpenReads == ASSUME ReadInv, NEW r \in Readers, Open(r) PROVE ReadInv'
<1>1. PICK kind \in ReadKinds, filter \in 1..MaxTurns :
        reading' = [reading EXCEPT ![r] =
          [@ EXCEPT !.kind = kind, !.filter = filter, !.stage = "open", !.during = {tables}]]
  BY DEF Open
<1> DEFINE old == reading[r]
           x == [old EXCEPT !.kind = kind, !.filter = filter, !.stage = "open",
                            !.during = {tables}]
<1>2. old \in Reader /\ old.got = <<>> /\ tables \in Databases
  BY DEF Open, ReadInv, ReadTypes, Coherent
<1>3. x \in Reader
  <2>1. filter \in Nat
    OBVIOUS
  <2>2. {tables} \in SUBSET Databases /\ "open" \in ReadStages
    BY <1>2 DEF ReadStages
  <2> QED BY <1>2, <2>1, <2>2 DEF Reader
<1>4. /\ x.kind = kind /\ x.stage = "open" /\ x.during = {tables} /\ x.got = <<>>
  BY <1>2 DEF Reader
<1>5. Coherent(x)
  BY <1>4, StatementsShape DEF Coherent
<1> QED BY <1>1, <1>3, <1>5, ReaderGoes DEF Open

LEMMA FailReads == ASSUME ReadInv, NEW r \in Readers, Fail(r) PROVE ReadInv'
<1> DEFINE x == [reading[r] EXCEPT !.stage = "failed"]
<1>1. reading[r] \in Reader /\ Coherent(reading[r])
  BY DEF ReadInv, ReadTypes
<1>2. x \in Reader
  BY <1>1 DEF Reader, ReadStages
<1>3. /\ x.kind = reading[r].kind /\ x.got = reading[r].got /\ x.view = reading[r].view
      /\ x.during = reading[r].during /\ x.filter = reading[r].filter /\ x.stage = "failed"
  BY <1>1 DEF Reader
<1>4. Coherent(x)
  BY <1>1, <1>3 DEF Coherent, Agrees
<1> QED BY <1>2, <1>4, ReaderGoes DEF Fail

LEMMA CommitReads == ASSUME ReadInv, Commit PROVE ReadInv'
<1>1. PICK db \in Databases :
        /\ tables' = db
        /\ reading' = [r \in Readers |->
             IF reading[r].stage = "open"
             THEN [reading[r] EXCEPT !.during = @ \cup {db}] ELSE reading[r]]
  BY DEF Commit
<1>2. ASSUME NEW r \in Readers
      PROVE  reading'[r] \in Reader /\ Coherent(reading[r])'
  <2>1. reading[r] \in Reader /\ Coherent(reading[r])
    BY DEF ReadInv, ReadTypes
  <2>2. CASE reading[r].stage = "open"
    <3>1. reading'[r] = [reading[r] EXCEPT !.during = @ \cup {db}]
      BY <1>1, <2>2
    <3>2. /\ reading'[r] \in Reader
          /\ reading'[r].kind = reading[r].kind /\ reading'[r].got = reading[r].got
          /\ reading'[r].view = reading[r].view /\ reading'[r].filter = reading[r].filter
          /\ reading'[r].stage = "open" /\ reading'[r].during = reading[r].during \cup {db}
      BY <2>1, <2>2, <3>1 DEF Reader
    <3> QED BY <1>1, <2>1, <2>2, <3>2 DEF Coherent, Agrees
  <2>3. CASE reading[r].stage # "open"
    <3>1. reading'[r] = reading[r]
      BY <1>1, <2>3
    <3> QED BY <2>1, <2>3, <3>1 DEF Coherent, Agrees
  <2> QED BY <2>2, <2>3
<1>3. ReadTypes'
  BY <1>1, <1>2 DEF Commit, ReadInv, ReadTypes
<1> QED BY <1>2, <1>3 DEF ReadInv

(* What Ask decides, by its consequences. *)
LEMMA AskDecides ==
  ASSUME NEW r \in Readers, Ask(r)
  PROVE  \E stage \in {"limit", "stray", "done", "open"} :
           /\ reading' = [reading EXCEPT ![r] =
                [reading[r] EXCEPT !.stage = stage, !.view = View(r),
                   !.got = Append(reading[r].got, Answer(NextStatement(r), View(r), reading[r].filter))]]
           /\ stage = "stray" =>
                Strays(r, NextStatement(r), Answer(NextStatement(r), View(r), reading[r].filter))
           /\ stage \in {"done", "open"} /\ NextStatement(r) = "estimate" =>
                WithinLimit(Answer(NextStatement(r), View(r), reading[r].filter))
           /\ (stage = "done") => Len(reading[r].got) + 1 = Len(Statements(reading[r].kind))
           /\ (stage = "open") => Len(reading[r].got) + 1 # Len(Statements(reading[r].kind))
<1> DEFINE answer == Answer(NextStatement(r), View(r), reading[r].filter)
           over == NextStatement(r) = "estimate" /\ ~WithinLimit(answer)
           stray == Strays(r, NextStatement(r), answer)
           last == Len(reading[r].got) + 1 = Len(Statements(reading[r].kind))
           Decided(stage) == reading' = [reading EXCEPT ![r] =
             [reading[r] EXCEPT !.stage = stage, !.view = View(r),
                                !.got = Append(reading[r].got, answer)]]
<1>1. Decided(IF over THEN "limit" ELSE IF stray THEN "stray" ELSE IF last THEN "done" ELSE "open")
  BY DEF Ask
<1> HIDE DEF Decided, answer, stray, last
<1>2. CASE over
  <2>1. Decided("limit")
    BY <1>1, <1>2
  <2> QED BY <2>1 DEF Decided, answer
<1>3. CASE ~over /\ stray
  <2>1. Decided("stray")
    BY <1>1, <1>3
  <2> QED BY <1>3, <2>1 DEF Decided, answer, stray
<1>4. CASE ~over /\ ~stray /\ last
  <2>1. Decided("done")
    BY <1>1, <1>4
  <2> QED BY <1>4, <2>1 DEF Decided, answer, last
<1>5. CASE ~over /\ ~stray /\ ~last
  <2>1. Decided("open")
    BY <1>1, <1>5
  <2> QED BY <1>5, <2>1 DEF Decided, answer, last
<1> QED BY <1>2, <1>3, <1>4, <1>5

LEMMA AskReads == ASSUME ReadInv, NEW r \in Readers, Ask(r) PROVE ReadInv'
<1> DEFINE old == reading[r]
           statements == Statements(old.kind)
           statement == NextStatement(r)
           answer == Answer(statement, View(r), old.filter)
<1>1. /\ old \in Reader /\ Coherent(old) /\ old.stage = "open" /\ ReadTypes
  BY DEF Ask, ReadInv, ReadTypes
<1>2. /\ old.kind \in ReadKinds /\ old.filter \in Nat /\ old.got \in Seq(Answers)
      /\ old.view \in Databases /\ tables \in Databases /\ tables \in old.during
      /\ old.during \in SUBSET Databases
  BY <1>1 DEF Reader, ReadTypes, Coherent
<1>3. PICK stage \in {"limit", "stray", "done", "open"} :
        /\ reading' = [reading EXCEPT ![r] =
             [reading[r] EXCEPT !.stage = stage, !.view = View(r),
                                !.got = Append(reading[r].got, answer)]]
        /\ stage = "stray" => Strays(r, statement, answer)
        /\ stage \in {"done", "open"} /\ statement = "estimate" => WithinLimit(answer)
        /\ (stage = "done") => Len(old.got) + 1 = Len(statements)
        /\ (stage = "open") => Len(old.got) + 1 # Len(statements)
  BY AskDecides
<1> DEFINE x == [old EXCEPT !.stage = stage, !.view = View(r), !.got = Append(@, answer)]
<1>10. View(r) \in Databases
  BY <1>2 DEF View
<1>4. statement \in Tables /\ answer \in Answers /\ Len(old.got) < Len(statements)
  <2>1. Len(old.got) < Len(statements)
    BY <1>1 DEF Coherent
  <2>2. statements \in Seq(Tables) /\ Len(old.got) + 1 \in 1..Len(statements)
    BY <1>2, <2>1, StatementsShape
  <2>3. statement \in Tables
    BY <2>2 DEF NextStatement
  <2> QED BY <1>2, <1>10, <2>1, <2>3 DEF Answers
<1>5. x \in Reader
  <2>1. stage \in ReadStages /\ Append(old.got, answer) \in Seq(Answers)
    BY <1>2, <1>4 DEF ReadStages
  <2> QED BY <1>1, <1>10, <2>1 DEF Reader
<1>6. /\ x.kind = old.kind /\ x.filter = old.filter /\ x.during = old.during
      /\ x.stage = stage /\ x.view = View(r) /\ x.got = Append(old.got, answer)
  BY <1>1 DEF Reader
<1>7. /\ stage = "open" => Len(x.got) < Len(statements)
      /\ stage = "done" => Len(x.got) = Len(statements)
      /\ stage # "new"
  <2>1. Len(x.got) = Len(old.got) + 1 /\ Len(statements) \in Nat /\ Len(old.got) \in Nat
    BY <1>2, <1>4, <1>6, StatementsShape
  <2> QED BY <1>3, <1>4, <2>1
<1>8. ASSUME old.kind = "csv" PROVE Coherent(x)
  BY <1>2, <1>6, <1>7, <1>8 DEF Coherent
<1>9. ASSUME old.kind # "csv" PROVE Coherent(x)
  <2>1. View(r) \in old.during /\ Agrees(old, View(r))
    <3>1. CASE old.got = <<>>
      BY <1>2, <3>1 DEF View, Agrees
    <3>2. CASE old.got # <<>>
      BY <1>1, <1>9, <3>2 DEF View, Coherent
    <3> QED BY <3>1, <3>2
  <2>2. Agrees(x, View(r))
    <3>1. ASSUME NEW i \in 1..Len(x.got)
          PROVE  x.got[i] = Answer(statements[i], View(r), old.filter)
      <4>1. CASE i = Len(old.got) + 1
        BY <1>2, <1>6, <4>1 DEF NextStatement
      <4>2. CASE i # Len(old.got) + 1
        <5>1. i \in 1..Len(old.got) /\ x.got[i] = old.got[i]
          BY <1>2, <1>4, <1>6, <4>2
        <5> QED BY <2>1, <5>1 DEF Agrees
      <4> QED BY <4>1, <4>2
    <3> QED BY <1>6, <3>1 DEF Agrees
  <2>3. ~Strays(r, statement, answer)
    BY <1>1, <1>4, <1>9, <1>10, <2>1, NothingStrays
  <2>4. stage \in {"open", "done"} => WithinLimit(x.got[1])
    <3>1. CASE old.got = <<>>
      <4>1. statement = "estimate" /\ x.got[1] = answer
        BY <1>2, <1>6, <1>9, <3>1, StatementsShape DEF NextStatement
      <4> QED BY <1>3, <4>1
    <3>2. CASE old.got # <<>>
      <4>1. WithinLimit(old.got[1])
        BY <1>1, <1>9, <3>2 DEF Coherent
      <4>2. x.got[1] = old.got[1]
        BY <1>2, <1>4, <1>6, <3>2
      <4> QED BY <4>1, <4>2
    <3> QED BY <3>1, <3>2
  <2>5. stage # "stray"
    BY <1>3, <2>3
  <2> QED BY <1>2, <1>6, <1>7, <2>1, <2>2, <2>4, <2>5 DEF Coherent
<1>11. reading' = [reading EXCEPT ![r] = x]
  BY <1>3
<1>13. UNCHANGED <<tables, commits>>
  BY DEF Ask
<1>12. Coherent(x)
  BY <1>8, <1>9
<1> HIDE DEF x
<1> QED BY <1>5, <1>11, <1>12, <1>13, ReaderGoes

(* Inductiveness, as a whole. *)
LEMMA ReadsStep == ReadInv /\ [ReadNext]_readVars => ReadInv'
<1> SUFFICES ASSUME ReadInv, [ReadNext]_readVars PROVE ReadInv'
  OBVIOUS
<1>1. CASE UNCHANGED readVars
  BY <1>1 DEF readVars, ReadInv, ReadTypes, Coherent, Agrees
<1>2. CASE \E r \in Readers : Open(r) \/ Ask(r) \/ Fail(r)
  BY <1>2, OpenReads, AskReads, FailReads
<1>3. CASE Commit
  BY <1>3, CommitReads
<1> QED BY <1>1, <1>2, <1>3 DEF ReadNext

(* Whatever is committed between the statements of a dashboard, a detail, a list,
   its filters or an extraction, all that it returns is what one database says
   that was committed while it was read (_dashboard_snapshot, extract_snapshots),
   and no row of it is a stray. *)
THEOREM ReadsAreCoherentAlways == ReadSpec => []ReadsAreCoherent
<1>1. ReadInv => ReadsAreCoherent
  <2> SUFFICES ASSUME ReadInv, NEW r \in Readers, reading[r].kind # "csv"
               PROVE  /\ reading[r].stage # "stray"
                      /\ reading[r].stage = "done" =>
                           \E db \in reading[r].during :
                             /\ WithinLimit(Answer("estimate", db, reading[r].filter))
                             /\ \A i \in DOMAIN Statements(reading[r].kind) :
                                  reading[r].got[i] =
                                    Answer(Statements(reading[r].kind)[i], db, reading[r].filter)
    BY DEF ReadsAreCoherent
  <2> DEFINE x == reading[r]
  <2>1. x \in Reader /\ x.kind \in ReadKinds /\ x.got \in Seq(Answers) /\ Coherent(x)
    BY DEF ReadInv, ReadTypes, Reader
  <2>2. Statements(x.kind) \in Seq(Tables) /\ Len(Statements(x.kind)) \in Nat \ {0, 1}
    BY <2>1, StatementsShape
  <2>3. ASSUME x.stage = "done"
        PROVE  \E db \in x.during :
                 /\ WithinLimit(Answer("estimate", db, x.filter))
                 /\ \A i \in DOMAIN Statements(x.kind) :
                      x.got[i] = Answer(Statements(x.kind)[i], db, x.filter)
    <3>1. x.got # <<>> /\ Len(x.got) = Len(Statements(x.kind))
      BY <2>1, <2>2, <2>3 DEF Coherent
    <3>2. x.view \in x.during /\ Agrees(x, x.view) /\ WithinLimit(x.got[1])
      BY <2>1, <2>3, <3>1 DEF Coherent
    <3>3. x.got[1] = Answer("estimate", x.view, x.filter)
      BY <2>1, <2>2, <3>1, <3>2, StatementsShape DEF Agrees
    <3>4. \A i \in DOMAIN Statements(x.kind) :
            x.got[i] = Answer(Statements(x.kind)[i], x.view, x.filter)
      BY <2>2, <3>1, <3>2 DEF Agrees
    <3> QED BY <3>2, <3>3, <3>4
  <2> QED BY <2>1, <2>3 DEF Coherent
<1>2. ReadSpec => []ReadInv
  BY ReadsInit, ReadsStep, PTL DEF ReadSpec
<1> QED BY <1>1, <1>2, PTL
=============================================================================
