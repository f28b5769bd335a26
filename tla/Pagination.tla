------------------------------ MODULE Pagination ------------------------------
(***************************************************************************)
(* PaginationStore and the conversation list (reporting_api.py): a list    *)
(* request selects its conversations once, retains them as a session and   *)
(* walks it by cursors; a detail request resolves a reference of a page.   *)
(*                                                                         *)
(* Every store method reads the clock before it takes the lock, so the     *)
(* times of calls may enter the store in another order.  Random handles    *)
(* are unguessable and never repeat: a session is a number, a cursor its   *)
(* session and offset, a reference its session and position.               *)
(***************************************************************************)
EXTENDS Integers, Sequences, FiniteSets, Functions

CONSTANTS
  Clients,     \* requests and their followers, one list at a time each
  Queries,     \* query, sort and page size, as fingerprints
  Selections,  \* what a query may select from the database
  MaxSessions, \* MAX_PAGINATION_SESSIONS
  Idle,        \* PAGINATION_IDLE_SECONDS
  MaxAge,      \* PAGINATION_MAX_SECONDS
  PageSize,
  EndOfTime,   \* bound on the clock
  MaxHandles,  \* bound on the sessions ever made
  None

VARIABLES
  clock,      \* time.monotonic
  database,   \* what a selection made now contains
  handles,    \* sessions made so far
  sessions,   \* _sessions
  cursors,    \* _cursors
  references, \* _references
  client      \* each client's request and what it has been shown; made and last,
              \* the times of its list and of its last page, are in no code

store == <<handles, sessions, cursors, references>>
vars == <<clock, database, store, client>>

Fresh ==
  [stage |-> "idle", query |-> None, time |-> 0, rows |-> <<>>, session |-> 0,
   offset |-> 0, shown |-> <<>>, made |-> 0, last |-> 0]

Init ==
  /\ clock = 0
  /\ database \in Selections
  /\ handles = 0
  /\ sessions = <<>> /\ cursors = {} /\ references = <<>>
  /\ client = [c \in Clients |-> Fresh]

Refs(s) == {s} \X (1..Len(sessions[s].rows))
-----------------------------------------------------------------------------
(* _expire, called by every store method but next_cursor. *)
Live(s, time) == time - s.accessed <= Idle /\ time - s.created <= MaxAge

Unexpired(f, time) == Restrict(f, {h \in DOMAIN f : Live(f[h], time)})
KeptCursors(kept) == {x \in cursors : x[1] \in DOMAIN kept}

(* conversations without a cursor: the rows come from one database snapshot. *)
Select(c, q) ==
  /\ client[c].stage \in {"idle", "complete"}
  /\ handles + Cardinality({d \in Clients : client[d].stage = "create"}) < MaxHandles
  /\ client' = [client EXCEPT ![c] =
                  [Fresh EXCEPT !.stage = "create", !.query = q, !.rows = database,
                                !.time = clock]]
  /\ UNCHANGED <<clock, database, store>>

Full_BeforeExpiry(kept) == Cardinality(DOMAIN sessions) >= MaxSessions
Full(kept) == Cardinality(DOMAIN kept) >= MaxSessions

Create(c) ==
  LET time == client[c].time
      kept == Unexpired(sessions, time)
      keptReferences == Unexpired(references, time)
      new == handles + 1
      times == [created |-> time, accessed |-> time]
  IN  /\ client[c].stage = "create"
      /\ cursors' = KeptCursors(kept)
      /\ IF Full(kept)
         THEN /\ sessions' = kept /\ references' = keptReferences
              /\ client' = [client EXCEPT ![c] = Fresh]
              /\ UNCHANGED handles
         ELSE /\ handles' = new
              /\ sessions' = [h \in DOMAIN kept \cup {new} |->
                   IF h = new THEN [created |-> time, accessed |-> time,
                                    query |-> client[c].query, rows |-> client[c].rows]
                   ELSE kept[h]]
              /\ references' =
                   [r \in DOMAIN keptReferences
                          \cup ({new} \X (1..Len(client[c].rows))) |->
                      IF r \in DOMAIN keptReferences THEN keptReferences[r] ELSE times]
              /\ client' = [client EXCEPT ![c].stage = "reading", ![c].session = new,
                                             ![c].made = time, ![c].last = time]
      /\ UNCHANGED <<clock, database>>

(* The page is cut from the retained session, then next_cursor enters the lock
   again; the response may be lost, and the client asks for the page once more. *)
Cut_FromDatabase(c) == database
Cut(c) == client[c].rows

NextOffset(c) ==
  IF client[c].offset + PageSize < Len(Cut(c)) THEN client[c].offset + PageSize
  ELSE Len(Cut(c))

HasMore(c) == NextOffset(c) < Len(Cut(c))

Deliver(c) ==
  /\ client[c].stage = "reading"
  /\ LET stop == NextOffset(c)
         page == SubSeq(Cut(c), client[c].offset + 1, stop)
         more == HasMore(c)
     IN  /\ cursors' = IF more THEN cursors \cup {<<client[c].session, stop>>} ELSE cursors
         /\ \/ client' = [client EXCEPT ![c].stage = IF more THEN "listing" ELSE "complete",
                                        ![c].offset = stop, ![c].shown = @ \o page]
            \/ client' = [client EXCEPT ![c] =
                            IF @.offset = 0 THEN Fresh ELSE [@ EXCEPT !.stage = "listing"]]
  /\ UNCHANGED <<clock, database, handles, sessions, references>>

(* conversations with a cursor, for the query it came from or for another one. *)
AskPage(c) ==
  /\ client[c].stage = "listing"
  /\ client' = [client EXCEPT ![c].stage = "page", ![c].time = clock]
  /\ UNCHANGED <<clock, database, store>>

Accessed(s, time) == [s EXCEPT !.accessed = time]

Page(c) ==
  LET time == client[c].time
      kept == Unexpired(sessions, time)
      session == client[c].session
  IN  /\ client[c].stage = "page"
      /\ cursors' = KeptCursors(kept)
      /\ references' = Unexpired(references, time)
      /\ \E asked \in Queries :
           IF <<session, client[c].offset>> \notin KeptCursors(kept)
           THEN /\ sessions' = kept
                /\ client' = [client EXCEPT ![c] = Fresh]
           ELSE IF kept[session].query # asked
           THEN /\ sessions' = kept
                /\ client' = [client EXCEPT ![c].stage = "listing"]
           ELSE /\ sessions' = [kept EXCEPT ![session] = Accessed(@, time)]
                /\ client' = [client EXCEPT ![c].stage = "reading", ![c].last = time,
                                            ![c].rows = kept[session].rows]
      /\ UNCHANGED <<clock, database, handles>>

(* conversation: resolve_reference on a row of a page this client was shown. *)
Resolve(c) ==
  /\ client[c].stage \in {"listing", "complete"}
  /\ \E time \in {clock - 1, clock} \cap Nat, i \in DOMAIN client[c].shown :
       LET kept == Unexpired(references, time)
           r == <<client[c].session, i>>
       IN  /\ sessions' = Unexpired(sessions, time)
           /\ cursors' = KeptCursors(sessions')
           /\ references' = IF r \in DOMAIN kept
                            THEN [kept EXCEPT ![r].accessed = time] ELSE kept
  /\ UNCHANGED <<clock, database, handles, client>>

(* The client goes away: nothing tells the store. *)
Leave(c) ==
  /\ client[c].stage \in {"listing", "complete"}
  /\ client' = [client EXCEPT ![c] = Fresh]
  /\ UNCHANGED <<clock, database, store>>

Tick ==
  /\ clock < EndOfTime /\ clock' = clock + 1
  /\ UNCHANGED <<database, store, client>>

Ingest ==
  /\ \E s \in Selections : database' = s
  /\ UNCHANGED <<clock, store, client>>

Next ==
  \/ \E c \in Clients : \/ \E q \in Queries : Select(c, q)
                        \/ Create(c) \/ Deliver(c) \/ AskPage(c) \/ Page(c)
                        \/ Resolve(c) \/ Leave(c)
  \/ Tick \/ Ingest
Spec == Init /\ [][Next]_vars
-----------------------------------------------------------------------------
(* A list that was read to its end shows one selection, whole and in order,
   whatever was ingested, lost and asked again meanwhile ("concurrent ingestion
   cannot introduce duplicates or omissions", ADR 0004). *)
ListsAreWhole ==
  \A c \in Clients :
    /\ client[c].stage = "complete" => client[c].shown \in Selections
    /\ client[c].stage = "listing" =>
         \E s \in Selections : client[c].shown = SubSeq(s, 1, client[c].offset)

(* A list is refused as busy only while so many sessions are unexpired: each read
   or made less than the idle limit, made less than the age limit ago.  A session
   counts until then also when its reader has had the last page or has gone away. *)
BusyMeansBusy ==
  [][\A c \in Clients :
       client[c].stage = "create" /\ client'[c].stage = "idle" =>
         Cardinality({h \in DOMAIN sessions : Live(sessions[h], client[c].time)})
           >= MaxSessions]_vars

(* "Sessions ... are removed after the final page" (ADR 0004): nobody is refused for
   the sake of lists that were read to their end.  Only _expire deletes a session. *)
Finished(h) == \E c \in Clients : client[c].stage = "complete" /\ client[c].session = h
FinishedListsMakeRoom ==
  [][\A c \in Clients :
       client[c].stage = "create" /\ client'[c].stage = "idle" =>
         Cardinality({h \in DOMAIN sessions :
                        Live(sessions[h], client[c].time) /\ ~Finished(h)})
           >= MaxSessions]_vars

(* A list expires for its reader only when its last page was read longer than the
   idle limit ago, or it was made longer than the age limit ago, as the clock says
   when the request is handled: no other call expires it sooner. *)
ReadersAreKept ==
  [][\A c \in Clients :
       client[c].stage = "page" /\ client'[c].stage = "idle" =>
         \/ clock - client[c].last > Idle
         \/ clock - client[c].made > MaxAge]_vars

(* What a page just served refers to can be opened: "one opaque conversation
   reference from the list response" (ADR 0004). *)
ServedReferencesResolve ==
  [][\A c \in Clients :
       client[c].stage = "page" /\ client'[c].stage = "reading" =>
         Refs(client[c].session) \subseteq DOMAIN references']_vars
=============================================================================
