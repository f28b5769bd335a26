----------------------------- MODULE LayoutProofs -----------------------------
(***************************************************************************)
(* What LayoutEditor keeps for every number of tabs, requests and layouts: *)
(* an entity tag names one layout, and the tag a tab would send names the  *)
(* layout it displays.  And what the draft of a page keeps, whatever is    *)
(* edited, undone and redone in it.                                        *)
(***************************************************************************)
EXTENDS MCLayoutEditor, FiniteSetTheorems, SequenceTheorems, WellFoundedInduction, TLAPS

(* The row is the last entry of the history. *)
RowIsLast ==
  IF row = None THEN history = <<>>
  ELSE /\ row.revision = Len(history)
       /\ Layout = history[Len(history)]

(* A tag r somebody holds next to the layout v is one the store has given out. *)
Knows(r, v) == r <= Len(history) /\ v = Named(r)

(* What a request carries, and what its answer brings. *)
CallKnows(c) ==
  /\ c.kind = "save" => Knows(c.etag, c.base)
  /\ c.reply # None =>
       /\ c.reply.accepted => Knows(c.reply.etag, c.reply.layout)
       /\ c.kind # "save" => c.reply.accepted

Inv ==
  /\ TypeOK
  /\ RowIsLast
  /\ TagNamesBaseline
  /\ \A b \in Tabs, i \in Slots : calls[b][i] # None => CallKnows(calls[b][i])
-----------------------------------------------------------------------------
(* The store's revision is the length of its history, and names its layout. *)
LEMMA StoreKnows ==
  ASSUME LayoutTypeOK, RowIsLast
  PROVE  /\ Revision \in 0..MaxRevision
         /\ Revision = Len(history)
         /\ Layout \in Layouts
         /\ Knows(Revision, Layout)
<1>1. CASE row = None
  BY <1>1, DefaultAssumption, MaxRevisionAssumption
     DEF LayoutTypeOK, RowIsLast, Revision, Layout, Knows, Named
<1>2. CASE row # None
  BY <1>2, DefaultAssumption, MaxRevisionAssumption
     DEF LayoutTypeOK, RowIsLast, Revision, Layout, Resolved, Knows, Named
<1> QED
  BY <1>1, <1>2

(* An accepted write appends to the history, and whatever was known stays. *)
LEMMA WriteKnows ==
  ASSUME LayoutTypeOK, RowIsLast,
         NEW e \in Tags, NEW v \in Layouts, Accepts(e), Write(v)
  PROVE  /\ LayoutTypeOK' /\ RowIsLast'
         /\ history' = Append(history, v)
         /\ e + 1 \in Tags
         /\ Knows(e + 1, v)'
         /\ \A r \in Nat : \A w : Knows(r, w) => Knows(r, w)'
<1>1. e = Len(history) /\ e < MaxRevision /\ history \in Seq(Layouts)
  BY StoreKnows DEF Accepts, LayoutTypeOK
<1>2. /\ history' = Append(history, v)
      /\ row' = [layout |-> v, revision |-> e + 1]
  BY <1>1 DEF Write, Accepts
<1>3. /\ history' \in Seq(Layouts)
      /\ Len(history') = e + 1
      /\ history'[e + 1] = v
      /\ \A n \in 1..Len(history) : history'[n] = history[n]
  BY <1>1, <1>2
<1>4. row' # None
  BY <1>1, <1>2, NoneAssumption
<1>5. LayoutTypeOK'
  BY <1>1, <1>2, <1>3, MaxRevisionAssumption DEF LayoutTypeOK, Tags
<1>6. RowIsLast'
  BY <1>2, <1>3, <1>4 DEF RowIsLast, Layout, Resolved
<1>7. e + 1 \in Tags
  BY <1>1, MaxRevisionAssumption DEF Tags
<1>8. Knows(e + 1, v)'
  BY <1>1, <1>3 DEF Knows, Named
<1>9. \A r \in Nat : \A w : Knows(r, w) => Knows(r, w)'
  BY <1>1, <1>3 DEF Knows, Named
<1> QED
  BY <1>2, <1>5, <1>6, <1>7, <1>8, <1>9
-----------------------------------------------------------------------------
(* A request that carries no tag, or one its tab holds, is well formed. *)
LEMMA NewCall ==
  ASSUME NEW kind \in Kinds, NEW d \in Layouts, NEW e \in Tags, NEW v \in Layouts,
         kind = "save" => Knows(e, v)
  PROVE  /\ Request(kind, d, e, v) \in CallType
         /\ CallKnows(Request(kind, d, e, v))
BY DEF Request, CallType, CallKnows

(* With the store unchanged, well-formed tabs and requests keep the invariant. *)
LEMMA QuietStep ==
  ASSUME Inv, UNCHANGED store,
         tab' \in [Tabs -> TabType],
         calls' \in [Tabs -> [Slots -> CallType \cup {None}]],
         \A b \in Tabs : tab'[b].etag # None => Knows(tab'[b].etag, tab'[b].baseline),
         \A b \in Tabs, i \in Slots : calls'[b][i] # None => CallKnows(calls'[b][i])
  PROVE  Inv'
<1>1. TypeOK'
  BY DEF Inv, TypeOK, LayoutTypeOK, store
<1>2. RowIsLast'
  BY DEF Inv, RowIsLast, Layout, store
<1>3. TagNamesBaseline'
  BY DEF TagNamesBaseline, Knows, Named, store
<1>4. \A b \in Tabs, i \in Slots : calls'[b][i] # None => CallKnows(calls[b][i])'
  BY DEF CallKnows, Knows, Named, store
<1> QED
  BY <1>1, <1>2, <1>3, <1>4 DEF Inv

(* A step of one tab that leaves every request alone. *)
LEMMA TabStep ==
  ASSUME Inv, UNCHANGED <<store, calls>>, NEW b \in Tabs,
         NEW t \in TabType, t.etag # None => Knows(t.etag, t.baseline),
         tab' = [tab EXCEPT ![b] = t]
  PROVE  Inv'
<1>1. /\ tab' \in [Tabs -> TabType]
      /\ \A a \in Tabs : tab'[a].etag # None => Knows(tab'[a].etag, tab'[a].baseline)
  BY DEF Inv, TypeOK, TagNamesBaseline, Knows
<1>2. /\ calls' \in [Tabs -> [Slots -> CallType \cup {None}]]
      /\ \A a \in Tabs, i \in Slots : calls'[a][i] # None => CallKnows(calls'[a][i])
  BY DEF Inv, TypeOK
<1> QED
  BY <1>1, <1>2, QuietStep

(* A step of one tab and one of its requests. *)
LEMMA CallStep ==
  ASSUME Inv, UNCHANGED store, NEW b \in Tabs, NEW i \in Slots,
         NEW t \in TabType, t.etag # None => Knows(t.etag, t.baseline),
         tab' = [tab EXCEPT ![b] = t],
         NEW c \in CallType \cup {None}, c # None => CallKnows(c),
         calls' = [calls EXCEPT ![b][i] = c]
  PROVE  Inv'
<1>1. /\ tab' \in [Tabs -> TabType]
      /\ \A a \in Tabs : tab'[a].etag # None => Knows(tab'[a].etag, tab'[a].baseline)
  BY DEF Inv, TypeOK, TagNamesBaseline, Knows
<1>2. calls' \in [Tabs -> [Slots -> CallType \cup {None}]]
  BY DEF Inv, TypeOK
<1>3. \A a \in Tabs, j \in Slots : calls'[a][j] # None => CallKnows(calls'[a][j])
  <2> TAKE a \in Tabs, j \in Slots
  <2>1. calls'[a][j] = calls[a][j] \/ calls'[a][j] = c
    BY DEF Inv, TypeOK
  <2> QED
    BY <2>1 DEF Inv
<1> QED
  BY <1>1, <1>2, <1>3, QuietStep

(* The user's actions keep the invariant. *)
LEMMA UserStep == ASSUME Inv, NEW b \in Tabs, User(b) PROVE Inv'
<1>0. /\ tab[b] \in TabType
      /\ tab[b].etag # None => Knows(tab[b].etag, tab[b].baseline)
      /\ tab \in [Tabs -> TabType]
  BY DEF Inv, TypeOK, TagNamesBaseline, Knows
<1>1. CASE Edit(b)
  <2>1. PICK v \in Layouts : tab' = [tab EXCEPT ![b].draft = v]
    BY <1>1 DEF Edit
  <2> DEFINE t == [tab[b] EXCEPT !.draft = v]
  <2>2. t \in TabType /\ t.etag = tab[b].etag /\ t.baseline = tab[b].baseline
    BY <1>0 DEF TabType
  <2>3. tab' = [tab EXCEPT ![b] = t]
    BY <2>1
  <2>4. UNCHANGED <<store, calls>>
    BY <1>1 DEF Edit
  <2> HIDE DEF t
  <2> QED
    BY <1>0, <2>2, <2>3, <2>4, TabStep
<1>2. CASE BeginEdit(b)
  <2> DEFINE t == [tab[b] EXCEPT !.draft = tab[b].baseline, !.editing = TRUE]
  <2>2. t \in TabType /\ t.etag = tab[b].etag /\ t.baseline = tab[b].baseline
    BY <1>0 DEF TabType
  <2>3. tab' = [tab EXCEPT ![b] = t]
    BY <1>0, <1>2 DEF BeginEdit, TabType
  <2>4. UNCHANGED <<store, calls>>
    BY <1>2 DEF BeginEdit
  <2> HIDE DEF t
  <2> QED
    BY <1>0, <2>2, <2>3, <2>4, TabStep
<1>3. CASE Cancel(b)
  <2> DEFINE t == [tab[b] EXCEPT !.draft = tab[b].baseline, !.editing = FALSE]
  <2>2. t \in TabType /\ t.etag = tab[b].etag /\ t.baseline = tab[b].baseline
    BY <1>0 DEF TabType
  <2>3. tab' = [tab EXCEPT ![b] = t]
    BY <1>0, <1>3 DEF Cancel, TabType
  <2>4. UNCHANGED <<store, calls>>
    BY <1>3 DEF Cancel
  <2> HIDE DEF t
  <2> QED
    BY <1>0, <2>2, <2>3, <2>4, TabStep
<1>4. CASE Save(b) /\ tab[b].etag = None
  <2> DEFINE t == [tab[b] EXCEPT !.recovery = TRUE]
  <2>2. t \in TabType /\ t.etag = tab[b].etag /\ t.baseline = tab[b].baseline
    BY <1>0 DEF TabType
  <2>3. tab' = [tab EXCEPT ![b] = t]
    BY <1>0, <1>4 DEF Save, TabType
  <2>4. UNCHANGED <<store, calls>>
    BY <1>4 DEF Save
  <2> HIDE DEF t
  <2> QED
    BY <1>0, <2>2, <2>3, <2>4, TabStep
<1>5. CASE Save(b) /\ tab[b].etag # None
  <2> DEFINE t == [tab[b] EXCEPT !.saving = TRUE]
             c == Request("save", tab[b].draft, tab[b].etag, tab[b].baseline)
  <2>1. PICK i \in Slots : calls' = [calls EXCEPT ![b][i] = c]
    BY <1>5 DEF Save, Send, Idle
  <2>2. t \in TabType /\ t.etag = tab[b].etag /\ t.baseline = tab[b].baseline
    BY <1>0 DEF TabType
  <2>3. tab' = [tab EXCEPT ![b] = t]
    BY <1>0, <1>5 DEF Save, TabType
  <2>4. c \in CallType /\ CallKnows(c)
    BY <1>0, <1>5, NewCall DEF TabType, Kinds
  <2>5. UNCHANGED store
    BY <1>5 DEF Save
  <2> HIDE DEF t, c
  <2> QED
    BY <1>0, <2>1, <2>2, <2>3, <2>4, <2>5, CallStep
<1>6. ASSUME NEW kind \in {"discard", "retry"}, Reload(b, kind) PROVE Inv'
  <2> DEFINE c == Get(kind, tab[b].draft)
  <2>1. PICK i \in Slots : calls' = [calls EXCEPT ![b][i] = c]
    BY <1>6 DEF Reload, Send, Idle
  <2>2. c \in CallType /\ CallKnows(c)
    BY <1>0, NewCall, DefaultAssumption, MaxRevisionAssumption
       DEF Get, TabType, Kinds, Tags
  <2>3. tab' = [tab EXCEPT ![b] = tab[b]] /\ UNCHANGED store
    BY <1>0, <1>6 DEF Reload
  <2> HIDE DEF c
  <2> QED
    BY <1>0, <2>1, <2>2, <2>3, CallStep
<1>7. CASE Leave(b)
  <2> DEFINE left == [i \in Slots |->
                 IF calls[b][i] # None /\ calls[b][i].kind = "save" /\ calls[b][i].pending
                 THEN [calls[b][i] EXCEPT !.awaited = FALSE] ELSE None]
             c == Get("load", Default)
  <2>1. PICK i \in Slots : calls' = [calls EXCEPT ![b] = [left EXCEPT ![i] = c]]
    BY <1>7 DEF Leave
  <2>2. c \in CallType /\ CallKnows(c)
    BY NewCall, DefaultAssumption, MaxRevisionAssumption DEF Get, Kinds, Tags
  <2>3. \A j \in Slots :
          /\ left[j] \in CallType \cup {None}
          /\ left[j] # None => CallKnows(left[j])
    <3> TAKE j \in Slots
    <3>1. calls[b][j] # None => calls[b][j] \in CallType /\ CallKnows(calls[b][j])
      BY DEF Inv, TypeOK
    <3> QED
      BY <3>1 DEF CallType, CallKnows
  <2>4. \A a \in Tabs, j \in Slots :
          /\ calls'[a][j] = calls[a][j] \/ calls'[a][j] = left[j] \/ calls'[a][j] = c
          /\ calls'[a][j] \in CallType \cup {None}
          /\ calls'[a][j] # None => CallKnows(calls'[a][j])
    <3> HIDE DEF left, c
    <3> TAKE a \in Tabs, j \in Slots
    <3>1. calls[a][j] \in CallType \cup {None} /\ (calls[a][j] # None => CallKnows(calls[a][j]))
      BY DEF Inv, TypeOK
    <3>2. calls'[a][j] = calls[a][j] \/ calls'[a][j] = left[j] \/ calls'[a][j] = c
      BY <2>1 DEF Inv, TypeOK, left
    <3> QED
      BY <2>2, <2>3, <3>1, <3>2
  <2>5. calls' \in [Tabs -> [Slots -> CallType \cup {None}]]
    <3> HIDE DEF c
    <3> QED
      BY <2>1, <2>4 DEF Inv, TypeOK
  <2>6. /\ tab' \in [Tabs -> TabType]
        /\ \A a \in Tabs : tab'[a].etag # None => Knows(tab'[a].etag, tab'[a].baseline)
    BY <1>0, <1>7, DefaultAssumption DEF Leave, NewTab, TabType, Inv, TagNamesBaseline, Knows
  <2>7. UNCHANGED store
    BY <1>7 DEF Leave
  <2> QED
    BY <2>4, <2>5, <2>6, <2>7, QuietStep
<1> QED
  BY <1>1, <1>2, <1>3, <1>4, <1>5, <1>6, <1>7 DEF User

(* An answer from the collector keeps the invariant: what it carries is known. *)
LEMMA NetworkStep ==
  ASSUME Inv, NEW b \in Tabs, NEW i \in Slots, Network(b, i) PROVE Inv'
<1>c. PICK c : c = calls[b][i]
  OBVIOUS
<1>0. /\ c # None => c \in CallType /\ CallKnows(c)
      /\ calls \in [Tabs -> [Slots -> CallType \cup {None}]]
  BY <1>c DEF Inv, TypeOK
<1>1. /\ tab[b] \in TabType
      /\ tab[b].etag # None => Knows(tab[b].etag, tab[b].baseline)
      /\ tab = [tab EXCEPT ![b] = tab[b]]
  BY DEF Inv, TypeOK, TagNamesBaseline, Knows
<1>2. CASE Read(b, i)
  <2> DEFINE r == [accepted |-> TRUE, layout |-> Layout, etag |-> Revision]
             d == Answered(c, r)
  <2>1. r \in Replies /\ Knows(r.etag, r.layout)
    BY StoreKnows DEF Inv, TypeOK, Replies, Tags
  <2>2. d \in CallType \cup {None} /\ (d # None => CallKnows(d))
    <3> HIDE DEF r
    <3>1. c \in CallType /\ CallKnows(c) /\ c.kind # "save"
      BY <1>c, <1>0, <1>2 DEF Read
    <3>2. CASE c.awaited
      <4>1. r.accepted
        BY DEF r
      <4>2. d = [c EXCEPT !.pending = FALSE, !.reply = r]
        BY <3>2 DEF Answered
      <4> QED
        BY <2>1, <3>1, <4>1, <4>2 DEF CallType, CallKnows
    <3> QED
      BY <3>2 DEF Answered
  <2>3. calls' = [calls EXCEPT ![b][i] = d] /\ tab' = tab /\ UNCHANGED store
    BY <1>c, <1>0, <1>2 DEF Read
  <2> HIDE DEF d
  <2> QED
    BY <1>1, <2>2, <2>3, CallStep
<1>3. CASE Lose(b, i)
  <2> DEFINE d == IF c.awaited THEN [c EXCEPT !.pending = FALSE] ELSE None
  <2>2. d \in CallType \cup {None} /\ (d # None => CallKnows(d))
    BY <1>c, <1>0, <1>3 DEF Lose, CallType, CallKnows
  <2>3. calls' = [calls EXCEPT ![b][i] = d] /\ tab' = tab /\ UNCHANGED store
    BY <1>c, <1>0, <1>3 DEF Lose
  <2> HIDE DEF d
  <2> QED
    BY <1>1, <2>2, <2>3, CallStep
<1>4. CASE Put(b, i) /\ ~Accepts(c.etag)
  <2> DEFINE r == [accepted |-> FALSE, layout |-> Default, etag |-> 0]
             d == Answered(c, r)
  <2>1. r \in Replies
    BY DefaultAssumption, MaxRevisionAssumption DEF Replies, Tags
  <2>2. d \in CallType \cup {None} /\ (d # None => CallKnows(d))
    BY <1>c, <1>0, <1>4, <2>1 DEF Put, Answered, CallType, CallKnows
  <2>3. calls' = [calls EXCEPT ![b][i] = d] /\ tab' = tab /\ UNCHANGED store
    BY <1>c, <1>0, <1>4 DEF Put
  <2> HIDE DEF d
  <2> QED
    BY <1>1, <2>2, <2>3, CallStep
<1>5. CASE Put(b, i) /\ Accepts(c.etag)
  <2> DEFINE r == WriteReply(c)
             d == Answered(c, r)
  <2>0. c \in CallType /\ c.kind = "save" /\ CallKnows(c)
    BY <1>c, <1>0, <1>5 DEF Put
  <2>1. /\ Write(c.draft) /\ tab' = tab
        /\ calls' = [calls EXCEPT ![b][i] = d]
    BY <1>c, <1>0, <1>5 DEF Put
  <2>2. /\ LayoutTypeOK' /\ RowIsLast'
        /\ c.etag + 1 \in Tags
        /\ Knows(c.etag + 1, c.draft)'
        /\ \A e \in Nat : \A w : Knows(e, w) => Knows(e, w)'
    BY <1>5, <2>0, <2>1, WriteKnows DEF Inv, TypeOK, CallType
  <2>3. r \in Replies /\ r.accepted /\ Knows(r.etag, r.layout)'
    BY <2>0, <2>2 DEF WriteReply, Replies, CallType
  <2>4. Tags \subseteq Nat
    BY MaxRevisionAssumption DEF Tags
  <2>5. \A x \in CallType : CallKnows(x) => CallKnows(x)'
    BY <2>2, <2>4 DEF CallKnows, CallType, Replies, Knows, Named
  <2>6. d \in CallType \cup {None} /\ (d # None => CallKnows(d)')
    <3> HIDE DEF r
    <3>1. CASE c.awaited
      <4>1. d = [c EXCEPT !.pending = FALSE, !.reply = r]
        BY <3>1 DEF Answered
      <4>2. CallKnows(c)'
        BY <2>0, <2>5 DEF CallKnows, Knows, Named
      <4> QED
        BY <2>0, <2>3, <4>1, <4>2 DEF CallType, CallKnows, Knows, Named
    <3> QED
      BY <3>1 DEF Answered
  <2>7. calls' \in [Tabs -> [Slots -> CallType \cup {None}]]
    <3> HIDE DEF d
    <3> QED
      BY <1>0, <2>1, <2>6
  <2>8. TypeOK'
    BY <2>1, <2>2, <2>7 DEF TypeOK, Inv
  <2>9. TagNamesBaseline'
    BY <2>1, <2>2, <2>4 DEF TagNamesBaseline, Inv, TypeOK, TabType, Knows
  <2>10. \A a \in Tabs, j \in Slots : calls'[a][j] # None => CallKnows(calls[a][j])'
    <3> HIDE DEF d
    <3> TAKE a \in Tabs, j \in Slots
    <3>1. calls'[a][j] = calls[a][j] \/ calls'[a][j] = d
      BY <1>0, <2>1
    <3>2. calls[a][j] # None => calls[a][j] \in CallType /\ CallKnows(calls[a][j])
      BY DEF Inv, TypeOK
    <3>3. CASE calls'[a][j] = calls[a][j]
      BY <2>5, <3>2, <3>3 DEF CallKnows, Knows, Named
    <3>4. CASE calls'[a][j] = d
      BY <2>6, <3>4 DEF CallKnows, Knows, Named
    <3> QED
      BY <3>1, <3>3, <3>4
  <2> QED
    BY <2>2, <2>8, <2>9, <2>10 DEF Inv
<1> QED
  BY <1>c, <1>2, <1>3, <1>4, <1>5 DEF Network, Put

(* What a tab does with an answer, or without one, keeps the invariant. *)
LEMMA ArrivalStep ==
  ASSUME Inv, NEW b \in Tabs, NEW i \in Slots, Arrival(b, i) PROVE Inv'
<1>c. PICK c : c = calls[b][i]
  OBVIOUS
<1>o. PICK o : o = tab[b]
  OBVIOUS
<1>0. /\ c \in CallType /\ CallKnows(c)
      /\ o \in TabType
      /\ o.etag # None => Knows(o.etag, o.baseline)
      /\ tab \in [Tabs -> TabType]
      /\ calls \in [Tabs -> [Slots -> CallType \cup {None}]]
  BY <1>c, <1>o DEF Inv, TypeOK, TagNamesBaseline, Knows, Arrival, Awaited,
                    Loaded, Retried, Settled, GiveUp
<1>1. CASE Loaded(b, i)
  <2> DEFINE t == Replaced(o, c)
  <2>1. c.kind # "save" /\ c.reply # None
    BY <1>c, <1>1 DEF Loaded
  <2>2. t \in TabType /\ Knows(t.etag, t.baseline)
    BY <1>0, <2>1 DEF Replaced, Shown, TabType, CallType, Replies, CallKnows
  <2>3. /\ tab' = [tab EXCEPT ![b] = t]
        /\ calls' = [calls EXCEPT ![b][i] = None]
        /\ UNCHANGED store
    BY <1>c, <1>o, <1>0, <1>1 DEF Loaded
  <2> HIDE DEF t
  <2> QED
    BY <2>2, <2>3, CallStep
<1>2. CASE Retried(b, i)
  <2> DEFINE t == [Shown(o, c.reply) EXCEPT !.saving = TRUE]
             d == Request("save", c.draft, c.reply.etag, c.reply.layout)
  <2>1. c.kind # "save" /\ c.reply # None
    BY <1>c, <1>2 DEF Retried
  <2>2. t \in TabType /\ Knows(t.etag, t.baseline)
    BY <1>0, <2>1 DEF Shown, TabType, CallType, Replies, CallKnows
  <2>3. d \in CallType /\ CallKnows(d)
    <3>1. /\ c.draft \in Layouts /\ c.reply.etag \in Tags /\ c.reply.layout \in Layouts
          /\ Knows(c.reply.etag, c.reply.layout)
      BY <1>0, <2>1 DEF CallType, Replies, CallKnows
    <3> QED
      BY <3>1, NewCall DEF Kinds
  <2>4. /\ tab' = [tab EXCEPT ![b] = t]
        /\ calls' = [calls EXCEPT ![b][i] = d]
        /\ UNCHANGED store
    BY <1>c, <1>o, <1>0, <1>2 DEF Retried
  <2> HIDE DEF t, d
  <2> QED
    BY <2>2, <2>3, <2>4, CallStep
<1>3. CASE Settled(b, i)
  <2> DEFINE t == IF c.reply.accepted THEN Saved(o, c.reply) ELSE Unsaved(o)
  <2>1. c.reply # None
    BY <1>c, <1>3 DEF Settled
  <2>2. t \in TabType /\ (t.etag # None => Knows(t.etag, t.baseline))
    BY <1>0, <2>1 DEF Saved, Unsaved, Shown, TabType, CallType, Replies, CallKnows
  <2>3. /\ tab' = [tab EXCEPT ![b] = t]
        /\ calls' = [calls EXCEPT ![b][i] = None]
        /\ UNCHANGED store
    BY <1>c, <1>o, <1>0, <1>3 DEF Settled
  <2> HIDE DEF t
  <2> QED
    BY <2>2, <2>3, CallStep
<1>4. CASE GiveUp(b, i)
  <2> DEFINE t == IF c.kind = "save" THEN Unsaved(o) ELSE NotLoaded(o, c.kind)
             d == IF c.pending /\ c.kind = "save" THEN [c EXCEPT !.awaited = FALSE] ELSE None
  <2>1. t \in TabType /\ (t.etag # None => Knows(t.etag, t.baseline))
    BY <1>0 DEF Unsaved, NotLoaded, TabType
  <2>2. d \in CallType \cup {None} /\ (d # None => CallKnows(d))
    BY <1>0 DEF CallType, CallKnows
  <2>3. /\ tab' = [tab EXCEPT ![b] = t]
        /\ calls' = [calls EXCEPT ![b][i] = d]
        /\ UNCHANGED store
    BY <1>c, <1>o, <1>0, <1>4 DEF GiveUp
  <2> HIDE DEF t, d
  <2> QED
    BY <2>1, <2>2, <2>3, CallStep
<1> QED
  BY <1>1, <1>2, <1>3, <1>4 DEF Arrival

(* The pages start without a tag, on a store whose one legacy row is named. *)
LEMMA InitInv == Init => Inv
<1> SUFFICES ASSUME Init PROVE Inv
  OBVIOUS
<1>1. LayoutTypeOK /\ RowIsLast
  <2>1. CASE row = None /\ history = <<>>
    BY <2>1 DEF LayoutTypeOK, RowIsLast
  <2>2. ASSUME NEW v \in Layouts \cup {Unreadable},
               row = [layout |-> v, revision |-> 1], history = <<Resolved(v)>>
        PROVE  LayoutTypeOK /\ RowIsLast
    <3>1. Resolved(v) \in Layouts
      BY DefaultAssumption DEF Resolved
    <3>2. row # None
      BY <2>2, NoneAssumption
    <3>3. history \in Seq(Layouts) /\ Len(history) = 1 /\ history[1] = Resolved(v)
      BY <2>2, <3>1
    <3> QED
      BY <2>2, <3>2, <3>3, MaxRevisionAssumption DEF LayoutTypeOK, RowIsLast, Layout
  <2> QED
    BY <2>1, <2>2 DEF Init, InitLayout
<1>2. NewTab \in TabType /\ NewTab.etag = None
  BY DefaultAssumption DEF NewTab, TabType
<1>3. Get("load", Default) \in CallType /\ CallKnows(Get("load", Default))
  BY NewCall, DefaultAssumption, MaxRevisionAssumption DEF Get, Kinds, Tags
<1>4. TypeOK
  BY <1>1, <1>2, <1>3 DEF TypeOK, Init
<1>5. TagNamesBaseline
  BY <1>2 DEF TagNamesBaseline, Init
<1>6. \A b \in Tabs, i \in Slots : calls[b][i] # None => CallKnows(calls[b][i])
  BY <1>3 DEF Init
<1> QED
  BY <1>1, <1>4, <1>5, <1>6 DEF Inv

(* Every step keeps the invariant. *)
LEMMA InvStep == Inv /\ [Next]_vars => Inv'
<1> SUFFICES ASSUME Inv, [Next]_vars PROVE Inv'
  OBVIOUS
<1>1. CASE UNCHANGED vars
  BY <1>1 DEF vars, store, Inv, TypeOK, LayoutTypeOK, RowIsLast, Layout,
              TagNamesBaseline, CallKnows, Knows, Named
<1>2. CASE Next
  BY <1>2, UserStep, ArrivalStep, NetworkStep DEF Next
<1> QED
  BY <1>1, <1>2

(* Tabs, requests and the stored row keep their types; the revision never passes
   its bound. *)
THEOREM LayoutTypes == Spec => []TypeOK
<1>1. Inv => TypeOK
  BY DEF Inv
<1> QED
  BY <1>1, InitInv, InvStep, PTL DEF Spec

(* The tag a tab would send always names the layout the tab displays as saved. *)
THEOREM TagsNameBaselines == Spec => []TagNamesBaseline
<1>1. Inv => TagNamesBaseline
  BY DEF Inv
<1> QED
  BY <1>1, InitInv, InvStep, PTL DEF Spec
-----------------------------------------------------------------------------
(* The row and its history change only by an accepted write. *)
LEMMA OnlyWrites ==
  ASSUME [Next]_vars, ~UNCHANGED store
  PROVE  \E b \in Tabs, i \in Slots : Put(b, i) /\ Accepts(calls[b][i].etag)
<1>1. PICK b \in Tabs : User(b) \/ \E i \in Slots : Arrival(b, i) \/ Network(b, i)
  BY DEF Next, vars
<1>2. ~User(b)
  BY DEF User, Edit, BeginEdit, Cancel, Save, Reload, Leave
<1>3. PICK i \in Slots : Arrival(b, i) \/ Network(b, i)
  BY <1>1, <1>2
<1>4. ~Arrival(b, i) /\ ~Read(b, i) /\ ~Lose(b, i)
  BY DEF Arrival, Loaded, Retried, Settled, GiveUp, Read, Lose
<1>5. Put(b, i)
  BY <1>3, <1>4 DEF Network
<1> QED
  BY <1>5 DEF Put

(* Only an accepted write changes the row, and what it replaces is the layout its
   request knew. *)
LEMMA OverwriteStep ==
  ASSUME Inv, [Next]_vars, row' # row
  PROVE  \E b \in Tabs, i \in Slots :
           /\ calls[b][i] # None /\ calls[b][i].kind = "save"
           /\ calls[b][i].base = Layout
           /\ row'.layout = calls[b][i].draft
<1>1. PICK b \in Tabs, i \in Slots : Put(b, i) /\ Accepts(calls[b][i].etag)
  BY OnlyWrites DEF store
<1>2. calls[b][i] # None /\ calls[b][i].kind = "save" /\ Write(calls[b][i].draft)
  BY <1>1 DEF Put
<1>3. Knows(calls[b][i].etag, calls[b][i].base)
  BY <1>2 DEF Inv, CallKnows
<1>4. calls[b][i].base = Layout
  BY <1>1, <1>3, StoreKnows DEF Accepts, Knows, Inv, TypeOK
<1> QED
  BY <1>2, <1>4 DEF Write

(* No layout is ever overwritten unseen: an accepted write replaces the layout
   its tab displayed as saved when the save was asked for. *)
THEOREM NothingOverwrittenUnseen == Spec => NoUnseenOverwrite
<1>1. Inv /\ [Next]_vars =>
        [row' # row =>
           \E b \in Tabs, i \in Slots :
             /\ calls[b][i] # None /\ calls[b][i].kind = "save"
             /\ calls[b][i].base = Layout
             /\ row'.layout = calls[b][i].draft]_vars
  BY OverwriteStep
<1> QED
  BY <1>1, InitInv, InvStep, PTL DEF Spec, NoUnseenOverwrite
-----------------------------------------------------------------------------
(***************************************************************************)
(* The draft of a page (LayoutHistory).                                    *)
(***************************************************************************)
(* A layout the editor can draw. *)
Drawn == {layout \in Seq(History!Widget) : History!Valid(layout)}

(* What a draft keeps: valid layouts only, and together no more of them than the
   limit, so that what is undone is never cut off. *)
Kept(h) ==
  /\ h \in [past : Seq(Drawn), present : Drawn, future : Seq(Drawn)]
  /\ Len(h.past) + Len(h.future) <= HistoryLimit

(* Some naturals have a least one. *)
LEMMA Least ==
  ASSUME NEW T, T \subseteq Nat, T # {}
  PROVE  \E x \in T : \A y \in T : x <= y
<1> DEFINE R == {ss \in Nat \X Nat : ss[1] < ss[2]}
<1>1. IsWellFoundedOn(R, Nat)
  BY NatLessThanWellFounded DEF OpToRel
<1>2. PICK x \in T : \A y \in T : ~(<<y, x>> \in R)
  <2> HIDE DEF R
  <2> QED
    BY <1>1, WFMin
<1>3. ASSUME NEW y \in T PROVE x <= y
  <2>1. ~(y < x)
    BY <1>2
  <2> QED
    BY <2>1
<1> QED
  BY <1>3
-----------------------------------------------------------------------------
(* A limited list of layouts holds the new one last, and only layouts. *)
LEMMA BoundedPast ==
  ASSUME NEW past \in Seq(Drawn), NEW layout \in Drawn,
         Len(past) <= HistoryLimit, NEW longer, longer = History!Bounded(Append(past, layout))
  PROVE  /\ longer \in Seq(Drawn) /\ longer # <<>>
         /\ Len(longer) <= HistoryLimit /\ longer[Len(longer)] = layout
<1> DEFINE all == Append(past, layout)
<1>1. HistoryLimit \in Nat /\ HistoryLimit >= 1
  BY SizesAssumption DEF History!Sizes
<1>2. /\ all \in Seq(Drawn) /\ Len(all) = Len(past) + 1 /\ Len(past) \in Nat
      /\ all[Len(past) + 1] = layout /\ all # <<>>
  OBVIOUS
<1> HIDE DEF all
<1>3. Len(past) < HistoryLimit => longer = all
  BY <1>1, <1>2 DEF History!Bounded, all
<1>4. Len(past) = HistoryLimit => longer = SubSeq(all, 2, HistoryLimit + 1)
  <2> SUFFICES ASSUME Len(past) = HistoryLimit PROVE longer = SubSeq(all, 2, HistoryLimit + 1)
    OBVIOUS
  <2>1. Len(all) > HistoryLimit /\ Len(all) - HistoryLimit + 1 = 2 /\ Len(all) = HistoryLimit + 1
    BY <1>1, <1>2
  <2> QED
    BY <2>1 DEF History!Bounded, History!Newest, all
<1>5. /\ longer \in Seq(Drawn) /\ longer # <<>>
      /\ Len(longer) <= HistoryLimit /\ longer[Len(longer)] = layout
  <2>1. CASE Len(past) < HistoryLimit
    BY <1>1, <1>2, <1>3, <2>1
  <2>2. CASE Len(past) = HistoryLimit
    <3>1. longer \in Seq(Drawn) /\ Len(longer) = HistoryLimit
          /\ longer[HistoryLimit] = all[HistoryLimit + 1]
      <4>1. \A i \in 2..HistoryLimit + 1 : all[i] \in Drawn
        BY <1>1, <1>2, <2>2
      <4>2. /\ SubSeq(all, 2, HistoryLimit + 1) \in Seq(Drawn)
            /\ Len(SubSeq(all, 2, HistoryLimit + 1)) = HistoryLimit
            /\ \A i \in 1..HistoryLimit : SubSeq(all, 2, HistoryLimit + 1)[i] = all[2 + i - 1]
        <5> DEFINE last == HistoryLimit + 1
        <5>1. 2 \in Int /\ last \in Int /\ 2 <= last /\ last - 2 + 1 = HistoryLimit
          BY <1>1
        <5>2. \A i \in 2..last : all[i] \in Drawn
          BY <4>1
        <5> HIDE DEF last
        <5>3. /\ SubSeq(all, 2, last) \in Seq(Drawn) /\ Len(SubSeq(all, 2, last)) = HistoryLimit
              /\ \A i \in 1..HistoryLimit : SubSeq(all, 2, last)[i] = all[2 + i - 1]
          BY <5>1, <5>2, SubSeqProperties
        <5> QED
          BY <5>3 DEF last
      <4>3. HistoryLimit \in 1..HistoryLimit /\ 2 + HistoryLimit - 1 = HistoryLimit + 1
        BY <1>1
      <4>4. longer = SubSeq(all, 2, HistoryLimit + 1)
        BY <1>4, <2>2
      <4> QED
        BY <4>2, <4>3, <4>4
    <3> QED
      BY <1>1, <1>2, <2>2, <3>1
  <2> QED
    BY <1>1, <1>2, <2>1, <2>2
<1> QED
  BY <1>5

(* A list is its last element after the others. *)
LEMMA LastAppended ==
  ASSUME NEW V, NEW list \in Seq(V), list # <<>>
  PROVE  LET n == Len(list)
             front == SubSeq(list, 1, n - 1)
         IN  /\ front \in Seq(V) /\ Len(front) = n - 1 /\ list[n] \in V
             /\ Append(front, list[n]) = list
<1> DEFINE n == Len(list)
           front == SubSeq(list, 1, n - 1)
           again == Append(front, list[n])
<1>1. n \in Nat /\ n >= 1 /\ list[n] \in V
  OBVIOUS
<1>2. /\ front \in Seq(V) /\ Len(front) = n - 1
      /\ \A i \in 1..n - 1 : front[i] = list[i]
  <2>1. 1 \in 1..n + 1 /\ n - 1 \in 1 - 1..n /\ n - 1 - 1 + 1 = n - 1
    BY <1>1
  <2>2. \A i \in 1..n - 1 : 1 + i - 1 = i
    BY <1>1
  <2> HIDE DEF n
  <2> QED
    BY <1>1, <2>1, <2>2, SubSeqProperties DEF n
<1> HIDE DEF front
<1>3. /\ again \in Seq(V) /\ Len(again) = n /\ again[n] = list[n]
      /\ \A i \in 1..n - 1 : again[i] = list[i]
  BY <1>1, <1>2
<1> HIDE DEF again
<1>4. \A i \in 1..n : again[i] = list[i]
  BY <1>1, <1>3
<1>5. again = list
  BY <1>3, <1>4
<1> QED
  BY <1>1, <1>2, <1>5 DEF front, again

(* A draft that begins has no past and no future. *)
LEMMA BegunIsKept ==
  ASSUME NEW layout \in Drawn
  PROVE  Kept([past |-> <<>>, present |-> layout, future |-> <<>>])
<1>1. <<>> \in Seq(Drawn) /\ Len(<<>>) = 0 /\ 0 + 0 <= HistoryLimit
  BY SizesAssumption DEF History!Sizes
<1> QED
  BY <1>1 DEF Kept

(* An edit is undone. *)
LEMMA CommitKeeps ==
  ASSUME NEW before \in Seq(Drawn), NEW shown \in Drawn, NEW next \in Drawn,
         Len(before) <= HistoryLimit
  PROVE  LET k == [past |-> History!Bounded(Append(before, shown)), present |-> next,
                   future |-> <<>>]
         IN  Kept(k) /\ History!Undone(k).present = shown
<1> SUFFICES ASSUME NEW limited, limited = History!Bounded(Append(before, shown))
             PROVE  LET k == [past |-> limited, present |-> next, future |-> <<>>]
                    IN  Kept(k) /\ History!Undone(k).present = shown
  OBVIOUS
<1> DEFINE k == [past |-> limited, present |-> next, future |-> <<>>]
<1>2. /\ limited \in Seq(Drawn) /\ limited # <<>> /\ Len(limited) <= HistoryLimit
      /\ limited[Len(limited)] = shown
  <2> HIDE DEF k
  <2> QED
    BY BoundedPast
<1>3. Kept(k)
  <2>1. <<>> \in Seq(Drawn) /\ Len(<<>>) = 0 /\ Len(limited) \in Nat
    BY <1>2
  <2> QED
    BY <1>2, <2>1 DEF Kept
<1>4. History!Undone(k).present = shown
  BY <1>2 DEF History!Undone, History!Last
<1> QED
  BY <1>3, <1>4

(* What is undone is redone exactly, *)
LEMMA UndoKeeps ==
  ASSUME NEW h, Kept(h), h.past # <<>>
  PROVE  LET k == History!Undone(h) IN Kept(k) /\ History!Redone(k) = h
<1> DEFINE n == Len(h.past)
           m == Len(h.future)
           front == SubSeq(h.past, 1, n - 1)
           more == <<h.present>> \o h.future
           k == [past |-> front, present |-> h.past[n], future |-> more]
<1>1. /\ h \in [past : Seq(Drawn), present : Drawn, future : Seq(Drawn)]
      /\ h.past \in Seq(Drawn) /\ h.future \in Seq(Drawn) /\ h.present \in Drawn
      /\ n + m <= HistoryLimit
  BY DEF Kept
<1>2. /\ HistoryLimit \in Nat /\ n \in Nat /\ m \in Nat /\ n >= 1
      /\ m < HistoryLimit /\ n - 1 < HistoryLimit
  BY <1>1, SizesAssumption DEF History!Sizes
<1>3. /\ front \in Seq(Drawn) /\ Len(front) = n - 1 /\ h.past[n] \in Drawn
      /\ Append(front, h.past[n]) = h.past
  BY <1>1, LastAppended
<1>4. /\ more \in Seq(Drawn) /\ Len(more) = m + 1 /\ more # <<>>
      /\ Head(more) = h.present /\ Tail(more) = h.future
  BY <1>1
<1>5. History!Undone(h) = k
  <2>1. SubSeq(more, 1, m + 1) = more
    BY <1>2, <1>4
  <2> QED
    BY <1>2, <2>1 DEF History!Undone, History!Front, History!Last
<1> HIDE DEF front, more
<1>6. Kept(k)
  <2>1. Len(front) + Len(more) = n + m
    <3> HIDE DEF n, m
    <3> QED
      BY <1>2, <1>3, <1>4
  <2> HIDE DEF n, m
  <2> QED
    BY <1>1, <1>3, <1>4, <2>1 DEF Kept
<1>7. History!Redone(k) = h
  <2>1. History!Bounded(Append(front, h.past[n])) = h.past
    BY <1>1, <1>2, <1>3 DEF History!Bounded
  <2>2. History!Redone(k) = [past |-> h.past, present |-> h.present, future |-> h.future]
    BY <1>4, <2>1 DEF History!Redone
  <2> QED
    BY <1>1, <2>2
<1> QED
  BY <1>5, <1>6, <1>7

(* and the other way round. *)
LEMMA RedoKeeps ==
  ASSUME NEW h, Kept(h), h.future # <<>>
  PROVE  LET k == History!Redone(h) IN Kept(k) /\ History!Undone(k) = h
<1> DEFINE n == Len(h.past)
           m == Len(h.future)
           tail == Tail(h.future)
           more == Append(h.past, h.present)
           k == [past |-> more, present |-> Head(h.future), future |-> tail]
<1>1. /\ h \in [past : Seq(Drawn), present : Drawn, future : Seq(Drawn)]
      /\ h.past \in Seq(Drawn) /\ h.future \in Seq(Drawn) /\ h.present \in Drawn
      /\ n + m <= HistoryLimit
  BY DEF Kept
<1>2. /\ HistoryLimit \in Nat /\ n \in Nat /\ m \in Nat /\ m >= 1
      /\ m - 1 < HistoryLimit /\ n < HistoryLimit
  BY <1>1, SizesAssumption DEF History!Sizes
<1>3. /\ tail \in Seq(Drawn) /\ Len(tail) = m - 1 /\ Head(h.future) \in Drawn
      /\ <<Head(h.future)>> \o tail = h.future
  BY <1>1, <1>2
<1>4. /\ more \in Seq(Drawn) /\ Len(more) = n + 1 /\ more # <<>>
      /\ more[n + 1] = h.present /\ SubSeq(more, 1, n) = h.past
  BY <1>1, <1>2
<1>5. History!Redone(h) = k
  <2>1. History!Bounded(more) = more
    BY <1>2, <1>4 DEF History!Bounded
  <2> QED
    BY <1>2, <2>1 DEF History!Redone
<1> HIDE DEF tail, more
<1>6. Kept(k)
  <2>1. Len(more) + Len(tail) = n + m
    <3> HIDE DEF n, m
    <3> QED
      BY <1>2, <1>3, <1>4
  <2> HIDE DEF n, m
  <2> QED
    BY <1>1, <1>3, <1>4, <2>1 DEF Kept
<1>7. History!Undone(k) = h
  <2>1. SubSeq(h.future, 1, m) = h.future
    BY <1>1
  <2>2. History!Undone(k) = [past |-> h.past, present |-> h.present, future |-> h.future]
    <3>1. Len(more) - 1 = n /\ more # <<>>
      BY <1>2, <1>4
    <3>2. History!Front(more) = h.past /\ History!Last(more) = h.present
      BY <1>2, <1>4, <3>1 DEF History!Front, History!Last
    <3>3. SubSeq(<<Head(h.future)>> \o tail, 1, m) = h.future
      BY <1>3, <2>1
    <3>4. Len(tail) < HistoryLimit /\ Len(tail) + 1 = m
      BY <1>2, <1>3
    <3> HIDE DEF m, n
    <3> QED
      BY <3>1, <3>2, <3>3, <3>4 DEF History!Undone
  <2> QED
    BY <1>1, <2>2
<1> QED
  BY <1>5, <1>6, <1>7
-----------------------------------------------------------------------------
(* An identifier is free while there is room for a widget, *)
LEMMA SomeIdIsFree ==
  ASSUME NEW layout \in Seq(History!Widget), Len(layout) < MaxWidgets,
         NEW type \in Types
  PROVE  /\ History!NewId(layout, type) \in History!Ids
         /\ History!NewId(layout, type)[1] = type
         /\ \A i \in 1..Len(layout) : layout[i].id # History!NewId(layout, type)
<1> DEFINE taken == {layout[i].id : i \in DOMAIN layout}
           free == {n \in 0..MaxWidgets : <<type, n>> \notin taken}
           least == CHOOSE n \in free : \A m \in free : n <= m
<1>1. MaxWidgets \in Nat /\ Len(layout) \in Nat /\ DOMAIN layout = 1..Len(layout)
  BY SizesAssumption DEF History!Sizes
<1>2. free # {}
  <2> SUFFICES ASSUME free = {} PROVE FALSE
    OBVIOUS
  <2> DEFINE at == [n \in 0..MaxWidgets |->
                      CHOOSE i \in 1..Len(layout) : layout[i].id = <<type, n>>]
  <2>1. ASSUME NEW n \in 0..MaxWidgets
        PROVE  at[n] \in 1..Len(layout) /\ layout[at[n]].id = <<type, n>>
    <3>1. \E i \in 1..Len(layout) : layout[i].id = <<type, n>>
      BY <1>1
    <3> QED
      BY <3>1
  <2>2. at \in [0..MaxWidgets -> 1..Len(layout)]
    BY <2>1
  <2> HIDE DEF at
  <2>3. /\ IsFiniteSet(0..MaxWidgets) /\ Cardinality(0..MaxWidgets) = MaxWidgets + 1
        /\ IsFiniteSet(1..Len(layout)) /\ Cardinality(1..Len(layout)) = Len(layout)
    <3>1. 0 \in Int /\ MaxWidgets \in Int /\ ~(0 > MaxWidgets) /\ MaxWidgets - 0 + 1 = MaxWidgets + 1
      BY <1>1
    <3>2. 1 \in Int /\ Len(layout) \in Int
          /\ (IF 1 > Len(layout) THEN 0 ELSE Len(layout) - 1 + 1) = Len(layout)
      BY <1>1
    <3> QED
      BY <3>1, <3>2, FS_Interval
  <2>4. Cardinality(1..Len(layout)) < Cardinality(0..MaxWidgets)
    BY <1>1, <2>3
  <2>5. PICK n \in 0..MaxWidgets, m \in 0..MaxWidgets : n # m /\ at[n] = at[m]
    <3> DEFINE S == 0..MaxWidgets
               T == 1..Len(layout)
    <3>1. IsFiniteSet(S) /\ IsFiniteSet(T) /\ Cardinality(T) < Cardinality(S) /\ at \in [S -> T]
      BY <2>2, <2>3, <2>4
    <3> HIDE DEF S, T
    <3>2. \E x, y \in S : x # y /\ at[x] = at[y]
      BY <3>1, FS_PigeonHole
    <3> QED
      BY <3>2 DEF S
  <2>6. <<type, n>> = <<type, m>>
    BY <2>1, <2>5
  <2> QED
    BY <2>5, <2>6
<1>3. free \subseteq Nat
  BY <1>1
<1>4. \E n \in free : \A m \in free : n <= m
  <2> HIDE DEF free
  <2> QED
    BY <1>2, <1>3, Least
<1>5. least \in free
  <2> HIDE DEF free
  <2> QED
    BY <1>4
<1>6. History!NewId(layout, type) = <<type, least>>
  BY DEF History!NewId
<1> HIDE DEF least
<1> QED
  BY <1>1, <1>5, <1>6 DEF History!Ids

(* and the first place is one of the places. *)
LEMMA FirstFits ==
  ASSUME NEW layout, NEW type \in Types, History!Places(layout, type) # {}
  PROVE  History!FirstFit(layout, type) \in History!Places(layout, type)
<1> DEFINE places == History!Places(layout, type)
           ys == {w.y : w \in places}
<1>1. \A w \in places : w.x \in Nat /\ w.y \in Nat
  BY SizesAssumption DEF History!Sizes, History!Places
<1> HIDE DEF places
<1>2. PICK y \in ys : \A z \in ys : y <= z
  <2>1. ys \subseteq Nat /\ ys # {}
    BY <1>1 DEF places
  <2> HIDE DEF ys
  <2> QED
    BY <2>1, Least
<1> DEFINE xs == {w.x : w \in {v \in places : v.y = y}}
<1>3. PICK x \in xs : \A z \in xs : x <= z
  <2>1. xs \subseteq Nat /\ xs # {}
    BY <1>1, <1>2
  <2> HIDE DEF xs
  <2> QED
    BY <2>1, Least
<1>4. PICK w \in places : w.y = y /\ w.x = x
  BY <1>3
<1>5. ASSUME NEW v \in places PROVE History!Before(w, v)
  <2>1. v.y \in ys /\ y <= v.y /\ v.x \in Nat /\ v.y \in Nat /\ y \in Nat /\ x \in Nat
    BY <1>1, <1>2, <1>4
  <2>2. v.y = y => x <= v.x
    BY <1>3
  <2> QED
    BY <1>4, <2>1, <2>2 DEF History!Before
<1>6. History!FirstFit(layout, type) \in places
  BY <1>4, <1>5 DEF History!FirstFit, places
<1> QED
  BY <1>6 DEF places
-----------------------------------------------------------------------------
(* What the handlers commit is a layout the editor can draw. *)
LEMMA AddedIsDrawn ==
  ASSUME NEW layout \in Drawn, NEW type \in Types,
         Len(layout) < MaxWidgets, History!Places(layout, type) # {}
  PROVE  Append(layout, History!FirstFit(layout, type)) \in Drawn
<1> DEFINE w == History!FirstFit(layout, type)
           id == History!NewId(layout, type)
           n == Len(layout)
           longer == Append(layout, w)
<1>1. layout \in Seq(History!Widget) /\ History!Valid(layout)
  BY DEF Drawn
<1>2. n \in Nat /\ n < MaxWidgets /\ MaxWidgets \in Nat /\ DOMAIN layout = 1..n
  BY <1>1, SizesAssumption DEF History!Sizes
<1>3. /\ id \in History!Ids /\ id[1] = type
      /\ \A i \in 1..n : layout[i].id # id
  BY <1>1, SomeIdIsFree
<1>4. w \in History!Places(layout, type)
  BY FirstFits
<1> HIDE DEF w, id
<1>5. /\ w \in History!Widget /\ w.id = id /\ History!Fits(w)
      /\ \A i \in 1..n : ~History!Overlaps(w, layout[i])
  <2> DEFINE limits == Limits[type]
  <2>1. /\ limits.minWidth \in Nat /\ limits.maxWidth \in Nat
        /\ limits.minHeight \in Nat /\ limits.maxHeight \in Nat
        /\ limits.minWidth <= limits.maxWidth /\ limits.minHeight <= limits.maxHeight
        /\ Columns \in Nat /\ Rows \in Nat
    BY SizesAssumption DEF History!Sizes
  <2>2. PICK x \in 0..Columns - limits.minWidth, y \in 0..Rows - limits.minHeight :
          w = [id |-> id, x |-> x, y |-> y, width |-> limits.minWidth, height |-> limits.minHeight]
    BY <1>4 DEF History!Places, id
  <2>3. \A i \in 1..n : ~History!Overlaps(w, layout[i])
    BY <1>2, <1>4 DEF History!Places
  <2> HIDE DEF limits
  <2>4. /\ x \in Int /\ y \in Int /\ 0 <= x /\ 0 <= y
        /\ x + limits.minWidth <= Columns /\ y + limits.minHeight <= Rows
    BY <2>1
  <2>5. w \in History!Widget
    BY <1>3, <2>1, <2>2, <2>4 DEF History!Widget
  <2>6. History!Fits(w)
    <3>1. /\ w.x >= 0 /\ w.y >= 0 /\ w.x + w.width <= Columns /\ w.y + w.height <= Rows
          /\ w.width \in limits.minWidth..limits.maxWidth
          /\ w.height \in limits.minHeight..limits.maxHeight
      BY <2>1, <2>2, <2>4
    <3>2. Limits[w.id[1]] = limits
      BY <1>3, <2>2 DEF limits
    <3> QED
      BY <3>1, <3>2 DEF History!Fits
  <2> QED
    BY <2>2, <2>3, <2>5, <2>6
<1>6. /\ longer \in Seq(History!Widget) /\ Len(longer) = n + 1 /\ longer[n + 1] = w
      /\ \A i \in 1..n : longer[i] = layout[i]
      /\ DOMAIN longer = 1..n + 1
  BY <1>1, <1>5
<1> HIDE DEF longer, n
<1>7. \A i \in 1..n : layout[i].id \in History!Ids /\ History!Fits(layout[i])
  BY <1>1, <1>2 DEF History!Valid
<1>8. \A i, j \in 1..n : i # j => layout[i].id # layout[j].id /\ ~History!Overlaps(layout[i], layout[j])
  BY <1>1, <1>2 DEF History!Valid
<1>9. \A i \in 1..n + 1 : i \in 1..n \/ i = n + 1
  BY <1>2
<1>10. \A i \in 1..n : ~History!Overlaps(layout[i], w)
  BY <1>5 DEF History!Overlaps
<1>11. ASSUME NEW i \in 1..n + 1
       PROVE  longer[i].id \in History!Ids /\ History!Fits(longer[i])
  BY <1>3, <1>5, <1>6, <1>7, <1>9
<1>12. ASSUME NEW i \in 1..n + 1, NEW j \in 1..n + 1, i # j
       PROVE  longer[i].id # longer[j].id /\ ~History!Overlaps(longer[i], longer[j])
  <2>1. CASE i \in 1..n /\ j \in 1..n
    BY <1>6, <1>8, <1>12, <2>1
  <2>2. CASE i \in 1..n /\ j = n + 1
    BY <1>3, <1>5, <1>6, <1>10, <2>2
  <2>3. CASE i = n + 1 /\ j \in 1..n
    BY <1>3, <1>5, <1>6, <2>3
  <2> QED
    BY <1>9, <1>12, <2>1, <2>2, <2>3
<1>13. n + 1 \in 1..MaxWidgets
  BY <1>2
<1>14. History!Valid(longer)
  BY <1>6, <1>11, <1>12, <1>13 DEF History!Valid
<1> QED
  BY <1>6, <1>14 DEF Drawn, longer, w

LEMMA RemainderIsDrawn ==
  ASSUME NEW layout \in Drawn, NEW k \in DOMAIN layout, Len(layout) > 1
  PROVE  History!RemoveAt(layout, k) \in Drawn
<1> DEFINE n == Len(layout)
           before == SubSeq(layout, 1, k - 1)
           after == SubSeq(layout, k + 1, n)
           rest == before \o after
           from(i) == IF i < k THEN i ELSE i + 1
<1>1. layout \in Seq(History!Widget) /\ History!Valid(layout)
  BY DEF Drawn
<1>2. n \in Nat /\ n > 1 /\ n <= MaxWidgets /\ MaxWidgets \in Nat /\ DOMAIN layout = 1..n
      /\ k \in 1..n /\ k \in Nat
  BY <1>1, SizesAssumption DEF History!Sizes, History!Valid
<1>3. \A i \in 1..n : layout[i] \in History!Widget
  BY <1>1
<1>4. /\ before \in Seq(History!Widget) /\ Len(before) = k - 1
      /\ \A i \in 1..k - 1 : before[i] = layout[i]
  <2>1. 1 \in Int /\ k - 1 \in Int /\ (IF 1 <= k - 1 THEN k - 1 - 1 + 1 ELSE 0) = k - 1
        /\ k - 1 - 1 + 1 = k - 1
    BY <1>2
  <2>2. \A i \in 1..k - 1 : layout[i] \in History!Widget /\ 1 + i - 1 = i
    BY <1>2, <1>3
  <2> HIDE DEF n
  <2> QED
    BY <2>1, <2>2, SubSeqProperties
<1>5. /\ after \in Seq(History!Widget) /\ Len(after) = n - k
      /\ \A i \in 1..n - k : after[i] = layout[k + i]
  <2>1. k + 1 \in Int /\ n \in Int /\ (IF k + 1 <= n THEN n - (k + 1) + 1 ELSE 0) = n - k
        /\ n - (k + 1) + 1 = n - k
    BY <1>2
  <2>2. \A i \in k + 1..n : layout[i] \in History!Widget
    BY <1>2, <1>3
  <2>3. \A i \in 1..n - k : k + 1 + i - 1 = k + i
    BY <1>2
  <2> HIDE DEF n
  <2> QED
    BY <2>1, <2>2, <2>3, SubSeqProperties
<1> HIDE DEF before, after
<1>6. /\ rest \in Seq(History!Widget) /\ Len(rest) = n - 1 /\ DOMAIN rest = 1..n - 1
      /\ \A i \in 1..n - 1 :
           rest[i] = IF i <= k - 1 THEN before[i] ELSE after[i - (k - 1)]
  <2>1. k - 1 + (n - k) = n - 1
    BY <1>2
  <2> HIDE DEF n
  <2> QED
    <3>1. /\ rest \in Seq(History!Widget) /\ Len(rest) = Len(before) + Len(after)
          /\ \A i \in 1..Len(before) + Len(after) :
               rest[i] = IF i <= Len(before) THEN before[i] ELSE after[i - Len(before)]
      BY <1>4, <1>5, ConcatProperties
    <3> HIDE DEF rest
    <3>2. DOMAIN rest = 1..Len(rest)
      BY <3>1
    <3> QED
      BY <1>4, <1>5, <2>1, <3>1, <3>2
<1> HIDE DEF rest, n
<1>7. ASSUME NEW i \in 1..n - 1 PROVE from(i) \in 1..n /\ rest[i] = layout[from(i)]
  <2>1. CASE i < k
    <3>1. i \in 1..k - 1 /\ i <= k - 1 /\ i \in 1..n
      BY <1>2, <2>1
    <3> QED
      BY <1>4, <1>6, <2>1, <3>1
  <2>2. CASE ~(i < k)
    <3>1. /\ ~(i <= k - 1) /\ i - (k - 1) \in 1..n - k /\ k + (i - (k - 1)) = i + 1
          /\ i + 1 \in 1..n
      BY <1>2, <2>2
    <3> QED
      BY <1>5, <1>6, <2>2, <3>1
  <2> QED
    BY <2>1, <2>2
<1>8. \A i, j \in 1..n - 1 : i # j => from(i) # from(j)
  BY <1>2
<1> HIDE DEF from
<1>9. \A i \in 1..n - 1 : rest[i].id \in History!Ids /\ History!Fits(rest[i])
  BY <1>1, <1>2, <1>7 DEF History!Valid
<1>10. ASSUME NEW i \in 1..n - 1, NEW j \in 1..n - 1, i # j
       PROVE  rest[i].id # rest[j].id /\ ~History!Overlaps(rest[i], rest[j])
  BY <1>1, <1>2, <1>7, <1>8, <1>10 DEF History!Valid
<1>11. n - 1 \in 1..MaxWidgets
  BY <1>2
<1>12. History!Valid(rest)
  BY <1>6, <1>9, <1>10, <1>11 DEF History!Valid
<1> QED
  BY <1>6, <1>12 DEF Drawn, History!RemoveAt, rest, before, after, n

LEMMA ChangedType ==
  ASSUME NEW v \in History!Widget, NEW x \in Int, NEW y \in Int, NEW width \in Int,
         NEW height \in Int
  PROVE  [v EXCEPT !.x = @ + x, !.y = @ + y, !.width = @ + width, !.height = @ + height]
           \in History!Widget
<1>1. /\ v.x + x \in Int /\ v.y + y \in Int
      /\ v.width + width \in Int /\ v.height + height \in Int
  BY DEF History!Widget
<1>2. ASSUME NEW a \in Int, NEW b \in Int, NEW c \in Int, NEW d \in Int
      PROVE  [v EXCEPT !.x = a, !.y = b, !.width = c, !.height = d] \in History!Widget
  BY DEF History!Widget
<1> QED
  BY <1>1, <1>2

LEMMA ChangedIsDrawn ==
  ASSUME NEW layout \in Drawn, NEW k \in DOMAIN layout,
         NEW by \in History!Gestures,
         History!Valid([layout EXCEPT ![k] = History!Changed(layout[k], by)])
  PROVE  [layout EXCEPT ![k] = History!Changed(layout[k], by)] \in Drawn
<1> DEFINE w == History!Changed(layout[k], by)
<1>1. layout \in Seq(History!Widget) /\ k \in 1..Len(layout)
  BY DEF Drawn
<1>2. by.x \in Int /\ by.y \in Int /\ by.width \in Int /\ by.height \in Int
  BY SizesAssumption DEF History!Gestures, History!Sizes
<1>3. w \in History!Widget
  <2>1. layout[k] \in History!Widget
    BY <1>1
  <2> QED
    BY <1>2, <2>1, ChangedType DEF History!Changed
<1> HIDE DEF w
<1>4. [layout EXCEPT ![k] = w] \in Seq(History!Widget)
  BY <1>1, <1>3
<1> QED
  BY <1>4 DEF Drawn, w
-----------------------------------------------------------------------------
(* What a step makes of a draft: an edit that is undone, or the other way or a
   replacement. *)
LEMMA DraftStep ==
  ASSUME Kept(draft), History!Next, draft' # draft
  PROVE  /\ Kept(draft')
         /\ \/ draft'.past = <<>> /\ draft'.future = <<>>
            \/ History!Redone(draft') = draft
            \/ History!Undone(draft').present = draft.present
<1>1. draft.present \in Drawn
  BY DEF Kept
<1>2. DefaultDraft \in Drawn
  BY SizesAssumption DEF History!Sizes, Drawn
<1>3. ASSUME NEW layout \in Drawn, History!Commit(layout)
      PROVE  Kept(draft') /\ History!Undone(draft').present = draft.present
  <2>1. layout # draft.present
    BY <1>3 DEF History!Commit, History!Committed
  <2>2. draft' = [past |-> History!Bounded(Append(draft.past, draft.present)),
                  present |-> layout, future |-> <<>>]
    BY <1>3, <2>1 DEF History!Commit, History!Committed
  <2>3. /\ draft.past \in Seq(Drawn) /\ draft.future \in Seq(Drawn)
        /\ Len(draft.past) + Len(draft.future) <= HistoryLimit
    BY DEF Kept
  <2>4. Len(draft.past) <= HistoryLimit
    <3>1. /\ Len(draft.past) \in Nat /\ Len(draft.future) \in Nat /\ HistoryLimit \in Nat
      BY <2>3, SizesAssumption DEF History!Sizes
    <3>2. ASSUME NEW n \in Nat, NEW m \in Nat, n + m <= HistoryLimit PROVE n <= HistoryLimit
      BY <3>1, <3>2
    <3> QED
      BY <2>3, <3>1, <3>2
  <2> QED
    BY <1>1, <2>2, <2>3, <2>4, CommitKeeps
<1>4. CASE History!AddWidget
  <2>1. PICK type \in Types :
          /\ Len(draft.present) < MaxWidgets
          /\ History!Places(draft.present, type) # {}
          /\ History!Commit(Append(draft.present, History!FirstFit(draft.present, type)))
    BY <1>4 DEF History!AddWidget
  <2> QED
    BY <1>1, <1>3, <2>1, AddedIsDrawn
<1>5. CASE History!RemoveWidget
  <2>1. PICK k \in DOMAIN draft.present :
          /\ Len(draft.present) > 1
          /\ History!Commit(History!RemoveAt(draft.present, k))
    BY <1>5 DEF History!RemoveWidget
  <2> QED
    BY <1>1, <1>3, <2>1, RemainderIsDrawn
<1>6. CASE History!ChangeWidget
  <2>1. PICK k \in DOMAIN draft.present, by \in History!Gestures :
          LET next == [draft.present EXCEPT ![k] = History!Changed(draft.present[k], by)]
          IN  History!Valid(next) /\ History!Commit(next)
    BY <1>6 DEF History!ChangeWidget
  <2> QED
    BY <1>1, <1>3, <2>1, ChangedIsDrawn
<1>7. CASE History!Undo
  <2>1. draft.past # <<>> /\ draft' = History!Undone(draft)
    BY <1>7 DEF History!Undo, History!Undone
  <2> QED
    BY <2>1, UndoKeeps
<1>8. CASE History!Redo
  <2>1. draft.future # <<>> /\ draft' = History!Redone(draft)
    BY <1>8 DEF History!Redo, History!Redone
  <2> QED
    BY <2>1, RedoKeeps
<1>9. CASE History!Reset
  BY <1>2, <1>3, <1>9 DEF History!Reset
<1>10. CASE History!Replace
  <2>1. PICK layout \in Drawn : draft' = [past |-> <<>>, present |-> layout, future |-> <<>>]
    BY <1>1, <1>2, <1>10 DEF History!Replace, History!Begun
  <2>2. Kept(draft')
    BY <2>1, BegunIsKept
  <2> QED
    BY <2>1, <2>2
<1> QED
  BY <1>4, <1>5, <1>6, <1>7, <1>8, <1>9, <1>10 DEF History!Next

(* No draft is lost but by the limit or a replacement (DraftsAreKept), for every
   grid, registry and limit of the history. *)
THEOREM DraftsAreKeptAlways == History!Spec => DraftsAreKept
<1>1. History!Init => Kept(draft)
  <2> SUFFICES ASSUME History!Init PROVE Kept(draft)
    OBVIOUS
  <2>1. DefaultDraft \in Drawn
    BY SizesAssumption DEF History!Sizes, Drawn
  <2> QED
    BY <2>1, BegunIsKept DEF History!Init, History!Begun
<1>2. Kept(draft) /\ [History!Next]_draft => Kept(draft)'
  <2> SUFFICES ASSUME Kept(draft), [History!Next]_draft PROVE Kept(draft')
    OBVIOUS
  <2>1. CASE draft' = draft
    BY <2>1
  <2>2. CASE draft' # draft
    BY <2>2, DraftStep
  <2> QED
    BY <2>1, <2>2
<1> DEFINE Step == /\ \A layout \in History!Drafts(draft') : History!Valid(layout)
                   /\ draft'.past # <<>> => History!Redone(History!Undone(draft')) = draft'
                   /\ draft'.future # <<>> => History!Undone(History!Redone(draft')) = draft'
                   /\ \/ draft'.past = <<>> /\ draft'.future = <<>>
                      \/ History!Redone(draft') = draft
                      \/ History!Undone(draft').present = draft.present
<1>3. Kept(draft) /\ [History!Next]_draft => [Step]_draft
  <2> SUFFICES ASSUME Kept(draft), History!Next, draft' # draft PROVE Step
    OBVIOUS
  <2>1. Kept(draft')
    BY DraftStep
  <2>2. \A layout \in History!Drafts(draft') : History!Valid(layout)
    <3>1. /\ draft'.past \in Seq(Drawn) /\ draft'.present \in Drawn /\ draft'.future \in Seq(Drawn)
      BY <2>1 DEF Kept
    <3>2. History!Drafts(draft') \subseteq Drawn
      BY <3>1 DEF History!Drafts, History!ToSet
    <3> QED
      BY <3>2 DEF Drawn
  <2> QED
    BY <2>1, <2>2, UndoKeeps, RedoKeeps, DraftStep
<1> QED
  BY <1>1, <1>2, <1>3, PTL DEF History!Spec, DraftsAreKept, History!DraftsAreKept
=============================================================================
