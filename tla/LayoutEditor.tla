----------------------------- MODULE LayoutEditor -----------------------------
(***************************************************************************)
(* Browser tabs editing the dashboard layout (dashboard-client.tsx) over a *)
(* network that delays, loses and times out: a request a tab has given up  *)
(* may still reach the collector (the 20 s limit of the dashboard server   *)
(* ends the answer, not the request).                                      *)
(*                                                                         *)
(* The undo history is abstracted: undo, redo, reset and every widget      *)
(* change are an Edit that makes some valid layout the draft.              *)
(***************************************************************************)
EXTENDS DashboardLayouts

CONSTANTS
  Tabs,   \* open dashboard pages
  Slots   \* bound: requests of one tab under way at the same time

VARIABLES
  tab,    \* the React state of each tab
  calls   \* the requests of each tab, by slot

store == <<row, history>>
vars == <<store, tab, calls>>

Kinds == {"load", "discard", "retry", "save"}
Tags == 0..MaxRevision

Replies ==
  [accepted : BOOLEAN, layout : Layouts, etag : Tags]

(* draft is what the handler's closure captured; base is the layout the tab
   displayed as saved when it took that etag, which no code keeps. *)
CallType ==
  [kind : Kinds, draft : Layouts, etag : Tags, base : Layouts,
   awaited : BOOLEAN, pending : BOOLEAN, reply : Replies \cup {None}]
TabType ==
  [draft : Layouts, baseline : Layouts, etag : Tags \cup {None}, editing : BOOLEAN,
   saving : BOOLEAN, recovery : BOOLEAN, loading : BOOLEAN]

NewTab ==
  [draft |-> Default, baseline |-> Default, etag |-> None, editing |-> FALSE,
   saving |-> FALSE, recovery |-> FALSE, loading |-> TRUE]

Request(kind, draft, etag, base) ==
  [kind |-> kind, draft |-> draft, etag |-> etag, base |-> base,
   awaited |-> TRUE, pending |-> TRUE, reply |-> None]
Get(kind, draft) == Request(kind, draft, 0, Default)

Idle(b) == {i \in Slots : calls[b][i] = None}
Send(b, c) == \E i \in Idle(b) : calls' = [calls EXCEPT ![b][i] = c]
Awaited(b, i) == calls[b][i] # None /\ calls[b][i].awaited

Init ==
  /\ InitLayout
  /\ tab = [b \in Tabs |-> NewTab]
  /\ \E i \in Slots :
       calls = [b \in Tabs |-> [j \in Slots |->
                  IF i = j THEN Get("load", Default) ELSE None]]
-----------------------------------------------------------------------------
(* What the user does. *)
Edit(b) ==
  /\ tab[b].editing
  /\ \E v \in Layouts : tab' = [tab EXCEPT ![b].draft = v]
  /\ UNCHANGED <<store, calls>>

BeginEdit(b) ==
  /\ ~tab[b].editing /\ ~tab[b].loading
  /\ tab' = [tab EXCEPT ![b].draft = tab[b].baseline, ![b].editing = TRUE]
  /\ UNCHANGED <<store, calls>>

Cancel(b) ==
  /\ tab[b].editing
  /\ tab' = [tab EXCEPT ![b].draft = tab[b].baseline, ![b].editing = FALSE]
  /\ UNCHANGED <<store, calls>>

(* persistLayout from the toolbar: the button is disabled while a save is under
   way or nothing changed. *)
SaveEnabled(b) ==
  tab[b].editing /\ ~tab[b].saving /\ tab[b].draft # tab[b].baseline

Save(b) ==
  /\ SaveEnabled(b)
  /\ IF tab[b].etag = None
     THEN tab' = [tab EXCEPT ![b].recovery = TRUE] /\ UNCHANGED calls
     ELSE /\ tab' = [tab EXCEPT ![b].saving = TRUE]
          /\ Send(b, Request("save", tab[b].draft, tab[b].etag, tab[b].baseline))
  /\ UNCHANGED store

(* "Reload saved layout" and "Retry with latest revision". *)
Reload(b, kind) ==
  /\ kind \in {"discard", "retry"}
  /\ tab[b].recovery
  /\ Send(b, Get(kind, tab[b].draft))
  /\ UNCHANGED <<store, tab>>

(* The page is closed, reloaded or sent to the login; a save on its way stays. *)
Leave(b) ==
  LET left == [i \in Slots |->
                 IF calls[b][i] # None /\ calls[b][i].kind = "save" /\ calls[b][i].pending
                 THEN [calls[b][i] EXCEPT !.awaited = FALSE] ELSE None]
  IN  /\ tab' = [tab EXCEPT ![b] = NewTab]
      /\ \E i \in Slots :
           /\ left[i] = None
           /\ calls' = [calls EXCEPT ![b] = [left EXCEPT ![i] = Get("load", Default)]]
      /\ UNCHANGED store
-----------------------------------------------------------------------------
(* The collector handles a request: a GET reads, a PUT is the conditional write. *)
Answered(c, r) ==
  IF c.awaited THEN [c EXCEPT !.pending = FALSE, !.reply = r] ELSE None

Read(b, i) ==
  /\ calls[b][i] # None /\ calls[b][i].pending /\ calls[b][i].kind # "save"
  /\ calls' = [calls EXCEPT ![b][i] =
                 Answered(@, [accepted |-> TRUE, layout |-> Layout, etag |-> Revision])]
  /\ UNCHANGED <<store, tab>>

(* The answer to an accepted write is the written layout and expected + 1. *)
WriteReply_Reread(c) ==
  [accepted |-> TRUE, layout |-> c.draft, etag |-> Revision]
WriteReply(c) ==
  [accepted |-> TRUE, layout |-> c.draft, etag |-> c.etag + 1]

Put(b, i) ==
  /\ calls[b][i] # None /\ calls[b][i].pending /\ calls[b][i].kind = "save"
  /\ LET c == calls[b][i]
     IN  IF Accepts(c.etag)
         THEN /\ Write(c.draft)
              /\ calls' = [calls EXCEPT ![b][i] = Answered(c, WriteReply(c))]
         ELSE /\ calls' = [calls EXCEPT ![b][i] =
                   Answered(c, [accepted |-> FALSE, layout |-> Default, etag |-> 0])]
              /\ UNCHANGED store
  /\ UNCHANGED tab

(* The request never arrives. *)
Lose(b, i) ==
  /\ calls[b][i] # None /\ calls[b][i].pending
  /\ calls' = [calls EXCEPT ![b][i] =
                 IF @.awaited THEN [@ EXCEPT !.pending = FALSE] ELSE None]
  /\ UNCHANGED <<store, tab>>
-----------------------------------------------------------------------------
(* The answer reaches the tab. *)
Shown(t, r) == [t EXCEPT !.baseline = r.layout, !.etag = r.etag, !.recovery = FALSE]

Replaced(t, c) ==
  [Shown(t, c.reply) EXCEPT !.draft = c.reply.layout,
                            !.loading = t.loading /\ c.kind # "load"]

Loaded(b, i) ==
  /\ Awaited(b, i) /\ calls[b][i].kind \in {"load", "discard"}
  /\ calls[b][i].reply # None
  /\ tab' = [tab EXCEPT ![b] = Replaced(@, calls[b][i])]
  /\ calls' = [calls EXCEPT ![b][i] = None]
  /\ UNCHANGED store

(* retryLayoutSave: the latest revision is shown, then the draft of the click is
   saved over it. *)
Retried(b, i) ==
  /\ Awaited(b, i) /\ calls[b][i].kind = "retry" /\ calls[b][i].reply # None
  /\ LET c == calls[b][i]
     IN  /\ tab' = [tab EXCEPT ![b] = [Shown(@, c.reply) EXCEPT !.saving = TRUE]]
         /\ calls' = [calls EXCEPT ![b][i] =
                        Request("save", c.draft, c.reply.etag, c.reply.layout)]
  /\ UNCHANGED store

Saved(t, r) ==
  [Shown(t, r) EXCEPT !.draft = r.layout, !.saving = FALSE, !.editing = FALSE]
Unsaved_StillSaving(t) == [t EXCEPT !.recovery = TRUE]
Unsaved(t) == [t EXCEPT !.recovery = TRUE, !.saving = FALSE]

Settled(b, i) ==
  /\ Awaited(b, i) /\ calls[b][i].kind = "save" /\ calls[b][i].reply # None
  /\ tab' = [tab EXCEPT ![b] = IF calls[b][i].reply.accepted
                               THEN Saved(@, calls[b][i].reply) ELSE Unsaved(@)]
  /\ calls' = [calls EXCEPT ![b][i] = None]
  /\ UNCHANGED store

(* The answer is lost, late or an error: the tab stops waiting; the request may
   still be on its way. *)
NotLoaded(t, kind) ==
  [t EXCEPT !.recovery = TRUE, !.loading = t.loading /\ kind # "load"]

GiveUp(b, i) ==
  /\ Awaited(b, i)
  /\ tab' = [tab EXCEPT ![b] = IF calls[b][i].kind = "save" THEN Unsaved(@)
                               ELSE NotLoaded(@, calls[b][i].kind)]
  /\ calls' = [calls EXCEPT ![b][i] =
                 IF @.pending /\ @.kind = "save" THEN [@ EXCEPT !.awaited = FALSE] ELSE None]
  /\ UNCHANGED store

User(b) ==
  Edit(b) \/ BeginEdit(b) \/ Cancel(b) \/ Save(b) \/ Reload(b, "discard")
    \/ Reload(b, "retry") \/ Leave(b)
Arrival(b, i) == Loaded(b, i) \/ Retried(b, i) \/ Settled(b, i) \/ GiveUp(b, i)
Network(b, i) == Read(b, i) \/ Put(b, i) \/ Lose(b, i)

Next == \E b \in Tabs : User(b) \/ \E i \in Slots : Arrival(b, i) \/ Network(b, i)
Spec == Init /\ [][Next]_vars

(* The dashboard server bounds every wait, so every awaited call ends. *)
FairSpec == Spec /\ \A b \in Tabs, i \in Slots : WF_vars(Arrival(b, i))
-----------------------------------------------------------------------------
TypeOK ==
  /\ LayoutTypeOK
  /\ tab \in [Tabs -> TabType]
  /\ calls \in [Tabs -> [Slots -> CallType \cup {None}]]

(* The entity tag a tab would send names the layout it displays as saved,
   whatever the order, the loss and the lateness of answers: a conflict is never
   missed because a tag of one answer met the layout of another. *)
TagNamesBaseline ==
  \A b \in Tabs :
    tab[b].etag # None => /\ tab[b].etag <= Len(history)
                          /\ tab[b].baseline = Named(tab[b].etag)

(* An accepted write replaces exactly the layout its tab displayed as saved when
   the save was asked for: nobody's layout is overwritten unseen, also by a write
   that arrives after its tab gave up (save_dashboard_layout, persistLayout). *)
NoUnseenOverwrite ==
  [][row' # row =>
       \E b \in Tabs, i \in Slots :
         /\ calls[b][i] # None /\ calls[b][i].kind = "save"
         /\ calls[b][i].base = Layout
         /\ row'.layout = calls[b][i].draft]_vars

(* Every save ends: the page leaves "Saving" whatever happens to the request. *)
SavingEnds == \A b \in Tabs : tab[b].saving ~> ~tab[b].saving
=============================================================================
