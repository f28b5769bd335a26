----------------------------- MODULE LayoutHistory -----------------------------
(***************************************************************************)
(* The draft of a page that edits the dashboard layout (layout-editor.ts): *)
(* widgets on a bounded grid, changed one gesture at a time, with a        *)
(* bounded history of what undo and redo bring back.                       *)
(*                                                                         *)
(* The identifier of a widget is its type and a number: 0 for the bare     *)
(* name of the type.                                                       *)
(***************************************************************************)
EXTENDS Integers, SequencesExt

CONSTANTS
  Types,         \* DASHBOARD_WIDGET_REGISTRY
  Limits,        \* of each type: the least and the largest width and height
  Columns, Rows, \* of the grid
  MaxWidgets,    \* MAX_DASHBOARD_WIDGETS
  HistoryLimit,  \* LAYOUT_HISTORY_LIMIT
  DefaultDraft,  \* DEFAULT_DASHBOARD_LAYOUT_V1
  Reach          \* bound: how far one gesture moves or resizes a widget

VARIABLE draft

Ids == Types \X (0..MaxWidgets)

Overlaps(a, b) ==
  /\ a.x < b.x + b.width /\ b.x < a.x + a.width
  /\ a.y < b.y + b.height /\ b.y < a.y + a.height

Fits(w) ==
  LET limits == Limits[w.id[1]]
  IN  /\ w.x >= 0 /\ w.y >= 0 /\ w.x + w.width <= Columns /\ w.y + w.height <= Rows
      /\ w.width \in limits.minWidth..limits.maxWidth
      /\ w.height \in limits.minHeight..limits.maxHeight

(* assertDashboardLayoutV1 *)
Valid(layout) ==
  /\ Len(layout) \in 1..MaxWidgets
  /\ \A i \in DOMAIN layout : layout[i].id \in Ids /\ Fits(layout[i])
  /\ \A i, j \in DOMAIN layout :
       i # j => layout[i].id # layout[j].id /\ ~Overlaps(layout[i], layout[j])

(* What a layout is made of (DashboardWidgetV1), and what the registry and the
   limits of the code provide: a type's least size is not above its largest, and
   the default is a valid layout. *)
Widget == [id : Ids, x : Int, y : Int, width : Int, height : Int]

Sizes ==
  /\ MaxWidgets \in Nat /\ HistoryLimit \in Nat \ {0}
  /\ Columns \in Nat /\ Rows \in Nat /\ Reach \in Nat
  /\ \A type \in Types :
       LET limits == Limits[type]
       IN  /\ limits.minWidth \in Nat /\ limits.maxWidth \in Nat
           /\ limits.minHeight \in Nat /\ limits.maxHeight \in Nat
           /\ limits.minWidth <= limits.maxWidth /\ limits.minHeight <= limits.maxHeight
  /\ DefaultDraft \in Seq(Widget) /\ Valid(DefaultDraft)

(* createLayoutHistory *)
Begun(layout) == [past |-> <<>>, present |-> layout, future |-> <<>>]

Init == draft = Begun(DefaultDraft)
-----------------------------------------------------------------------------
(* layoutHistoryReducer *)
Newest(past) == SubSeq(past, Len(past) - HistoryLimit + 1, Len(past))
Bounded(past) == IF Len(past) > HistoryLimit THEN Newest(past) ELSE past

Undone(h) ==
  IF h.past = <<>> THEN h
  ELSE [past |-> Front(h.past), present |-> Last(h.past),
        future |-> SubSeq(<<h.present>> \o h.future, 1,
                          IF Len(h.future) < HistoryLimit THEN Len(h.future) + 1
                          ELSE HistoryLimit)]
Redone(h) ==
  IF h.future = <<>> THEN h
  ELSE [past |-> Bounded(Append(h.past, h.present)), present |-> Head(h.future),
        future |-> Tail(h.future)]

Committed_KeepsFuture(h, layout) ==
  IF layout = h.present THEN h
  ELSE [past |-> Bounded(Append(h.past, h.present)), present |-> layout, future |-> h.future]
Committed(h, layout) ==
  IF layout = h.present THEN h
  ELSE [past |-> Bounded(Append(h.past, h.present)), present |-> layout, future |-> <<>>]
-----------------------------------------------------------------------------
(* firstFitWidget: the first free identifier, and the first free place of the
   least size in row-major order. *)
NewId(layout, type) ==
  LET taken == {layout[i].id : i \in DOMAIN layout}
      free == {n \in 0..MaxWidgets : <<type, n>> \notin taken}
  IN  <<type, CHOOSE n \in free : \A m \in free : n <= m>>

Places(layout, type) ==
  LET least == [width |-> Limits[type].minWidth, height |-> Limits[type].minHeight]
      at(x, y) == [id |-> NewId(layout, type), x |-> x, y |-> y,
                   width |-> least.width, height |-> least.height]
  IN  {w \in {at(x, y) : x \in 0..Columns - least.width, y \in 0..Rows - least.height} :
         \A i \in DOMAIN layout : ~Overlaps(w, layout[i])}

Before(v, w) == v.y < w.y \/ (v.y = w.y /\ v.x <= w.x)
FirstFit(layout, type) ==
  CHOOSE w \in Places(layout, type) : \A v \in Places(layout, type) : Before(w, v)

Commit(layout) == draft' = Committed(draft, layout)

AddWidget ==
  \E type \in Types :
    /\ Len(draft.present) < MaxWidgets
    /\ Places(draft.present, type) # {}
    /\ Commit(Append(draft.present, FirstFit(draft.present, type)))

RemoveWidget ==
  \E i \in DOMAIN draft.present :
    /\ Len(draft.present) > 1
    /\ Commit(RemoveAt(draft.present, i))

(* changeWidget with updateWidget: a gesture moves or resizes, by the keyboard or
   the pointer; a layout that is not valid is not committed. *)
Gestures ==
  [x : -Reach..Reach, y : -Reach..Reach, width : {0}, height : {0}]
    \cup [x : {0}, y : {0}, width : -Reach..Reach, height : -Reach..Reach]

Changed(w, by) ==
  [w EXCEPT !.x = @ + by.x, !.y = @ + by.y, !.width = @ + by.width, !.height = @ + by.height]

ChangeWidget ==
  \E i \in DOMAIN draft.present, by \in Gestures :
    LET next == [draft.present EXCEPT ![i] = Changed(draft.present[i], by)]
    IN  Valid(next) /\ Commit(next)

Undo == draft' = Undone(draft)
Redo == draft' = Redone(draft)
Reset == Commit(DefaultDraft)

(* "replace": a layout that was loaded, saved or discarded for becomes the draft:
   the default or one that some page has saved. *)
Replace == \E layout \in {DefaultDraft, draft.present} : draft' = Begun(layout)

Next == AddWidget \/ RemoveWidget \/ ChangeWidget \/ Undo \/ Redo \/ Reset \/ Replace
Spec == Init /\ [][Next]_draft
-----------------------------------------------------------------------------
Drafts(h) == {h.present} \cup ToSet(h.past) \cup ToSet(h.future)

(* No draft is lost but by the limit or a replacement: after an edit, a reset
   included, undo brings back what was on the screen ("Reset changes only the draft
   and is undoable until save", ADR 0005), what is undone is redone exactly and
   the other way round, whatever mixture of them came before; and all that undo or
   redo may bring back is a valid layout, so no handler meets an assertion. *)
DraftsAreKept ==
  [][/\ \A layout \in Drafts(draft') : Valid(layout)
     /\ draft'.past # <<>> => Redone(Undone(draft')) = draft'
     /\ draft'.future # <<>> => Undone(Redone(draft')) = draft'
     /\ \/ draft'.past = <<>> /\ draft'.future = <<>>
        \/ Redone(draft') = draft
        \/ Undone(draft').present = draft.present]_draft
=============================================================================
