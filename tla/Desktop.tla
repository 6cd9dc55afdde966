------------------------------- MODULE Desktop -------------------------------
(***************************************************************************)
(* The desktop window beside a simulator that others change too: the list  *)
(* of cameras, the camera the tabs show, one tab that is followed (the     *)
(* identity form, the stream table with its editor, or the quirk switches) *)
(* and the dialogs, each of which waits in an event loop of its own while  *)
(* REST and SOAP requests are served.  The other tabs only show counters.  *)
(***************************************************************************)
EXTENDS Integers, Sequences, FiniteSets, SequencesExt

CONSTANTS
  CameraIds,    \* ids in the order nextCameraId() gives them
  Objects,      \* camera objects; one more than can be alive together
  Texts,        \* what is typed into a field
  MaxLines,     \* bound: scopes, or profiles, of a camera
  QuirkLines,   \* quirks with a row; "naming" renames the profiles
  SentTables,   \* quirk tables clients send
  ScenarioFiles,\* scenarios: ids of their cameras, in order
  MaxTurns      \* bound: changes of the simulator in a behaviour

ASSUME DesktopAssumption ==
  /\ CameraIds # <<>> /\ CameraIds \in Seq(Range(CameraIds))
  /\ 0 \notin Objects /\ IsFiniteSet(Objects) /\ Cardinality(Objects) > Len(CameraIds)
  /\ "naming" \in QuirkLines
  /\ SentTables \subseteq [QuirkLines -> {"unset", "on", "off"}]
  /\ \A ids \in ScenarioFiles :
       ids \in Seq(Range(CameraIds)) /\ IsInjective(ids)

VARIABLES
  tab,      \* the tab that is followed
  units,    \* Simulator: d->cameras, in order
  defaults, \* its globalQuirks
  win,      \* the window
  turns     \* how often units or defaults changed

desktopVars == <<tab, units, defaults, win, turns>>

-----------------------------------------------------------------------------
(* Cameras.                                                                *)

Untouched == [q \in QuirkLines |-> "unset"]
Overlaid(table, other) ==
  [q \in QuirkLines |-> IF other[q] = "unset" THEN table[q] ELSE other[q]]
SwitchedOn(table) == {q \in QuirkLines : table[q] = "on"}

Alive(us) == {u.object : u \in Range(us)}
UnitOf(us, object) == CHOOSE u \in Range(us) : u.object = object
RowOf(us, object) == CHOOSE r \in DOMAIN us : us[r].object = object

(* applyProfileNamingStyle(): every name is set to what the style says. *)
Styled(names, table) ==
  [i \in DOMAIN names |-> IF table["naming"] = "on" THEN "styled" ELSE "plain"]

(* addCamera(): the global quirks over the ones of the preset, at an address *)
(* nothing in the window still points to.                                  *)
Fresh(defs, id, object) ==
  [id |-> id, object |-> object, fields |-> "made", scopes |-> <<>>,
   names |-> <<"plain">>, quirks |-> Overlaid(Untouched, defs)]

-----------------------------------------------------------------------------
(* What the tab followed shows of a camera; object 0 is nullptr.  `missed'  *)
(* is a note: what is shown was changed and no signal said so.             *)

NoDialog == [kind |-> "none"]
Blank == [fields |-> "", scopes |-> <<>>, typed |-> FALSE]

(* IdentityTab::reload(). *)
ReadIdentity(us, object) ==
  IF object = 0 THEN Blank
  ELSE [fields |-> UnitOf(us, object).fields, scopes |-> UnitOf(us, object).scopes,
        typed |-> FALSE]

(* loadEditor(). *)
Edited(us, object, line) ==
  [line |-> line, typed |-> FALSE,
   text |-> IF line = 0 THEN "" ELSE UnitOf(us, object).names[line],
   lines |-> IF object = 0 THEN 0 ELSE Len(UnitOf(us, object).names)]

(* StreamsTab::reloadTable(): the row stays current while there is one. *)
ReadStreams(page, us, object) ==
  LET lines == IF object = 0 THEN 0 ELSE Len(UnitOf(us, object).names)
  IN  Edited(us, object, IF page.line \in 1..lines THEN page.line ELSE IF lines > 0 THEN 1 ELSE 0)

(* QuirksTab: targetQuirks() and reloadValues(). *)
TargetQuirks(page, us, defs, object) ==
  IF page.target = "global" THEN defs
  ELSE IF object = 0 THEN Untouched ELSE UnitOf(us, object).quirks
ReadQuirks(page, us, defs, object) ==
  [page EXCEPT !.on = SwitchedOn(TargetQuirks(page, us, defs, object))]

Reads(page, us, defs, object) ==
  CASE tab = "identity" -> ReadIdentity(us, object)
    [] tab = "streams"  -> ReadStreams(page, us, object)
    [] tab = "quirks"   -> ReadQuirks(page, us, defs, object)

(* CameraTab::setCamera() on every tab: onCameraSelected().  Reading again *)
(* deletes the list item a dialog may have taken.                          *)
Show(w, us, defs, object) ==
  [w EXCEPT !.shown = object, !.missed = FALSE,
            !.page = Reads(w.page, us, defs, object),
            !.dialog = IF w.dialog.kind = "edit" THEN [w.dialog EXCEPT !.line = 0] ELSE w.dialog]

(* The signals: modelChanged (the identity and the stream tab listen), and *)
(* quirksChanged (the quirk tab, while it shows the camera's own).         *)
(* Mutant: modelChanged is not connected again for the next camera. *)
ModelChanged_Deaf(w, us, defs, object) == w

ModelChanged(w, us, defs, object) ==
  IF w.shown = object /\ tab # "quirks" THEN Show(w, us, defs, object) ELSE w
QuirksChanged(w, us, defs, object) ==
  IF w.shown = object /\ tab = "quirks" /\ w.page.target = "camera"
  THEN Show(w, us, defs, object) ELSE w

(* setQuirks() of a camera: its profiles get other names, and only        *)
(* quirksChanged is emitted.                                               *)
Requirked(u, table) == [u EXCEPT !.quirks = table, !.names = Styled(@, table)]
QuirksSet(us, object, table) == [us EXCEPT ![RowOf(us, object)] = Requirked(@, table)]
Unannounced(w, us, later) ==
  [w EXCEPT !.missed = @ \/ (w.shown # 0 /\ UnitOf(us, w.shown).names # UnitOf(later, w.shown).names)]

-----------------------------------------------------------------------------
(* The list of cameras.                                                    *)

(* setCurrentRow(): only a change of the current item is a signal. *)
Select(w, us, defs, row) ==
  IF row = w.at THEN w
  ELSE [Show(w, us, defs, IF row = 0 THEN 0 ELSE us[row].object) EXCEPT !.at = row]

(* onCameraAdded(): the new row becomes the current one. *)
RowAdded(w, us, defs) ==
  Select([w EXCEPT !.rows = Append(@, Last(us).id)], us, defs, Len(us))

(* cameraAboutToBeRemoved, then onCameraRemoved(): with the current row    *)
(* goes the selection, to the row after it or the last one.                *)
RowRemoved(w, us, defs, row) ==
  LET left == RemoveAt(us, row)
      away == IF w.shown = us[row].object THEN Show(w, us, defs, 0) ELSE w
      cut  == [away EXCEPT !.rows = RemoveAt(@, row)]
  IN  CASE row < w.at -> [cut EXCEPT !.at = @ - 1]
        [] row > w.at -> cut
        [] row = w.at -> Select([cut EXCEPT !.at = -1], left, defs,
                                IF row <= Len(left) THEN row ELSE Len(left))

(* rebuild(): clear() takes the selection away, then the id that was       *)
(* current is looked for, and the first row taken if it is gone.           *)
Rebuilt(w, us, defs) ==
  LET ids  == [r \in DOMAIN us |-> us[r].id]
      none == [Show(w, us, defs, 0) EXCEPT !.rows = ids, !.at = 0]
      same == {r \in DOMAIN us : w.at # 0 /\ ids[r] = w.rows[w.at]}
  IN  Select(none, us, defs, IF us = <<>> THEN 0 ELSE IF same = {} THEN 1 ELSE CHOOSE r \in same : TRUE)

-----------------------------------------------------------------------------
(* Changes of the simulator, with everything the window does about them.  *)
(* `then' is what the window does afterwards in the same handler.          *)

FreeIds == Range(CameraIds) \ {u.id : u \in Range(units)}
FirstFree ==
  CameraIds[CHOOSE n \in DOMAIN CameraIds :
              CameraIds[n] \in FreeIds /\ \A m \in 1 .. n - 1 : CameraIds[m] \notin FreeIds]
Pointed(w) == IF w.dialog.kind \in {"menu", "warning"} THEN {w.dialog.object} ELSE {}
NewObject(us, w) == CHOOSE o \in Objects \ (Alive(us) \cup Pointed(w)) : TRUE

(* Simulator::addCamera(). *)
AddUnit(w, object) ==
  /\ FreeIds # {}
  /\ units' = Append(units, Fresh(defaults, FirstFree, object))
  /\ win' = RowAdded(w, units', defaults)
  /\ UNCHANGED <<tab, defaults>>

(* Simulator::removeCamera(). *)
RemoveUnit(w, row) ==
  /\ units' = RemoveAt(units, row)
  /\ win' = RowRemoved(w, units, defaults, row)
  /\ UNCHANGED <<tab, defaults>>

(* mutableModel() changed, then applyModelChanges(). *)
ChangeUnit(w, object, unit) ==
  /\ units' = [units EXCEPT ![RowOf(units, object)] = unit]
  /\ win' = ModelChanged(w, units', defaults, object)
  /\ UNCHANGED <<tab, defaults>>

SetUnitQuirks(w, object, table) ==
  /\ units' = QuirksSet(units, object, table)
  /\ win' = Unannounced(QuirksChanged(w, units', defaults, object), units, units')
  /\ UNCHANGED <<tab, defaults>>

(* setGlobalQuirks(): nothing in the window listens to globalQuirksChanged. *)
Defaulted(w, table) ==
  [w EXCEPT !.missed = @ \/ (tab = "quirks" /\ w.page.target = "global" /\ table # defaults)]

(* applyScenario(): all cameras go, which leaves nothing in a list that    *)
(* configChanged builds anew; then come the global quirks and the cameras. *)
OpenScenario(ids) ==
  LET cleared == Defaulted(Rebuilt(win, <<>>, defaults), Untouched)
      put(s, id) == Append(s.us, Fresh(Untouched, id, NewObject(s.us, s.w)))
      loaded[n \in 0 .. Len(ids)] ==
        IF n = 0 THEN [us |-> <<>>, w |-> cleared]
        ELSE [us |-> put(loaded[n - 1], ids[n]),
              w  |-> RowAdded(loaded[n - 1].w, put(loaded[n - 1], ids[n]), Untouched)]
  IN  /\ units' = loaded[Len(ids)].us /\ win' = loaded[Len(ids)].w
      /\ defaults' = Untouched /\ UNCHANGED tab

-----------------------------------------------------------------------------
(* The window's own handlers.  A dialog is modal: nothing else of the      *)
(* window is used while it is there.                                       *)

Idle == win.dialog = NoDialog
DialogGone == [win EXCEPT !.dialog = NoDialog]
Opened(dialog) == win' = [win EXCEPT !.dialog = dialog] /\ UNCHANGED <<tab, units, defaults>>
Current == UnitOf(units, win.shown)

PickRow(row) ==
  /\ Idle /\ win' = Select(win, units, defaults, row)
  /\ UNCHANGED <<tab, units, defaults>>

(* addCamera(): when it cannot be started a warning is shown, and then the *)
(* pointer is used to select the camera once more.                         *)
AddCamera ==
  LET object == NewObject(units, win)
  IN  /\ Idle
      /\ \/ AddUnit(win, object)
         \/ AddUnit([win EXCEPT !.dialog = [kind |-> "warning", object |-> object]], object)
WarningRead ==
  /\ win.dialog.kind = "warning" /\ win.dialog.object \in Alive(units)
  /\ win' = Select(DialogGone, units, defaults, RowOf(units, win.dialog.object))
  /\ UNCHANGED <<tab, units, defaults>>

(* The tool bar's remove and the menu's: the id is kept over the question. *)
AskRemove ==
  /\ Idle /\ win.at # 0
  /\ Opened([kind |-> "remove", id |-> units[win.at].id])
ConfirmRemove ==
  /\ win.dialog.kind = "remove"
  /\ \E row \in DOMAIN units : units[row].id = win.dialog.id /\ RemoveUnit(DialogGone, row)

(* showContextMenu(): the pointer is kept over the menu and over the       *)
(* question for a name.                                                    *)
OpenMenu(row) == Idle /\ Opened([kind |-> "menu", object |-> units[row].object])
PointerKept == win.dialog.kind = "menu" /\ win.dialog.object \in Alive(units)
MenuRemove == PointerKept /\ Opened([kind |-> "remove", id |-> UnitOf(units, win.dialog.object).id])
MenuRename(text) ==
  /\ PointerKept
  /\ ChangeUnit(DialogGone, win.dialog.object, [UnitOf(units, win.dialog.object) EXCEPT !.fields = text])
Dismiss == win.dialog.kind \notin {"none", "warning"} /\ Opened(NoDialog)

(* IdentityTab. *)
OnIdentity == tab = "identity" /\ win.shown # 0
FormFree == OnIdentity /\ Idle /\ ~win.page.typed
Type(text) ==
  /\ OnIdentity /\ Idle /\ text # win.page.fields
  /\ win' = [win EXCEPT !.page.fields = text, !.page.typed = TRUE]
  /\ UNCHANGED <<tab, units, defaults>>

(* applyToModel(): all the form has is written, what the user did not touch *)
(* too; its own modelChanged does not reload it.                           *)
Apply(w, page) ==
  LET written == [Current EXCEPT !.fields = page.fields, !.scopes = page.scopes]
  IN  /\ units' = IF w.shown = 0 THEN units
                  ELSE [units EXCEPT ![RowOf(units, w.shown)] = written]
      /\ win' = [w EXCEPT !.page = [page EXCEPT !.typed = FALSE], !.missed = @ /\ w.shown = 0]
      /\ UNCHANGED <<tab, defaults>>

FinishTyping == OnIdentity /\ Idle /\ win.page.typed /\ Apply(win, win.page)
AddUser == FormFree /\ Len(win.page.scopes) < MaxLines
           /\ Apply(win, [win.page EXCEPT !.scopes = Append(@, "made")])
RemoveLine(line) ==
  FormFree /\ Apply(win, [win.page EXCEPT !.scopes = RemoveAt(@, line)])
ApplyPersona(text) ==
  FormFree /\ ChangeUnit(win, win.shown, [Current EXCEPT !.fields = text])

(* The questions for a scope: the camera shown when they are answered gets *)
(* it, and an item of the list may be gone by then.                        *)
AskScope == FormFree /\ Len(win.page.scopes) < MaxLines /\ Opened([kind |-> "add"])
AskEdit(line) == FormFree /\ Opened([kind |-> "edit", line |-> line])
AddScope(text) ==
  /\ win.dialog.kind = "add" /\ Len(win.page.scopes) < MaxLines
  /\ Apply(DialogGone, [win.page EXCEPT !.scopes = Append(@, text)])
EditScope(text) ==
  /\ win.dialog.kind = "edit" /\ win.dialog.line # 0
  /\ Apply(DialogGone, [win.page EXCEPT !.scopes[win.dialog.line] = text])

(* StreamsTab. *)
OnStreamTab == tab = "streams" /\ win.shown # 0 /\ Idle
EditorShows(page) == win' = [win EXCEPT !.page = page] /\ UNCHANGED <<tab, units, defaults>>
PickLine(line) == OnStreamTab /\ EditorShows(Edited(units, win.shown, line))
TypeName(text) ==
  /\ OnStreamTab /\ win.page.line # 0 /\ text # win.page.text
  /\ EditorShows([win.page EXCEPT !.text = text, !.typed = TRUE])
ApplyEditor ==
  /\ OnStreamTab /\ win.page.line \in DOMAIN Current.names
  /\ ChangeUnit(win, win.shown, [Current EXCEPT !.names[win.page.line] = win.page.text])
AddProfile ==
  /\ OnStreamTab /\ Len(Current.names) < MaxLines
  /\ ChangeUnit(win, win.shown, [Current EXCEPT !.names = Append(@, "made")])
RemoveProfile ==
  /\ OnStreamTab /\ win.page.line # 0 /\ win.page.lines > 1
  /\ ChangeUnit(win, win.shown, [Current EXCEPT !.names = RemoveAt(@, win.page.line)])

(* QuirksTab: one row is written into the table as it is now; the row's    *)
(* own quirksChanged does not reload the page.                             *)
OnQuirkTab == tab = "quirks" /\ Idle /\ (win.page.target = "global" \/ win.shown # 0)
SetTarget(table) ==
  IF win.page.target = "global" THEN defaults' = table /\ UNCHANGED units
  ELSE units' = QuirksSet(units, win.shown, table) /\ UNCHANGED defaults
PickTarget(target) ==
  /\ tab = "quirks" /\ Idle /\ target # win.page.target
  /\ win' = [win EXCEPT !.page = ReadQuirks([@ EXCEPT !.target = target], units, defaults, win.shown),
                        !.missed = FALSE]
  /\ UNCHANGED <<tab, units, defaults>>
WriteRow(q) ==
  LET on == q \notin win.page.on
  IN  /\ OnQuirkTab
      /\ SetTarget([TargetQuirks(win.page, units, defaults, win.shown)
                      EXCEPT ![q] = IF on THEN "on" ELSE "off"])
      /\ win' = [win EXCEPT !.page.on = IF on THEN @ \cup {q} ELSE @ \ {q}]
      /\ UNCHANGED tab
ClearAll ==
  /\ OnQuirkTab /\ SetTarget(Untouched)
  /\ win' = [win EXCEPT !.page.on = {}, !.missed = FALSE]
  /\ UNCHANGED tab
(* applyGlobalQuirksToAll(), over what each camera has. *)
ApplyGlobal ==
  /\ OnQuirkTab /\ win.page.target = "global"
  /\ units' = [r \in DOMAIN units |->
                 Requirked(units[r], Overlaid(units[r].quirks, defaults))]
  /\ win' = [win EXCEPT !.page.on = SwitchedOn(defaults), !.missed = FALSE]
  /\ UNCHANGED <<tab, defaults>>

(* The network dialog: setConfig(). *)
Reconfigure ==
  /\ Idle /\ win' = Rebuilt(win, units, defaults)
  /\ UNCHANGED <<tab, units, defaults>>

-----------------------------------------------------------------------------
(* What REST, SOAP and the vendor APIs do at any moment.                   *)

ChangedElsewhere(object) ==
  \/ /\ tab = "identity"
     /\ \E text \in Texts : ChangeUnit(win, object, [UnitOf(units, object) EXCEPT !.fields = text])
  \/ /\ tab = "streams" /\ Len(UnitOf(units, object).names) < MaxLines
     /\ ChangeUnit(win, object, [UnitOf(units, object) EXCEPT !.names = Append(@, "made")])
  \/ /\ tab = "streams" /\ UnitOf(units, object).names # <<>>
     /\ ChangeUnit(win, object, [UnitOf(units, object) EXCEPT !.names = Tail(@)])

(* RemoveScopes and CreateUsers that fail half way: no applyModelChanges(). *)
FailedHalfWay(object) ==
  /\ tab = "identity" /\ UnitOf(units, object).scopes # <<>>
  /\ units' = [units EXCEPT ![RowOf(units, object)].scopes = Tail(@)]
  /\ win' = [win EXCEPT !.missed = @ \/ win.shown = object]
  /\ UNCHANGED <<tab, defaults>>

QuirksElsewhere(object, table) == tab # "identity" /\ SetUnitQuirks(win, object, table)

GlobalsElsewhere(table) ==
  /\ tab = "quirks" /\ defaults' = table /\ win' = Defaulted(win, table)
  /\ UNCHANGED <<tab, units>>

AddedElsewhere == AddUnit(win, NewObject(units, win))
RemovedElsewhere(row) == RemoveUnit(win, row)

(* A pointer to what is no longer there is used: the process ends and is   *)
(* started again, or nothing comes of it.                                  *)
FirstPage ==
  CASE tab = "identity" -> Blank
    [] tab = "streams"  -> [line |-> 0, typed |-> FALSE, text |-> "", lines |-> 0]
    [] tab = "quirks"   -> [target |-> "camera", on |-> {}]
FirstUnits == <<Fresh(Untouched, CameraIds[1], CHOOSE o \in Objects : TRUE)>>
FirstWindow ==
  Rebuilt([rows |-> <<>>, at |-> 0, shown |-> 0, missed |-> FALSE, page |-> FirstPage,
           dialog |-> NoDialog], FirstUnits, Untouched)
Dangling ==
  \/ win.dialog.kind \in {"menu", "warning"} /\ win.dialog.object \notin Alive(units)
  \/ win.dialog.kind = "edit" /\ win.dialog.line = 0
PointerUsed ==
  /\ Dangling
  /\ \/ units' = FirstUnits /\ defaults' = Untouched /\ win' = FirstWindow /\ UNCHANGED tab
     \/ win.dialog.kind # "edit" /\ Opened(NoDialog)
     \/ /\ win.dialog.kind = "warning"
        /\ \E row \in DOMAIN units : win' = Select(DialogGone, units, defaults, row)
        /\ UNCHANGED <<tab, units, defaults>>
     \/ win.dialog.kind = "edit" /\ Apply(DialogGone, win.page)

-----------------------------------------------------------------------------
DesktopInit ==
  /\ tab \in {"identity", "streams", "quirks"}
  /\ units = FirstUnits /\ defaults = Untouched /\ win = FirstWindow
  /\ turns = 0

DesktopStep ==
  \/ AddCamera \/ WarningRead \/ AskRemove \/ ConfirmRemove \/ MenuRemove \/ Dismiss \/ Reconfigure
  \/ \E row \in DOMAIN units : PickRow(row) \/ OpenMenu(row) \/ RemovedElsewhere(row)
  \/ \E text \in Texts :
       MenuRename(text) \/ Type(text) \/ ApplyPersona(text) \/ AddScope(text)
       \/ EditScope(text) \/ TypeName(text)
  \/ FinishTyping \/ AddUser \/ AskScope \/ AddedElsewhere \/ PointerUsed
  \/ tab = "identity" /\ \E line \in DOMAIN win.page.scopes : RemoveLine(line) \/ AskEdit(line)
  \/ tab = "streams" /\ \E line \in 1..win.page.lines : PickLine(line)
  \/ ApplyEditor \/ AddProfile \/ RemoveProfile \/ ClearAll \/ ApplyGlobal
  \/ \E target \in {"camera", "global"} : PickTarget(target)
  \/ \E q \in QuirkLines : WriteRow(q)
  \/ \E object \in Alive(units) :
       \/ ChangedElsewhere(object) \/ FailedHalfWay(object)
       \/ \E table \in SentTables : QuirksElsewhere(object, table)
  \/ \E table \in SentTables : GlobalsElsewhere(table)
  \/ \E ids \in ScenarioFiles : OpenScenario(ids)

DesktopNext ==
  /\ DesktopStep
  /\ turns' = turns + (IF UNCHANGED <<units, defaults>> THEN 0 ELSE 1)
  /\ turns' <= MaxTurns

DesktopSpec == DesktopInit /\ [][DesktopNext]_desktopVars

-----------------------------------------------------------------------------
(* The list has the cameras of the simulator in their order, and the tabs  *)
(* show the one its current row names, never one that is gone.             *)
ListTrue ==
  /\ win.rows = [r \in DOMAIN units |-> units[r].id]
  /\ win.at \in (IF units = <<>> THEN {0} ELSE DOMAIN units)
  /\ win.shown = IF win.at = 0 THEN 0 ELSE units[win.at].object

(* What a tab shows is what the camera has, but for what is being typed    *)
(* and what no signal told it of; the editor is on a profile there is.     *)
IdentityTrue ==
  OnIdentity /\ ~win.missed =>
    /\ win.page.scopes = Current.scopes
    /\ win.page.typed \/ win.page.fields = Current.fields
StreamsTrue ==
  tab = "streams" /\ win.shown # 0 =>
    /\ win.page.lines = Len(Current.names)
    /\ win.page.line \in 0..win.page.lines /\ (win.page.line = 0 => win.page.lines = 0)
    /\ win.page.typed \/ win.missed \/ win.page.line = 0
       \/ win.page.text = Current.names[win.page.line]
SwitchesTrue ==
  tab = "quirks" /\ ~win.missed =>
    win.page.on = SwitchedOn(TargetQuirks(win.page, units, defaults, win.shown))

(* The desktop window never shows a camera that was removed, and what it   *)
(* shows of one is what the simulator has: whoever adds, removes or        *)
(* changes cameras, in the window or over the network, while it is open,   *)
(* with or without a dialog (MainWindow, CameraListWidget, CameraTab).     *)
WindowTrue == ListTrue /\ IdentityTrue /\ StreamsTrue /\ SwitchesTrue
=============================================================================
