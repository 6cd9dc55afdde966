------------------------------- MODULE LogPanel -------------------------------
(***************************************************************************)
(* The log bus (src/src/core/LogBus.cpp) and the log panel of the window   *)
(* (src/src/gui/LogPanel.cpp): records are posted from wherever the        *)
(* cameras work, the panel collects them and shows them in batches, through *)
(* filters and under limits that the user changes meanwhile.               *)
(*                                                                         *)
(* A record is its number among those posted, its camera and its level.    *)
(* Category and search word filter like the level does.                    *)
(***************************************************************************)
EXTENDS Integers, Sequences, SequencesExt, Selection

CONSTANTS
  LogCameras,    \* cameras that post
  LogLevels,     \* levels that count, as numbers; 0 is Debug
  HistoryLimit,  \* Private::historyLimit
  PendingCap,    \* kPendingCap
  Limits,        \* values the display limit may be given
  MaxPosted      \* bound: records posted in a behaviour

ASSUME LogPanelAssumption ==
  /\ LogLevels \subseteq Nat /\ HistoryLimit \in Nat \ {0}
  /\ PendingCap \in Nat \ {0} /\ Limits \subseteq Nat \ {0}
  /\ MaxPosted \in Nat \ {0}

Everyone == "all"    \* the camera filter that passes all

VARIABLES
  posted,    \* records that passed the bus's minimum level so far
  minimum,   \* Private::minimumLevel
  history,   \* Private::history
  records,   \* m_records
  buffer,    \* m_pending
  lost,      \* m_droppedRecords
  view,      \* rows of the tree
  limit,     \* m_limit
  paused,    \* m_pause
  picked,    \* camera and level the filters are on
  present,   \* cameras in the combo box
  stale      \* history: the camera filter has changed and nobody rebuilt the view

logVars == <<posted, minimum, history, records, buffer, lost, view, limit, paused,
             picked, present, stale>>
panel == <<records, lost, view, limit, paused, picked, present, stale>>

Records == [number : 1 .. MaxPosted, camera : LogCameras, level : LogLevels]
Newest(s, n) == IF Len(s) > n THEN SubSeq(s, Len(s) - n + 1, Len(s)) ELSE s
Passes(r, f) == f.camera \in {Everyone, r.camera} /\ r.level >= f.level
Filtered(s, f) == Sifted(s, {r \in Records : Passes(r, f)})

\* rebuildView()
Rebuild(rs, f, n) == view' = Newest(Filtered(rs, f), n) /\ stale' = FALSE

-----------------------------------------------------------------------------
\* post() and, in the same call, onRecordPosted(): a full buffer loses a quarter
\* of itself at once, and says how many.
Dropped == IF PendingCap \div 4 = 0 THEN 1 ELSE PendingCap \div 4
\* Mutant: records that are dropped are not counted.
PostRecord_Uncounted(c, l) ==
  LET r == [number |-> posted + 1, camera |-> c, level |-> l]
      full == Len(buffer) >= PendingCap
  IN
  /\ posted < MaxPosted /\ l >= minimum
  /\ posted' = posted + 1
  /\ history' = Newest(Append(history, r), HistoryLimit)
  /\ buffer' = Append(IF full THEN SubSeq(buffer, Dropped + 1, Len(buffer)) ELSE buffer, r)
  /\ lost' = lost
  /\ UNCHANGED <<minimum, records, view, limit, paused, picked, present, stale>>
PostRecord(c, l) ==
  LET r == [number |-> posted + 1, camera |-> c, level |-> l]
      full == Len(buffer) >= PendingCap
  IN
  /\ posted < MaxPosted /\ l >= minimum
  /\ posted' = posted + 1
  /\ history' = Newest(Append(history, r), HistoryLimit)
  /\ buffer' = Append(IF full THEN SubSeq(buffer, Dropped + 1, Len(buffer)) ELSE buffer, r)
  /\ lost' = IF full THEN lost + Dropped ELSE lost
  /\ UNCHANGED <<minimum, records, view, limit, paused, picked, present, stale>>

\* setStdoutVerbose() lets everything through, setMinimumLevel() takes it back.
SetMinimumLevel(l) ==
  /\ minimum' = l /\ l # minimum
  /\ UNCHANGED <<posted, history, buffer, panel>>

\* flushPending(): records and rows are trimmed each for itself, so that a row may
\* outlive its record.
FlushPending ==
  LET batch == Newest(buffer, limit) IN
  /\ buffer # <<>> /\ ~paused
  /\ buffer' = <<>>
  /\ records' = Newest(records \o batch, limit)
  /\ view' = IF Filtered(batch, picked) = <<>> THEN view
             ELSE Newest(view \o Filtered(batch, picked), limit)
  /\ UNCHANGED <<posted, minimum, history, lost, limit, paused, picked, present, stale>>

Pause ==
  /\ paused' = ~paused
  /\ UNCHANGED <<posted, minimum, history, records, buffer, lost, view, limit, picked, present, stale>>

SetDisplayLimit(n) ==
  /\ n # limit /\ limit' = n
  /\ records' = Newest(records, n)
  /\ Rebuild(records', picked, n)
  /\ UNCHANGED <<posted, minimum, history, buffer, lost, paused, picked, present>>

Pick(f) ==
  /\ f # picked /\ f.camera \in present \cup {Everyone}
  /\ picked' = f
  /\ Rebuild(records, f, limit)
  /\ UNCHANGED <<posted, minimum, history, records, buffer, lost, limit, paused, present>>

ClearLog ==
  /\ history' = <<>> /\ records' = <<>> /\ buffer' = <<>> /\ view' = <<>>
  /\ lost' = 0 /\ stale' = FALSE
  /\ UNCHANGED <<posted, minimum, limit, paused, picked, present>>

\* reloadCameraFilter(), with its signals blocked: the filter falls back to all
\* cameras when its own is gone, and the rows stay as they are.
ReloadCameraFilter(cs) ==
  /\ cs # present /\ present' = cs
  /\ LET gone == picked.camera \notin cs \cup {Everyone} IN
     /\ picked' = IF gone THEN [picked EXCEPT !.camera = Everyone] ELSE picked
     /\ stale' = (stale \/ gone)
  /\ UNCHANGED <<posted, minimum, history, records, buffer, lost, view, limit, paused>>

\* The window may open late: the panel takes over the history there is.
Earlier == {<<>>} \cup {<<[number |-> 1, camera |-> c, level |-> l]>> : c \in LogCameras, l \in LogLevels}

LogInit ==
  /\ history \in Earlier /\ posted = Len(history)
  /\ minimum = 0 /\ limit \in Limits
  /\ present = LogCameras /\ picked = [camera |-> Everyone, level |-> 1]
  /\ records = Newest(history, limit)
  /\ view = Newest(Filtered(records, picked), limit)
  /\ buffer = <<>> /\ lost = 0 /\ paused = FALSE /\ stale = FALSE

LogNext ==
  \/ \E c \in LogCameras, l \in LogLevels : PostRecord(c, l)
  \/ \E l \in LogLevels : SetMinimumLevel(l)
  \/ FlushPending \/ Pause \/ ClearLog
  \/ \E n \in Limits : SetDisplayLimit(n)
  \/ \E f \in [camera : LogCameras \cup {Everyone}, level : LogLevels] : Pick(f)
  \/ \E cs \in SUBSET LogCameras : ReloadCameraFilter(cs)

LogSpec == LogInit /\ [][LogNext]_logVars

-----------------------------------------------------------------------------
\* exportLog() writes what is kept and passes the filters.
Exported == Filtered(records, picked)

\* What is exported is what the rows end with, whatever was posted, filtered,
\* trimmed or cleared in between; excepted a filter that fell back because its
\* camera was removed (reloadCameraFilter), until the view is built again.
RowsEndWithRecords == stale \/ IsSuffix(Exported, view)

\* Numbers only grow along the records and what waits behind them.
Ascending(s) == \A i \in 1 .. Len(s) - 1 : s[i].number < s[i + 1].number
Kept == records \o buffer
KeptInOrder == Ascending(Kept) /\ Ascending(view) /\ Ascending(history)

\* A record newer than the oldest that is kept is missing only if it was counted
\* as dropped (the status line says how many), pauses and clearing included.
GapsCounted ==
  Kept # <<>> => posted - Kept[1].number + 1 - Len(Kept) <= lost

\* The history is the newest that was posted since it was cleared, without gaps.
HistoryWhole ==
  history # <<>> => /\ history[Len(history)].number = posted
                    /\ history[1].number = posted - Len(history) + 1

\* Bus and panel agree on what there is, what is shown and what was lost.
LogTrue ==
  /\ Len(records) <= limit /\ Len(view) <= limit
  /\ Len(buffer) <= PendingCap /\ Len(history) <= HistoryLimit
  /\ RowsEndWithRecords /\ KeptInOrder /\ GapsCounted /\ HistoryWhole
=============================================================================
