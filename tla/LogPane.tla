------------------------------- MODULE LogPane -------------------------------
(***************************************************************************)
(* The log buffer and the Logs page of the GUI: logging.rs,                *)
(* ui/controller/logs.rs and ui/bind/logs.rs.                              *)
(*                                                                         *)
(* Any thread may log: a push changes the ring buffer under its lock and   *)
(* bumps the version counter after releasing it.  The page copies the      *)
(* buffer on the UI thread: it reads the version, the lines and the dropped *)
(* count one after the other, each under a lock of its own, and replaces   *)
(* the rows only when the version differs from the one it shows.  A timer  *)
(* that runs only while the page is visible looks for a new version.       *)
(*                                                                         *)
(* A line is its number.  The Overview page, whose traffic chart shares the *)
(* timer, is there for what switching to it does to the timer.             *)
(***************************************************************************)
EXTENDS Naturals, Sequences

CONSTANTS
    Loggers,    \* threads that log
    MaxLines,   \* MAX_LINES
    MaxPushes,  \* bound on lines logged
    MaxClicks,  \* bound on navigation, hiding, showing, clearing, follow
    NoVersion   \* SHOWN_VERSION is None

ASSUME LogAssumption == MaxLines \in Nat \ {0} /\ NoVersion \notin Nat

Pages == {"logs", "overview", "other"}

VARIABLES
    lines, dropped,     \* Buffer
    logVersion,         \* LogBuffer.version
    bumping,            \* loggers between the unlock and the version bump
    pushes,             \* lines logged so far
    page, visible,      \* the shown page; whether the window is visible
    timer,              \* the page the refresh timer runs for, or "off"
    seenLogs,           \* LogsState.seen_logs
    uiPc, snap,         \* the UI thread's place in a snapshot or a clear, and the copy
    shownVersion,       \* SHOWN_VERSION
    rows, shownDropped, \* LogStore
    clicks

bufferVars == <<lines, dropped, logVersion, bumping, pushes>>
pageVars == <<page, visible, timer>>
storeVars == <<shownVersion, rows, shownDropped>>
logVars == <<bufferVars, pageVars, seenLogs, uiPc, snap, storeVars, clicks>>

-----------------------------------------------------------------------------
(* LogBuffer, on any thread.                                               *)

Append1(l) == IF Len(lines) = MaxLines THEN Append(Tail(lines), l) ELSE Append(lines, l)

\* push, up to the end of the lock's scope.
Push(t) ==
    /\ t \notin bumping
    /\ pushes < MaxPushes
    /\ pushes' = pushes + 1
    /\ lines' = Append1(pushes')
    /\ dropped' = IF Len(lines) = MaxLines THEN dropped + 1 ELSE dropped
    /\ bumping' = bumping \cup {t}
    /\ UNCHANGED <<logVersion, pageVars, seenLogs, uiPc, snap, storeVars, clicks>>

\* push, its last line.
Bump(t) ==
    /\ t \in bumping
    /\ bumping' = bumping \ {t}
    /\ logVersion' = logVersion + 1
    /\ UNCHANGED <<lines, dropped, pushes, pageVars, seenLogs, uiPc, snap, storeVars, clicks>>

-----------------------------------------------------------------------------
(* A snapshot on the UI thread: apply(LOGS) runs Controller::logs and       *)
(* sync_logs.                                                              *)

ReadVersion ==
    /\ uiPc = "version"
    /\ snap' = [snap EXCEPT !.version = logVersion]
    /\ uiPc' = "lines"
    /\ UNCHANGED <<bufferVars, pageVars, seenLogs, storeVars, clicks>>

ReadLines ==
    /\ uiPc = "lines"
    /\ snap' = [snap EXCEPT !.lines = lines]
    /\ uiPc' = "dropped"
    /\ UNCHANGED <<bufferVars, pageVars, seenLogs, storeVars, clicks>>

\* Mutant: the version is read last, with the count.
SyncLogs_LateVersion ==
    /\ uiPc = "dropped"
    /\ shownDropped' = dropped
    /\ IF shownVersion = logVersion THEN UNCHANGED <<shownVersion, rows>>
       ELSE shownVersion' = logVersion /\ rows' = snap.lines
    /\ uiPc' = "idle"
    /\ UNCHANGED <<bufferVars, pageVars, seenLogs, snap, clicks>>

\* The count is read last; the rest of the step touches no shared state.
SyncLogs ==
    /\ uiPc = "dropped"
    /\ shownDropped' = dropped
    /\ IF shownVersion = snap.version THEN UNCHANGED <<shownVersion, rows>>
       ELSE shownVersion' = snap.version /\ rows' = snap.lines
    /\ uiPc' = "idle"
    /\ UNCHANGED <<bufferVars, pageVars, seenLogs, snap, clicks>>

-----------------------------------------------------------------------------
(* The timer and the user.                                                 *)

\* refreshed_page.
Refreshed(p, v) == IF v /\ p \in {"logs", "overview"} THEN p ELSE "off"

\* A tick of the refresh timer: refresh_logs when Logs is shown.
Tick ==
    /\ uiPc = "idle"
    /\ timer # "off"
    /\ IF Refreshed(page, visible) # timer THEN timer' = "off" /\ UNCHANGED <<seenLogs, uiPc>>
       ELSE /\ timer = "logs"
            /\ seenLogs' = logVersion
            /\ uiPc' = IF seenLogs = logVersion THEN "idle" ELSE "version"
            /\ UNCHANGED timer
    /\ UNCHANGED <<bufferVars, page, visible, snap, storeVars, clicks>>

\* update_refresh with page p in a window that is visible or not; reload_logs.
UpdateRefresh(p, v) ==
    LET next == Refreshed(p, v) IN
    /\ timer' = next
    /\ IF next = "logs" /\ timer # "logs"
       THEN shownVersion' = NoVersion /\ seenLogs' = logVersion /\ uiPc' = "version"
       ELSE UNCHANGED <<shownVersion, seenLogs, uiPc>>

Click ==
    /\ uiPc = "idle"
    /\ clicks < MaxClicks
    /\ clicks' = clicks + 1
    /\ UNCHANGED <<snap, rows, shownDropped>>

Navigate(p) ==
    /\ Click
    /\ page' = p
    /\ UpdateRefresh(p, visible)
    /\ UNCHANGED <<bufferVars, visible>>

\* show_window: a page of the tray menu is navigated to before the window is visible.
ShowPage(p) ==
    /\ Click
    /\ ~visible
    /\ page' = p
    /\ visible' = TRUE
    /\ UpdateRefresh(p, TRUE)
    /\ UNCHANGED bufferVars

\* hide_window, with logs::stop.
HideWindow ==
    /\ Click
    /\ visible
    /\ visible' = FALSE
    /\ timer' = "off"
    /\ UNCHANGED <<bufferVars, page, seenLogs, uiPc, shownVersion>>

\* set_log_follow.
SetFollow ==
    /\ Click
    /\ page = "logs" /\ visible
    /\ uiPc' = "version"
    /\ UNCHANGED <<bufferVars, pageVars, seenLogs, shownVersion>>

\* clear_logs: LogBuffer::clear under the lock, ...
ClearLogs ==
    /\ Click
    /\ page = "logs" /\ visible
    /\ lines' = << >>
    /\ dropped' = 0
    /\ uiPc' = "bump"
    /\ UNCHANGED <<logVersion, bumping, pushes, pageVars, seenLogs, shownVersion>>

\* ... its version bump, ...
ClearBump ==
    /\ uiPc = "bump"
    /\ logVersion' = logVersion + 1
    /\ uiPc' = "seen"
    /\ UNCHANGED <<lines, dropped, bumping, pushes, pageVars, seenLogs, snap, storeVars, clicks>>

\* ... and the version the controller takes as seen.
ClearSeen ==
    /\ uiPc = "seen"
    /\ seenLogs' = logVersion
    /\ uiPc' = "version"
    /\ UNCHANGED <<bufferVars, pageVars, snap, storeVars, clicks>>

-----------------------------------------------------------------------------
LogInit ==
    /\ lines = << >> /\ dropped = 0 /\ logVersion = 0 /\ bumping = {} /\ pushes = 0
    /\ page = "overview" /\ visible = FALSE /\ timer = "off"
    /\ seenLogs = 0
    /\ uiPc = "idle" /\ snap = [version |-> 0, lines |-> << >>]
    /\ shownVersion = NoVersion /\ rows = << >> /\ shownDropped = 0
    /\ clicks = 0

UiStep == ReadVersion \/ ReadLines \/ SyncLogs \/ ClearBump \/ ClearSeen

LogNext ==
    \/ \E t \in Loggers : Push(t) \/ Bump(t)
    \/ UiStep
    \/ Tick
    \/ \E p \in Pages : Navigate(p) \/ ShowPage(p)
    \/ HideWindow
    \/ SetFollow
    \/ ClearLogs

\* Loggers and the UI thread run, and a running timer keeps firing.
LogFairness ==
    /\ \A t \in Loggers : WF_logVars(Bump(t))
    /\ WF_logVars(UiStep)
    /\ WF_logVars(Tick)

LogSpec == LogInit /\ [][LogNext]_logVars /\ LogFairness

LogTypeOK ==
    /\ Len(lines) <= MaxLines /\ dropped \in Nat /\ logVersion \in Nat
    /\ bumping \subseteq Loggers
    /\ page \in Pages /\ visible \in BOOLEAN /\ timer \in {"logs", "overview", "off"}
    /\ seenLogs \in 0..logVersion
    /\ uiPc \in {"idle", "version", "lines", "dropped", "bump", "seen"}
    /\ shownVersion \in Nat \cup {NoVersion}

\* The page keeps its rows when the version has not changed (sync_logs), so rows under the
\* current version are the current lines: whatever threads push between the reads of a
\* snapshot, no stale copy is taken for the current one, except while a version bump is due.
RowsMatchVersion ==
    shownVersion = logVersion /\ bumping = {} /\ uiPc # "bump" => rows = lines

\* When the user stays on the Logs page and nothing more is logged, the page ends up
\* showing the buffer: no line is left out because its version bump came between two reads
\* of a snapshot, and no way of leaving the page and coming back leaves the timer stopped.
LogsCatchUp ==
    <>[](page = "logs" /\ visible) => <>[](rows = lines /\ shownDropped = dropped)
=============================================================================
