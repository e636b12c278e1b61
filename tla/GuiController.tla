--------------------------- MODULE GuiController ---------------------------
(***************************************************************************)
(* The node list of the GUI: ui/controller/{nodes,save,persist,tray,mod}.rs *)
(* with the parts of state.rs, config.rs and ui/bind that load, write and  *)
(* watch the configuration files.                                          *)
(*                                                                         *)
(* Three copies of the node list exist.  `work` is what the user edits,    *)
(* `saved` is what the program believes to be on disk, `disk` is what is   *)
(* there.  Handlers run one at a time on the UI thread; between them other *)
(* programs edit the files, the core may die, and the process may be       *)
(* killed, also between the two writes of Save.  write_atomic makes one    *)
(* write atomic.                                                           *)
(*                                                                         *)
(* A profile is its identity; Blank is ProxyProfile::default(), which      *)
(* lacks mandatory fields.  Indices start at 1.  Of runtime.json the active *)
(* index, was_running and startup_connection are kept; app.json goes       *)
(* through the same Persist and is the subject of GuiProxy.  The banner    *)
(* and the redraw flags of Changes are left out, but for `persist`: a due  *)
(* write always has its timer armed.                                       *)
(***************************************************************************)
EXTENDS Naturals, Sequences, SequencesExt, FiniteSetsExt

CONSTANTS
    Complete,       \* profiles with all mandatory fields
    Blank,          \* the default profile
    None,           \* Option::None; also a file that does not exist
    Garbage,        \* file content that does not parse
    MaxNodes,       \* bound on the length of a node list
    MaxEdits,       \* bound on edits, toggles, settings and close requests
    MaxExternal,    \* bound on edits by other programs
    MaxFaults       \* bound on kills, failing writes and core failures

ASSUME GuiAssumption == (\E p, q \in Complete : p # q) /\ None \notin Complete

\* Room for the two nodes a file may bring and one more.
ASSUME RoomAssumption == MaxNodes \in Nat /\ MaxNodes >= 3

Profiles == Complete \cup {Blank}
Lists == UNION {[1..n -> Profiles] : n \in 1..MaxNodes}
Files == {"profiles", "runtime"}
Startup == {"off", "on", "last"}

VARIABLES
    up,         \* whether the process runs
    work,       \* gui.profiles and gui.runtime.selected_profile
    saved,      \* Saved: profiles and active
    editor,     \* nodes.selected, and whether the draft holds unapplied text
    connected,  \* whether the core runs
    runtime,    \* the rest of gui.runtime
    disk,       \* content of the two files
    dirty,      \* Persist::dirty
    due,        \* whether Persist::due is set and SAVE_TIMER armed
    known,      \* Persist::known, by content
    leave,      \* the request the unsaved-changes prompt asks about
    left,       \* how the last close request ended: "no", "hidden", "quit"
    watch,      \* the watcher: an undelivered event, RELOAD_PENDING, a running check
    edits, externals, faults    \* counters for the bounds

persistVars == <<dirty, due, known>>
coreVars == <<connected, runtime>>
guiVars == <<up, work, saved, editor, coreVars, disk, persistVars, leave, left, watch,
             edits, externals, faults>>

-----------------------------------------------------------------------------
(* Reading the state.                                                      *)

\* Saved::clamp_active and normalize_selected_index: an index into `list`.
Clamp(i, list) == Min({i, Len(list)})

\* An empty list gets one default profile.
NonEmpty(list) == IF list = <<>> THEN <<Blank>> ELSE list

ListDirty == work # saved

NodesDirty == ListDirty \/ editor.invalid

\* GuiState::selected_profile.
Selected(w) == IF w.active \in DOMAIN w.list THEN w.list[w.active] ELSE None

\* missing_fields is empty.
Startable(p) == p \in Complete

\* ConfigFile::bytes; the index in runtime.json is always the saved one.
Bytes(f, s) ==
    IF f = "profiles" THEN s.list
    ELSE [active |-> s.active, wasRunning |-> runtime.wasRunning, startup |-> runtime.startup]

\* Mutant: the selection is not brought back into a list that has become shorter.
Load_NoClamp(i, list) == [selected |-> i, invalid |-> FALSE]

\* load_selected: a fresh draft of the node at index i.
Load(i, list) == [selected |-> Clamp(i, list), invalid |-> FALSE]

-----------------------------------------------------------------------------
(* Steps shared by the handlers.                                           *)

\* mark_dirty.
Mark(f) ==
    /\ dirty' = dirty \cup {f}
    /\ due' = TRUE
    /\ UNCHANGED known

SetRunning(b) ==
    /\ connected' = b
    /\ runtime' = [runtime EXCEPT !.wasRunning = b]
    /\ Mark("runtime")

\* start_active on the working list w.  A node that cannot be started leaves a running
\* core alone; a failed restart leaves none running.
StartActive(w) ==
    \/ Startable(Selected(w)) /\ SetRunning(TRUE) /\ UNCHANGED faults
    \/ /\ Startable(Selected(w)) /\ faults < MaxFaults
       /\ faults' = faults + 1
       /\ IF connected THEN SetRunning(FALSE) ELSE UNCHANGED <<coreVars, persistVars>>
    \/ ~Startable(Selected(w)) /\ UNCHANGED <<coreVars, persistVars, faults>>

\* A handler the user calls; the UI thread is not inside a check.
UserStep == up /\ ~watch.checking /\ UNCHANGED <<up, watch, externals>>

\* One that changes something new, within the bound.
EditStep ==
    /\ UserStep
    /\ edits < MaxEdits
    /\ edits' = edits + 1

-----------------------------------------------------------------------------
(* Node list and editor: nodes.rs and tray.rs.                             *)

SelectNode(i) ==
    /\ i # editor.selected
    /\ editor' = Load(i, work.list)
    /\ UNCHANGED work

\* add_node with Blank; import_text with a link to p.
AddNode(p) ==
    /\ Len(work.list) < MaxNodes
    /\ work' = [work EXCEPT !.list = Append(@, p)]
    /\ editor' = Load(Len(work.list) + 1, work'.list)

\* Mutant: the nodes change places, the active index stays.
Move_KeepsIndex(i, j) ==
    LET swap(k) == CASE k = i -> j [] k = j -> i [] OTHER -> k IN
    /\ j \in DOMAIN work.list
    /\ work' = [work EXCEPT !.list = [k \in DOMAIN work.list |-> work.list[swap(k)]]]
    /\ editor' = [editor EXCEPT !.selected = swap(@)]

Move(i, j) ==
    LET swap(k) == CASE k = i -> j [] k = j -> i [] OTHER -> k IN
    /\ j \in DOMAIN work.list
    /\ work' = [list |-> [k \in DOMAIN work.list |-> work.list[swap(k)]],
                active |-> swap(work.active)]
    /\ editor' = [editor EXCEPT !.selected = swap(@)]

Duplicate(i) ==
    /\ Len(work.list) < MaxNodes
    /\ work' = [list |-> InsertAt(work.list, i + 1, work.list[i]),
                active |-> IF work.active > i THEN work.active + 1 ELSE work.active]
    /\ editor' = Load(i + 1, work'.list)

\* Where index k goes when the node at i is removed.
Remap(k, i) == IF k > i THEN k - 1 ELSE Min({k, Len(work.list) - 1})

Delete(i) ==
    /\ Len(work.list) > 1
    /\ work' = [list |-> RemoveAt(work.list, i), active |-> Remap(work.active, i)]
    /\ editor' = IF editor.selected = i
                 THEN Load(Remap(i, i), work'.list)
                 ELSE [editor EXCEPT !.selected = Remap(@, i)]

\* Deleting the node the core runs restarts it with the replacement, or stops it when
\* the replacement is incomplete.
CoreAfterDelete ==
    IF Startable(Selected(work')) THEN StartActive(work')
    ELSE SetRunning(FALSE) /\ UNCHANGED faults

\* edit_node: the valid fields make the selected profile p; invalid text stays in the
\* draft and never reaches the list.
EditNode(p, invalid) ==
    /\ work' = [work EXCEPT !.list[editor.selected] = p]
    /\ editor' = [editor EXCEPT !.invalid = invalid]

\* The list commands that leave the core alone.
ListCommand ==
    \/ \E i \in DOMAIN work.list :
          \/ Duplicate(i)
          \/ Move(i, i + 1)
          \/ Delete(i) /\ ~(i = work.active /\ connected)
    \/ \E p \in Profiles : AddNode(p)

NodeHandler ==
    /\ EditStep
    /\ \/ /\ \/ ListCommand
             \/ \E i \in DOMAIN work.list : SelectNode(i)
             \/ \E p \in Complete, b \in BOOLEAN : EditNode(p, b)
          /\ UNCHANGED <<coreVars, persistVars, faults>>
       \/ connected /\ Delete(work.active) /\ CoreAfterDelete
    /\ UNCHANGED <<saved, disk, leave, left>>

\* set_active_node, and activate_node of the tray; a running core is restarted.
SetActiveNode(i) ==
    /\ EditStep
    /\ Startable(work.list[i])
    /\ work' = [work EXCEPT !.active = i]
    /\ IF connected THEN StartActive(work') ELSE UNCHANGED <<coreVars, persistVars, faults>>
    /\ UNCHANGED <<saved, editor, disk, leave, left>>

\* toggle_connection, of the overview page and the tray.
ToggleConnection ==
    /\ EditStep
    /\ IF connected THEN SetRunning(FALSE) /\ UNCHANGED faults ELSE StartActive(work)
    /\ UNCHANGED <<work, saved, editor, disk, leave, left>>

\* A setting kept in runtime.json.
SetStartupConnection(s) ==
    /\ EditStep
    /\ runtime.startup # s
    /\ runtime' = [runtime EXCEPT !.startup = s]
    /\ Mark("runtime")
    /\ UNCHANGED <<work, saved, editor, connected, disk, leave, left, faults>>

-----------------------------------------------------------------------------
(* Save, Revert and the unsaved-changes prompt: save.rs.                   *)

\* save_refusal: invalid text in the editor, or an incomplete node.
SaveRefused == editor.invalid \/ \E i \in DOMAIN work.list : ~Startable(work.list[i])

\* Persist::write of the files fs; s is what the node list is saved as.
Write(fs, s) ==
    /\ saved' = s
    /\ disk' = [f \in Files |-> IF f \in fs THEN Bytes(f, s) ELSE disk[f]]
    /\ known' = [f \in Files |-> IF f \in fs THEN Bytes(f, s) ELSE known[f]]
    /\ dirty' = dirty \ fs

\* The steps of write_nodes: `saved` and the files written so far, after the list and
\* after the index.
AfterList ==
    IF work.list # saved.list
    THEN [saved |-> [list |-> work.list, active |-> Clamp(saved.active, work.list)],
          files |-> {"profiles"}]
    ELSE [saved |-> saved, files |-> {}]

NextSaved == [list |-> work.list, active |-> Clamp(work.active, work.list)]

AfterIndex ==
    IF NextSaved.active # AfterList.saved.active
    THEN [saved |-> NextSaved, files |-> AfterList.files \cup {"runtime"}]
    ELSE AfterList

\* write_nodes past its checks: both writes, or the first ones until one fails.
Writes(step) == Write(step.files, step.saved) /\ UNCHANGED due

\* Mutant: only the list is written; the index is left to the next flush.
WritesOk_ListOnly == Writes(AfterList) /\ UNCHANGED faults

WritesOk == Writes(AfterIndex) /\ UNCHANGED faults

WritesFail ==
    /\ faults < MaxFaults
    /\ faults' = faults + 1
    /\ \/ AfterList.files # {} /\ Writes([saved |-> saved, files |-> {}])
       \/ AfterIndex # AfterList /\ Writes(AfterList)

\* Own writes raise watcher events too.
OwnEvent == watch' = [watch EXCEPT !.event = @ \/ disk' # disk]

\* A handler that may write; `l` and `e` are what becomes of the prompt and the window.
SaveStep(l, e) ==
    /\ up /\ ~watch.checking
    /\ NodesDirty
    /\ \/ ~SaveRefused /\ WritesOk /\ leave' = l /\ left' = e
       \/ ~SaveRefused /\ WritesFail /\ leave' = None /\ UNCHANGED left
       \/ SaveRefused /\ leave' = None /\ UNCHANGED <<saved, disk, persistVars, left, faults>>
    /\ OwnEvent
    /\ UNCHANGED <<up, work, editor, coreVars, edits, externals>>

SaveNodes == SaveStep(leave, left)

\* The body of revert_nodes.
Reverted ==
    LET active == Clamp(saved.active, saved.list) IN
    IF NodesDirty
    THEN work' = [list |-> saved.list, active |-> active] /\ editor' = Load(active, saved.list)
    ELSE UNCHANGED <<work, editor>>

RevertNodes ==
    /\ UserStep
    /\ NodesDirty
    /\ Reverted
    /\ UNCHANGED <<saved, coreVars, disk, persistVars, leave, left, edits, faults>>

\* request_leave: at once, or through the prompt; a request made while the prompt is
\* open is ignored.
RequestLeave(l) ==
    /\ EditStep
    /\ leave = None
    /\ IF NodesDirty THEN leave' = l /\ UNCHANGED left ELSE left' = l /\ UNCHANGED leave
    /\ UNCHANGED <<work, saved, editor, coreVars, disk, persistVars, faults>>

\* answer_prompt.  The list may have become clean while the prompt was open.
AnswerSave ==
    /\ leave # None
    /\ \/ SaveStep(None, leave)
       \/ /\ UserStep /\ ~NodesDirty
          /\ left' = leave /\ leave' = None
          /\ UNCHANGED <<work, saved, editor, coreVars, disk, persistVars, edits, faults>>

AnswerDiscard ==
    /\ UserStep
    /\ leave # None
    /\ Reverted
    /\ left' = leave /\ leave' = None
    /\ UNCHANGED <<saved, coreVars, disk, persistVars, edits, faults>>

AnswerCancel ==
    /\ UserStep
    /\ leave # None
    /\ leave' = None
    /\ UNCHANGED <<work, saved, editor, coreVars, disk, persistVars, left, edits, faults>>

\* show_window, from the tray.
ShowWindow ==
    /\ UserStep
    /\ left = "hidden"
    /\ left' = "no"
    /\ UNCHANGED <<work, saved, editor, coreVars, disk, persistVars, leave, edits, faults>>

-----------------------------------------------------------------------------
(* The save timer, the core and the end of the process.                    *)

\* Mutant: a failed file stays dirty, but no retry is scheduled.
Flush_NoRetry(bad) ==
    /\ Write(dirty \ bad, saved)
    /\ due' = FALSE

\* Persist::flush, in which the writes of `bad` fail; a retry is then due.
Flush(bad) ==
    /\ Write(dirty \ bad, saved)
    /\ due' = (bad # {})

\* flush_due, when the debounce has elapsed.
FlushDue ==
    /\ up /\ ~watch.checking /\ due
    /\ \/ Flush({}) /\ UNCHANGED faults
       \/ /\ dirty # {} /\ faults < MaxFaults
          /\ faults' = faults + 1
          /\ Flush(dirty)
    /\ OwnEvent
    /\ UNCHANGED <<up, work, editor, coreVars, leave, left, edits, externals>>

\* poll_core finds the core dead; was_running stays as it is.
CoreExits ==
    /\ up /\ connected /\ faults < MaxFaults
    /\ faults' = faults + 1
    /\ connected' = FALSE
    /\ UNCHANGED <<up, work, saved, editor, runtime, disk, persistVars, leave, left, watch,
                   edits, externals>>

\* shutdown, once the event loop has been told to quit: stop the core and flush.  A flush
\* that fails is not tried again.
Shutdown ==
    /\ up /\ ~watch.checking /\ left = "quit"
    /\ up' = FALSE
    /\ connected' = FALSE
    /\ \/ Flush({}) /\ UNCHANGED faults
       \/ /\ dirty # {} /\ faults < MaxFaults
          /\ faults' = faults + 1
          /\ Flush(dirty)
    /\ watch' = [event |-> FALSE, pending |-> FALSE, checking |-> FALSE]
    /\ UNCHANGED <<work, editor, runtime, leave, left, edits, externals>>

\* The process is killed between two handlers, or between the two writes of Save.
Crash ==
    /\ up /\ faults < MaxFaults
    /\ faults' = faults + 1
    /\ up' = FALSE
    /\ connected' = FALSE
    /\ \/ UNCHANGED <<saved, disk, dirty, known>>
       \/ ~watch.checking /\ NodesDirty /\ ~SaveRefused /\ Write(AfterList.files, AfterList.saved)
    /\ watch' = [event |-> FALSE, pending |-> FALSE, checking |-> FALSE]
    /\ UNCHANGED <<work, editor, runtime, due, leave, left, edits, externals>>

\* Controller::new with load_tracked, startup_connection, whose start may fail;
\* watch_config_dir then runs the first check.  A file that does not parse is moved aside.
DefaultRuntime == [active |-> 1, wasRunning |-> FALSE, startup |-> "off"]

Loaded(f, default) == IF disk[f] \in {None, Garbage} THEN default ELSE disk[f]

Start ==
    LET list == NonEmpty(Loaded("profiles", <<>>))
        r == Loaded("runtime", DefaultRuntime)
        w == [list |-> list, active |-> IF Loaded("profiles", <<>>) = <<>> THEN 1 ELSE r.active]
        read == [f \in Files |-> IF disk[f] = Garbage THEN None ELSE disk[f]]
        wanted == /\ r.startup = "on" \/ (r.startup = "last" /\ r.wasRunning)
                  /\ Startable(Selected(w)) IN
    /\ ~up
    /\ up' = TRUE
    /\ work' = w
    /\ saved' = [w EXCEPT !.active = Clamp(@, list)]
    /\ editor' = Load(w.active, list)
    /\ disk' = read /\ known' = read
    /\ \/ wanted /\ connected' = TRUE /\ UNCHANGED faults
       \/ wanted /\ connected' = FALSE /\ faults < MaxFaults /\ faults' = faults + 1
       \/ ~wanted /\ connected' = FALSE /\ UNCHANGED faults
    /\ runtime' = [wasRunning |-> connected' \/ r.wasRunning, startup |-> r.startup]
    /\ dirty' = (IF connected' THEN {"runtime"} ELSE {}) /\ due' = connected'
    /\ leave' = None /\ left' = "no"
    /\ watch' = [event |-> FALSE, pending |-> FALSE, checking |-> TRUE]
    /\ UNCHANGED <<edits, externals>>

-----------------------------------------------------------------------------
(* Files edited by other programs, and the watcher: bind/mod.rs.           *)

ExternalEdit(f, c) ==
    /\ externals < MaxExternal
    /\ externals' = externals + 1
    /\ disk[f] # c
    /\ disk' = [disk EXCEPT ![f] = c]
    /\ watch' = [watch EXCEPT !.event = up]
    /\ UNCHANGED <<up, work, saved, editor, coreVars, persistVars, leave, left, edits, faults>>

\* The watcher thread: RELOAD_PENDING.swap(true), and a check is posted if it was not set.
WatcherEvent ==
    /\ watch.event
    /\ watch' = [watch EXCEPT !.event = FALSE, !.pending = TRUE]
    /\ UNCHANGED <<up, work, saved, editor, coreVars, disk, persistVars, leave, left,
                   edits, externals, faults>>

\* Mutant: the posted check clears its flag and does nothing else.
CheckStarts_DropsEvent ==
    /\ up /\ watch.pending /\ ~watch.checking
    /\ watch' = [watch EXCEPT !.pending = FALSE]
    /\ UNCHANGED <<up, work, saved, editor, coreVars, disk, persistVars, leave, left,
                   edits, externals, faults>>

\* The posted check starts on the UI thread and clears RELOAD_PENDING first.
CheckStarts ==
    /\ up /\ watch.pending /\ ~watch.checking
    /\ watch' = [watch EXCEPT !.pending = FALSE, !.checking = TRUE]
    /\ UNCHANGED <<up, work, saved, editor, coreVars, disk, persistVars, leave, left,
                   edits, externals, faults>>

\* reload_changed and the node part of on_files_changed.
Changed == {f \in Files : disk[f] # None /\ known[f] # disk[f]}
Reloads == {f \in Changed \ dirty : disk[f] # Garbage}

ReloadedSaved ==
    LET list == IF "profiles" \in Reloads THEN NonEmpty(disk["profiles"]) ELSE saved.list
        active == IF "runtime" \in Reloads THEN disk["runtime"].active ELSE saved.active
    IN [list |-> list, active |-> Clamp(active, list)]

OnFilesChanged ==
    LET s == ReloadedSaved
        list == IF "profiles" \in Reloads THEN s.list ELSE work.list
        w == IF ListDirty THEN [work EXCEPT !.active = Clamp(@, work.list)]
             ELSE [list |-> list, active |-> Clamp(s.active, list)]
        at == Clamp(editor.selected, w.list)
        e == IF w.list[at] = work.list[editor.selected] THEN [editor EXCEPT !.selected = at]
             ELSE Load(at, w.list) IN
    /\ watch.checking
    /\ watch' = [watch EXCEPT !.checking = FALSE]
    /\ known' = [f \in Files |-> IF f \in Changed THEN disk[f] ELSE known[f]]
    /\ due' = (due \/ Changed \cap dirty # {})
    /\ saved' = s
    /\ IF Reloads = {} THEN UNCHANGED <<work, editor>> ELSE work' = w /\ editor' = e
    /\ runtime' = IF "runtime" \in Reloads
                  THEN [wasRunning |-> disk["runtime"].wasRunning, startup |-> disk["runtime"].startup]
                  ELSE runtime
    /\ UNCHANGED <<up, connected, disk, dirty, leave, left, edits, externals, faults>>

-----------------------------------------------------------------------------
\* The node lists other programs, and earlier runs, leave on disk.
DiskLists == {l \in [1..2 -> Complete] : l[1] # l[2]}

GuiInit ==
    /\ up = FALSE
    /\ disk \in [Files -> {None}]
                \cup {[profiles |-> CHOOSE l \in DiskLists : TRUE,
                       runtime |-> [DefaultRuntime EXCEPT !.active = i]] : i \in 1..2}
    /\ work = [list |-> <<Blank>>, active |-> 1] /\ saved = work
    /\ editor = [selected |-> 1, invalid |-> FALSE]
    /\ connected = FALSE
    /\ runtime = [wasRunning |-> FALSE, startup |-> "off"]
    /\ dirty = {} /\ due = FALSE /\ known = [f \in Files |-> None]
    /\ leave = None /\ left = "no"
    /\ watch = [event |-> FALSE, pending |-> FALSE, checking |-> FALSE]
    /\ edits = 0 /\ externals = 0 /\ faults = 0

\* What other programs write: another order of the list, an empty list, an index, or
\* text that does not parse.
External ==
    \/ \E c \in DiskLists \cup {<<>>, Garbage} :
          ExternalEdit("profiles", c)
    \/ \E c \in {[DefaultRuntime EXCEPT !.active = 3], Garbage} : ExternalEdit("runtime", c)

User ==
    \/ NodeHandler
    \/ \E i \in DOMAIN work.list : SetActiveNode(i)
    \/ ToggleConnection
    \/ \E s \in Startup : SetStartupConnection(s)
    \/ SaveNodes \/ RevertNodes
    \/ \E l \in {"hidden", "quit"} : RequestLeave(l)
    \/ AnswerSave \/ AnswerDiscard \/ AnswerCancel
    \/ ShowWindow

GuiNext ==
    \/ left # "quit" /\ User
    \/ FlushDue \/ CoreExits \/ Shutdown \/ Crash \/ Start
    \/ External \/ WatcherEvent \/ CheckStarts \/ OnFilesChanged

\* The save timer and posted closures run, the event loop ends when told to, and the
\* watcher thread delivers.
GuiFairness ==
    /\ WF_guiVars(FlushDue) /\ WF_guiVars(Shutdown)
    /\ WF_guiVars(WatcherEvent) /\ WF_guiVars(CheckStarts) /\ WF_guiVars(OnFilesChanged)

GuiSpec == GuiInit /\ [][GuiNext]_guiVars /\ GuiFairness

-----------------------------------------------------------------------------
RuntimeFiles == [active : 1..MaxNodes, wasRunning : BOOLEAN, startup : Startup]

GuiTypeOK ==
    /\ up \in BOOLEAN /\ connected \in BOOLEAN /\ due \in BOOLEAN
    /\ work \in [list : Lists, active : Nat \ {0}]
    /\ saved \in [list : Lists, active : 1..MaxNodes]
    /\ editor \in [selected : 1..MaxNodes, invalid : BOOLEAN]
    /\ editor.selected \in DOMAIN work.list /\ saved.active \in DOMAIN saved.list
    /\ runtime \in [wasRunning : BOOLEAN, startup : Startup]
    /\ disk["profiles"] \in Lists \cup {<<>>, None, Garbage}
    /\ disk["runtime"] \in RuntimeFiles \cup {None, Garbage}
    /\ dirty \subseteq {"runtime"}
    /\ leave \in {None, "hidden", "quit"} /\ left \in {"no", "hidden", "quit"}
    /\ watch \in [event : BOOLEAN, pending : BOOLEAN, checking : BOOLEAN]

\* The window is left only when every edit of the node list has reached the disk or was
\* discarded: at the moment a close request proceeds, the working list is the saved one.
NoSilentLoss ==
    [][left' # left /\ left' # "no" =>
         work'.list = saved'.list /\ Clamp(work'.active, work'.list) = saved'.active]_guiVars

\* The list commands (move, duplicate, delete another node, add) keep the active node.
ActiveNodeKept ==
    [][Selected(work) # None /\ ListCommand /\ NodeHandler /\ ~Delete(work.active)
         => Selected(work') = Selected(work)]_guiVars

\* A setting marked dirty is written, however often the write fails, unless the process
\* ends first: it is killed, or the last flush of an exit fails (persist.rs: "Failed files stay dirty and a retry is scheduled").
EventuallyFlushed == dirty # {} ~> (dirty = {} \/ ~up)

\* An edit by another program is seen, also when it lands while a check is running.
EditSeen == (up /\ Changed # {}) ~> (Changed = {} \/ ~up)

\* save.rs: "The list first, so the index on disk never points past it."
DiskIndexInList ==
    up /\ disk["profiles"] \notin {None, Garbage} /\ disk["runtime"] \notin {None, Garbage}
      => disk["runtime"].active <= Len(disk["profiles"])
=============================================================================
