------------------------------ MODULE GuiWindow ------------------------------
(***************************************************************************)
(* One GUI process per session, and its window: desktop/single_instance.rs, *)
(* ui/mod.rs, ui/bind/desktop.rs and the prompt of ui/controller/save.rs.   *)
(*                                                                         *)
(* A launch claims the instance lock (a D-Bus name on Linux, a mutex on     *)
(* Windows) before any side effect.  The one that gets it runs; a later one *)
(* asks it to show its window, over the bus or over a pipe whose listener   *)
(* starts after the mutex is held, and exits.  The request is posted to the *)
(* event loop.  The window may be hidden in the tray, whose icon comes and  *)
(* goes with the desktop's tray host, and leaving it with unsaved node edits *)
(* asks first.                                                             *)
(*                                                                         *)
(* macOS, where the launcher keeps one instance, claims nothing.  What a    *)
(* save writes is the subject of GuiController.  The windowing system is    *)
(* taken to obey: ui.show() and ui.hide(), whose errors are only logged,    *)
(* succeed.                                                                *)
(***************************************************************************)
EXTENDS Naturals, FiniteSets

CONSTANTS
    Launches,      \* processes of one session
    NoLock,        \* nobody holds the lock; no prompt is open
    MaxTries,      \* attempts of activate_existing on Windows (20 in the code)
    MaxUserEvents, \* bound on what the user and the tray host do
    MaxNoBus       \* bound on claims that cannot be checked

ASSUME WindowAssumption == NoLock \notin Launches

Leaves == {"hide", "quit"}

VARIABLES
    desktop,       \* "linux" or "windows"
    closeToTray, hideOnStart, \* runtime settings
    lock,          \* holder of the name or mutex
    phase,         \* where each launch is in ui::run
    guarded,       \* the launch owns an Instance that holds the lock
    pipe,          \* Windows: the listener of each launch is up
    tries,
    queue,         \* posted request_activation calls
    ready, waiting,\* Activation { ready, pending }
    shown,         \* the window is visible
    tray,          \* "none", "shown" or "offline"
    startTimer,    \* START_TIMER runs
    prompt,        \* Controller.leave
    unsaved,       \* nodes_dirty
    userEvents, noBus

windowVars == <<desktop, closeToTray, hideOnStart, lock, phase, guarded, pipe, tries, queue,
                ready, waiting, shown, tray, startTimer, prompt, unsaved, userEvents, noBus>>
settingVars == <<desktop, closeToTray, hideOnStart>>
uiVars == <<shown, tray, startTimer, prompt, unsaved>>
claimVars == <<lock, guarded, pipe, tries, noBus>>

Running == {"starting", "loop", "leaving"}

-----------------------------------------------------------------------------
(* Claiming the lock and asking its holder.                                *)

\* acquire: claim and decide.
Acquire(p) ==
    /\ phase[p] = "new"
    /\ IF lock = NoLock
       THEN /\ lock' = p
            /\ guarded' = [guarded EXCEPT ![p] = TRUE]
            /\ phase' = [phase EXCEPT ![p] = "starting"]
       ELSE phase' = [phase EXCEPT ![p] = "asking"] /\ UNCHANGED <<lock, guarded>>
    /\ UNCHANGED <<settingVars, pipe, tries, noBus, queue, ready, waiting, uiVars, userEvents>>

\* acquire without a session bus: Claim::Unavailable, Decision::Unguarded.
AcquireUnguarded(p) ==
    /\ phase[p] = "new"
    /\ noBus < MaxNoBus
    /\ noBus' = noBus + 1
    /\ phase' = [phase EXCEPT ![p] = "starting"]
    /\ UNCHANGED <<settingVars, lock, guarded, pipe, tries, queue, ready, waiting, uiVars, userEvents>>

\* windows::serve creates its pipe, on a thread of its own.
ServePipe(p) ==
    /\ desktop = "windows"
    /\ guarded[p] /\ phase[p] \in Running
    /\ ~pipe[p]
    /\ pipe' = [pipe EXCEPT ![p] = TRUE]
    /\ UNCHANGED <<settingVars, lock, phase, guarded, tries, noBus, queue, ready, waiting, uiVars, userEvents>>

Answers(q) == q # NoLock /\ (desktop = "linux" \/ pipe[q])

\* activate_existing; the holder's on_activate posts to the event loop, and a loop that has
\* ended drops the request.
Activate(p) ==
    /\ phase[p] = "asking"
    /\ Answers(lock)
    /\ queue' = IF phase[lock] \in {"starting", "loop"} THEN [queue EXCEPT ![lock] = @ + 1] ELSE queue
    /\ phase' = [phase EXCEPT ![p] = "gone"]
    /\ UNCHANGED <<settingVars, claimVars, ready, waiting, uiVars, userEvents>>

\* activate_existing without an answer: Windows tries again, then the launch exits.
ActivateFails(p) ==
    /\ phase[p] = "asking"
    /\ ~Answers(lock)
    /\ IF desktop = "windows" /\ tries[p] < MaxTries
       THEN tries' = [tries EXCEPT ![p] = @ + 1] /\ UNCHANGED phase
       ELSE phase' = [phase EXCEPT ![p] = "gone"] /\ UNCHANGED tries
    /\ UNCHANGED <<settingVars, lock, guarded, pipe, noBus, queue, ready, waiting, uiVars, userEvents>>

-----------------------------------------------------------------------------
(* ui::run of the instance.                                                *)

\* From Storage::new to the event loop: install, watch_config_dir, startup, start_tray,
\* show_initial and window_ready.
RunLoop(p) ==
    /\ phase[p] = "starting"
    /\ phase' = [phase EXCEPT ![p] = "loop"]
    /\ ready' = [ready EXCEPT ![p] = TRUE]
    /\ waiting' = [waiting EXCEPT ![p] = FALSE]
    /\ shown' = [shown EXCEPT ![p] = ~hideOnStart \/ waiting[p]]
    /\ startTimer' = [startTimer EXCEPT ![p] = hideOnStart]
    /\ UNCHANGED <<settingVars, claimVars, queue, tray, prompt, unsaved, userEvents>>

\* bind::shutdown, then the Instance is dropped: after the loop, or when the window could not
\* be opened.  The process ends, and its pipe with it.
Finish(p) ==
    /\ phase[p] \in {"starting", "leaving"}
    /\ phase' = [phase EXCEPT ![p] = "gone"]
    /\ lock' = IF lock = p THEN NoLock ELSE lock
    /\ guarded' = [guarded EXCEPT ![p] = FALSE]
    /\ pipe' = [pipe EXCEPT ![p] = FALSE]
    /\ tray' = [tray EXCEPT ![p] = "none"]
    /\ startTimer' = [startTimer EXCEPT ![p] = FALSE]
    /\ UNCHANGED <<settingVars, tries, noBus, queue, ready, waiting, shown, prompt, unsaved, userEvents>>

\* A posted request_activation runs.
RequestActivation(p) ==
    /\ phase[p] = "loop"
    /\ queue[p] > 0
    /\ queue' = [queue EXCEPT ![p] = @ - 1]
    /\ IF ready[p] THEN shown' = [shown EXCEPT ![p] = TRUE] /\ UNCHANGED waiting
       ELSE waiting' = [waiting EXCEPT ![p] = TRUE] /\ UNCHANGED shown
    /\ UNCHANGED <<settingVars, claimVars, phase, ready, tray, startTimer, prompt, unsaved, userEvents>>

\* The hidden start's timer: without an icon the window is shown after all.
StartTimerFires(p) ==
    /\ phase[p] = "loop"
    /\ startTimer[p]
    /\ startTimer' = [startTimer EXCEPT ![p] = FALSE]
    /\ shown' = [shown EXCEPT ![p] = @ \/ tray[p] # "shown"]
    /\ UNCHANGED <<settingVars, claimVars, phase, queue, ready, waiting, tray, prompt, unsaved, userEvents>>

-----------------------------------------------------------------------------
(* The user and the tray host.                                             *)

UserEvent(p) ==
    /\ phase[p] = "loop"
    /\ userEvents < MaxUserEvents
    /\ userEvents' = userEvents + 1
    /\ UNCHANGED <<settingVars, claimVars, queue, ready, waiting, startTimer>>

\* watcher_online (the tray starts, or its host returns) and watcher_offline.
TrayHost(p) ==
    /\ UserEvent(p)
    /\ tray' = [tray EXCEPT ![p] = IF @ = "shown" THEN "offline" ELSE "shown"]
    /\ UNCHANGED <<phase, shown, prompt, unsaved>>

EditNodes(p) ==
    /\ UserEvent(p)
    /\ shown[p] /\ prompt[p] = NoLock
    /\ unsaved' = [unsaved EXCEPT ![p] = TRUE]
    /\ UNCHANGED <<phase, shown, tray, prompt>>

\* perform, or a hidden window for the close button of a window that quits.
Perform(p, choice) ==
    /\ phase' = [phase EXCEPT ![p] = IF choice = "quit" THEN "leaving" ELSE @]
    /\ shown' = [shown EXCEPT ![p] = IF choice = "hide" THEN FALSE ELSE @]

\* Mutant: close-to-tray hides whether there is an icon or not.
OnClose_IgnoresTray(p) == IF closeToTray THEN "hide" ELSE "quit"

\* quits_on_close.
OnClose(p) == IF closeToTray /\ tray[p] = "shown" THEN "hide" ELSE "quit"

\* close_requested: request_leave decides, and the window stays while the prompt asks.
CloseRequested(p) ==
    /\ UserEvent(p)
    /\ shown[p]
    /\ prompt[p] = NoLock
    /\ IF unsaved[p] THEN prompt' = [prompt EXCEPT ![p] = OnClose(p)] /\ UNCHANGED <<phase, shown>>
       ELSE Perform(p, OnClose(p)) /\ UNCHANGED prompt
    /\ UNCHANGED <<tray, unsaved>>

\* request_quit from the tray menu; a prompt that is already open keeps what it asks.
RequestQuit(p) ==
    /\ UserEvent(p)
    /\ tray[p] = "shown"
    /\ IF prompt[p] = NoLock /\ ~unsaved[p] THEN Perform(p, "quit") /\ UNCHANGED prompt
       ELSE /\ prompt' = [prompt EXCEPT ![p] = IF @ = NoLock THEN "quit" ELSE @]
            /\ shown' = [shown EXCEPT ![p] = TRUE]
            /\ UNCHANGED phase
    /\ UNCHANGED <<tray, unsaved>>

\* toggle_window, and the tray items that only show.
ToggleWindow(p) ==
    /\ UserEvent(p)
    /\ tray[p] = "shown"
    /\ shown' = [shown EXCEPT ![p] = ~@]
    /\ UNCHANGED <<phase, tray, prompt, unsaved>>

\* answer_prompt: a save that is refused or fails closes the prompt and stays, like Cancel.
AnswerPrompt(p) ==
    /\ UserEvent(p)
    /\ shown[p] /\ prompt[p] # NoLock
    /\ \/ /\ Perform(p, prompt[p])
          /\ unsaved' = [unsaved EXCEPT ![p] = FALSE]
       \/ UNCHANGED <<phase, shown, unsaved>>
    /\ prompt' = [prompt EXCEPT ![p] = NoLock]
    /\ UNCHANGED tray

-----------------------------------------------------------------------------
WindowInit ==
    /\ desktop \in {"linux", "windows"}
    /\ closeToTray \in BOOLEAN /\ hideOnStart \in BOOLEAN
    /\ lock = NoLock
    /\ phase = [p \in Launches |-> "new"]
    /\ guarded = [p \in Launches |-> FALSE] /\ pipe = guarded
    /\ tries = [p \in Launches |-> 0] /\ queue = tries
    /\ ready = guarded /\ waiting = guarded
    /\ shown = guarded /\ tray = [p \in Launches |-> "none"] /\ startTimer = guarded
    /\ prompt = [p \in Launches |-> NoLock] /\ unsaved = guarded
    /\ userEvents = 0 /\ noBus = 0

\* What a process does by itself.
Proceed(p) ==
    \/ Acquire(p) \/ AcquireUnguarded(p)
    \/ ServePipe(p)
    \/ Activate(p) \/ ActivateFails(p)
    \/ RunLoop(p) \/ Finish(p)
    \/ RequestActivation(p)
    \/ StartTimerFires(p)

WindowNext ==
    \E p \in Launches :
        \/ Proceed(p)
        \/ TrayHost(p) \/ EditNodes(p)
        \/ CloseRequested(p) \/ RequestQuit(p) \/ ToggleWindow(p) \/ AnswerPrompt(p)

\* A started process goes on: it runs, its event loop runs what is posted and its timer, and
\* it ends once it leaves.  Nobody has to start one, and the user may do nothing.
WindowFairness ==
    \A p \in Launches :
        /\ WF_windowVars(RunLoop(p) \/ Finish(p))
        /\ WF_windowVars(RequestActivation(p))
        /\ WF_windowVars(StartTimerFires(p))
        /\ WF_windowVars(Activate(p) \/ ActivateFails(p))

WindowSpec == WindowInit /\ [][WindowNext]_windowVars /\ WindowFairness

WindowTypeOK ==
    /\ desktop \in {"linux", "windows"} /\ closeToTray \in BOOLEAN /\ hideOnStart \in BOOLEAN
    /\ lock \in Launches \cup {NoLock}
    /\ phase \in [Launches -> {"new", "asking", "gone"} \cup Running]
    /\ tray \in [Launches -> {"none", "shown", "offline"}]
    /\ prompt \in [Launches -> Leaves \cup {NoLock}]
    /\ {guarded, pipe, ready, waiting, shown, startTimer, unsaved} \subseteq [Launches -> BOOLEAN]

\* Of the launches that could check for a running instance, one runs at a time (acquire):
\* a launch that was granted the lock has it until it ends, also when one that started
\* without a session bus ends before it, and the lock never outlives its holder.
OneInstance ==
    /\ \A p \in Launches : guarded[p] => lock = p /\ phase[p] \in Running
    /\ lock # NoLock => guarded[lock]

\* Closing the window, or the tray, hides it only while the icon is shown, also after the
\* tray host came and went; excepted is the answer to a prompt that was asked when there was
\* an icon, since perform does not look again.
HidesToIcon ==
    [][\A p \in Launches :
         shown[p] /\ ~shown'[p] /\ phase'[p] = "loop"
           => tray[p] = "shown" \/ prompt[p] = "hide"]_windowVars

\* The window is not hidden without an icon to bring it back (quits_on_close, show_initial):
\* it is not put there, and a process whose icon never appeared does not stay hidden after
\* its start.
HiddenIsReachable ==
    /\ HidesToIcon
    /\ \A p \in Launches : []<>(shown[p] \/ tray[p] # "none" \/ phase[p] # "loop")
=============================================================================
