------------------------------- MODULE MCGui -------------------------------
(***************************************************************************)
(* Small instances of the parts of the GUI process.  They share no state:  *)
(* a behaviour follows one of them, `part`, while the others rest in one of *)
(* their initial states.                                                   *)
(***************************************************************************)
EXTENDS GuiController, GuiProxy, SystemProxy, NodeEditor, LogPane, TrafficMeter, GuiWindow

VARIABLE part

vars == <<part, guiVars, proxyVars, sysVars, editorVars, logVars, meterVars, windowVars>>

\* A part that rests does so in one state.
Resting(p) == part # p

Init ==
    /\ part \in {"nodes", "proxy", "os", "editor", "logs", "traffic", "window"}
    /\ GuiInit /\ (Resting("nodes") => disk["profiles"] = None)
    /\ ProxyInit /\ (Resting("proxy") => config.mode = "disable")
    /\ SysInit /\ (Resting("os") => platform = "gnome" /\ avail = {})
    /\ EditorInit
    /\ (Resting("editor") => stored[chosen] = FullProfile /\ Cardinality({stored[n] : n \in Nodes}) = 1
                             /\ chosen = CHOOSE n \in Nodes : TRUE)
    /\ LogInit
    /\ MeterInit
    /\ WindowInit /\ (Resting("window") => desktop = "linux" /\ closeToTray /\ hideOnStart)

Next ==
    \/ /\ part = "nodes" /\ GuiNext
       /\ UNCHANGED <<part, proxyVars, sysVars, editorVars, logVars, meterVars, windowVars>>
    \/ /\ part = "proxy" /\ ProxyNext
       /\ UNCHANGED <<part, guiVars, sysVars, editorVars, logVars, meterVars, windowVars>>
    \/ /\ part = "os" /\ SysNext
       /\ UNCHANGED <<part, guiVars, proxyVars, editorVars, logVars, meterVars, windowVars>>
    \/ /\ part = "editor" /\ EditorNext
       /\ UNCHANGED <<part, guiVars, proxyVars, sysVars, logVars, meterVars, windowVars>>
    \/ /\ part = "logs" /\ LogNext
       /\ UNCHANGED <<part, guiVars, proxyVars, sysVars, editorVars, meterVars, windowVars>>
    \/ /\ part = "traffic" /\ MeterNext
       /\ UNCHANGED <<part, guiVars, proxyVars, sysVars, editorVars, logVars, windowVars>>
    \/ /\ part = "window" /\ WindowNext
       /\ UNCHANGED <<part, guiVars, proxyVars, sysVars, editorVars, logVars, meterVars>>

\* Every part is well typed.
TypeOK ==
    /\ GuiTypeOK /\ ProxyTypeOK /\ SysTypeOK /\ EditorTypeOK
    /\ LogTypeOK /\ MeterTypeOK /\ WindowTypeOK

\* The fairness each part assumes, in the behaviours that follow it.
FairSpec ==
    /\ Init /\ [][Next]_vars
    /\ WF_guiVars(part = "nodes" /\ FlushDue) /\ WF_guiVars(part = "nodes" /\ Shutdown)
    /\ WF_guiVars(part = "nodes" /\ WatcherEvent)
    /\ WF_guiVars(part = "nodes" /\ CheckStarts) /\ WF_guiVars(part = "nodes" /\ OnFilesChanged)
    /\ WF_proxyVars(part = "proxy" /\ (DownloadDirect \/ DownloadProxy \/ FinishRules))
    /\ \A t \in Loggers : WF_logVars(part = "logs" /\ Bump(t))
    /\ WF_logVars(part = "logs" /\ UiStep) /\ WF_logVars(part = "logs" /\ Tick)
    /\ \A p \in Launches :
         /\ WF_windowVars(part = "window" /\ (RunLoop(p) \/ Finish(p)))
         /\ WF_windowVars(part = "window" /\ RequestActivation(p))
         /\ WF_windowVars(part = "window" /\ StartTimerFires(p))
         /\ WF_windowVars(part = "window" /\ (Activate(p) \/ ActivateFails(p)))
=============================================================================
