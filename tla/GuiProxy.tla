------------------------------ MODULE GuiProxy ------------------------------
(***************************************************************************)
(* The operating system's proxy setting, the PAC server and the core's     *)
(* listener of the GUI: ui/controller/{overview,settings,mod}.rs, state.rs, *)
(* pac.rs and core.rs.                                                     *)
(*                                                                         *)
(* app.json names a proxy mode, the address of the local proxy, the address *)
(* of the PAC server and where the PAC file comes from.  Every handler that *)
(* changes one of them has to bring three outside things into line with it: *)
(* the OS setting (one call of apply_system_proxy), the PAC server and the *)
(* core.  Any of the three may fail on its own.  The handlers run on the UI *)
(* thread, the rule download on a worker.                                  *)
(*                                                                         *)
(* A call of apply_system_proxy that returns Ok is taken at its word: the  *)
(* OS then uses what was asked for.  SystemProxy is about what makes this  *)
(* true, but for a registry value whose deletion failed unnoticed.         *)
(*                                                                         *)
(* What a PAC file says is its rule set, the proxy address in it and the   *)
(* version of the rule file it was generated from.  The settings sheet,    *)
(* whose Done calls these handlers, is the subject of NodeEditor.          *)
(***************************************************************************)
EXTENDS Naturals, FiniteSets

CONSTANTS
    ListenAddrs,    \* addresses of the local proxy (mixed_listen)
    PacAddrs,       \* addresses of the PAC server
    OnlineUrl,      \* an online PAC URL
    NoUrl,          \* no online PAC URL
    NoServer,       \* pac_server is None; no core runs
    MaxProxySteps,  \* bound on handlers called and downloads
    MaxProxyFaults  \* bound on failures and kills

ASSUME ProxyAssumption == ListenAddrs # {} /\ PacAddrs # {}

ModeNames == {"disable", "global", "pac"}
RuleModes == {"bypass", "gfw"}
AppConfigs == [mode : ModeNames, listen : ListenAddrs, pacListen : PacAddrs,
               source : {"local", "online"}, url : {NoUrl, OnlineUrl}, rule : RuleModes]

VARIABLES
    running,    \* whether the process runs
    config,     \* gui.config
    pac,        \* gui.pac_server: its address and the content it serves
    os,         \* the proxy the operating system uses
    coreAt,     \* where the running core listens
    job,        \* the rule download; anything but "idle" is rules_updating
    ruleFiles,  \* versions of china-list.txt (bypass) and gfw.txt (gfw)
    stale,      \* history: the last attempt to bring `os` into line failed
    proxySteps, proxyFaults

proxyVars == <<running, config, pac, os, coreAt, job, ruleFiles, stale, proxySteps, proxyFaults>>

-----------------------------------------------------------------------------
Disabled == [mode |-> "disable", value |-> NoUrl]

\* effective_pac_url.
PacUrl(c) == IF c.source = "online" /\ c.url # NoUrl THEN c.url ELSE c.pacListen

\* What apply_system_proxy makes of the configuration c.
Target(c) ==
    CASE c.mode = "disable" -> Disabled
      [] c.mode = "global" -> [mode |-> "global", value |-> c.listen]
      [] c.mode = "pac" -> [mode |-> "pac", value |-> PacUrl(c)]

\* generate_pac on the rule files as they are.
Content(c) == [rule |-> c.rule, proxy |-> c.listen, version |-> ruleFiles[c.rule]]

\* restart_pac_server binds a socket when forced to, or when no server runs.
Binds(force) == force \/ pac = NoServer

\* Mutant: a server that keeps its socket keeps its content.
PacAfter_KeepsContent(c, force, fails) ==
    IF ~Binds(force) THEN pac
    ELSE IF ~fails THEN [listen |-> c.pacListen, content |-> Content(c)]
    ELSE IF pac # NoServer /\ pac.listen = c.pacListen THEN NoServer
    ELSE pac

\* The PAC server after restart_pac_server.  The same address is released before it is
\* bound again, so a failing bind then leaves no server; another address is bound first.
PacAfter(c, force, fails) ==
    IF ~Binds(force) THEN [pac EXCEPT !.content = Content(c)]
    ELSE IF ~fails THEN [listen |-> c.pacListen, content |-> Content(c)]
    ELSE IF pac # NoServer /\ pac.listen = c.pacListen THEN NoServer
    ELSE pac

\* One call of apply_system_proxy; a failing one may have done its work or not.
Apply(target, fails) ==
    IF fails THEN os' \in {os, target} /\ stale' = TRUE
    ELSE os' = target /\ stale' = FALSE

ApplyWhen(cond, c, fails) == IF cond THEN Apply(Target(c), fails) ELSE UNCHANGED <<os, stale>>

\* A handler with the effects `fail` failing.
Handler(fail) ==
    /\ running
    /\ proxySteps < MaxProxySteps
    /\ proxySteps' = proxySteps + 1
    /\ proxyFaults' = proxyFaults + Cardinality(fail)
    /\ proxyFaults' <= MaxProxyFaults
    /\ UNCHANGED running

-----------------------------------------------------------------------------
(* Handlers of the overview and settings pages and of the tray.            *)

SetProxyMode(m, fail) ==
    /\ config.mode # m
    /\ config' = [config EXCEPT !.mode = m]
    /\ Apply(Target(config'), "apply" \in fail)
    /\ UNCHANGED <<pac, coreAt, job, ruleFiles>>

SetPacRule(r, fail) ==
    /\ config.rule # r
    /\ config' = [config EXCEPT !.rule = r]
    /\ pac' = PacAfter(config', FALSE, "bind" \in fail)
    /\ UNCHANGED <<os, stale, coreAt, job, ruleFiles>>

\* set_pac_source, and commit_setting of the online URL (a row of online mode only).
ChangePacSource(c, fail) ==
    /\ c.source # config.source \/ (config.source = "online" /\ c.url # config.url)
    /\ config' = c
    /\ ApplyWhen(c.mode = "pac", c, "apply" \in fail)
    /\ UNCHANGED <<pac, coreAt, job, ruleFiles>>

\* Mutant: a new port reaches the PAC file and the core, not the OS.
ChangeListen_NoApply(l, fail) ==
    /\ config.listen # l
    /\ config' = [config EXCEPT !.listen = l]
    /\ pac' = PacAfter(config', FALSE, "bind" \in fail)
    /\ coreAt' = IF coreAt = NoServer \/ "start" \in fail THEN NoServer ELSE l
    /\ UNCHANGED <<os, stale, job, ruleFiles>>

\* commit_setting of the port, with apply_listen_change: PAC, OS proxy, then the core,
\* which start_profile stops before it starts.
ChangeListen(l, fail) ==
    /\ config.listen # l
    /\ config' = [config EXCEPT !.listen = l]
    /\ pac' = PacAfter(config', FALSE, "bind" \in fail)
    /\ ApplyWhen(config.mode # "disable", config', "apply" \in fail)
    /\ coreAt' = IF coreAt = NoServer \/ "start" \in fail THEN NoServer ELSE l
    /\ UNCHANGED <<job, ruleFiles>>

\* change_pac_listen: the address is committed only once the server is bound.
ChangePacListen(a, fail) ==
    LET c == [config EXCEPT !.pacListen = a] IN
    /\ config.pacListen # a
    /\ pac' = PacAfter(c, TRUE, "bind" \in fail)
    /\ IF "bind" \in fail THEN UNCHANGED <<config, os, stale>>
       ELSE config' = c /\ ApplyWhen(c.mode = "pac", c, "apply" \in fail)
    /\ UNCHANGED <<coreAt, job, ruleFiles>>

\* toggle_connection and start_active, once the node is known to be complete.
ToggleCore(fail) ==
    /\ coreAt' = IF coreAt # NoServer \/ "start" \in fail THEN NoServer ELSE config.listen
    /\ UNCHANGED <<config, pac, os, stale, job, ruleFiles>>

\* update_rules; a second request while a download runs does nothing.
UpdateRules ==
    /\ job = "idle"
    /\ job' = "direct"
    /\ UNCHANGED <<config, pac, os, stale, coreAt, ruleFiles>>

\* The App part of on_files_changed, for the configuration c read from disk.
ReloadConfig(c, fail) ==
    LET force == c.pacListen # config.pacListen
        lost == Binds(force) /\ "bind" \in fail
        changed == \E f \in {"mode", "listen", "pacListen", "source", "url"} : c[f] # config[f] IN
    /\ c # config
    /\ config' = c
    /\ pac' = PacAfter(c, force, "bind" \in fail)
    /\ IF lost THEN stale' = TRUE /\ UNCHANGED os
       ELSE ApplyWhen(changed, c, "apply" \in fail)
    /\ UNCHANGED <<coreAt, job, ruleFiles>>

PageHandler ==
    \E fail \in SUBSET {"bind", "apply", "start"} :
      /\ Handler(fail)
      /\ \/ \E m \in ModeNames : SetProxyMode(m, fail)
         \/ \E r \in RuleModes : SetPacRule(r, fail)
         \/ \E s \in {"local", "online"} :
              ChangePacSource([config EXCEPT !.source = s], fail)
         \/ \E u \in {NoUrl, OnlineUrl} : ChangePacSource([config EXCEPT !.url = u], fail)
         \/ \E l \in ListenAddrs : ChangeListen(l, fail)
         \/ \E a \in PacAddrs : ChangePacListen(a, fail)
         \/ ToggleCore(fail)
         \/ fail = {} /\ UpdateRules
         \/ \E m \in ModeNames, a \in PacAddrs :
              ReloadConfig([config EXCEPT !.mode = m, !.pacListen = a], fail)
         \/ \E l \in ListenAddrs, r \in RuleModes :
              ReloadConfig([config EXCEPT !.listen = l, !.rule = r], fail)

-----------------------------------------------------------------------------
(* The rule download on its worker thread: the direct list, then the proxy *)
(* list; each file is replaced whole.                                      *)

Download(file, here, next) ==
    /\ running /\ job = here
    /\ \/ /\ job' = next
          /\ ruleFiles' = [ruleFiles EXCEPT ![file] = @ + 1]
          /\ UNCHANGED proxyFaults
       \/ /\ proxyFaults < MaxProxyFaults
          /\ proxyFaults' = proxyFaults + 1
          /\ job' = "failed"
          /\ UNCHANGED ruleFiles
    /\ UNCHANGED <<running, config, pac, os, coreAt, stale, proxySteps>>

DownloadDirect == Download("bypass", "direct", "proxy")
DownloadProxy == Download("gfw", "proxy", "done")

\* finish_rules, posted to the UI thread.
FinishRules ==
    /\ running /\ job \in {"done", "failed"}
    /\ job' = "idle"
    /\ \/ job = "done" /\ pac' = PacAfter(config, FALSE, FALSE) /\ UNCHANGED proxyFaults
       \/ /\ job = "done" /\ Binds(FALSE) /\ proxyFaults < MaxProxyFaults
          /\ proxyFaults' = proxyFaults + 1
          /\ pac' = PacAfter(config, FALSE, TRUE)
       \/ job = "failed" /\ UNCHANGED <<pac, proxyFaults>>
    /\ UNCHANGED <<running, config, os, coreAt, ruleFiles, stale, proxySteps>>

-----------------------------------------------------------------------------
(* The life of the process.                                                *)

\* startup: PAC server, core (when the startup setting asks for it), then the saved
\* mode, and a rule download when the rules are overdue.
ProxyStartup ==
    \E fail \in SUBSET {"bind", "apply"}, connect \in BOOLEAN, overdue \in BOOLEAN :
      /\ ~running /\ proxySteps < MaxProxySteps
      /\ running' = TRUE
      /\ proxySteps' = proxySteps + 1
      /\ proxyFaults' = proxyFaults + Cardinality(fail)
      /\ proxyFaults' <= MaxProxyFaults
      /\ pac' = PacAfter(config, TRUE, "bind" \in fail)
      /\ coreAt' = IF connect THEN config.listen ELSE NoServer
      /\ ApplyWhen(config.mode # "disable", config, "apply" \in fail)
      /\ job' = IF overdue THEN "direct" ELSE "idle"
      /\ UNCHANGED <<config, ruleFiles>>

\* What ends with the process.
ProcessEnds ==
    /\ running
    /\ running' = FALSE
    /\ pac' = NoServer /\ coreAt' = NoServer /\ job' = "idle"
    /\ UNCHANGED <<config, ruleFiles, proxySteps>>

\* shutdown: the OS proxy is restored unless the mode is Disable already.
ProxyShutdown ==
    /\ ProcessEnds
    /\ \E fails \in BOOLEAN :
         /\ proxyFaults' = proxyFaults + (IF fails THEN 1 ELSE 0)
         /\ proxyFaults' <= MaxProxyFaults
         /\ IF config.mode # "disable" THEN Apply(Disabled, fails) ELSE UNCHANGED <<os, stale>>

\* The process is killed: nothing restores the OS proxy.
ProxyKilled ==
    /\ ProcessEnds
    /\ proxyFaults < MaxProxyFaults
    /\ proxyFaults' = proxyFaults + 1
    /\ stale' = TRUE
    /\ UNCHANGED os

\* poll_core finds the core gone.
CoreLost ==
    /\ running /\ coreAt # NoServer /\ proxyFaults < MaxProxyFaults
    /\ proxyFaults' = proxyFaults + 1
    /\ coreAt' = NoServer
    /\ UNCHANGED <<running, config, pac, os, job, ruleFiles, stale, proxySteps>>

-----------------------------------------------------------------------------
ProxyInit ==
    /\ running = FALSE
    /\ config \in {[mode |-> m, listen |-> CHOOSE l \in ListenAddrs : TRUE,
                    pacListen |-> CHOOSE a \in PacAddrs : TRUE, source |-> "local",
                    url |-> NoUrl, rule |-> "bypass"] : m \in ModeNames}
    /\ pac = NoServer /\ coreAt = NoServer
    /\ os = Disabled
    /\ job = "idle" /\ ruleFiles = [r \in RuleModes |-> 0]
    /\ stale = FALSE
    /\ proxySteps = 0 /\ proxyFaults = 0

ProxyNext ==
    \/ PageHandler
    \/ DownloadDirect \/ DownloadProxy \/ FinishRules
    \/ ProxyStartup \/ ProxyShutdown \/ ProxyKilled \/ CoreLost

\* The worker thread runs and what it posts is handled.
ProxyFairness ==
    WF_proxyVars(DownloadDirect) /\ WF_proxyVars(DownloadProxy) /\ WF_proxyVars(FinishRules)

ProxySpec == ProxyInit /\ [][ProxyNext]_proxyVars /\ ProxyFairness

-----------------------------------------------------------------------------
ProxyTypeOK ==
    /\ running \in BOOLEAN /\ stale \in BOOLEAN
    /\ config \in AppConfigs
    /\ pac = NoServer \/ (pac.listen \in PacAddrs /\ pac.content.rule \in RuleModes
                          /\ pac.content.proxy \in ListenAddrs
                          /\ pac.content.version <= ruleFiles[pac.content.rule])
    /\ coreAt \in ListenAddrs \cup {NoServer}
    /\ job \in {"idle", "direct", "proxy", "done", "failed"}

\* Unless the last attempt failed, the OS uses the proxy the configuration asks for
\* while the program runs, and none once it has ended: no sequence of handlers, reloads
\* of app.json and restarts leaves it behind (shutdown: "restore the OS proxy to
\* Disable"; apply_listen_change, reapply_pac_proxy and on_files_changed each re-apply
\* it on their own conditions).
OsFollowsConfig == ~stale => os = IF running THEN Target(config) ELSE Disabled

\* A PAC server at the configured address serves the configured rules and proxy address,
\* whichever bind failed before and whichever server survived it.
PacServesConfig ==
    pac # NoServer /\ pac.listen = config.pacListen =>
      pac.content.rule = config.rule /\ pac.content.proxy = config.listen
=============================================================================
