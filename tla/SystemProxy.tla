---------------------------- MODULE SystemProxy ----------------------------
(***************************************************************************)
(* apply_system_proxy of gui/src/system_proxy.rs.  One call runs a script  *)
(* of external commands, each of which writes one key of the desktop's     *)
(* settings and may fail; nothing is rolled back, so the next call starts  *)
(* from whatever a failed one left.  A failing write ends its script with  *)
(* an error; a failing delete on Windows goes unnoticed.                   *)
(*                                                                         *)
(* The GNOME, KDE, macOS and Windows scripts are kept with their keys and  *)
(* their order.  Host and port are one value, split_host_port is left out; *)
(* so is telling KIO to read its file again, whose result is ignored.  The *)
(* fallback from kwriteconfig6 to kwriteconfig5 is one tool, "kde".        *)
(***************************************************************************)
EXTENDS Naturals, Sequences, FiniteSets

CONSTANTS
    Listens, PacUrls,   \* what the GUI can ask for
    Foreign,            \* a proxy the user had configured by other means
    Absent,             \* a key with no value
    MaxApplies, MaxCmdFails

ASSUME SysAssumption == Listens # {} /\ Absent \notin PacUrls

\* The macOS network services.
Services == <<"wifi", "ethernet">>

Platforms == {"gnome", "kde", "other", "macos", "windows"}
Requests == {[mode |-> "disable", value |-> Absent]}
            \cup {[mode |-> "global", value |-> l] : l \in Listens}
            \cup {[mode |-> "pac", value |-> u] : u \in PacUrls}

VARIABLES
    platform, avail,    \* the desktop, and the Linux tools that are installed
    settings,           \* the value of every key
    request,            \* what the current or last call was asked for
    listen,             \* mixed_listen at that call
    todo,               \* the commands still to run
    wrote,              \* Linux tools whose script has not failed and wrote something
    ignored,            \* keys whose deletion failed unnoticed in that call
    outcome,            \* of the last call
    applies, cmdFails

sysVars == <<platform, avail, settings, request, listen, todo, wrote, ignored, outcome,
             applies, cmdFails>>

-----------------------------------------------------------------------------
(* Commands and scripts.                                                   *)

Set(tool, key, value) == [op |-> "set", tool |-> tool, key |-> <<tool, key>>, value |-> value]

\* reg_delete, which has no result, and reg_delete guarded by reg_query.
Del(key) == [op |-> "delete", tool |-> "windows", key |-> <<"windows", key>>, value |-> Absent]
DelIf(key, value) == [Del(key) EXCEPT !.op = "deleteIf", !.value = value]

GnomeScript(r) ==
    CASE r.mode = "disable" -> <<Set("gnome", "mode", "none")>>
      [] r.mode = "pac" -> <<Set("gnome", "mode", "auto"), Set("gnome", "url", r.value)>>
      [] r.mode = "global" ->
           <<Set("gnome", "mode", "manual"), Set("gnome", "same", "true"),
             Set("gnome", "http", r.value), Set("gnome", "https", r.value),
             Set("gnome", "socks", r.value)>>

KdeScript(r) ==
    CASE r.mode = "disable" -> <<Set("kde", "mode", "none")>>
      [] r.mode = "pac" -> <<Set("kde", "mode", "auto"), Set("kde", "url", r.value)>>
      [] r.mode = "global" ->
           <<Set("kde", "mode", "manual"), Set("kde", "http", r.value),
             Set("kde", "https", r.value), Set("kde", "socks", r.value)>>

\* The commands for one network service.
MacScript(s, r) ==
    CASE r.mode = "disable" ->
           <<Set(s, "httpState", "off"), Set(s, "httpsState", "off"), Set(s, "socksState", "off"),
             Set(s, "autoState", "off")>>
      [] r.mode = "pac" ->
           <<Set(s, "url", r.value), Set(s, "autoState", "on"),
             Set(s, "httpState", "off"), Set(s, "httpsState", "off"), Set(s, "socksState", "off")>>
      [] r.mode = "global" ->
           <<Set(s, "http", r.value), Set(s, "https", r.value), Set(s, "socks", r.value),
             Set(s, "httpState", "on"), Set(s, "httpsState", "on"), Set(s, "socksState", "on"),
             Set(s, "autoState", "off")>>

\* Mutant: AutoConfigURL is not removed when a global proxy is set.
WindowsScript_KeepsUrl(r, l) ==
    CASE r.mode = "disable" ->
           <<Set("windows", "enable", "0"), Del("url"), DelIf("http", l),
             DelIf("override", "bypass")>>
      [] r.mode = "pac" -> <<Set("windows", "enable", "0"), Set("windows", "url", r.value)>>
      [] r.mode = "global" ->
           <<Set("windows", "enable", "1"), Set("windows", "http", r.value),
             Set("windows", "override", "bypass")>>

WindowsScript(r, l) ==
    CASE r.mode = "disable" ->
           <<Set("windows", "enable", "0"), Del("url"), DelIf("http", l),
             DelIf("override", "bypass")>>
      [] r.mode = "pac" -> <<Set("windows", "enable", "0"), Set("windows", "url", r.value)>>
      [] r.mode = "global" ->
           <<Set("windows", "enable", "1"), Set("windows", "http", r.value),
             Set("windows", "override", "bypass"), Del("url")>>

\* A tool that is not installed runs nothing.
Linux(t, script) == IF t \in avail THEN script ELSE <<>>

\* What a call runs.
Script(r, l) ==
    CASE platform = "gnome" -> Linux("gnome", GnomeScript(r))
      [] platform = "kde" -> Linux("kde", KdeScript(r))
      [] platform = "other" -> Linux("gnome", GnomeScript(r)) \o Linux("kde", KdeScript(r))
      [] platform = "macos" -> MacScript(Services[1], r) \o MacScript(Services[2], r)
      [] platform = "windows" -> WindowsScript(r, l)

-----------------------------------------------------------------------------
(* A call and its commands.                                                *)

\* `l` is the configured address, also when the mode does not use it.
ApplySystemProxy(r, l) ==
    /\ outcome # "busy" /\ applies < MaxApplies
    /\ r.mode = "global" => l = r.value
    /\ applies' = applies + 1
    /\ request' = r /\ listen' = l
    /\ todo' = Script(r, l)
    /\ wrote' = {} /\ ignored' = {}
    /\ outcome' = "busy"
    /\ UNCHANGED <<platform, avail, settings, cmdFails>>

\* The next command does its write.
CommandOk ==
    LET c == Head(todo) IN
    /\ outcome = "busy" /\ todo # <<>>
    /\ settings' = CASE c.op = "set" -> [settings EXCEPT ![c.key] = c.value]
                     [] c.op = "delete" \/ (c.op = "deleteIf" /\ settings[c.key] = c.value) ->
                          [settings EXCEPT ![c.key] = Absent]
                     [] OTHER -> settings
    /\ todo' = Tail(todo)
    /\ wrote' = wrote \cup {c.tool}
    /\ UNCHANGED <<platform, avail, request, listen, ignored, outcome, applies, cmdFails>>

\* The next command, a write, fails and ends its script; on an unknown desktop the KDE script still
\* runs after GNOME's.
CommandFails ==
    LET c == Head(todo) IN
    /\ outcome = "busy" /\ todo # <<>> /\ c.op = "set" /\ cmdFails < MaxCmdFails
    /\ cmdFails' = cmdFails + 1
    /\ wrote' = wrote \ {c.tool}
    /\ IF platform = "other"
       THEN /\ todo' = IF c.tool = "gnome" THEN Linux("kde", KdeScript(request)) ELSE <<>>
            /\ UNCHANGED outcome
       ELSE todo' = <<>> /\ outcome' = "failed"
    /\ UNCHANGED <<platform, avail, settings, request, listen, ignored, applies>>

\* The next command is a delete and fails, or the query that guards it does: reg_delete
\* drops the result, and the script goes on.
DeleteIgnored ==
    LET c == Head(todo) IN
    /\ outcome = "busy" /\ todo # <<>> /\ c.op # "set" /\ cmdFails < MaxCmdFails
    /\ cmdFails' = cmdFails + 1
    /\ ignored' = ignored \cup {c.key}
    /\ todo' = Tail(todo)
    /\ wrote' = wrote \cup {c.tool}
    /\ UNCHANGED <<platform, avail, settings, request, listen, outcome, applies>>

\* The call returns: an error when no tool did anything.
ApplyReturns ==
    /\ outcome = "busy" /\ todo = <<>>
    /\ outcome' = IF wrote = {} THEN "failed" ELSE "ok"
    /\ UNCHANGED <<platform, avail, settings, request, listen, todo, wrote, ignored, applies, cmdFails>>

-----------------------------------------------------------------------------
Keys == {"mode", "url", "http", "https", "socks", "same", "enable", "override", "autoState",
         "httpState", "httpsState", "socksState"}
Tools == {"gnome", "kde", "windows", Services[1], Services[2]}

\* Nothing is configured, but for the proxy some user may have entered on Windows.
SysInit ==
    /\ platform \in Platforms
    /\ avail \in SUBSET {t \in {"gnome", "kde"} : platform \in {t, "other"}}
    /\ \E w \in {Absent, Foreign} :
         /\ platform # "windows" => w = Absent
         /\ settings = [k \in Tools \X Keys |-> IF k = <<"windows", "http">> THEN w ELSE Absent]
    /\ request = [mode |-> "disable", value |-> Absent]
    /\ listen = CHOOSE l \in Listens : TRUE
    /\ todo = <<>> /\ wrote = {} /\ ignored = {} /\ outcome = "none"
    /\ applies = 0 /\ cmdFails = 0

SysNext ==
    \/ \E r \in Requests, l \in Listens : ApplySystemProxy(r, l)
    \/ CommandOk \/ CommandFails \/ DeleteIgnored \/ ApplyReturns

\* A running command ends.
SysFairness == WF_sysVars(CommandOk \/ CommandFails \/ DeleteIgnored \/ ApplyReturns)

SysSpec == SysInit /\ [][SysNext]_sysVars /\ SysFairness

-----------------------------------------------------------------------------
SysTypeOK ==
    /\ platform \in Platforms /\ avail \subseteq {"gnome", "kde"}
    /\ DOMAIN settings = Tools \X Keys
    /\ request \in Requests /\ ignored \subseteq Tools \X Keys
    /\ outcome \in {"none", "busy", "ok", "failed"}

\* What a desktop does with its keys.
EffectiveLinux(t) ==
    LET v(k) == settings[<<t, k>>] IN
    CASE v("mode") = "auto" -> [mode |-> "pac", value |-> v("url")]
      [] v("mode") = "manual" /\ v("http") = v("https") /\ v("http") = v("socks") ->
           [mode |-> "global", value |-> v("http")]
      [] v("mode") = "none" -> [mode |-> "disable", value |-> Absent]
      [] OTHER -> [mode |-> "mixed", value |-> Absent]

EffectiveMac(s) ==
    LET v(k) == settings[<<s, k>>]
        all(x) == v("httpState") = x /\ v("httpsState") = x /\ v("socksState") = x IN
    CASE v("autoState") = "on" /\ all("off") -> [mode |-> "pac", value |-> v("url")]
      [] v("autoState") = "off" /\ all("on") /\ v("http") = v("https") /\ v("http") = v("socks") ->
           [mode |-> "global", value |-> v("http")]
      [] v("autoState") = "off" /\ all("off") -> [mode |-> "disable", value |-> Absent]
      [] OTHER -> [mode |-> "mixed", value |-> Absent]

\* ... with the AutoConfigURL `url`, which Windows follows before it looks at ProxyServer.
EffectiveWindows(url) ==
    LET v(k) == settings[<<"windows", k>>] IN
    CASE v("enable") = "0" /\ url # Absent -> [mode |-> "pac", value |-> url]
      [] v("enable") = "1" /\ url = Absent -> [mode |-> "global", value |-> v("http")]
      [] v("enable") = "0" /\ url = Absent -> [mode |-> "disable", value |-> Absent]
      [] OTHER -> [mode |-> "mixed", value |-> Absent]

AutoConfigUrl == <<"windows", "url">>

\* Windows uses r, or would but for an AutoConfigURL that was to be deleted and is not.
WindowsUses(r) ==
    \/ EffectiveWindows(settings[AutoConfigUrl]) = r
    \/ AutoConfigUrl \in ignored /\ EffectiveWindows(Absent) = r

\* A call that reports success has put the requested proxy into effect, whatever a
\* half-finished earlier call had left in the settings: on an unknown Linux desktop with
\* at least one tool, on macOS for every network service.  On Windows the old PAC address
\* may be left, and only if its own deletion failed, which the code does not notice.
AppliedIsEffective ==
    outcome = "ok" =>
      CASE platform \in {"gnome", "kde"} -> EffectiveLinux(platform) = request
        [] platform = "other" -> \E t \in avail : EffectiveLinux(t) = request
        [] platform = "macos" -> \A i \in DOMAIN Services : EffectiveMac(Services[i]) = request
        [] platform = "windows" -> WindowsUses(request)
=============================================================================
