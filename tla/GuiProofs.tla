------------------------------ MODULE GuiProofs ------------------------------
(***************************************************************************)
(* Proofs about the parts of the GUI process: the traffic meter, the proxy *)
(* settings, the node editor, the scripts that set the OS proxy, the lists *)
(* of nodes, the Logs page and the window; and about MCGui, which puts     *)
(* them together.                                                          *)
(***************************************************************************)
EXTENDS MCGui, TLAPS

-----------------------------------------------------------------------------
(* TrafficMeter: no byte is counted twice.                                 *)

\* While a core runs, what its counter shows above the baseline has not been counted yet.
\* The baseline is the last reading, which a locked Juicity connection repeats; without a
\* baseline nothing on the counter has been counted.  A Shadowsocks core's reports lie
\* between the baseline and its counter.
Uncounted ==
    /\ {counter, report, lastTraffic, moved} \subseteq Nat
    /\ coreKind # NoReading =>
         /\ previous = NoReading =>
              lastTraffic = 0 /\ totalBytes + pending + counter <= moved
         /\ previous # NoReading =>
              lastTraffic = previous /\ totalBytes + pending + Minus(counter, previous) <= moved
    /\ coreKind = "shadowsocks" =>
         report <= counter /\ (previous # NoReading => previous <= report)

MeterInv == MeterTypeOK /\ Uncounted /\ NeverOvercounted

\* A meter that has sampled nothing satisfies the invariant.
LEMMA MeterStart == MeterInit => MeterInv
<1> SUFFICES ASSUME MeterInit PROVE MeterInv
  OBVIOUS
<1>1. metering \in BOOLEAN
  BY DEF MeterInit
<1>2. Uncounted /\ NeverOvercounted
  BY MeterAssumption DEF MeterInit, Uncounted, NeverOvercounted
<1>3. MeterTypeOK
  BY <1>1 DEF MeterInit, MeterTypeOK
<1> QED
  BY <1>2, <1>3 DEF MeterInv

\* Every start, reconnect, poll and sample keeps the types.
LEMMA MeterTypeStep == MeterInv /\ [MeterNext]_meterVars => MeterTypeOK'
<1> SUFFICES ASSUME MeterInv, [MeterNext]_meterVars PROVE MeterTypeOK'
  OBVIOUS
<1> USE MeterAssumption DEF MeterInv
<1>1. ASSUME NEW kind \in {"juicity", "shadowsocks", NoReading}, StartMetered(kind) PROVE MeterTypeOK'
  <2>1. metering' \in BOOLEAN
    BY <1>1 DEF StartMetered, Reset
  <2> QED
    BY <1>1, <2>1 DEF StartMetered, Reset, MeterTypeOK
<1>2. CASE StopCore
  <2>1. metering' \in BOOLEAN
    BY <1>2 DEF StopCore, Reset
  <2> QED
    BY <1>2, <2>1 DEF StopCore, Reset, MeterTypeOK
<1>3. CASE Connected \/ LockConnection \/ MoveByte \/ FlowReport
  BY <1>3 DEF Connected, LockConnection, MoveByte, FlowReport, MeterTypeOK, dataVars
<1>4. ASSUME NEW exits \in BOOLEAN, PollCore(exits) PROVE MeterTypeOK'
  <2>1. coreKind' \in {"juicity", "shadowsocks", NoReading} /\ link' = link
    BY <1>4 DEF PollCore, MeterTypeOK
  <2>2. CASE coreKind = NoReading
    <3>1. metering' \in BOOLEAN
      BY <1>4, <2>2 DEF PollCore, RecordNone
    <3> QED
      BY <1>4, <2>1, <2>2, <3>1 DEF PollCore, RecordNone, MeterTypeOK
  <2>3. CASE coreKind # NoReading
    <3>1. RecordSome(Reading)
      BY <1>4, <2>3 DEF PollCore
    <3>2. Reading \in Nat
      BY <2>3 DEF Reading, MeterTypeOK, Uncounted
    <3> DEFINE sum == IF previous = NoReading THEN pending ELSE pending + Minus(Reading, previous)
    <3>3. sum \in Nat
      BY <3>2 DEF Minus, MeterTypeOK
    <3>4. /\ previous' = Reading /\ metering' = TRUE /\ sampleAge' = "young"
          /\ totalBytes' \in {totalBytes, totalBytes + sum} /\ pending' \in {0, sum}
          /\ current' \in {current, sum}
      BY <3>1 DEF RecordSome
    <3> HIDE DEF sum
    <3>5. pending' \in Nat /\ totalBytes' \in Nat /\ current' \in Nat
      BY <3>3, <3>4 DEF MeterTypeOK
    <3> QED
      BY <2>1, <3>2, <3>4, <3>5 DEF MeterTypeOK
  <2> QED
    BY <2>2, <2>3
<1>5. CASE Elapse
  BY <1>5 DEF Elapse, MeterTypeOK, counterVars
<1>6. CASE UNCHANGED meterVars
  BY <1>6 DEF meterVars, counterVars, dataVars, MeterTypeOK
<1> QED
  BY <1>1, <1>2, <1>3, <1>4, <1>5, <1>6 DEF MeterNext

\* Every step keeps what is counted and what is still to be counted within the bytes moved.
LEMMA MeterStep == MeterInv /\ [MeterNext]_meterVars => MeterInv'
<1> SUFFICES ASSUME MeterInv, [MeterNext]_meterVars PROVE Uncounted' /\ NeverOvercounted'
  BY MeterTypeStep DEF MeterInv
<1> USE MeterAssumption DEF MeterInv
<1>1. ASSUME NEW kind \in {"juicity", "shadowsocks", NoReading}, StartMetered(kind)
      PROVE  Uncounted' /\ NeverOvercounted'
  BY <1>1 DEF StartMetered, Reset, MeterTypeOK, Uncounted, NeverOvercounted
<1>2. CASE StopCore
  BY <1>2 DEF StopCore, Reset, MeterTypeOK, Uncounted, NeverOvercounted
<1>3. CASE Connected
  BY <1>3 DEF Connected, dataVars, MeterTypeOK, Uncounted, NeverOvercounted, Minus
<1>4. CASE LockConnection
  BY <1>4 DEF LockConnection, dataVars, MeterTypeOK, Uncounted, NeverOvercounted, Minus
<1>5. CASE MoveByte
  BY <1>5 DEF MoveByte, dataVars, MeterTypeOK, Uncounted, NeverOvercounted, Minus
<1>6. CASE FlowReport
  BY <1>6 DEF FlowReport, dataVars, MeterTypeOK, Uncounted, NeverOvercounted, Minus
<1>7. ASSUME NEW exits \in BOOLEAN, PollCore(exits) PROVE Uncounted' /\ NeverOvercounted'
  <2>1. CASE coreKind = NoReading
    BY <1>7, <2>1 DEF PollCore, RecordNone, MeterTypeOK, Uncounted, NeverOvercounted
  <2>2. CASE coreKind # NoReading
    <3> DEFINE sum == IF previous = NoReading THEN pending ELSE pending + Minus(Reading, previous)
    <3>1. Reading \in Nat /\ sum \in Nat
      BY <2>2 DEF Reading, MeterTypeOK, Uncounted, Minus
    <3>2. /\ previous' = Reading /\ lastTraffic' = Reading
          /\ totalBytes' + pending' = totalBytes + sum
          /\ UNCHANGED <<counter, report, moved>> /\ coreKind' \in {coreKind, NoReading}
      BY <1>7, <2>2, <3>1 DEF PollCore, RecordSome, MeterTypeOK
    <3>3. totalBytes + sum + Minus(counter, Reading) <= moved
          /\ (coreKind = "shadowsocks" => Reading <= report)
      <4>1. CASE coreKind = "shadowsocks"
        BY <4>1 DEF Reading, MeterTypeOK, Uncounted, Minus
      <4>2. CASE coreKind = "juicity" /\ link = "free"
        BY <4>2 DEF Reading, MeterTypeOK, Uncounted, Minus
      <4>3. CASE coreKind = "juicity" /\ link # "free"
        BY <4>3 DEF Reading, MeterTypeOK, Uncounted, Minus
      <4> QED
        BY <2>2, <4>1, <4>2, <4>3 DEF MeterTypeOK
    <3> HIDE DEF sum
    <3>4. Minus(counter, Reading) \in Nat /\ totalBytes \in Nat /\ moved \in Nat
          /\ counter \in Nat /\ report \in Nat
      BY <3>1 DEF Minus, Uncounted, MeterTypeOK
    <3>5. NeverOvercounted'
      BY <3>1, <3>2, <3>3, <3>4 DEF NeverOvercounted
    <3>6. previous' # NoReading
      BY <3>1, <3>2
    <3>7. Minus(counter', previous') = Minus(counter, Reading)
      BY <3>2 DEF Minus
    <3>8. {counter', report', lastTraffic', moved'} \subseteq Nat
      BY <3>1, <3>2, <3>4
    <3>9. totalBytes' + pending' + Minus(counter', previous') <= moved'
      BY <3>2, <3>3, <3>7
    <3>10. coreKind' = "shadowsocks" => report' <= counter' /\ previous' <= report'
      BY <3>2, <3>3 DEF Uncounted
    <3>11. lastTraffic' = previous'
      BY <3>2
    <3> QED
      BY <3>5, <3>6, <3>8, <3>9, <3>10, <3>11 DEF Uncounted
  <2> QED
    BY <2>1, <2>2
<1>8. CASE Elapse
  BY <1>8 DEF Elapse, counterVars, MeterTypeOK, Uncounted, NeverOvercounted, Minus
<1>9. CASE UNCHANGED meterVars
  BY <1>9 DEF meterVars, counterVars, dataVars, Uncounted, NeverOvercounted, Minus
<1> QED
  BY <1>1, <1>2, <1>3, <1>4, <1>5, <1>6, <1>7, <1>8, <1>9 DEF MeterNext

\* The meter keeps its invariant in every behaviour.
LEMMA MeterAlways == MeterSpec => []MeterInv
  BY MeterStart, MeterStep, PTL DEF MeterSpec

\* sample_traffic and TrafficMonitor::record count no byte twice, however often the core's
\* counters restart, a reading repeats an old value or the monitor is reset in between.
THEOREM CountedOnce == MeterSpec => []NeverOvercounted
<1>1. MeterInv => NeverOvercounted
  BY DEF MeterInv
<1> QED
  BY MeterAlways, <1>1, PTL

-----------------------------------------------------------------------------
(* GuiProxy: the OS setting and the PAC server follow the configuration.   *)

PacServers == [listen : PacAddrs,
               content : [rule : RuleModes, proxy : ListenAddrs, version : Nat]]

\* What a PAC server serves was generated from a version the rule file has had.
PacShape ==
    /\ ruleFiles \in [RuleModes -> Nat]
    /\ pac # NoServer => pac \in PacServers /\ pac.content.version <= ruleFiles[pac.content.rule]

ProxyInv == ProxyTypeOK /\ PacShape /\ OsFollowsConfig /\ PacServesConfig

\* Two configurations that differ in nothing apply_system_proxy reads.
LEMMA TargetDepends ==
    ASSUME NEW c \in AppConfigs, NEW d \in AppConfigs, c.mode = d.mode,
           c.mode = "global" => c.listen = d.listen,
           c.mode = "pac" => c.pacListen = d.pacListen /\ c.source = d.source /\ c.url = d.url
    PROVE  Target(c) = Target(d)
<1>1. c.mode \in {"disable", "global", "pac"}
  BY DEF AppConfigs, ModeNames
<1>2. CASE c.mode = "disable"
  BY <1>2 DEF Target
<1>3. CASE c.mode = "global"
  BY <1>3 DEF Target
<1>4. CASE c.mode = "pac"
  BY <1>4 DEF Target, PacUrl
<1> QED
  BY <1>1, <1>2, <1>3, <1>4

\* A disabled configuration asks for no OS proxy.
LEMMA TargetDisable ==
    ASSUME NEW c \in AppConfigs, c.mode = "disable"
    PROVE  Target(c) = Disabled
  BY DEF Target

\* generate_pac of a well-formed configuration.
LEMMA ContentSound ==
    ASSUME NEW c \in AppConfigs, PacShape
    PROVE  /\ Content(c) \in [rule : RuleModes, proxy : ListenAddrs, version : Nat]
           /\ Content(c).rule = c.rule /\ Content(c).proxy = c.listen
           /\ Content(c).version = ruleFiles[c.rule]
  BY DEF Content, AppConfigs, PacShape

\* Whatever restart_pac_server leaves is a server or none, and one at the address of the
\* configuration c serves c, given that this held of the old server if it is kept.
LEMMA PacAfterSound ==
    ASSUME NEW c \in AppConfigs, NEW force \in BOOLEAN, NEW fails \in BOOLEAN,
           PacShape, NEW q, q = PacAfter(c, force, fails), q # NoServer
    PROVE  /\ q \in PacServers /\ q.content.version <= ruleFiles[q.content.rule]
           /\ q.listen = c.pacListen => q.content.rule = c.rule /\ q.content.proxy = c.listen
           /\ ~force \/ ~fails => q.content.rule = c.rule /\ q.content.proxy = c.listen
<1> USE DEF PacServers
<1>1. CASE ~Binds(force)
  <2>1. pac \in PacServers /\ q = [pac EXCEPT !.content = Content(c)]
    BY <1>1 DEF Binds, PacAfter, PacShape
  <2>2. q.content = Content(c) /\ q.listen = pac.listen /\ q \in PacServers
    BY <2>1, ContentSound
  <2>3. ruleFiles[c.rule] \in Nat
    BY DEF PacShape, AppConfigs
  <2> QED
    BY <2>2, <2>3, ContentSound
<1>2. CASE Binds(force) /\ ~fails
  <2>1. q = [listen |-> c.pacListen, content |-> Content(c)]
    BY <1>2 DEF PacAfter
  <2>2. q.content = Content(c) /\ q.listen = c.pacListen /\ q \in PacServers
    BY <2>1, ContentSound DEF AppConfigs
  <2>3. ruleFiles[c.rule] \in Nat
    BY DEF PacShape, AppConfigs
  <2> QED
    BY <2>2, <2>3, ContentSound
<1>3. CASE Binds(force) /\ fails
  <2>1. pac # NoServer /\ pac.listen # c.pacListen /\ q = pac /\ force
    BY <1>3 DEF PacAfter, Binds
  <2> QED
    BY <1>3, <2>1 DEF PacShape
<1> QED
  BY <1>1, <1>2, <1>3

\* The server part of the invariant, from what restart_pac_server leaves.
LEMMA PacPart ==
    ASSUME PacShape, NEW c \in AppConfigs, NEW force \in BOOLEAN, NEW fails \in BOOLEAN,
           pac' = PacAfter(c, force, fails), UNCHANGED ruleFiles, config' = c
    PROVE  PacShape' /\ PacServesConfig'
<1>1. CASE pac' = NoServer
  BY <1>1 DEF PacShape, PacServesConfig
<1>2. CASE pac' # NoServer
  <2>1. /\ pac' \in PacServers /\ pac'.content.version <= ruleFiles[pac'.content.rule]
        /\ pac'.listen = c.pacListen => pac'.content.rule = c.rule /\ pac'.content.proxy = c.listen
    BY <1>2, PacAfterSound
  <2> QED
    BY <2>1 DEF PacShape, PacServesConfig
<1> QED
  BY <1>1, <1>2

\* The server is left alone, and so is what it depends on.
LEMMA PacFrame ==
    ASSUME PacShape, PacServesConfig, UNCHANGED <<pac, ruleFiles>>,
           config'.rule = config.rule, config'.listen = config.listen,
           config'.pacListen = config.pacListen
    PROVE  PacShape' /\ PacServesConfig'
  BY DEF PacShape, PacServesConfig

\* The OS part, from a call of apply_system_proxy that is skipped only when the
\* configuration asks for what it asked for before.
LEMMA OsPart ==
    ASSUME OsFollowsConfig, stale \in BOOLEAN, NEW cond \in BOOLEAN, NEW fails \in BOOLEAN,
           NEW c, config' = c, running, running',
           ApplyWhen(cond, c, fails), cond \/ Target(c) = Target(config)
    PROVE  OsFollowsConfig' /\ stale' \in BOOLEAN
<1>0. Target(c)' = Target(c) /\ Target(config)' = Target(config') /\ Target(config') = Target(c)
  OBVIOUS
<1>1. CASE cond /\ fails
  <2>1. stale' = TRUE
    BY <1>1 DEF ApplyWhen, Apply
  <2> QED
    BY <2>1 DEF OsFollowsConfig
<1>2. CASE cond /\ ~fails
  <2>1. stale' = FALSE /\ os' = Target(c)
    BY <1>2 DEF ApplyWhen, Apply
  <2> QED
    BY <2>1, <1>0 DEF OsFollowsConfig
<1>3. CASE ~cond
  <2>1. stale' = stale /\ os' = os /\ Target(c) = Target(config)
    BY <1>3 DEF ApplyWhen
  <2> QED
    BY <2>1, <1>0 DEF OsFollowsConfig
<1> QED
  BY <1>1, <1>2, <1>3

\* The invariant of the next state, from its parts.
LEMMA ProxyParts ==
    ASSUME running' \in BOOLEAN, stale' \in BOOLEAN, config' \in AppConfigs,
           coreAt' \in ListenAddrs \cup {NoServer},
           job' \in {"idle", "direct", "proxy", "done", "failed"},
           PacShape', PacServesConfig', OsFollowsConfig'
    PROVE  ProxyInv'
<1>1. pac' = NoServer \/ (pac'.listen \in PacAddrs /\ pac'.content.rule \in RuleModes
                          /\ pac'.content.proxy \in ListenAddrs
                          /\ pac'.content.version <= ruleFiles'[pac'.content.rule])
  BY DEF PacShape, PacServers
<1> QED
  BY <1>1 DEF ProxyInv, ProxyTypeOK

\* Every handler of the proxy pages keeps the OS and the PAC server in line.
LEMMA PageStep == ProxyInv /\ PageHandler => ProxyInv'
<1>b. \A S : ("bind" \in S) \in BOOLEAN /\ ("apply" \in S) \in BOOLEAN
  OBVIOUS
<1> SUFFICES ASSUME ProxyInv, NEW fail \in SUBSET {"bind", "apply", "start"}, Handler(fail),
                    \/ \E m \in ModeNames : SetProxyMode(m, fail)
                    \/ \E r \in RuleModes : SetPacRule(r, fail)
                    \/ \E s \in {"local", "online"} :
                         ChangePacSource([config EXCEPT !.source = s], fail)
                    \/ \E u \in {NoUrl, OnlineUrl} : ChangePacSource([config EXCEPT !.url = u], fail)
                    \/ \E l \in ListenAddrs : ChangeListen(l, fail)
                    \/ \E a \in PacAddrs : ChangePacListen(a, fail)
                    \/ ToggleCore(fail)
                    \/ fail = {} /\ UpdateRules
                    \/ \E m \in ModeNames, a \in PacAddrs :
                         ReloadConfig([config EXCEPT !.mode = m, !.pacListen = a], fail)
                    \/ \E l \in ListenAddrs, r \in RuleModes :
                         ReloadConfig([config EXCEPT !.listen = l, !.rule = r], fail)
             PROVE  ProxyInv'
  BY DEF PageHandler
<1> DEFINE bind == "bind" \in fail
           apply == "apply" \in fail
<1>0. /\ running /\ running' /\ stale \in BOOLEAN /\ config \in AppConfigs
      /\ coreAt \in ListenAddrs \cup {NoServer} /\ bind \in BOOLEAN /\ apply \in BOOLEAN
      /\ job \in {"idle", "direct", "proxy", "done", "failed"}
      /\ PacShape /\ PacServesConfig /\ OsFollowsConfig
  <2>1. bind \in BOOLEAN /\ apply \in BOOLEAN
    BY <1>b
  <2>2. running /\ running' = running
    BY DEF Handler
  <2>3. /\ stale \in BOOLEAN /\ config \in AppConfigs /\ coreAt \in ListenAddrs \cup {NoServer}
        /\ job \in {"idle", "direct", "proxy", "done", "failed"}
        /\ PacShape /\ PacServesConfig /\ OsFollowsConfig
    BY DEF ProxyInv, ProxyTypeOK
  <2> QED
    BY <2>1, <2>2, <2>3, Zenon
<1>r. running' \in BOOLEAN
  BY DEF Handler, ProxyInv, ProxyTypeOK
<1>1. ASSUME NEW m \in ModeNames, SetProxyMode(m, fail) PROVE ProxyInv'
  <2>1. config' \in AppConfigs /\ config'.rule = config.rule /\ config'.listen = config.listen
        /\ config'.pacListen = config.pacListen
    BY <1>0, <1>1 DEF SetProxyMode, AppConfigs
  <2>2. ApplyWhen(TRUE, config', apply) /\ UNCHANGED <<pac, coreAt, job, ruleFiles>>
    BY <1>1 DEF SetProxyMode, ApplyWhen
  <2>3. OsFollowsConfig' /\ stale' \in BOOLEAN
    BY <1>0, <2>2, OsPart
  <2>4. PacShape' /\ PacServesConfig'
    BY <1>0, <2>1, <2>2, PacFrame
  <2> QED
    BY <1>0, <1>r, <2>1, <2>2, <2>3, <2>4, ProxyParts
<1>2. ASSUME NEW r \in RuleModes, SetPacRule(r, fail) PROVE ProxyInv'
  <2>1. config' \in AppConfigs /\ config' = [config EXCEPT !.rule = r]
    BY <1>0, <1>2 DEF SetPacRule, AppConfigs
  <2>2. pac' = PacAfter(config', FALSE, bind) /\ UNCHANGED <<os, stale, coreAt, job, ruleFiles>>
    BY <1>2 DEF SetPacRule
  <2>3. PacShape' /\ PacServesConfig'
    BY <1>0, <2>1, <2>2, PacPart
  <2>4. Target(config') = Target(config)
    <3>1. /\ config'.mode = config.mode /\ config'.listen = config.listen /\ config'.url = config.url
          /\ config'.pacListen = config.pacListen /\ config'.source = config.source
      BY <1>0, <2>1 DEF AppConfigs
    <3> QED
      BY <1>0, <2>1, <3>1, TargetDepends
  <2>5. OsFollowsConfig'
    BY <1>0, <2>2, <2>4 DEF OsFollowsConfig
  <2> QED
    BY <1>0, <1>r, <2>1, <2>2, <2>3, <2>5, ProxyParts
<1>3. ASSUME NEW c \in AppConfigs, ChangePacSource(c, fail), c.mode = config.mode, c.rule = config.rule,
             c.listen = config.listen, c.pacListen = config.pacListen
      PROVE  ProxyInv'
  <2>1. config' = c /\ ApplyWhen(c.mode = "pac", c, apply) /\ UNCHANGED <<pac, coreAt, job, ruleFiles>>
    BY <1>3 DEF ChangePacSource
  <2>2. (c.mode = "pac") \/ Target(c) = Target(config)
    BY <1>0, <1>3, TargetDepends
  <2>3. OsFollowsConfig' /\ stale' \in BOOLEAN
    <3>1. (c.mode = "pac") \in BOOLEAN
      OBVIOUS
    <3> QED
      BY <1>0, <2>1, <2>2, <3>1, OsPart
  <2>4. PacShape' /\ PacServesConfig'
    BY <1>0, <1>3, <2>1, PacFrame
  <2> QED
    BY <1>0, <1>3, <1>r, <2>1, <2>3, <2>4, ProxyParts
<1>4. ASSUME NEW l \in ListenAddrs, ChangeListen(l, fail) PROVE ProxyInv'
  <2> DEFINE c == [config EXCEPT !.listen = l]
  <2>1. c \in AppConfigs /\ c.mode = config.mode /\ c.pacListen = config.pacListen
        /\ c.source = config.source /\ c.url = config.url
    BY <1>0 DEF AppConfigs
  <2>2. /\ config' = c /\ pac' = PacAfter(c, FALSE, bind) /\ UNCHANGED <<job, ruleFiles>>
        /\ ApplyWhen(config.mode # "disable", c, apply) /\ coreAt' \in ListenAddrs \cup {NoServer}
    BY <1>4 DEF ChangeListen
  <2> HIDE DEF c
  <2>3. (config.mode # "disable") \/ Target(c) = Target(config)
    BY <1>0, <2>1, TargetDisable
  <2>4. OsFollowsConfig' /\ stale' \in BOOLEAN
    <3>1. (config.mode # "disable") \in BOOLEAN
      OBVIOUS
    <3> QED
      BY <1>0, <2>2, <2>3, <3>1, OsPart
  <2>5. PacShape' /\ PacServesConfig'
    BY <1>0, <2>1, <2>2, PacPart
  <2> QED
    BY <1>0, <1>r, <2>1, <2>2, <2>4, <2>5, ProxyParts
<1>5. ASSUME NEW a \in PacAddrs, ChangePacListen(a, fail) PROVE ProxyInv'
  <2> DEFINE c == [config EXCEPT !.pacListen = a]
  <2>1. c \in AppConfigs /\ c.mode = config.mode /\ c.pacListen = a /\ c.rule = config.rule
        /\ c.source = config.source /\ c.url = config.url /\ c.listen = config.listen
    BY <1>0 DEF AppConfigs
  <2>2. /\ pac' = PacAfter(c, TRUE, bind) /\ UNCHANGED <<coreAt, job, ruleFiles>>
        /\ config.pacListen # a
        /\ IF bind THEN UNCHANGED <<config, os, stale>>
           ELSE config' = c /\ ApplyWhen(c.mode = "pac", c, apply)
    BY <1>5 DEF ChangePacListen
  <2> HIDE DEF c
  <2>3. CASE ~bind
    <3>1. config' = c /\ ApplyWhen(c.mode = "pac", c, apply)
      BY <2>2, <2>3
    <3>2. (c.mode = "pac") \in BOOLEAN /\ ((c.mode = "pac") \/ Target(c) = Target(config))
      BY <1>0, <2>1, TargetDepends
    <3>3. OsFollowsConfig' /\ stale' \in BOOLEAN
      BY <1>0, <3>1, <3>2, OsPart
    <3>4. PacShape' /\ PacServesConfig'
      BY <1>0, <2>1, <2>2, <3>1, PacPart
    <3> QED
      BY <1>0, <1>r, <2>1, <2>2, <3>1, <3>3, <3>4, ProxyParts
  <2>4. CASE bind
    <3>1. UNCHANGED <<config, os, stale>>
      BY <2>2, <2>4
    <3>2. pac' = NoServer \/ pac' = pac
      BY <2>2, <2>4 DEF PacAfter, Binds
    <3>3. PacShape' /\ PacServesConfig'
      BY <1>0, <2>2, <3>1, <3>2 DEF PacShape, PacServesConfig
    <3>4. OsFollowsConfig'
      BY <1>0, <3>1 DEF OsFollowsConfig
    <3> QED
      BY <1>0, <1>r, <2>2, <3>1, <3>3, <3>4, ProxyParts
  <2> QED
    BY <2>3, <2>4
<1>6. CASE ToggleCore(fail) \/ UpdateRules
  <2>1. UNCHANGED <<config, pac, os, stale, ruleFiles>> /\ coreAt' \in ListenAddrs \cup {NoServer}
        /\ job' \in {"idle", "direct", "proxy", "done", "failed"}
    BY <1>0, <1>6 DEF ToggleCore, UpdateRules, AppConfigs
  <2>2. PacShape' /\ PacServesConfig' /\ OsFollowsConfig'
    BY <1>0, <2>1 DEF PacShape, PacServesConfig, OsFollowsConfig
  <2> QED
    BY <1>0, <1>r, <2>1, <2>2, ProxyParts
<1>7. ASSUME NEW c \in AppConfigs, ReloadConfig(c, fail) PROVE ProxyInv'
  <2> DEFINE force == c.pacListen # config.pacListen
             lost == Binds(force) /\ bind
             changed == \E f \in {"mode", "listen", "pacListen", "source", "url"} : c[f] # config[f]
  <2>1. /\ config' = c /\ pac' = PacAfter(c, force, bind) /\ UNCHANGED <<coreAt, job, ruleFiles>>
        /\ IF lost THEN stale' = TRUE /\ UNCHANGED os ELSE ApplyWhen(changed, c, apply)
    BY <1>7 DEF ReloadConfig
  <2>2. force \in BOOLEAN /\ changed \in BOOLEAN
    OBVIOUS
  <2>3. PacShape' /\ PacServesConfig'
    BY <1>0, <2>1, <2>2, PacPart
  <2>4. changed \/ Target(c) = Target(config)
    <3>1. CASE ~changed
      <4>1. c.mode = config.mode /\ c.listen = config.listen /\ c.pacListen = config.pacListen
            /\ c.source = config.source /\ c.url = config.url
        BY <3>1
      <4> QED
        BY <1>0, <4>1, TargetDepends
    <3> QED
      BY <3>1
  <2> HIDE DEF force, lost, changed
  <2>5. OsFollowsConfig' /\ stale' \in BOOLEAN
    <3>1. CASE lost
      BY <2>1, <3>1 DEF OsFollowsConfig
    <3>2. CASE ~lost
      <4>1. ApplyWhen(changed, c, apply)
        BY <2>1, <3>2
      <4> QED
        BY <1>0, <2>1, <2>2, <2>4, <4>1, OsPart
    <3> QED
      BY <3>1, <3>2
  <2> QED
    BY <1>0, <1>7, <1>r, <2>1, <2>3, <2>5, ProxyParts
<1>8. ASSUME NEW s \in {"local", "online"}, ChangePacSource([config EXCEPT !.source = s], fail)
      PROVE  ProxyInv'
  <2> DEFINE c == [config EXCEPT !.source = s]
  <2>1. c \in AppConfigs /\ c.mode = config.mode /\ c.pacListen = config.pacListen /\ c.rule = config.rule
        /\ c.listen = config.listen
    BY <1>0 DEF AppConfigs
  <2> QED
    BY <1>3, <1>8, <2>1
<1>9. ASSUME NEW u \in {NoUrl, OnlineUrl}, ChangePacSource([config EXCEPT !.url = u], fail)
      PROVE  ProxyInv'
  <2> DEFINE c == [config EXCEPT !.url = u]
  <2>1. c \in AppConfigs /\ c.mode = config.mode /\ c.pacListen = config.pacListen /\ c.rule = config.rule
        /\ c.listen = config.listen
    BY <1>0 DEF AppConfigs
  <2> QED
    BY <1>3, <1>9, <2>1
<1>10. ASSUME NEW m \in ModeNames, NEW a \in PacAddrs,
              ReloadConfig([config EXCEPT !.mode = m, !.pacListen = a], fail)
       PROVE  ProxyInv'
  <2>1. [config EXCEPT !.mode = m, !.pacListen = a] \in AppConfigs
    BY <1>0 DEF AppConfigs
  <2> QED
    BY <1>7, <1>10, <2>1
<1>11. ASSUME NEW l \in ListenAddrs, NEW r \in RuleModes,
              ReloadConfig([config EXCEPT !.listen = l, !.rule = r], fail)
       PROVE  ProxyInv'
  <2>1. [config EXCEPT !.listen = l, !.rule = r] \in AppConfigs
    BY <1>0 DEF AppConfigs
  <2> QED
    BY <1>7, <1>11, <2>1
<1> QED
  BY <1>1, <1>2, <1>4, <1>5, <1>6, <1>8, <1>9, <1>10, <1>11

\* A process that is not running has no OS proxy and no PAC server.
LEMMA ProxyStart == ProxyInit => ProxyInv
<1> SUFFICES ASSUME ProxyInit PROVE ProxyInv
  OBVIOUS
<1>1. config \in AppConfigs
  <2>1. (CHOOSE l \in ListenAddrs : TRUE) \in ListenAddrs /\ (CHOOSE a \in PacAddrs : TRUE) \in PacAddrs
    BY ProxyAssumption
  <2> QED
    BY <2>1 DEF ProxyInit, AppConfigs, RuleModes
<1>2. running \in BOOLEAN /\ stale \in BOOLEAN
  BY DEF ProxyInit
<1>3. ProxyTypeOK
  BY <1>1, <1>2 DEF ProxyInit, ProxyTypeOK
<1>4. PacShape /\ PacServesConfig
  BY DEF ProxyInit, PacShape, PacServesConfig
<1>5. OsFollowsConfig
  BY DEF ProxyInit, OsFollowsConfig
<1> QED
  BY <1>3, <1>4, <1>5 DEF ProxyInv

\* Every handler, reload, download, start, shutdown and kill keeps both in line.
LEMMA ProxyStep == ProxyInv /\ [ProxyNext]_proxyVars => ProxyInv'
<1> SUFFICES ASSUME ProxyInv, [ProxyNext]_proxyVars PROVE ProxyInv'
  OBVIOUS
<1>0. /\ running \in BOOLEAN /\ stale \in BOOLEAN /\ config \in AppConfigs
      /\ coreAt \in ListenAddrs \cup {NoServer}
      /\ job \in {"idle", "direct", "proxy", "done", "failed"}
      /\ PacShape /\ PacServesConfig /\ OsFollowsConfig
  BY DEF ProxyInv, ProxyTypeOK
<1>1. ASSUME NEW file \in RuleModes, NEW here, NEW next \in {"proxy", "done"}, Download(file, here, next)
      PROVE  ProxyInv'
  <2>1. UNCHANGED <<running, config, pac, os, coreAt, stale>>
        /\ job' \in {"idle", "direct", "proxy", "done", "failed"}
        /\ ruleFiles' \in {ruleFiles, [ruleFiles EXCEPT ![file] = @ + 1]}
    BY <1>1 DEF Download
  <2>2. ruleFiles' \in [RuleModes -> Nat] /\ \A r \in RuleModes : ruleFiles[r] <= ruleFiles'[r]
    BY <1>0, <2>1 DEF PacShape
  <2>3. PacShape'
    <3>1. ASSUME pac # NoServer
          PROVE  pac \in PacServers /\ pac.content.version <= ruleFiles'[pac.content.rule]
      <4>1. pac \in PacServers /\ pac.content.version <= ruleFiles[pac.content.rule]
        BY <1>0, <3>1 DEF PacShape
      <4>2. pac.content.rule \in RuleModes /\ pac.content.version \in Nat
        BY <4>1 DEF PacServers
      <4>3. ruleFiles[pac.content.rule] \in Nat /\ ruleFiles'[pac.content.rule] \in Nat
        BY <1>0, <2>2, <4>2 DEF PacShape
      <4> QED
        BY <2>2, <4>1, <4>2, <4>3
    <3> QED
      BY <2>1, <2>2, <3>1 DEF PacShape
  <2>4. PacServesConfig' /\ OsFollowsConfig'
    BY <1>0, <2>1 DEF PacServesConfig, OsFollowsConfig
  <2> QED
    BY <1>0, <2>1, <2>3, <2>4, ProxyParts
<1>2. CASE FinishRules
  <2>1. UNCHANGED <<running, config, os, coreAt, ruleFiles, stale>> /\ job' = "idle"
    BY <1>2 DEF FinishRules
  <2>2. pac' = pac \/ \E fails \in BOOLEAN : pac' = PacAfter(config, FALSE, fails)
    BY <1>2 DEF FinishRules
  <2>3. PacShape' /\ PacServesConfig'
    <3>1. CASE pac' = pac
      BY <1>0, <2>1, <3>1, PacFrame
    <3>2. ASSUME NEW fails \in BOOLEAN, pac' = PacAfter(config, FALSE, fails)
          PROVE  PacShape' /\ PacServesConfig'
      BY <1>0, <2>1, <3>2, PacPart
    <3> QED
      BY <2>2, <3>1, <3>2
  <2>4. OsFollowsConfig'
    BY <1>0, <2>1 DEF OsFollowsConfig
  <2> QED
    BY <1>0, <2>1, <2>3, <2>4, ProxyParts
<1>3. CASE ProxyStartup
  <2>1. PICK fail \in SUBSET {"bind", "apply"}, connect \in BOOLEAN, overdue \in BOOLEAN :
          /\ ~running /\ running' = TRUE
          /\ pac' = PacAfter(config, TRUE, "bind" \in fail)
          /\ coreAt' = IF connect THEN config.listen ELSE NoServer
          /\ ApplyWhen(config.mode # "disable", config, "apply" \in fail)
          /\ job' = IF overdue THEN "direct" ELSE "idle"
          /\ UNCHANGED <<config, ruleFiles>>
    BY <1>3 DEF ProxyStartup
  <2>2. PacShape' /\ PacServesConfig'
    <3>1. ("bind" \in fail) \in BOOLEAN
      OBVIOUS
    <3> QED
      BY <1>0, <2>1, <3>1, PacPart
  <2>3. OsFollowsConfig' /\ stale' \in BOOLEAN
    <3>1. CASE config.mode # "disable" /\ "apply" \in fail
      <4>1. stale' = TRUE
        BY <2>1, <3>1 DEF ApplyWhen, Apply
      <4> QED
        BY <4>1 DEF OsFollowsConfig
    <3>2. CASE config.mode # "disable" /\ "apply" \notin fail
      <4>1. stale' = FALSE /\ os' = Target(config) /\ config' = config /\ running'
        BY <2>1, <3>2 DEF ApplyWhen, Apply
      <4> QED
        BY <4>1 DEF OsFollowsConfig
    <3>3. CASE config.mode = "disable"
      <4>1. UNCHANGED <<stale, os, config>> /\ running' /\ ~running
        BY <2>1, <3>3 DEF ApplyWhen
      <4>2. Target(config) = Disabled
        BY <1>0, <3>3, TargetDisable
      <4> QED
        BY <1>0, <4>1, <4>2 DEF OsFollowsConfig
    <3> QED
      BY <3>1, <3>2, <3>3
  <2>4. coreAt' \in ListenAddrs \cup {NoServer}
    BY <1>0, <2>1 DEF AppConfigs
  <2>5. job' \in {"idle", "direct", "proxy", "done", "failed"} /\ config' \in AppConfigs
    BY <1>0, <2>1
  <2>6. running' \in BOOLEAN
    BY <2>1
  <2> QED
    BY <2>2, <2>3, <2>4, <2>5, <2>6, ProxyParts
<1>4. CASE ProxyShutdown \/ ProxyKilled
  <2>1. /\ running /\ running' = FALSE /\ pac' = NoServer /\ coreAt' = NoServer /\ job' = "idle"
        /\ UNCHANGED <<config, ruleFiles>>
    BY <1>4 DEF ProxyShutdown, ProxyKilled, ProcessEnds
  <2>2. PacShape' /\ PacServesConfig'
    BY <1>0, <2>1 DEF PacShape, PacServesConfig
  <2>3. OsFollowsConfig' /\ stale' \in BOOLEAN
    <3>1. CASE ProxyKilled
      <4>1. stale' = TRUE
        BY <3>1 DEF ProxyKilled
      <4> QED
        BY <4>1 DEF OsFollowsConfig
    <3>2. CASE ProxyShutdown /\ config.mode # "disable"
      <4>1. PICK fails \in BOOLEAN : Apply(Disabled, fails)
        BY <3>2 DEF ProxyShutdown
      <4>2. stale' = TRUE \/ (stale' = FALSE /\ os' = Disabled)
        BY <4>1 DEF Apply
      <4>3. Disabled' = Disabled
        BY DEF Disabled
      <4> QED
        BY <2>1, <4>2, <4>3 DEF OsFollowsConfig
    <3>3. CASE ProxyShutdown /\ config.mode = "disable"
      <4>1. UNCHANGED <<os, stale>>
        BY <3>3 DEF ProxyShutdown
      <4>2. Target(config) = Disabled
        BY <1>0, <3>3, TargetDisable
      <4> QED
        BY <1>0, <2>1, <4>1, <4>2 DEF OsFollowsConfig
    <3> QED
      BY <1>4, <3>1, <3>2, <3>3
  <2>4. running' \in BOOLEAN
    BY <2>1
  <2> QED
    BY <1>0, <2>1, <2>2, <2>3, <2>4, ProxyParts
<1>5. CASE CoreLost
  <2>1. UNCHANGED <<running, config, pac, os, job, ruleFiles, stale>> /\ coreAt' = NoServer
    BY <1>5 DEF CoreLost
  <2>2. PacShape' /\ PacServesConfig' /\ OsFollowsConfig'
    BY <1>0, <2>1 DEF PacShape, PacServesConfig, OsFollowsConfig
  <2> QED
    BY <1>0, <2>1, <2>2, ProxyParts
<1>6. CASE UNCHANGED proxyVars
  <2>1. UNCHANGED <<running, config, pac, os, coreAt, job, ruleFiles, stale>>
    BY <1>6 DEF proxyVars
  <2>2. PacShape' /\ PacServesConfig' /\ OsFollowsConfig'
    BY <1>0, <2>1 DEF PacShape, PacServesConfig, OsFollowsConfig
  <2> QED
    BY <1>0, <2>1, <2>2, ProxyParts
<1>7. CASE DownloadDirect \/ DownloadProxy
  BY <1>1, <1>7 DEF DownloadDirect, DownloadProxy, RuleModes
<1> QED
  BY <1>2, <1>3, <1>4, <1>5, <1>6, <1>7, PageStep DEF ProxyNext

\* The proxy settings keep their invariant in every behaviour.
LEMMA ProxyAlways == ProxySpec => []ProxyInv
  BY ProxyStart, ProxyStep, PTL DEF ProxySpec

\* set_proxy_mode, apply_listen_change, reapply_pac_proxy, change_pac_listen, the reload of
\* app.json, startup and shutdown, each re-applying the OS proxy on a condition of its own,
\* between them miss no case: the OS follows the configuration unless the last attempt
\* failed, for any set of addresses.
THEOREM OsInLine == ProxySpec => []OsFollowsConfig
<1>1. ProxyInv => OsFollowsConfig
  BY DEF ProxyInv
<1> QED
  BY ProxyAlways, <1>1, PTL

\* restart_pac_server, whichever of its binds fails, never leaves a server at the
\* configured address with the rules or the proxy address of an earlier configuration.
THEOREM PacInLine == ProxySpec => []PacServesConfig
<1>1. ProxyInv => PacServesConfig
  BY DEF ProxyInv
<1> QED
  BY ProxyAlways, <1>1, PTL

-----------------------------------------------------------------------------
(* NodeEditor: what is shown is what is stored.                            *)

Written == {"", " ", "v", " v ", "bad", "juicity", "shadowsocks", "aes", "none"}

\* The texts of a draft, and of a stored profile.
IsDraft(d) == d \in [Fields -> Written] /\ \A f \in Fields : d[f] \in Texts[f]
IsProfile(p) == p \in [Fields -> Written] /\ \A f \in Fields : p[f] \in Texts[f] \ {"bad"}

\* The errors shown are errors of the draft as it is; they may be fewer, for a node that
\* was just loaded.
ErrorsCurrent == errors \subseteq Errors(draft)

EditorShape ==
    /\ chosen \in Nodes
    /\ stored \in [Nodes -> [Fields -> Written]] /\ \A n \in Nodes : IsProfile(stored[n])
    /\ IsDraft(draft)
    /\ sheet # Closed => IsDraft(sheet)
    /\ setting \in [value : {"v"}, draft : {"v", " v ", "bad", Closed}, error : BOOLEAN]

EditorInv == EditorShape /\ ErrorsCurrent /\ ShownIsStored

\* The texts a user can type into each field.
LEMMA FieldTexts ==
    /\ Texts["protocol"] = {"juicity", "shadowsocks"} /\ Texts["method"] = {"aes", "none"}
    /\ Texts["server"] = {"", " ", "v", " v "} /\ Texts["uuid"] = {"", " ", "v"}
    /\ Texts["password"] = {"", "v"} /\ Texts["port"] = {"v", " v ", "bad"}
    /\ Texts["sni"] = {"", " ", "v"} /\ Texts["timeout"] = {"v", "bad"}
    /\ \A f \in Fields : Texts[f] \subseteq Written
  BY DEF Texts, Fields, Written

\* str::trim stays within the texts of a field and is idempotent.
LEMMA TrimSound ==
    ASSUME NEW f \in Fields, NEW t \in Texts[f], t = "bad" => f \notin {"port", "timeout"}
    PROVE  Trim(t) \in Texts[f] \ {"bad"} /\ t \in Texts[f] \ {"bad"} /\ Trim(Trim(t)) = Trim(t)
  BY FieldTexts DEF Fields, Trim

\* apply_to makes a profile, which agrees with the draft in every field without an error
\* and keeps the old value in the others.
LEMMA ApplySound ==
    ASSUME NEW d, NEW p, IsDraft(d), IsProfile(p)
    PROVE  /\ IsProfile(ApplyTo(d, p))
           /\ \A f \in Fields : f \in Errors(d) => ApplyTo(d, p)[f] = p[f]
           /\ \A f \in Fields : f \notin Errors(d) => Trim(ApplyTo(d, p)[f]) = Trim(d[f])
<1> DEFINE q == ApplyTo(d, p)
<1>1. \A f \in Fields : q[f] = IF f \in Errors(d) THEN p[f]
                               ELSE IF f = "password" THEN d[f] ELSE Trim(d[f])
  BY DEF ApplyTo
<1>2. q = [f \in Fields |-> q[f]]
  BY DEF ApplyTo
<1> HIDE DEF q
<1>3. ASSUME NEW f \in Fields
      PROVE  /\ q[f] \in Texts[f] \ {"bad"}
             /\ f \in Errors(d) => q[f] = p[f]
             /\ f \notin Errors(d) => Trim(q[f]) = Trim(d[f])
  <2>1. CASE f \in Errors(d)
    BY <1>1, <2>1 DEF IsProfile
  <2>2. CASE f \notin Errors(d)
    <3>1. d[f] = "bad" => f \notin {"port", "timeout"}
      BY <2>2 DEF Errors
    <3>2. d[f] \in Texts[f]
      BY DEF IsDraft
    <3> QED
      BY <1>1, <2>2, <3>1, <3>2, TrimSound
  <2> QED
    BY <2>1, <2>2
<1>4. \A f \in Fields : q[f] \in Written
  BY <1>3, FieldTexts
<1>5. q \in [Fields -> Written]
  BY <1>2, <1>4
<1> QED
  BY <1>3, <1>5 DEF IsProfile, q

\* A stored profile can be loaded as a draft.
LEMMA ProfileIsDraft ==
    ASSUME NEW p, IsProfile(p)
    PROVE  IsDraft(p)
  BY DEF IsProfile, IsDraft

\* The profiles that a run starts with are profiles.
LEMMA StartProfiles == IsProfile(FullProfile) /\ IsProfile(BlankProfile)
<1>1. FullProfile \in [Fields -> Written] /\ \A f \in Fields : FullProfile[f] \in Texts[f] \ {"bad"}
  BY FieldTexts DEF FullProfile, Fields, Written
<1>2. BlankProfile \in [Fields -> Written]
  BY <1>1 DEF BlankProfile, Written, Fields
<1>3. \A f \in Fields : BlankProfile[f] = IF f \in {"server", "uuid", "password"} THEN "" ELSE FullProfile[f]
  BY <1>1 DEF BlankProfile, Fields
<1>4. \A f \in Fields : BlankProfile[f] \in Texts[f] \ {"bad"}
  BY <1>1, <1>3, FieldTexts DEF Fields
<1> QED
  BY <1>1, <1>2, <1>4 DEF IsProfile

\* commit_draft keeps the invariant.
LEMMA CommitSound ==
    ASSUME EditorInv, NEW d, IsDraft(d), CommitDraft(d),
           sheet' = sheet \/ sheet' = Closed, UNCHANGED <<shared, setting>>
    PROVE  EditorInv'
<1> DEFINE p == stored[chosen]
           q == ApplyTo(d, p)
<1>1. chosen \in Nodes /\ IsProfile(p)
  BY DEF EditorInv, EditorShape
<1>2. draft' = d /\ errors' = Errors(d) /\ chosen' = chosen /\ stored' = [stored EXCEPT ![chosen] = q]
  BY DEF CommitDraft
<1>3. /\ IsProfile(q)
      /\ \A f \in Fields : f \in Errors(d) => q[f] = p[f]
      /\ \A f \in Fields : f \notin Errors(d) => Trim(q[f]) = Trim(d[f])
  BY <1>1, ApplySound
<1> HIDE DEF p, q
<1>4. stored'[chosen'] = q /\ stored' \in [Nodes -> [Fields -> Written]]
      /\ \A n \in Nodes : IsProfile(stored'[n])
  <2>1. q \in [Fields -> Written] /\ stored \in [Nodes -> [Fields -> Written]]
    BY <1>3 DEF IsProfile, EditorInv, EditorShape
  <2>2. ASSUME NEW n \in Nodes PROVE IsProfile(stored'[n])
    <3>1. stored'[n] = IF n = chosen THEN q ELSE stored[n]
      BY <1>1, <1>2, <2>1
    <3>2. IsProfile(stored[n])
      BY DEF EditorInv, EditorShape
    <3> QED
      BY <1>3, <3>1, <3>2
  <2> QED
    BY <1>1, <1>2, <2>1, <2>2
<1>5. EditorShape'
  <2>1. sheet' # Closed => IsDraft(sheet')
    BY DEF EditorInv, EditorShape
  <2>2. setting' \in [value : {"v"}, draft : {"v", " v ", "bad", Closed}, error : BOOLEAN]
    BY DEF EditorInv, EditorShape
  <2>3. IsDraft(draft')
    BY <1>2
  <2> QED
    BY <1>1, <1>2, <1>4, <2>1, <2>2, <2>3 DEF EditorShape
<1>6. ErrorsCurrent'
  BY <1>2 DEF ErrorsCurrent
<1>7. ASSUME NEW f \in Fields
      PROVE  \/ Trim(d[f]) = Trim(q[f])
             \/ f \in Errors(d) /\ Unapplied(d, q)
  <2>1. CASE f \in Errors(d) /\ d[f] # q[f]
    BY <2>1 DEF Unapplied
  <2>2. CASE f \in Errors(d) /\ d[f] = q[f]
    BY <2>2
  <2>3. CASE f \notin Errors(d)
    BY <1>3, <2>3
  <2> QED
    BY <2>1, <2>2, <2>3
<1>8. \A f \in Fields : \/ Trim(draft'[f]) = Trim(stored'[chosen'][f])
                        \/ f \in errors' /\ Unapplied(draft', stored'[chosen'])
  BY <1>2, <1>4, <1>7
<1>9. shared' # Closed => shared'.node = chosen'
  BY <1>2 DEF EditorInv, ShownIsStored
<1>10. ShownIsStored'
  BY <1>8, <1>9 DEF ShownIsStored
<1> QED
  BY <1>5, <1>6, <1>10 DEF EditorInv

\* load_selected keeps it.
LEMMA LoadSound ==
    ASSUME EditorInv, NEW n \in Nodes, LoadSelected(n),
           stored' \in [Nodes -> [Fields -> Written]], \A m \in Nodes : IsProfile(stored'[m]),
           sheet' = sheet \/ sheet' = Closed, UNCHANGED setting
    PROVE  EditorInv'
<1>1. chosen' = n /\ draft' = stored'[n] /\ errors' = {} /\ shared' = Closed
  BY DEF LoadSelected
<1>2. IsDraft(draft')
  BY <1>1, ProfileIsDraft
<1>3. sheet' # Closed => IsDraft(sheet')
  BY DEF EditorInv, EditorShape
<1>4. setting' \in [value : {"v"}, draft : {"v", " v ", "bad", Closed}, error : BOOLEAN]
  BY DEF EditorInv, EditorShape
<1>5. EditorShape'
  BY <1>1, <1>2, <1>3, <1>4 DEF EditorShape
<1>6. ErrorsCurrent' /\ ShownIsStored'
  BY <1>1 DEF ErrorsCurrent, ShownIsStored
<1> QED
  BY <1>5, <1>6 DEF EditorInv

\* Handlers that leave the nodes and the draft alone, but may refresh the errors.
LEMMA KeepSound ==
    ASSUME EditorInv, UNCHANGED <<stored, chosen, draft>>,
           errors' = errors \/ errors' = Errors(draft),
           sheet' # Closed => IsDraft(sheet'),
           shared' # Closed => shared'.node = chosen,
           setting' \in [value : {"v"}, draft : {"v", " v ", "bad", Closed}, error : BOOLEAN]
    PROVE  EditorInv'
<1>1. EditorShape'
  <2>1. /\ chosen \in Nodes /\ stored \in [Nodes -> [Fields -> Written]]
        /\ \A n \in Nodes : IsProfile(stored[n])
        /\ IsDraft(draft)
    BY DEF EditorInv, EditorShape
  <2> QED
    BY <2>1 DEF EditorShape
<1>2. errors \subseteq errors' /\ errors' \subseteq Errors(draft)
  BY DEF EditorInv, ErrorsCurrent
<1>3. ErrorsCurrent'
  BY <1>2 DEF ErrorsCurrent
<1>4. \A f \in Fields : \/ Trim(draft[f]) = Trim(stored[chosen][f])
                        \/ f \in errors /\ Unapplied(draft, stored[chosen])
  BY DEF EditorInv, ShownIsStored
<1>5. ShownIsStored'
  BY <1>2, <1>4 DEF ShownIsStored
<1> QED
  BY <1>1, <1>3, <1>5 DEF EditorInv

\* An editor that has just loaded a node satisfies the invariant.
LEMMA EditorStart == EditorInit => EditorInv
<1> SUFFICES ASSUME EditorInit PROVE EditorInv
  OBVIOUS
<1>1. chosen \in Nodes /\ draft = stored[chosen] /\ errors = {} /\ sheet = Closed /\ shared = Closed
      /\ stored \in [Nodes -> {FullProfile, BlankProfile}]
  BY DEF EditorInit
<1>2. \A n \in Nodes : IsProfile(stored[n])
  BY <1>1, StartProfiles
<1>3. FullProfile \in [Fields -> Written] /\ BlankProfile \in [Fields -> Written]
  BY StartProfiles DEF IsProfile
<1>4. stored \in [Nodes -> [Fields -> Written]]
  BY <1>1, <1>3
<1>5. IsDraft(draft)
  BY <1>1, <1>2, ProfileIsDraft
<1>6. setting \in [value : {"v"}, draft : {"v", " v ", "bad", Closed}, error : BOOLEAN]
  BY DEF EditorInit
<1>7. EditorShape
  BY <1>1, <1>2, <1>4, <1>5, <1>6 DEF EditorShape
<1>8. ErrorsCurrent /\ ShownIsStored
  BY <1>1 DEF ErrorsCurrent, ShownIsStored
<1> QED
  BY <1>7, <1>8 DEF EditorInv

\* The settings sheet: commit_setting stores a trimmed text that validate accepted.
LEMMA SettingSound ==
    ASSUME setting \in [value : {"v"}, draft : {"v", " v ", "bad", Closed}, error : BOOLEAN],
           OpenSetting \/ CommitSetting \/ CancelSetting \/ \E t \in {"v", " v ", "bad"} : EditSetting(t)
    PROVE  setting' \in [value : {"v"}, draft : {"v", " v ", "bad", Closed}, error : BOOLEAN]
<1>1. CASE OpenSetting
  BY <1>1 DEF OpenSetting
<1>2. CASE CommitSetting
  <2>1. CASE setting.draft = "bad"
    BY <1>2, <2>1 DEF CommitSetting
  <2>2. CASE setting.draft # "bad"
    <3>1. Trim(setting.draft) = "v"
      BY <1>2, <2>2 DEF CommitSetting, Trim
    <3>2. setting' = [value |-> "v", draft |-> Closed, error |-> FALSE]
      BY <1>2, <2>2, <3>1 DEF CommitSetting
    <3> QED
      BY <3>2
  <2> QED
    BY <2>1, <2>2
<1>3. CASE CancelSetting
  BY <1>3 DEF CancelSetting
<1>4. ASSUME NEW t \in {"v", " v ", "bad"}, EditSetting(t)
      PROVE  setting' \in [value : {"v"}, draft : {"v", " v ", "bad", Closed}, error : BOOLEAN]
  <2>1. (t = "bad") \in BOOLEAN
    OBVIOUS
  <2> QED
    BY <1>4, <2>1 DEF EditSetting
<1> QED
  BY <1>1, <1>2, <1>3, <1>4

\* Every edit, sheet, commit, selection and reload keeps the editor honest.
LEMMA EditorStep == EditorInv /\ [EditorNext]_editorVars => EditorInv'
<1> SUFFICES ASSUME EditorInv, [EditorNext]_editorVars PROVE EditorInv'
  OBVIOUS
<1>0. /\ chosen \in Nodes /\ stored \in [Nodes -> [Fields -> Written]]
      /\ \A n \in Nodes : IsProfile(stored[n])
      /\ IsDraft(draft) /\ (sheet # Closed => IsDraft(sheet))
      /\ setting \in [value : {"v"}, draft : {"v", " v ", "bad", Closed}, error : BOOLEAN]
      /\ (shared # Closed => shared.node = chosen)
  BY DEF EditorInv, EditorShape, ShownIsStored
<1>1. ASSUME NEW n \in Nodes, SelectNodeInList(n) PROVE EditorInv'
  <2>1. LoadSelected(n) /\ stored' = stored /\ sheet' = sheet /\ UNCHANGED setting
    BY <1>1 DEF SelectNodeInList
  <2> QED
    BY <1>0, <2>1, LoadSound
<1>2. ASSUME NEW f \in Fields, NEW t \in Texts[f], EditField(f, t) PROVE EditorInv'
  <2> DEFINE d == [draft EXCEPT ![f] = t]
  <2>1. CommitDraft(d) /\ UNCHANGED <<sheet, shared, setting>>
    BY <1>2 DEF EditField
  <2>2. IsDraft(d)
    <3>1. t \in Written /\ draft \in [Fields -> Written] /\ \A g \in Fields : draft[g] \in Texts[g]
      BY <1>0, FieldTexts DEF IsDraft
    <3> QED
      BY <3>1 DEF IsDraft
  <2> HIDE DEF d
  <2> QED
    BY <2>1, <2>2, CommitSound
<1>3. CASE CommitAdvanced
  <2> DEFINE d == [f \in Fields |-> IF f \in AdvancedFields THEN sheet[f] ELSE draft[f]]
  <2>1. CommitDraft(d) /\ sheet' = Closed /\ sheet # Closed /\ UNCHANGED <<shared, setting>>
    BY <1>3 DEF CommitAdvanced
  <2>2. IsDraft(d)
    <3>1. ASSUME NEW f \in Fields PROVE d[f] \in Texts[f] /\ d[f] \in Written
      BY <1>0, <2>1, FieldTexts DEF IsDraft
    <3> QED
      BY <3>1 DEF IsDraft
  <2> HIDE DEF d
  <2> QED
    BY <2>1, <2>2, CommitSound
<1>4. CASE OpenAdvanced \/ CancelAdvanced
  <2>1. UNCHANGED <<stored, chosen, draft, errors, shared, setting>> /\ (sheet' = draft \/ sheet' = Closed)
    BY <1>4 DEF OpenAdvanced, CancelAdvanced
  <2> QED
    BY <1>0, <2>1, KeepSound
<1>5. ASSUME NEW f \in AdvancedFields, NEW t \in Texts[f], EditAdvanced(f, t) PROVE EditorInv'
  <2>1. UNCHANGED <<stored, chosen, draft, errors, shared, setting>>
        /\ sheet # Closed /\ sheet' = [sheet EXCEPT ![f] = t]
    BY <1>5 DEF EditAdvanced
  <2>2. IsDraft(sheet')
    <3>1. f \in Fields
      BY DEF AdvancedFields, Fields
    <3>2. t \in Written /\ sheet \in [Fields -> Written] /\ \A g \in Fields : sheet[g] \in Texts[g]
      BY <1>0, <2>1, <3>1, FieldTexts DEF IsDraft
    <3> QED
      BY <2>1, <3>1, <3>2 DEF IsDraft
  <2> QED
    BY <1>0, <2>1, <2>2, KeepSound
<1>6. CASE ShareQrCode
  <2>1. UNCHANGED <<stored, chosen, draft, errors, sheet, setting>> /\ shared'.node = chosen
    BY <1>6 DEF ShareQrCode
  <2> QED
    BY <1>0, <2>1, KeepSound
<1>7. CASE CloseQrCode
  <2>1. UNCHANGED <<stored, chosen, draft, errors, sheet, setting>> /\ shared' = Closed
    BY <1>7 DEF CloseQrCode
  <2> QED
    BY <1>0, <2>1, KeepSound
<1>8. CASE TrySave
  <2>1. UNCHANGED <<stored, chosen, draft, sheet, shared, setting>> /\ errors' = Errors(draft)
    BY <1>8 DEF TrySave
  <2> QED
    BY <1>0, <2>1, KeepSound
<1>9. ASSUME NEW p \in {FullProfile, BlankProfile}, ReplaceProfile(p) PROVE EditorInv'
  <2>1. /\ stored' = [stored EXCEPT ![chosen] = p] /\ LoadSelected(chosen)
        /\ sheet' = Closed /\ UNCHANGED setting
    BY <1>9 DEF ReplaceProfile
  <2>2. IsProfile(p) /\ p \in [Fields -> Written]
    BY StartProfiles DEF IsProfile
  <2>3. stored' \in [Nodes -> [Fields -> Written]]
    BY <1>0, <2>1, <2>2
  <2>4. ASSUME NEW m \in Nodes PROVE IsProfile(stored'[m])
    <3>1. stored'[m] = IF m = chosen THEN p ELSE stored[m]
      BY <1>0, <2>1
    <3>2. IsProfile(stored[m])
      BY <1>0
    <3> QED
      BY <2>2, <3>1, <3>2
  <2> QED
    BY <1>0, <2>1, <2>3, <2>4, LoadSound
<1>10. ASSUME OpenSetting \/ CommitSetting \/ CancelSetting \/ \E t \in {"v", " v ", "bad"} : EditSetting(t)
       PROVE  EditorInv'
  <2>1. UNCHANGED <<stored, chosen, draft, errors, sheet, shared>>
    BY <1>10 DEF OpenSetting, CommitSetting, CancelSetting, EditSetting
  <2>2. setting' \in [value : {"v"}, draft : {"v", " v ", "bad", Closed}, error : BOOLEAN]
    BY <1>0, <1>10, SettingSound
  <2> QED
    BY <1>0, <2>1, <2>2, KeepSound
<1>11. CASE UNCHANGED editorVars
  <2>1. UNCHANGED <<stored, chosen, draft, errors, sheet, shared, setting>>
    BY <1>11 DEF editorVars
  <2> QED
    BY <1>0, <2>1, KeepSound
<1> QED
  BY <1>1, <1>2, <1>3, <1>4, <1>5, <1>6, <1>7, <1>8, <1>9, <1>10, <1>11 DEF EditorNext

\* commit_draft, commit_advanced, load_selected and the check before Save between them keep
\* the editor honest, whatever the protocol and method make mandatory: a text that is not in
\* the stored node is shown as invalid and counts as unsaved, for any set of nodes.
THEOREM EditorHonest == EditorSpec => []ShownIsStored
<1>1. EditorInv => ShownIsStored
  BY DEF EditorInv
<1> QED
  BY EditorStart, EditorStep, <1>1, PTL DEF EditorSpec

-----------------------------------------------------------------------------
(* SystemProxy: a call that reports success is in effect.                  *)

Values == {"none", "auto", "manual", "true", "on", "off", "0", "1", "bypass", Absent, Foreign}
          \cup Listens \cup PacUrls
Commands == [op : {"set", "delete", "deleteIf"}, tool : Tools, key : Tools \X Keys, value : Values]

\* The script of one tool, or network service.
ScriptOf(t, r, l) ==
    CASE t = "gnome" -> GnomeScript(r)
      [] t = "kde" -> KdeScript(r)
      [] t = "windows" -> WindowsScript(r, l)
      [] OTHER -> MacScript(t, r)

\* The tool uses what was asked for, as far as the code can tell.
Uses(t, r) ==
    CASE t \in {"gnome", "kde"} -> EffectiveLinux(t) = r
      [] t = "windows" -> WindowsUses(r)
      [] OTHER -> EffectiveMac(t) = r

\* A command has taken effect, or its failure was ignored; a guarded delete is not relied
\* upon.
DoneIn(st, ig, c) == /\ (c.op = "set" => st[c.key] = c.value)
                     /\ (c.op = "delete" => st[c.key] = Absent \/ c.key \in ig)
Done(c) == DoneIn(settings, ignored, c)

PendingIn(cs, c) == \E i \in 1..Len(cs) : cs[i] = c

\* The tools the current call uses.
Used ==
    CASE platform \in {"gnome", "kde"} -> avail \cap {platform}
      [] platform = "other" -> avail
      [] platform = "macos" -> {"wifi", "ethernet"}
      [] platform = "windows" -> {"windows"}

OneTool(s, t) == \A i \in 1..Len(s) : s[i].tool = t /\ s[i].key[1] = t
KeysOnce(s) == \A i, j \in 1..Len(s) : s[i].key = s[j].key => i = j
InOrder(s) == \A i, j \in 1..Len(s) : i < j /\ s[i].tool = "kde" => s[j].tool = "kde"

\* The tools of all four desktops.
LEMMA ToolSet == Tools = {"gnome", "kde", "windows", "wifi", "ethernet"}
  BY DEF Tools, Services

\* A command that sets a key is a command on that key of its tool ...
LEMMA SetShape ==
    ASSUME NEW t \in Tools, NEW k \in Keys, NEW v \in Values
    PROVE  Set(t, k, v) \in Commands /\ Set(t, k, v).tool = t /\ Set(t, k, v).key = <<t, k>>
  BY DEF Set, Commands

\* ... and so is one that deletes it.
LEMMA DelShape ==
    ASSUME NEW k \in Keys, NEW v \in Values
    PROVE  /\ Del(k) \in Commands /\ Del(k).tool = "windows" /\ Del(k).key = <<"windows", k>>
           /\ DelIf(k, v) \in Commands /\ DelIf(k, v).tool = "windows" /\ DelIf(k, v).key = <<"windows", k>>
  BY ToolSet DEF Del, DelIf, Commands, Values

\* Every script writes each of its keys once.
LEMMA GnomeShape ==
    ASSUME NEW r \in Requests
    PROVE  GnomeScript(r) \in Seq(Commands) /\ OneTool(GnomeScript(r), "gnome") /\ KeysOnce(GnomeScript(r))
<1>0. r.value \in Values /\ r.mode \in {"disable", "pac", "global"}
  BY DEF Requests, Values
<1>1. "gnome" \in Tools /\ {"mode", "url", "http", "https", "socks", "same", "enable", "override", "autoState",
                      "httpState", "httpsState", "socksState"} \subseteq Keys
  BY ToolSet DEF Keys
<1>2. {"none", "auto", "manual", "true", "on", "off", "0", "1", "bypass"} \subseteq Values
  BY DEF Values
<1>3. CASE r.mode = "disable"
  <2> DEFINE a == Set("gnome", "mode", "none")
  <2>1. GnomeScript(r) = <<a>>
    BY <1>3 DEF GnomeScript
  <2>2. a \in Commands /\ a.tool = "gnome" /\ a.key = <<"gnome", "mode">>
    BY <1>0, <1>1, <1>2, SetShape
  <2> HIDE DEF a
  <2> QED
    BY <2>1, <2>2 DEF OneTool, KeysOnce
<1>4. CASE r.mode = "pac"
  <2> DEFINE a == Set("gnome", "mode", "auto")
             b == Set("gnome", "url", r.value)
  <2>1. GnomeScript(r) = <<a, b>>
    BY <1>4 DEF GnomeScript
  <2>2. a \in Commands /\ a.tool = "gnome" /\ a.key = <<"gnome", "mode">>
    BY <1>0, <1>1, <1>2, SetShape
  <2>3. b \in Commands /\ b.tool = "gnome" /\ b.key = <<"gnome", "url">>
    BY <1>0, <1>1, <1>2, SetShape
  <2> HIDE DEF a, b
  <2> QED
    BY <2>1, <2>2, <2>3 DEF OneTool, KeysOnce
<1>5. CASE r.mode = "global"
  <2> DEFINE a == Set("gnome", "mode", "manual")
             b == Set("gnome", "same", "true")
             c == Set("gnome", "http", r.value)
             d == Set("gnome", "https", r.value)
             e == Set("gnome", "socks", r.value)
  <2>1. GnomeScript(r) = <<a, b, c, d, e>>
    BY <1>5 DEF GnomeScript
  <2>2. a \in Commands /\ a.tool = "gnome" /\ a.key = <<"gnome", "mode">>
    BY <1>0, <1>1, <1>2, SetShape
  <2>3. b \in Commands /\ b.tool = "gnome" /\ b.key = <<"gnome", "same">>
    BY <1>0, <1>1, <1>2, SetShape
  <2>4. c \in Commands /\ c.tool = "gnome" /\ c.key = <<"gnome", "http">>
    BY <1>0, <1>1, <1>2, SetShape
  <2>5. d \in Commands /\ d.tool = "gnome" /\ d.key = <<"gnome", "https">>
    BY <1>0, <1>1, <1>2, SetShape
  <2>6. e \in Commands /\ e.tool = "gnome" /\ e.key = <<"gnome", "socks">>
    BY <1>0, <1>1, <1>2, SetShape
  <2> HIDE DEF a, b, c, d, e
  <2> QED
    BY <2>1, <2>2, <2>3, <2>4, <2>5, <2>6 DEF OneTool, KeysOnce
<1> QED
  BY <1>0, <1>3, <1>4, <1>5

\* The script for KDE writes each key once.
LEMMA KdeShape ==
    ASSUME NEW r \in Requests
    PROVE  KdeScript(r) \in Seq(Commands) /\ OneTool(KdeScript(r), "kde") /\ KeysOnce(KdeScript(r))
<1>0. r.value \in Values /\ r.mode \in {"disable", "pac", "global"}
  BY DEF Requests, Values
<1>1. "kde" \in Tools /\ {"mode", "url", "http", "https", "socks", "same", "enable", "override", "autoState",
                      "httpState", "httpsState", "socksState"} \subseteq Keys
  BY ToolSet DEF Keys
<1>2. {"none", "auto", "manual", "true", "on", "off", "0", "1", "bypass"} \subseteq Values
  BY DEF Values
<1>3. CASE r.mode = "disable"
  <2> DEFINE a == Set("kde", "mode", "none")
  <2>1. KdeScript(r) = <<a>>
    BY <1>3 DEF KdeScript
  <2>2. a \in Commands /\ a.tool = "kde" /\ a.key = <<"kde", "mode">>
    BY <1>0, <1>1, <1>2, SetShape
  <2> HIDE DEF a
  <2> QED
    BY <2>1, <2>2 DEF OneTool, KeysOnce
<1>4. CASE r.mode = "pac"
  <2> DEFINE a == Set("kde", "mode", "auto")
             b == Set("kde", "url", r.value)
  <2>1. KdeScript(r) = <<a, b>>
    BY <1>4 DEF KdeScript
  <2>2. a \in Commands /\ a.tool = "kde" /\ a.key = <<"kde", "mode">>
    BY <1>0, <1>1, <1>2, SetShape
  <2>3. b \in Commands /\ b.tool = "kde" /\ b.key = <<"kde", "url">>
    BY <1>0, <1>1, <1>2, SetShape
  <2> HIDE DEF a, b
  <2> QED
    BY <2>1, <2>2, <2>3 DEF OneTool, KeysOnce
<1>5. CASE r.mode = "global"
  <2> DEFINE a == Set("kde", "mode", "manual")
             b == Set("kde", "http", r.value)
             c == Set("kde", "https", r.value)
             d == Set("kde", "socks", r.value)
  <2>1. KdeScript(r) = <<a, b, c, d>>
    BY <1>5 DEF KdeScript
  <2>2. a \in Commands /\ a.tool = "kde" /\ a.key = <<"kde", "mode">>
    BY <1>0, <1>1, <1>2, SetShape
  <2>3. b \in Commands /\ b.tool = "kde" /\ b.key = <<"kde", "http">>
    BY <1>0, <1>1, <1>2, SetShape
  <2>4. c \in Commands /\ c.tool = "kde" /\ c.key = <<"kde", "https">>
    BY <1>0, <1>1, <1>2, SetShape
  <2>5. d \in Commands /\ d.tool = "kde" /\ d.key = <<"kde", "socks">>
    BY <1>0, <1>1, <1>2, SetShape
  <2> HIDE DEF a, b, c, d
  <2> QED
    BY <2>1, <2>2, <2>3, <2>4, <2>5 DEF OneTool, KeysOnce
<1> QED
  BY <1>0, <1>3, <1>4, <1>5

\* The script for a macOS network service writes each key once.
LEMMA MacShape ==
    ASSUME NEW r \in Requests, NEW t \in Tools
    PROVE  MacScript(t, r) \in Seq(Commands) /\ OneTool(MacScript(t, r), t) /\ KeysOnce(MacScript(t, r))
<1>0. r.value \in Values /\ r.mode \in {"disable", "pac", "global"}
  BY DEF Requests, Values
<1>1. t \in Tools /\ {"mode", "url", "http", "https", "socks", "same", "enable", "override", "autoState",
                      "httpState", "httpsState", "socksState"} \subseteq Keys
  BY ToolSet DEF Keys
<1>2. {"none", "auto", "manual", "true", "on", "off", "0", "1", "bypass"} \subseteq Values
  BY DEF Values
<1>3. CASE r.mode = "disable"
  <2> DEFINE a == Set(t, "httpState", "off")
             b == Set(t, "httpsState", "off")
             c == Set(t, "socksState", "off")
             d == Set(t, "autoState", "off")
  <2>1. MacScript(t, r) = <<a, b, c, d>>
    BY <1>3 DEF MacScript
  <2>2. a \in Commands /\ a.tool = t /\ a.key = <<t, "httpState">>
    BY <1>0, <1>1, <1>2, SetShape
  <2>3. b \in Commands /\ b.tool = t /\ b.key = <<t, "httpsState">>
    BY <1>0, <1>1, <1>2, SetShape
  <2>4. c \in Commands /\ c.tool = t /\ c.key = <<t, "socksState">>
    BY <1>0, <1>1, <1>2, SetShape
  <2>5. d \in Commands /\ d.tool = t /\ d.key = <<t, "autoState">>
    BY <1>0, <1>1, <1>2, SetShape
  <2> HIDE DEF a, b, c, d
  <2> QED
    BY <2>1, <2>2, <2>3, <2>4, <2>5 DEF OneTool, KeysOnce
<1>4. CASE r.mode = "pac"
  <2> DEFINE a == Set(t, "url", r.value)
             b == Set(t, "autoState", "on")
             c == Set(t, "httpState", "off")
             d == Set(t, "httpsState", "off")
             e == Set(t, "socksState", "off")
  <2>1. MacScript(t, r) = <<a, b, c, d, e>>
    BY <1>4 DEF MacScript
  <2>2. a \in Commands /\ a.tool = t /\ a.key = <<t, "url">>
    BY <1>0, <1>1, <1>2, SetShape
  <2>3. b \in Commands /\ b.tool = t /\ b.key = <<t, "autoState">>
    BY <1>0, <1>1, <1>2, SetShape
  <2>4. c \in Commands /\ c.tool = t /\ c.key = <<t, "httpState">>
    BY <1>0, <1>1, <1>2, SetShape
  <2>5. d \in Commands /\ d.tool = t /\ d.key = <<t, "httpsState">>
    BY <1>0, <1>1, <1>2, SetShape
  <2>6. e \in Commands /\ e.tool = t /\ e.key = <<t, "socksState">>
    BY <1>0, <1>1, <1>2, SetShape
  <2> HIDE DEF a, b, c, d, e
  <2> QED
    BY <2>1, <2>2, <2>3, <2>4, <2>5, <2>6 DEF OneTool, KeysOnce
<1>5. CASE r.mode = "global"
  <2> DEFINE a == Set(t, "http", r.value)
             b == Set(t, "https", r.value)
             c == Set(t, "socks", r.value)
             d == Set(t, "httpState", "on")
             e == Set(t, "httpsState", "on")
             f == Set(t, "socksState", "on")
             g == Set(t, "autoState", "off")
  <2>1. MacScript(t, r) = <<a, b, c, d, e, f, g>>
    BY <1>5 DEF MacScript
  <2>2. a \in Commands /\ a.tool = t /\ a.key = <<t, "http">>
    BY <1>0, <1>1, <1>2, SetShape
  <2>3. b \in Commands /\ b.tool = t /\ b.key = <<t, "https">>
    BY <1>0, <1>1, <1>2, SetShape
  <2>4. c \in Commands /\ c.tool = t /\ c.key = <<t, "socks">>
    BY <1>0, <1>1, <1>2, SetShape
  <2>5. d \in Commands /\ d.tool = t /\ d.key = <<t, "httpState">>
    BY <1>0, <1>1, <1>2, SetShape
  <2>6. e \in Commands /\ e.tool = t /\ e.key = <<t, "httpsState">>
    BY <1>0, <1>1, <1>2, SetShape
  <2>7. f \in Commands /\ f.tool = t /\ f.key = <<t, "socksState">>
    BY <1>0, <1>1, <1>2, SetShape
  <2>8. g \in Commands /\ g.tool = t /\ g.key = <<t, "autoState">>
    BY <1>0, <1>1, <1>2, SetShape
  <2> HIDE DEF a, b, c, d, e, f, g
  <2> QED
    BY <2>1, <2>2, <2>3, <2>4, <2>5, <2>6, <2>7, <2>8 DEF OneTool, KeysOnce
<1> QED
  BY <1>0, <1>3, <1>4, <1>5

\* The script for Windows writes each key once.
LEMMA WindowsShape ==
    ASSUME NEW r \in Requests, NEW l \in Values
    PROVE  WindowsScript(r, l) \in Seq(Commands) /\ OneTool(WindowsScript(r, l), "windows") /\ KeysOnce(WindowsScript(r, l))
<1>0. r.value \in Values /\ r.mode \in {"disable", "pac", "global"}
  BY DEF Requests, Values
<1>1. "windows" \in Tools /\ {"mode", "url", "http", "https", "socks", "same", "enable", "override", "autoState",
                      "httpState", "httpsState", "socksState"} \subseteq Keys
  BY ToolSet DEF Keys
<1>2. {"none", "auto", "manual", "true", "on", "off", "0", "1", "bypass"} \subseteq Values
  BY DEF Values
<1>3. CASE r.mode = "disable"
  <2> DEFINE a == Set("windows", "enable", "0")
             b == Del("url")
             c == DelIf("http", l)
             d == DelIf("override", "bypass")
  <2>1. WindowsScript(r, l) = <<a, b, c, d>>
    BY <1>3 DEF WindowsScript
  <2>2. a \in Commands /\ a.tool = "windows" /\ a.key = <<"windows", "enable">>
    BY <1>0, <1>1, <1>2, SetShape
  <2>3. b \in Commands /\ b.tool = "windows" /\ b.key = <<"windows", "url">>
    BY <1>0, <1>1, <1>2, DelShape
  <2>4. c \in Commands /\ c.tool = "windows" /\ c.key = <<"windows", "http">>
    BY <1>0, <1>1, <1>2, DelShape
  <2>5. d \in Commands /\ d.tool = "windows" /\ d.key = <<"windows", "override">>
    BY <1>0, <1>1, <1>2, DelShape
  <2> HIDE DEF a, b, c, d
  <2> QED
    BY <2>1, <2>2, <2>3, <2>4, <2>5 DEF OneTool, KeysOnce
<1>4. CASE r.mode = "pac"
  <2> DEFINE a == Set("windows", "enable", "0")
             b == Set("windows", "url", r.value)
  <2>1. WindowsScript(r, l) = <<a, b>>
    BY <1>4 DEF WindowsScript
  <2>2. a \in Commands /\ a.tool = "windows" /\ a.key = <<"windows", "enable">>
    BY <1>0, <1>1, <1>2, SetShape
  <2>3. b \in Commands /\ b.tool = "windows" /\ b.key = <<"windows", "url">>
    BY <1>0, <1>1, <1>2, SetShape
  <2> HIDE DEF a, b
  <2> QED
    BY <2>1, <2>2, <2>3 DEF OneTool, KeysOnce
<1>5. CASE r.mode = "global"
  <2> DEFINE a == Set("windows", "enable", "1")
             b == Set("windows", "http", r.value)
             c == Set("windows", "override", "bypass")
             d == Del("url")
  <2>1. WindowsScript(r, l) = <<a, b, c, d>>
    BY <1>5 DEF WindowsScript
  <2>2. a \in Commands /\ a.tool = "windows" /\ a.key = <<"windows", "enable">>
    BY <1>0, <1>1, <1>2, SetShape
  <2>3. b \in Commands /\ b.tool = "windows" /\ b.key = <<"windows", "http">>
    BY <1>0, <1>1, <1>2, SetShape
  <2>4. c \in Commands /\ c.tool = "windows" /\ c.key = <<"windows", "override">>
    BY <1>0, <1>1, <1>2, SetShape
  <2>5. d \in Commands /\ d.tool = "windows" /\ d.key = <<"windows", "url">>
    BY <1>0, <1>1, <1>2, DelShape
  <2> HIDE DEF a, b, c, d
  <2> QED
    BY <2>1, <2>2, <2>3, <2>4, <2>5 DEF OneTool, KeysOnce
<1> QED
  BY <1>0, <1>3, <1>4, <1>5

\* A script all of whose commands took effect puts the request into effect.
LEMMA GnomeEffect ==
    ASSUME NEW r \in Requests, \A i \in 1..Len(GnomeScript(r)) : Done(GnomeScript(r)[i])
    PROVE  EffectiveLinux("gnome") = r
<1> DEFINE v(k) == settings[<<"gnome", k>>]
<1>0. \/ r.mode = "disable" /\ r = [mode |-> "disable", value |-> Absent]
      \/ r.mode = "pac" /\ r = [mode |-> "pac", value |-> r.value] /\ r.value \in PacUrls
      \/ r.mode = "global" /\ r = [mode |-> "global", value |-> r.value]
  BY DEF Requests
<1>1. CASE r.mode = "disable"
  <2>1. GnomeScript(r) = <<Set("gnome", "mode", "none")>>
    BY <1>1 DEF GnomeScript
  <2>2. Done(Set("gnome", "mode", "none"))
    BY <2>1
  <2>3. v("mode") = "none"
    BY <2>2 DEF Done, DoneIn, Set, Del
  <2> HIDE DEF v
  <2> QED
    BY <1>0, <1>1, <2>3 DEF EffectiveLinux, v
<1>2. CASE r.mode = "pac"
  <2>1. GnomeScript(r) = <<Set("gnome", "mode", "auto"), Set("gnome", "url", r.value)>>
    BY <1>2 DEF GnomeScript
  <2>2. Done(Set("gnome", "mode", "auto")) /\ Done(Set("gnome", "url", r.value))
    BY <2>1
  <2>3. v("mode") = "auto" /\ v("url") = r.value
    BY <2>2 DEF Done, DoneIn, Set, Del
  <2> HIDE DEF v
  <2> QED
    BY <1>0, <1>2, <2>3 DEF EffectiveLinux, v
<1>3. CASE r.mode = "global"
  <2>1. GnomeScript(r) =
          <<Set("gnome", "mode", "manual"), Set("gnome", "same", "true"), Set("gnome", "http", r.value),
            Set("gnome", "https", r.value), Set("gnome", "socks", r.value)>>
    BY <1>3 DEF GnomeScript
  <2>2. /\ Done(Set("gnome", "mode", "manual")) /\ Done(Set("gnome", "same", "true")) /\ Done(Set("gnome", "http", r.value))
        /\ Done(Set("gnome", "https", r.value)) /\ Done(Set("gnome", "socks", r.value))
    BY <2>1
  <2>3. /\ v("mode") = "manual" /\ v("same") = "true" /\ v("http") = r.value
        /\ v("https") = r.value /\ v("socks") = r.value
    BY <2>2 DEF Done, DoneIn, Set, Del
  <2> HIDE DEF v
  <2> QED
    BY <1>0, <1>3, <2>3 DEF EffectiveLinux, v
<1> QED
  BY <1>0, <1>1, <1>2, <1>3

\* When all of the script for KDE is done, KDE uses the requested proxy.
LEMMA KdeEffect ==
    ASSUME NEW r \in Requests, \A i \in 1..Len(KdeScript(r)) : Done(KdeScript(r)[i])
    PROVE  EffectiveLinux("kde") = r
<1> DEFINE v(k) == settings[<<"kde", k>>]
<1>0. \/ r.mode = "disable" /\ r = [mode |-> "disable", value |-> Absent]
      \/ r.mode = "pac" /\ r = [mode |-> "pac", value |-> r.value] /\ r.value \in PacUrls
      \/ r.mode = "global" /\ r = [mode |-> "global", value |-> r.value]
  BY DEF Requests
<1>1. CASE r.mode = "disable"
  <2>1. KdeScript(r) = <<Set("kde", "mode", "none")>>
    BY <1>1 DEF KdeScript
  <2>2. Done(Set("kde", "mode", "none"))
    BY <2>1
  <2>3. v("mode") = "none"
    BY <2>2 DEF Done, DoneIn, Set, Del
  <2> HIDE DEF v
  <2> QED
    BY <1>0, <1>1, <2>3 DEF EffectiveLinux, v
<1>2. CASE r.mode = "pac"
  <2>1. KdeScript(r) = <<Set("kde", "mode", "auto"), Set("kde", "url", r.value)>>
    BY <1>2 DEF KdeScript
  <2>2. Done(Set("kde", "mode", "auto")) /\ Done(Set("kde", "url", r.value))
    BY <2>1
  <2>3. v("mode") = "auto" /\ v("url") = r.value
    BY <2>2 DEF Done, DoneIn, Set, Del
  <2> HIDE DEF v
  <2> QED
    BY <1>0, <1>2, <2>3 DEF EffectiveLinux, v
<1>3. CASE r.mode = "global"
  <2>1. KdeScript(r) =
          <<Set("kde", "mode", "manual"), Set("kde", "http", r.value), Set("kde", "https", r.value),
            Set("kde", "socks", r.value)>>
    BY <1>3 DEF KdeScript
  <2>2. /\ Done(Set("kde", "mode", "manual")) /\ Done(Set("kde", "http", r.value)) /\ Done(Set("kde", "https", r.value))
        /\ Done(Set("kde", "socks", r.value))
    BY <2>1
  <2>3. v("mode") = "manual" /\ v("http") = r.value /\ v("https") = r.value /\ v("socks") = r.value
    BY <2>2 DEF Done, DoneIn, Set, Del
  <2> HIDE DEF v
  <2> QED
    BY <1>0, <1>3, <2>3 DEF EffectiveLinux, v
<1> QED
  BY <1>0, <1>1, <1>2, <1>3

\* When all of the script for a network service is done, it uses the requested proxy.
LEMMA MacEffect ==
    ASSUME NEW r \in Requests, NEW t \in Tools,
           \A i \in 1..Len(MacScript(t, r)) : Done(MacScript(t, r)[i])
    PROVE  EffectiveMac(t) = r
<1> DEFINE v(k) == settings[<<t, k>>]
<1>0. \/ r.mode = "disable" /\ r = [mode |-> "disable", value |-> Absent]
      \/ r.mode = "pac" /\ r = [mode |-> "pac", value |-> r.value] /\ r.value \in PacUrls
      \/ r.mode = "global" /\ r = [mode |-> "global", value |-> r.value]
  BY DEF Requests
<1>1. CASE r.mode = "disable"
  <2>1. MacScript(t, r) =
          <<Set(t, "httpState", "off"), Set(t, "httpsState", "off"), Set(t, "socksState", "off"),
            Set(t, "autoState", "off")>>
    BY <1>1 DEF MacScript
  <2>2. /\ Done(Set(t, "httpState", "off")) /\ Done(Set(t, "httpsState", "off")) /\ Done(Set(t, "socksState", "off"))
        /\ Done(Set(t, "autoState", "off"))
    BY <2>1
  <2>3. /\ v("httpState") = "off" /\ v("httpsState") = "off" /\ v("socksState") = "off"
        /\ v("autoState") = "off"
    BY <2>2 DEF Done, DoneIn, Set, Del
  <2> HIDE DEF v
  <2> QED
    BY <1>0, <1>1, <2>3 DEF EffectiveMac, v
<1>2. CASE r.mode = "pac"
  <2>1. MacScript(t, r) =
          <<Set(t, "url", r.value), Set(t, "autoState", "on"), Set(t, "httpState", "off"),
            Set(t, "httpsState", "off"), Set(t, "socksState", "off")>>
    BY <1>2 DEF MacScript
  <2>2. /\ Done(Set(t, "url", r.value)) /\ Done(Set(t, "autoState", "on")) /\ Done(Set(t, "httpState", "off"))
        /\ Done(Set(t, "httpsState", "off")) /\ Done(Set(t, "socksState", "off"))
    BY <2>1
  <2>3. /\ v("url") = r.value /\ v("autoState") = "on" /\ v("httpState") = "off"
        /\ v("httpsState") = "off" /\ v("socksState") = "off"
    BY <2>2 DEF Done, DoneIn, Set, Del
  <2> HIDE DEF v
  <2> QED
    BY <1>0, <1>2, <2>3 DEF EffectiveMac, v
<1>3. CASE r.mode = "global"
  <2>1. MacScript(t, r) =
          <<Set(t, "http", r.value), Set(t, "https", r.value), Set(t, "socks", r.value),
            Set(t, "httpState", "on"), Set(t, "httpsState", "on"), Set(t, "socksState", "on"),
            Set(t, "autoState", "off")>>
    BY <1>3 DEF MacScript
  <2>2. /\ Done(Set(t, "http", r.value)) /\ Done(Set(t, "https", r.value)) /\ Done(Set(t, "socks", r.value))
        /\ Done(Set(t, "httpState", "on")) /\ Done(Set(t, "httpsState", "on")) /\ Done(Set(t, "socksState", "on"))
        /\ Done(Set(t, "autoState", "off"))
    BY <2>1
  <2>3. /\ v("http") = r.value /\ v("https") = r.value /\ v("socks") = r.value
        /\ v("httpState") = "on" /\ v("httpsState") = "on" /\ v("socksState") = "on"
        /\ v("autoState") = "off"
    BY <2>2 DEF Done, DoneIn, Set, Del
  <2> HIDE DEF v
  <2> QED
    BY <1>0, <1>3, <2>3 DEF EffectiveMac, v
<1> QED
  BY <1>0, <1>1, <1>2, <1>3

\* When all of the script for Windows is done, Windows uses the requested proxy, but for an
\* AutoConfigURL whose deletion was ignored; a guarded delete is not needed for that.
LEMMA WindowsEffect ==
    ASSUME NEW r \in Requests, NEW l \in Values,
           \A i \in 1..Len(WindowsScript(r, l)) : Done(WindowsScript(r, l)[i])
    PROVE  WindowsUses(r)
<1> DEFINE v(k) == settings[<<"windows", k>>]
<1>0. \/ r.mode = "disable" /\ r = [mode |-> "disable", value |-> Absent]
      \/ r.mode = "pac" /\ r = [mode |-> "pac", value |-> r.value] /\ r.value \in PacUrls
      \/ r.mode = "global" /\ r = [mode |-> "global", value |-> r.value]
  BY DEF Requests
<1>1. CASE r.mode = "disable"
  <2>1. WindowsScript(r, l) =
          <<Set("windows", "enable", "0"), Del("url"), DelIf("http", l),
            DelIf("override", "bypass")>>
    BY <1>1 DEF WindowsScript
  <2>2. /\ Done(Set("windows", "enable", "0")) /\ Done(Del("url")) /\ Done(DelIf("http", l))
        /\ Done(DelIf("override", "bypass"))
    BY <2>1
  <2>3. v("enable") = "0" /\ (v("url") = Absent \/ AutoConfigUrl \in ignored)
    BY <2>2 DEF Done, DoneIn, Set, Del, AutoConfigUrl
  <2> HIDE DEF v
  <2> QED
    BY <1>0, <1>1, <2>3, SysAssumption DEF WindowsUses, EffectiveWindows, AutoConfigUrl, v
<1>2. CASE r.mode = "pac"
  <2>1. WindowsScript(r, l) = <<Set("windows", "enable", "0"), Set("windows", "url", r.value)>>
    BY <1>2 DEF WindowsScript
  <2>2. Done(Set("windows", "enable", "0")) /\ Done(Set("windows", "url", r.value))
    BY <2>1
  <2>3. v("enable") = "0" /\ v("url") = r.value
    BY <2>2 DEF Done, DoneIn, Set, Del
  <2> HIDE DEF v
  <2> QED
    BY <1>0, <1>2, <2>3, SysAssumption DEF WindowsUses, EffectiveWindows, AutoConfigUrl, v
<1>3. CASE r.mode = "global"
  <2>1. WindowsScript(r, l) =
          <<Set("windows", "enable", "1"), Set("windows", "http", r.value), Set("windows", "override", "bypass"),
            Del("url")>>
    BY <1>3 DEF WindowsScript
  <2>2. /\ Done(Set("windows", "enable", "1")) /\ Done(Set("windows", "http", r.value)) /\ Done(Set("windows", "override", "bypass"))
        /\ Done(Del("url"))
    BY <2>1
  <2>3. v("enable") = "1" /\ v("http") = r.value /\ (v("url") = Absent \/ AutoConfigUrl \in ignored)
    BY <2>2 DEF Done, DoneIn, Set, Del, AutoConfigUrl
  <2> HIDE DEF v
  <2> QED
    BY <1>0, <1>3, <2>3, SysAssumption DEF WindowsUses, EffectiveWindows, AutoConfigUrl, v
<1> QED
  BY <1>0, <1>1, <1>2, <1>3

\* The script of any tool writes each key of that tool once, so that no command undoes
\* an earlier one.
LEMMA ScriptShape ==
    ASSUME NEW r \in Requests, NEW l \in Values, NEW t \in Tools
    PROVE  /\ ScriptOf(t, r, l) \in Seq(Commands)
           /\ OneTool(ScriptOf(t, r, l), t) /\ KeysOnce(ScriptOf(t, r, l))
  BY ToolSet, GnomeShape, KdeShape, MacShape, WindowsShape DEF ScriptOf

\* When all of a script is done, its tool uses the requested proxy.
LEMMA ScriptEffect ==
    ASSUME NEW r \in Requests, NEW l \in Values, NEW t \in Tools,
           \A i \in 1..Len(ScriptOf(t, r, l)) : Done(ScriptOf(t, r, l)[i])
    PROVE  Uses(t, r)
<1>1. CASE t = "gnome"
  <2>1. ScriptOf(t, r, l) = GnomeScript(r) /\ Uses(t, r) = (EffectiveLinux("gnome") = r)
    BY <1>1 DEF ScriptOf, Uses
  <2> QED
    BY <2>1, GnomeEffect
<1>2. CASE t = "kde"
  <2>1. ScriptOf(t, r, l) = KdeScript(r) /\ Uses(t, r) = (EffectiveLinux("kde") = r)
    BY <1>2 DEF ScriptOf, Uses
  <2> QED
    BY <2>1, KdeEffect
<1>3. CASE t = "windows"
  <2>1. ScriptOf(t, r, l) = WindowsScript(r, l) /\ Uses(t, r) = WindowsUses(r)
    BY <1>3 DEF ScriptOf, Uses
  <2> QED
    BY <2>1, WindowsEffect
<1>4. CASE t \notin {"gnome", "kde", "windows"}
  <2>1. ScriptOf(t, r, l) = MacScript(t, r) /\ Uses(t, r) = (EffectiveMac(t) = r)
    BY <1>4 DEF ScriptOf, Uses
  <2> QED
    BY <2>1, MacEffect
<1> QED
  BY <1>1, <1>2, <1>3, <1>4


\* What is true of the commands `s` that a call still has to run for the tools `ts`.
Runs(s, ts, r, l) ==
    /\ s \in Seq(Commands) /\ KeysOnce(s) /\ InOrder(s)
    /\ \A i \in 1..Len(s) :
         /\ s[i].tool \in ts /\ s[i].key[1] = s[i].tool
         /\ \E j \in 1..Len(ScriptOf(s[i].tool, r, l)) : s[i] = ScriptOf(s[i].tool, r, l)[j]

\* Every command of t's script is among s.
Holds(s, t, r, l) ==
    \A j \in 1..Len(ScriptOf(t, r, l)) : \E i \in 1..Len(s) : s[i] = ScriptOf(t, r, l)[j]

\* A call may start with the whole script of one tool ...
LEMMA OneRuns ==
    ASSUME NEW r \in Requests, NEW l \in Values, NEW t \in Tools
    PROVE  Runs(ScriptOf(t, r, l), {t}, r, l) /\ Holds(ScriptOf(t, r, l), t, r, l)
<1> DEFINE s == ScriptOf(t, r, l)
<1>1. s \in Seq(Commands) /\ OneTool(s, t) /\ KeysOnce(s)
  BY ScriptShape
<1>2. \A i \in 1..Len(s) : s[i].tool = t /\ s[i].key[1] = t
  BY <1>1 DEF OneTool
<1>3. \A i \in 1..Len(s) : \E j \in 1..Len(ScriptOf(s[i].tool, r, l)) : s[i] = ScriptOf(s[i].tool, r, l)[j]
  BY <1>2
<1> HIDE DEF s
<1>4. InOrder(s)
  BY <1>2 DEF InOrder
<1>5. Runs(s, {t}, r, l)
  BY <1>1, <1>2, <1>3, <1>4 DEF Runs
<1> QED
  BY <1>5 DEF Holds, s

\* ... or with nothing.
LEMMA NoneRuns ==
    ASSUME NEW r, NEW l, NEW ts
    PROVE  Runs(<<>>, ts, r, l)
  BY DEF Runs, KeysOnce, InOrder

\* What runs for some tools runs for more.
LEMMA MoreTools ==
    ASSUME NEW r, NEW l, NEW ts, NEW us, NEW s, Runs(s, ts, r, l), ts \subseteq us
    PROVE  Runs(s, us, r, l)
  BY DEF Runs

\* Two scripts, one after the other.
LEMMA TwoRun ==
    ASSUME NEW r, NEW l, NEW ts, NEW us, NEW a, NEW b, Runs(a, ts, r, l), Runs(b, us, r, l),
           ts \cap us = {}, "kde" \notin ts
    PROVE  /\ Runs(a \o b, ts \cup us, r, l)
           /\ \A t : Holds(a, t, r, l) \/ Holds(b, t, r, l) => Holds(a \o b, t, r, l)
<1> DEFINE s == a \o b
<1>1. a \in Seq(Commands) /\ b \in Seq(Commands)
  BY DEF Runs
<1>2. /\ s \in Seq(Commands) /\ Len(s) = Len(a) + Len(b) /\ Len(a) \in Nat /\ Len(b) \in Nat
      /\ \A i \in 1..Len(s) : s[i] = IF i <= Len(a) THEN a[i] ELSE b[i - Len(a)]
  BY <1>1
<1> HIDE DEF s
<1>3. \A i \in 1..Len(a) : s[i] = a[i] /\ i \in 1..Len(s)
  BY <1>2
<1>4. \A i \in 1..Len(b) : s[Len(a) + i] = b[i] /\ Len(a) + i \in 1..Len(s)
  BY <1>2
<1>5. \A i \in 1..Len(s) : (i \in 1..Len(a) /\ s[i] = a[i])
                           \/ (i > Len(a) /\ i - Len(a) \in 1..Len(b) /\ s[i] = b[i - Len(a)])
  BY <1>2
<1> DEFINE From(c) == \E j \in 1..Len(ScriptOf(c.tool, r, l)) : c = ScriptOf(c.tool, r, l)[j]
<1>a. \A i \in 1..Len(a) : a[i].tool \in ts /\ a[i].key[1] = a[i].tool /\ From(a[i])
  BY DEF Runs
<1>b. \A i \in 1..Len(b) : b[i].tool \in us /\ b[i].key[1] = b[i].tool /\ From(b[i])
  BY DEF Runs
<1>c. KeysOnce(a) /\ KeysOnce(b) /\ InOrder(a) /\ InOrder(b)
  BY DEF Runs
<1> HIDE DEF From
<1>6. \A i \in 1..Len(s) : s[i].tool \in ts \cup us /\ s[i].key[1] = s[i].tool /\ From(s[i])
  BY <1>5, <1>a, <1>b
<1>7. ASSUME NEW i \in 1..Len(a), NEW j \in 1..Len(b) PROVE a[i].key # b[j].key
  <2>1. a[i].key[1] # b[j].key[1]
    BY <1>a, <1>b
  <2> QED
    BY <2>1
<1>8. KeysOnce(s)
  <2> SUFFICES ASSUME NEW i \in 1..Len(s), NEW j \in 1..Len(s), s[i].key = s[j].key PROVE i = j
    BY DEF KeysOnce
  <2>1. CASE i \in 1..Len(a) /\ j \in 1..Len(a)
    BY <1>3, <1>c, <2>1 DEF KeysOnce
  <2>2. CASE i > Len(a) /\ j > Len(a)
    <3>1. b[i - Len(a)].key = b[j - Len(a)].key /\ i - Len(a) \in 1..Len(b) /\ j - Len(a) \in 1..Len(b)
      BY <1>2, <2>2
    <3>2. i - Len(a) = j - Len(a)
      BY <1>c, <3>1 DEF KeysOnce
    <3> QED
      BY <1>2, <3>2
  <2> QED
    BY <1>2, <1>5, <1>7, <2>1, <2>2
<1>9. InOrder(s)
  <2> SUFFICES ASSUME NEW i \in 1..Len(s), NEW j \in 1..Len(s), i < j, s[i].tool = "kde"
               PROVE  s[j].tool = "kde"
    BY DEF InOrder
  <2>1. i > Len(a) /\ i - Len(a) \in 1..Len(b) /\ s[i] = b[i - Len(a)]
    BY <1>5, <1>a
  <2>2. j - Len(a) \in 1..Len(b) /\ s[j] = b[j - Len(a)] /\ i - Len(a) < j - Len(a)
    BY <1>2, <2>1
  <2> QED
    BY <1>c, <2>1, <2>2 DEF InOrder
<1>10. Runs(s, ts \cup us, r, l)
  BY <1>2, <1>6, <1>8, <1>9 DEF Runs, From
<1>11. ASSUME NEW t, Holds(a, t, r, l) \/ Holds(b, t, r, l) PROVE Holds(s, t, r, l)
  BY <1>3, <1>4, <1>11 DEF Holds
<1> QED
  BY <1>10, <1>11 DEF s

SysShape ==
    /\ platform \in Platforms /\ avail \subseteq {"gnome", "kde"}
    /\ settings \in [Tools \X Keys -> Values]
    /\ request \in Requests /\ listen \in Listens /\ ignored \subseteq Tools \X Keys
    /\ outcome \in {"none", "busy", "ok", "failed"}

\* All commands of t's script were run or are still to be run.
TrackedIn(st, ig, cs, s) == \A j \in 1..Len(s) : PendingIn(cs, s[j]) \/ DoneIn(st, ig, s[j])
OnTrack(t) == TrackedIn(settings, ignored, todo, ScriptOf(t, request, listen))

\* A tool whose script failed: its commands are dropped, and it does not count as written.
GivenUp(t) == platform = "other" /\ t \notin wrote /\ \A i \in 1..Len(todo) : todo[i].tool # t

\* While a call runs, every tool it uses is on track or was given up.
CallInv ==
    outcome = "busy" =>
        /\ Runs(todo, Used, request, listen) /\ wrote \subseteq Used
        /\ \A t \in Used : OnTrack(t) \/ GivenUp(t)

SysInv == SysShape /\ CallInv /\ AppliedIsEffective

\* A call uses tools, and asks for what can be asked for.
LEMMA UsedTools ==
    ASSUME SysShape
    PROVE  Used \subseteq Tools /\ listen \in Values /\ request \in Requests
  BY ToolSet DEF SysShape, Used, Platforms, Values

\* On Linux a tool has its script run exactly if it is installed.
LEMMA LinuxRuns ==
    ASSUME NEW r \in Requests, NEW l \in Values, NEW t \in {"gnome", "kde"}
    PROVE  /\ Runs(Linux(t, ScriptOf(t, r, l)), avail \cap {t}, r, l)
           /\ t \in avail => Holds(Linux(t, ScriptOf(t, r, l)), t, r, l)
<1>0. t \in Tools
  BY ToolSet
<1>1. CASE t \in avail
  <2>1. Linux(t, ScriptOf(t, r, l)) = ScriptOf(t, r, l) /\ avail \cap {t} = {t}
    BY <1>1 DEF Linux
  <2> QED
    BY <1>0, <2>1, OneRuns
<1>2. CASE t \notin avail
  <2>1. Linux(t, ScriptOf(t, r, l)) = <<>>
    BY <1>2 DEF Linux
  <2> QED
    BY <1>2, <2>1, NoneRuns
<1> QED
  BY <1>1, <1>2

\* What a call is about to run is right for every tool it uses.
LEMMA CallRuns ==
    ASSUME SysShape, NEW r \in Requests, NEW l \in Values
    PROVE  Runs(Script(r, l), Used, r, l) /\ \A t \in Used : Holds(Script(r, l), t, r, l)
<1> DEFINE g == Linux("gnome", GnomeScript(r))
           k == Linux("kde", KdeScript(r))
<1>1. /\ Runs(g, avail \cap {"gnome"}, r, l) /\ ("gnome" \in avail => Holds(g, "gnome", r, l))
      /\ Runs(k, avail \cap {"kde"}, r, l) /\ ("kde" \in avail => Holds(k, "kde", r, l))
  <2>1. ScriptOf("gnome", r, l) = GnomeScript(r) /\ ScriptOf("kde", r, l) = KdeScript(r)
    BY DEF ScriptOf
  <2> QED
    BY <2>1, LinuxRuns
<1> HIDE DEF g, k
<1>2. CASE platform = "gnome"
  <2>1. Script(r, l) = g /\ Used = avail \cap {"gnome"}
    BY <1>2 DEF Script, Used, g
  <2> QED
    BY <1>1, <2>1
<1>3. CASE platform = "kde"
  <2>1. Script(r, l) = k /\ Used = avail \cap {"kde"}
    BY <1>3 DEF Script, Used, k
  <2> QED
    BY <1>1, <2>1
<1>4. CASE platform = "other"
  <2>1. Script(r, l) = g \o k /\ Used = avail
    BY <1>4 DEF Script, Used, g, k
  <2>2. /\ Runs(g \o k, (avail \cap {"gnome"}) \cup (avail \cap {"kde"}), r, l)
        /\ \A t : Holds(g, t, r, l) \/ Holds(k, t, r, l) => Holds(g \o k, t, r, l)
    BY <1>1, TwoRun
  <2>3. (avail \cap {"gnome"}) \cup (avail \cap {"kde"}) = avail
    BY DEF SysShape
  <2> QED
    BY <1>1, <2>1, <2>2, <2>3 DEF SysShape
<1>5. CASE platform = "macos"
  <2> DEFINE a == MacScript("wifi", r)
             b == MacScript("ethernet", r)
  <2>1. Script(r, l) = a \o b /\ Used = {"wifi"} \cup {"ethernet"}
    BY <1>5 DEF Script, Used, Services
  <2>2. ScriptOf("wifi", r, l) = a /\ ScriptOf("ethernet", r, l) = b
    BY DEF ScriptOf
  <2>3. "wifi" \in Tools /\ "ethernet" \in Tools
    BY ToolSet
  <2> HIDE DEF a, b
  <2>4. /\ Runs(a, {"wifi"}, r, l) /\ Holds(a, "wifi", r, l)
        /\ Runs(b, {"ethernet"}, r, l) /\ Holds(b, "ethernet", r, l)
    BY <2>2, <2>3, OneRuns
  <2>5. /\ Runs(a \o b, {"wifi"} \cup {"ethernet"}, r, l)
        /\ \A t : Holds(a, t, r, l) \/ Holds(b, t, r, l) => Holds(a \o b, t, r, l)
    BY <2>4, TwoRun
  <2> QED
    BY <2>1, <2>4, <2>5
<1>6. CASE platform = "windows"
  <2>1. Script(r, l) = ScriptOf("windows", r, l) /\ Used = {"windows"} /\ "windows" \in Tools
    BY <1>6, ToolSet DEF Script, Used, ScriptOf
  <2> QED
    BY <2>1, OneRuns
<1> QED
  BY <1>2, <1>3, <1>4, <1>5, <1>6 DEF SysShape, Platforms

\* After a command the rest of the commands are still to be run.
LEMMA TailRuns ==
    ASSUME NEW r, NEW l, NEW ts, NEW s, Runs(s, ts, r, l), s # <<>>
    PROVE  Runs(Tail(s), ts, r, l)
<1> DEFINE From(c) == \E j \in 1..Len(ScriptOf(c.tool, r, l)) : c = ScriptOf(c.tool, r, l)[j]
           u == Tail(s)
<1>1. s \in Seq(Commands) /\ KeysOnce(s) /\ InOrder(s)
      /\ \A i \in 1..Len(s) : s[i].tool \in ts /\ s[i].key[1] = s[i].tool /\ From(s[i])
  BY DEF Runs
<1>2. u \in Seq(Commands) /\ Len(u) \in Nat /\ \A i \in 1..Len(u) : u[i] = s[i + 1] /\ i + 1 \in 1..Len(s)
  BY <1>1
<1> HIDE DEF From, u
<1>3. \A i \in 1..Len(u) : u[i].tool \in ts /\ u[i].key[1] = u[i].tool /\ From(u[i])
  BY <1>1, <1>2
<1>4. KeysOnce(u) /\ InOrder(u)
  <2>1. ASSUME NEW i \in 1..Len(u), NEW j \in 1..Len(u), u[i].key = u[j].key PROVE i = j
    <3>1. i + 1 = j + 1
      BY <1>1, <1>2, <2>1 DEF KeysOnce
    <3> QED
      BY <3>1
  <2>2. ASSUME NEW i \in 1..Len(u), NEW j \in 1..Len(u), i < j, u[i].tool = "kde" PROVE u[j].tool = "kde"
    <3>1. i + 1 < j + 1
      BY <2>2
    <3> QED
      BY <1>1, <1>2, <2>2, <3>1 DEF InOrder
  <2> QED
    BY <2>1, <2>2 DEF KeysOnce, InOrder
<1>5. Runs(u, ts, r, l)
  BY <1>2, <1>3, <1>4 DEF Runs, From
<1> QED
  BY <1>5 DEF u

\* The commands of two places in the scripts write different keys.
LEMMA KeysApart ==
    ASSUME NEW r \in Requests, NEW l \in Values, NEW t \in Tools, NEW u \in Tools,
           NEW i \in 1..Len(ScriptOf(t, r, l)), NEW j \in 1..Len(ScriptOf(u, r, l)),
           ScriptOf(t, r, l)[i] # ScriptOf(u, r, l)[j]
    PROVE  ScriptOf(t, r, l)[i].key # ScriptOf(u, r, l)[j].key
<1> DEFINE a == ScriptOf(t, r, l)
           b == ScriptOf(u, r, l)
<1>1. OneTool(a, t) /\ KeysOnce(a) /\ OneTool(b, u)
  BY ScriptShape
<1>2. CASE t # u
  <2>1. a[i].key[1] = t /\ b[j].key[1] = u
    BY <1>1 DEF OneTool
  <2> QED
    BY <1>2, <2>1
<1>3. CASE t = u
  BY <1>1, <1>3 DEF KeysOnce
<1> QED
  BY <1>2, <1>3

\* One command: it takes effect or is a delete whose failure is noted as ignored, and it
\* touches no other key.
LEMMA CommandEffect ==
    ASSUME SysShape, CommandOk \/ DeleteIgnored, Head(todo) \in Commands
    PROVE  /\ settings' \in [Tools \X Keys -> Values] /\ DoneIn(settings', ignored', Head(todo))
           /\ ignored \subseteq ignored' /\ ignored' \subseteq Tools \X Keys
           /\ \A k \in Tools \X Keys : k # Head(todo).key => settings'[k] = settings[k]
<1> DEFINE c == Head(todo)
<1>1. /\ c.key \in Tools \X Keys /\ c.value \in Values /\ c.op \in {"set", "delete", "deleteIf"}
      /\ settings \in [Tools \X Keys -> Values] /\ Absent \in Values /\ ignored \subseteq Tools \X Keys
  BY DEF Commands, SysShape, Values
<1>6. CASE DeleteIgnored
  <2>1. settings' = settings /\ ignored' = ignored \cup {c.key} /\ c.op # "set"
    BY <1>6 DEF DeleteIgnored
  <2> HIDE DEF c
  <2> QED
    BY <1>1, <2>1 DEF DoneIn, c
<1>2. ASSUME CommandOk
      PROVE  /\ ignored' = ignored
             /\ (c.op = "set" => settings' = [settings EXCEPT ![c.key] = c.value])
             /\ (c.op = "delete" => settings' = [settings EXCEPT ![c.key] = Absent])
             /\ (c.op = "deleteIf" => settings' \in {[settings EXCEPT ![c.key] = Absent], settings})
  BY <1>2 DEF CommandOk
<1> HIDE DEF c
<1>3. CASE CommandOk /\ c.op = "set"
  <2>1. settings' = [settings EXCEPT ![c.key] = c.value] /\ ignored' = ignored
    BY <1>2, <1>3
  <2> QED
    BY <1>1, <1>3, <2>1 DEF DoneIn, c
<1>4. CASE CommandOk /\ c.op = "delete"
  <2>1. settings' = [settings EXCEPT ![c.key] = Absent] /\ ignored' = ignored
    BY <1>2, <1>4
  <2> QED
    BY <1>1, <1>4, <2>1 DEF DoneIn, c
<1>5. CASE CommandOk /\ c.op = "deleteIf"
  <2>1. settings' \in {[settings EXCEPT ![c.key] = Absent], settings} /\ ignored' = ignored
    BY <1>2, <1>5
  <2> QED
    BY <1>1, <1>5, <2>1 DEF DoneIn, c
<1> QED
  BY <1>1, <1>3, <1>4, <1>5, <1>6 DEF c

\* Before the first call the invariant holds, whatever the settings are.
LEMMA SysStart == SysInit => SysInv
<1> SUFFICES ASSUME SysInit PROVE SysInv
  OBVIOUS
<1>1. listen \in Listens
  BY SysAssumption DEF SysInit
<1>2. settings \in [Tools \X Keys -> Values]
  BY DEF SysInit, Values
<1>3. SysShape
  BY <1>1, <1>2 DEF SysInit, SysShape, Requests
<1> QED
  BY <1>3 DEF SysInit, SysInv, CallInv, AppliedIsEffective

\* Every call, command, failing command and return keeps the invariant: a tool is on
\* track, or the call has given it up and will not rely on it.
LEMMA SysStep == SysInv /\ [SysNext]_sysVars => SysInv'
<1> SUFFICES ASSUME SysInv, [SysNext]_sysVars PROVE SysInv'
  OBVIOUS
<1>0. SysShape /\ CallInv /\ AppliedIsEffective
  BY DEF SysInv
<1>u. Used \subseteq Tools /\ listen \in Values /\ request \in Requests
  BY <1>0, UsedTools
<1>1. ASSUME NEW r \in Requests, NEW l \in Listens, ApplySystemProxy(r, l) PROVE SysInv'
  <2>1. /\ request' = r /\ listen' = l /\ todo' = Script(r, l) /\ wrote' = {} /\ ignored' = {}
        /\ outcome' = "busy"
        /\ UNCHANGED <<platform, avail, settings>>
    BY <1>1 DEF ApplySystemProxy
  <2>2. l \in Values
    BY DEF Values
  <2>3. Runs(todo', Used, r, l) /\ \A t \in Used : Holds(todo', t, r, l)
    BY <1>0, <2>1, <2>2, CallRuns
  <2>4. Used' = Used
    BY <2>1 DEF Used
  <2>5. ASSUME NEW t \in Used PROVE OnTrack(t)'
    BY <2>1, <2>3 DEF OnTrack, TrackedIn, PendingIn, Holds
  <2>6. CallInv'
    BY <2>1, <2>3, <2>4, <2>5 DEF CallInv
  <2>7. SysShape' /\ AppliedIsEffective'
    BY <1>0, <2>1 DEF SysShape, AppliedIsEffective
  <2> QED
    BY <2>6, <2>7 DEF SysInv
<1>2. CASE CommandOk \/ DeleteIgnored
  <2> DEFINE c == Head(todo)
  <2>1. /\ outcome = "busy" /\ todo # <<>> /\ todo' = Tail(todo) /\ wrote' = wrote \cup {c.tool}
        /\ UNCHANGED <<platform, avail, request, listen, outcome>>
    BY <1>2 DEF CommandOk, DeleteIgnored
  <2>2. /\ Runs(todo, Used, request, listen) /\ wrote \subseteq Used
        /\ \A t \in Used : OnTrack(t) \/ GivenUp(t)
    BY <1>0, <2>1 DEF CallInv
  <2>3. /\ todo \in Seq(Commands) /\ c = todo[1] /\ c \in Commands /\ 1 \in 1..Len(todo)
        /\ \A i \in 1..Len(todo) : i = 1 \/ (i - 1 \in 1..Len(todo') /\ todo[i] = todo'[i - 1])
        /\ \A i \in 1..Len(todo') : i + 1 \in 1..Len(todo) /\ todo'[i] = todo[i + 1]
    BY <2>1, <2>2 DEF Runs
  <2>4. PICK m \in 1..Len(ScriptOf(c.tool, request, listen)) : c = ScriptOf(c.tool, request, listen)[m]
    BY <2>2, <2>3 DEF Runs
  <2>5. c.tool \in Used /\ c.tool \in Tools
    BY <1>u, <2>2, <2>3 DEF Runs
  <2>6. /\ settings' \in [Tools \X Keys -> Values] /\ DoneIn(settings', ignored', c)
        /\ ignored \subseteq ignored' /\ ignored' \subseteq Tools \X Keys
        /\ \A k \in Tools \X Keys : k # c.key => settings'[k] = settings[k]
    BY <1>0, <1>2, <2>3, CommandEffect
  <2> HIDE DEF c
  <2>7. Used' = Used
    BY <2>1 DEF Used
  <2>8. Runs(todo', Used', request', listen')
    BY <2>1, <2>2, <2>7, TailRuns
  <2>9. ASSUME NEW t \in Used, GivenUp(t) PROVE GivenUp(t)'
    <3>1. platform = "other" /\ t \notin wrote /\ \A i \in 1..Len(todo) : todo[i].tool # t
      BY <2>9 DEF GivenUp
    <3>2. c.tool # t
      BY <2>3, <3>1
    <3> QED
      BY <2>1, <2>3, <3>1, <3>2 DEF GivenUp
  <2>10. ASSUME NEW t \in Used, OnTrack(t) PROVE OnTrack(t)'
    <3> DEFINE s == ScriptOf(t, request, listen)
    <3>1. ASSUME NEW j \in 1..Len(s) PROVE PendingIn(todo', s[j]) \/ DoneIn(settings', ignored', s[j])
      <4> DEFINE d == s[j]
      <4>0. PendingIn(todo, d) \/ DoneIn(settings, ignored, d)
        BY <2>10 DEF OnTrack, TrackedIn
      <4>1. CASE d = c
        BY <2>6, <4>1
      <4>2. CASE d # c /\ PendingIn(todo, d)
        <5>1. PICK i \in 1..Len(todo) : todo[i] = d
          BY <4>2 DEF PendingIn
        <5>2. i - 1 \in 1..Len(todo') /\ todo'[i - 1] = d
          BY <2>3, <4>2, <5>1
        <5> QED
          BY <5>2 DEF PendingIn
      <4>3. CASE d # c /\ DoneIn(settings, ignored, d)
        <5>1. t \in Tools /\ s \in Seq(Commands)
          BY <1>u, ScriptShape
        <5>2. d \in Commands
          BY <5>1
        <5>3. d.key # c.key
          BY <1>u, <2>4, <2>5, <4>3, <5>1, KeysApart
        <5>4. d.key \in Tools \X Keys
          BY <5>2 DEF Commands
        <5>5. settings'[d.key] = settings[d.key]
          BY <2>6, <5>3, <5>4
        <5> QED
          BY <2>6, <4>3, <5>5 DEF DoneIn
      <4> QED
        BY <4>0, <4>1, <4>2, <4>3
    <3>2. ScriptOf(t, request', listen') = s
      BY <2>1
    <3> HIDE DEF s
    <3> QED
      BY <3>1, <3>2 DEF OnTrack, TrackedIn
  <2>11. CallInv'
    BY <2>2, <2>1, <2>5, <2>7, <2>8, <2>9, <2>10 DEF CallInv
  <2>12. SysShape' /\ AppliedIsEffective'
    BY <1>0, <2>1, <2>6 DEF SysShape, AppliedIsEffective
  <2> QED
    BY <2>11, <2>12 DEF SysInv
<1>3. CASE CommandFails
  <2> DEFINE c == Head(todo)
  <2>1. /\ outcome = "busy" /\ todo # <<>> /\ wrote' = wrote \ {c.tool}
        /\ UNCHANGED <<platform, avail, settings, request, listen, ignored>>
        /\ IF platform = "other"
           THEN /\ todo' = IF c.tool = "gnome" THEN Linux("kde", KdeScript(request)) ELSE <<>>
                /\ UNCHANGED outcome
           ELSE outcome' = "failed"
    BY <1>3 DEF CommandFails
  <2>2. /\ Runs(todo, Used, request, listen) /\ wrote \subseteq Used
        /\ \A t \in Used : OnTrack(t) \/ GivenUp(t)
    BY <1>0, <2>1 DEF CallInv
  <2>3. todo \in Seq(Commands) /\ c = todo[1] /\ 1 \in 1..Len(todo) /\ c.tool \in Used
    BY <2>1, <2>2 DEF Runs
  <2> HIDE DEF c
  <2>4. Used' = Used
    BY <2>1 DEF Used
  <2>5. SysShape' /\ AppliedIsEffective'
    BY <1>0, <2>1 DEF SysShape, AppliedIsEffective
  <2>6. CASE platform # "other"
    BY <2>1, <2>5, <2>6 DEF SysInv, CallInv
  <2>7. CASE platform = "other" /\ c.tool = "gnome"
    <3>1. todo' = Linux("kde", ScriptOf("kde", request, listen)) /\ Used = avail /\ avail \subseteq {"gnome", "kde"}
      BY <1>0, <2>1, <2>7 DEF ScriptOf, Used, SysShape
    <3>2. /\ Runs(todo', avail \cap {"kde"}, request, listen)
          /\ "kde" \in avail => Holds(todo', "kde", request, listen)
      BY <1>u, <3>1, LinuxRuns
    <3>3. Runs(todo', Used', request', listen')
      BY <2>1, <2>4, <3>1, <3>2, MoreTools
    <3>4. GivenUp("gnome")'
      <4>1. \A i \in 1..Len(todo') : todo'[i].tool # "gnome"
        BY <3>2 DEF Runs
      <4> QED
        BY <2>1, <2>7, <4>1 DEF GivenUp
    <3>5. "kde" \in Used => OnTrack("kde")'
      BY <2>1, <3>1, <3>2 DEF OnTrack, TrackedIn, Holds, PendingIn
    <3>6. CallInv'
      BY <2>1, <2>2, <2>4, <3>1, <3>3, <3>4, <3>5 DEF CallInv
    <3> QED
      BY <2>5, <3>6 DEF SysInv
  <2>8. CASE platform = "other" /\ c.tool # "gnome"
    <3>1. todo' = <<>> /\ Used = avail /\ avail \subseteq {"gnome", "kde"} /\ c.tool = "kde"
      BY <1>0, <2>1, <2>3, <2>8 DEF Used, SysShape
    <3>2. Runs(todo', Used', request', listen') /\ Len(todo') = 0
      BY <3>1, NoneRuns
    <3>3. GivenUp("kde")'
      BY <2>1, <2>8, <3>1, <3>2 DEF GivenUp
    <3>4. \A i \in 1..Len(todo) : todo[i].tool = "kde"
      BY <2>2, <2>3, <3>1 DEF Runs, InOrder
    <3>5. ASSUME "gnome" \in Used, OnTrack("gnome") PROVE OnTrack("gnome")'
      <4> DEFINE s == ScriptOf("gnome", request, listen)
      <4>1. OneTool(s, "gnome")
        BY <1>u, <3>5, ScriptShape
      <4>2. ASSUME NEW j \in 1..Len(s) PROVE DoneIn(settings, ignored, s[j])
        <5>1. s[j].tool = "gnome"
          BY <4>1 DEF OneTool
        <5>2. ~PendingIn(todo, s[j])
          BY <3>4, <5>1 DEF PendingIn
        <5> QED
          BY <3>5, <5>2 DEF OnTrack, TrackedIn
      <4>3. ScriptOf("gnome", request', listen') = s
        BY <2>1
      <4> HIDE DEF s
      <4> QED
        BY <2>1, <4>2, <4>3 DEF OnTrack, TrackedIn
    <3>6. ASSUME GivenUp("gnome") PROVE GivenUp("gnome")'
      BY <2>1, <3>2, <3>6 DEF GivenUp
    <3>7. CallInv'
      BY <2>1, <2>2, <2>4, <3>1, <3>2, <3>3, <3>5, <3>6 DEF CallInv
    <3> QED
      BY <2>5, <3>7 DEF SysInv
  <2> QED
    BY <2>6, <2>7, <2>8
<1>4. CASE ApplyReturns
  <2>1. /\ outcome = "busy" /\ todo = <<>> /\ outcome' = IF wrote = {} THEN "failed" ELSE "ok"
        /\ UNCHANGED <<platform, avail, settings, request, listen, ignored>>
    BY <1>4 DEF ApplyReturns
  <2>2. wrote \subseteq Used /\ \A t \in Used : OnTrack(t) \/ GivenUp(t)
    BY <1>0, <2>1 DEF CallInv
  <2>3. ASSUME NEW t \in Used, platform # "other" \/ t \in wrote PROVE Uses(t, request)
    <3>1. OnTrack(t) /\ t \in Tools
      BY <1>u, <2>2, <2>3 DEF GivenUp
    <3>2. ASSUME NEW j \in 1..Len(ScriptOf(t, request, listen)) PROVE Done(ScriptOf(t, request, listen)[j])
      <4>1. ~PendingIn(todo, ScriptOf(t, request, listen)[j])
        BY <2>1 DEF PendingIn
      <4> QED
        BY <3>1, <4>1 DEF OnTrack, TrackedIn, Done
    <3> QED
      BY <1>u, <3>1, <3>2, ScriptEffect
  <2>4. SysShape' /\ CallInv'
    BY <1>0, <2>1 DEF SysShape, CallInv
  <2>5. ASSUME wrote # {}
        PROVE  CASE platform \in {"gnome", "kde"} -> EffectiveLinux(platform) = request
                 [] platform = "other" -> \E t \in avail : EffectiveLinux(t) = request
                 [] platform = "macos" -> \A i \in DOMAIN Services : EffectiveMac(Services[i]) = request
                 [] platform = "windows" -> WindowsUses(request)
    <3>1. CASE platform \in {"gnome", "kde"}
      <4>1. platform \in Used
        BY <2>2, <2>5, <3>1 DEF Used
      <4> QED
        BY <2>3, <3>1, <4>1 DEF Uses
    <3>2. CASE platform = "other"
      <4>1. PICK t \in wrote : TRUE
        BY <2>5
      <4>2. t \in avail /\ t \in Used /\ t \in {"gnome", "kde"}
        BY <1>0, <2>2, <3>2 DEF Used, SysShape
      <4> QED
        BY <2>3, <3>2, <4>1, <4>2 DEF Uses
    <3>3. CASE platform = "macos"
      <4>1. Used = {"wifi", "ethernet"}
        BY <3>3 DEF Used
      <4>2. EffectiveMac("wifi") = request /\ EffectiveMac("ethernet") = request
        BY <2>3, <3>3, <4>1 DEF Uses
      <4> QED
        BY <3>3, <4>2 DEF Services
    <3>4. CASE platform = "windows"
      <4>1. Used = {"windows"}
        BY <3>4 DEF Used
      <4> QED
        BY <2>3, <3>4, <4>1 DEF Uses
    <3> QED
      BY <1>0, <3>1, <3>2, <3>3, <3>4 DEF SysShape, Platforms
  <2>6. AppliedIsEffective'
    <3>1. ASSUME outcome' = "ok" PROVE wrote # {}
      BY <2>1, <3>1
    <3> QED
      BY <2>1, <2>5, <3>1, ZenonT(60) DEF AppliedIsEffective, EffectiveLinux, EffectiveMac, EffectiveWindows, WindowsUses, AutoConfigUrl
  <2> QED
    BY <2>4, <2>6 DEF SysInv
<1>5. CASE UNCHANGED sysVars
  <2>1. UNCHANGED <<platform, avail, settings, request, listen, todo, wrote, ignored, outcome>>
    BY <1>5 DEF sysVars
  <2>2. SysShape' /\ AppliedIsEffective'
    BY <1>0, <2>1, ZenonT(60) DEF SysShape, AppliedIsEffective, EffectiveLinux, EffectiveMac, EffectiveWindows, WindowsUses, AutoConfigUrl
  <2>3. CallInv'
    BY <1>0, <2>1 DEF CallInv, Used, OnTrack, GivenUp
  <2> QED
    BY <2>2, <2>3 DEF SysInv
<1> QED
  BY <1>1, <1>2, <1>3, <1>4, <1>5 DEF SysNext

\* apply_system_proxy, on every desktop: when it reports success the requested proxy is in
\* effect, whatever commands failed before and whatever the settings were, for any set of
\* addresses and any number of failures.  On Windows an old AutoConfigURL may be left over,
\* and only if reg_delete failed on that very value in this call.
THEOREM SuccessIsEffective == SysSpec => []AppliedIsEffective
<1>1. SysInv => AppliedIsEffective
  BY DEF SysInv
<1> QED
  BY SysStart, SysStep, <1>1, PTL DEF SysSpec

-----------------------------------------------------------------------------
(* GuiController: indices into a list that is edited, saved and reloaded.  *)

ListOK(list) == list \in Seq(Profiles) /\ list # <<>>

\* The saved index always points into the saved list.
SavedOK(s) == s \in [list : Seq(Profiles), active : Nat] /\ s.list # <<>> /\ s.active \in 1..Len(s.list)

\* The active index of the working list may point past its end, as a file may say.
WorkOK(w) == w \in [list : Seq(Profiles), active : Nat \ {0}] /\ w.list # <<>>

EditorOK(e, w) == e \in [selected : Nat, invalid : BOOLEAN] /\ e.selected \in 1..Len(w.list)

DiskOK(d) ==
    /\ DOMAIN d = Files
    /\ d["profiles"] \in Seq(Profiles) \cup {None, Garbage}
    /\ d["runtime"] \notin {None, Garbage} => d["runtime"].active \in Nat \ {0}

\* The node a core was started with is in the list.
RunningOK(c, w) == c => w.active \in 1..Len(w.list)

ListInv ==
    WorkOK(work) /\ SavedOK(saved) /\ EditorOK(editor, work) /\ DiskOK(disk) /\ RunningOK(connected, work)

\* The lesser of two numbers.
LEMMA MinOfTwo ==
    ASSUME NEW a \in Nat, NEW b \in Nat
    PROVE  Min({a, b}) = IF a <= b THEN a ELSE b
<1> DEFINE m == IF a <= b THEN a ELSE b
<1>1. m \in {a, b} /\ \A y \in {a, b} : m =< y
  OBVIOUS
<1>2. ASSUME NEW x \in {a, b}, \A y \in {a, b} : x =< y PROVE x = m
  BY <1>2
<1> HIDE DEF m
<1>3. Min({a, b}) = m
  BY <1>1, <1>2 DEF Min
<1> QED
  BY <1>3 DEF m

\* usize::min against the last index: the result points into the list.
LEMMA ClampIs ==
    ASSUME NEW list \in Seq(Profiles), list # <<>>, NEW i \in Nat \ {0}
    PROVE  /\ Clamp(i, list) = IF i <= Len(list) THEN i ELSE Len(list)
           /\ Clamp(i, list) \in 1..Len(list)
<1>1. Len(list) \in Nat \ {0}
  OBVIOUS
<1> QED
  BY <1>1, MinOfTwo DEF Clamp

\* load_selected leaves the selection inside the list.
LEMMA LoadIn ==
    ASSUME NEW w, w.list \in Seq(Profiles), w.list # <<>>, NEW i \in Nat \ {0}
    PROVE  EditorOK(Load(i, w.list), w)
<1>1. Clamp(i, w.list) \in 1..Len(w.list) /\ Len(w.list) \in Nat
  BY ClampIs
<1> QED
  BY <1>1 DEF Load, EditorOK

\* What Vec::insert does, position by position.
LEMMA InsertIs ==
    ASSUME NEW s \in Seq(Profiles), NEW i \in 1..(Len(s) + 1), NEW e \in Profiles
    PROVE  /\ InsertAt(s, i, e) \in Seq(Profiles) /\ Len(InsertAt(s, i, e)) = Len(s) + 1
           /\ \A k \in 1..(Len(s) + 1) :
                InsertAt(s, i, e)[k] = IF k < i THEN s[k] ELSE IF k = i THEN e ELSE s[k - 1]
<1> DEFINE a == SubSeq(s, 1, i - 1)
           b == SubSeq(s, i, Len(s))
<1>1. a \in Seq(Profiles) /\ Len(a) = i - 1 /\ \A k \in 1..(i - 1) : a[k] = s[k]
  OBVIOUS
<1>2. b \in Seq(Profiles) /\ Len(b) = Len(s) - i + 1 /\ \A k \in 1..(Len(s) - i + 1) : b[k] = s[i + k - 1]
  OBVIOUS
<1> HIDE DEF a, b
<1> DEFINE c == a \o <<e>>
<1>3. c \in Seq(Profiles) /\ Len(c) = i /\ \A k \in 1..i : c[k] = IF k < i THEN s[k] ELSE e
  BY <1>1
<1> HIDE DEF c
<1> DEFINE d == c \o b
<1>a. c \in Seq(Profiles) /\ b \in Seq(Profiles)
  BY <1>2, <1>3
<1>b. d \in Seq(Profiles) /\ Len(d) = Len(c) + Len(b)
      /\ \A k \in 1..Len(d) : d[k] = IF k <= Len(c) THEN c[k] ELSE b[k - Len(c)]
  BY <1>a
<1> HIDE DEF d
<1>4. d \in Seq(Profiles) /\ Len(d) = Len(s) + 1
      /\ \A k \in 1..(Len(s) + 1) : d[k] = IF k <= i THEN c[k] ELSE b[k - i]
  BY <1>2, <1>3, <1>b
<1>5. ASSUME NEW k \in 1..(Len(s) + 1)
      PROVE  d[k] = IF k < i THEN s[k] ELSE IF k = i THEN e ELSE s[k - 1]
  <2>1. CASE k <= i
    BY <1>3, <1>4, <2>1
  <2>2. CASE k > i
    <3>1. k - i \in 1..(Len(s) - i + 1) /\ i + (k - i) - 1 = k - 1
      BY <2>2
    <3>2. b[k - i] = s[k - 1]
      BY <1>2, <3>1
    <3> QED
      BY <1>4, <2>2, <3>2
  <2> QED
    BY <2>1, <2>2
<1> QED
  BY <1>4, <1>5 DEF InsertAt, a, b, c, d

\* What Vec::remove does, position by position.
LEMMA RemoveIs ==
    ASSUME NEW s \in Seq(Profiles), NEW i \in 1..Len(s)
    PROVE  /\ RemoveAt(s, i) \in Seq(Profiles) /\ Len(RemoveAt(s, i)) = Len(s) - 1
           /\ \A k \in 1..(Len(s) - 1) : RemoveAt(s, i)[k] = IF k < i THEN s[k] ELSE s[k + 1]
<1> DEFINE a == SubSeq(s, 1, i - 1)
           b == SubSeq(s, i + 1, Len(s))
<1>1. a \in Seq(Profiles) /\ Len(a) = i - 1 /\ \A k \in 1..(i - 1) : a[k] = s[k]
  OBVIOUS
<1>2. b \in Seq(Profiles) /\ Len(b) = Len(s) - i /\ \A k \in 1..(Len(s) - i) : b[k] = s[i + k]
  OBVIOUS
<1> HIDE DEF a, b
<1> DEFINE d == a \o b
<1>a. a \in Seq(Profiles) /\ b \in Seq(Profiles)
  BY <1>1, <1>2
<1>b. d \in Seq(Profiles) /\ Len(d) = Len(a) + Len(b)
      /\ \A k \in 1..Len(d) : d[k] = IF k <= Len(a) THEN a[k] ELSE b[k - Len(a)]
  BY <1>a
<1> HIDE DEF d
<1>3. d \in Seq(Profiles) /\ Len(d) = Len(s) - 1
      /\ \A k \in 1..(Len(s) - 1) : d[k] = IF k <= i - 1 THEN a[k] ELSE b[k - (i - 1)]
  BY <1>1, <1>2, <1>b
<1>4. ASSUME NEW k \in 1..(Len(s) - 1) PROVE d[k] = IF k < i THEN s[k] ELSE s[k + 1]
  <2>1. CASE k < i
    BY <1>1, <1>3, <2>1
  <2>2. CASE k >= i
    <3>1. k - (i - 1) \in 1..(Len(s) - i) /\ i + (k - (i - 1)) = k + 1
      BY <2>2
    <3>2. b[k - (i - 1)] = s[k + 1]
      BY <1>2, <3>1
    <3> QED
      BY <1>3, <2>2, <3>2
  <2> QED
    BY <2>1, <2>2
<1> QED
  BY <1>3, <1>4 DEF RemoveAt, a, b, d

\* A handler leaves the working list and the selection well formed, and an active node
\* that is in the list stays the same node.
Kept == /\ WorkOK(work') /\ EditorOK(editor', work')
        /\ (work.active \in 1..Len(work.list) =>
              work'.active \in 1..Len(work'.list) /\ work'.list[work'.active] = work.list[work.active])

\* What the commands rely on.
LEMMA WorkFacts ==
    ASSUME ListInv
    PROVE  /\ work.list \in Seq(Profiles) /\ work.list # <<>> /\ Len(work.list) \in Nat \ {0}
           /\ work.active \in Nat \ {0} /\ editor.selected \in 1..Len(work.list)
           /\ editor.invalid \in BOOLEAN
  BY DEF ListInv, WorkOK, EditorOK

\* add_node and import_text append, and keep the active node.
LEMMA AddKeeps ==
    ASSUME ListInv, NEW p \in Profiles, AddNode(p)
    PROVE  Kept
<1> DEFINE n == Len(work.list)
<1>1. work.list \in Seq(Profiles) /\ n \in Nat \ {0} /\ work.active \in Nat \ {0}
  BY WorkFacts
<1>2. work'.list = Append(work.list, p) /\ work'.active = work.active
      /\ work' = [list |-> work'.list, active |-> work'.active]
  BY DEF AddNode, ListInv, WorkOK
<1>3. editor' = Load(n + 1, work'.list)
  BY DEF AddNode
<1>4. /\ work'.list \in Seq(Profiles) /\ work'.list # <<>> /\ Len(work'.list) = n + 1
      /\ \A k \in 1..n : work'.list[k] = work.list[k]
  BY <1>1, <1>2
<1>5. WorkOK(work')
  BY <1>1, <1>2, <1>4 DEF WorkOK
<1>6. EditorOK(editor', work')
  BY <1>1, <1>3, <1>4, LoadIn
<1> QED
  BY <1>1, <1>2, <1>4, <1>5, <1>6 DEF Kept

\* duplicate_node shifts the active index with the nodes behind the copy.
LEMMA DuplicateKeeps ==
    ASSUME ListInv, NEW i \in 1..Len(work.list), Duplicate(i)
    PROVE  Kept
<1> DEFINE n == Len(work.list)
           d == InsertAt(work.list, i + 1, work.list[i])
           a == IF work.active > i THEN work.active + 1 ELSE work.active
<1>1. work.list \in Seq(Profiles) /\ n \in Nat \ {0} /\ work.active \in Nat \ {0} /\ work.list[i] \in Profiles
  BY WorkFacts
<1>2. work' = [list |-> d, active |-> a] /\ editor' = Load(i + 1, work'.list)
  BY DEF Duplicate
<1>3. i + 1 \in 1..(n + 1)
  BY <1>1
<1>4. /\ d \in Seq(Profiles) /\ Len(d) = n + 1
      /\ \A k \in 1..(n + 1) : d[k] = IF k < i + 1 THEN work.list[k]
                                      ELSE IF k = i + 1 THEN work.list[i] ELSE work.list[k - 1]
  <2> DEFINE s == work.list
             m == i + 1
             e == s[i]
  <2>1. s \in Seq(Profiles) /\ m \in 1..(Len(s) + 1) /\ e \in Profiles
    BY <1>1, <1>3
  <2> HIDE DEF s, m, e
  <2>2. /\ InsertAt(s, m, e) \in Seq(Profiles) /\ Len(InsertAt(s, m, e)) = Len(s) + 1
        /\ \A k \in 1..(Len(s) + 1) :
             InsertAt(s, m, e)[k] = IF k < m THEN s[k] ELSE IF k = m THEN e ELSE s[k - 1]
    BY <2>1, InsertIs, ZenonT(60)
  <2> QED
    BY <2>2 DEF s, m, e
<1> HIDE DEF d
<1>5. d # <<>> /\ a \in Nat \ {0} /\ i + 1 \in Nat \ {0}
  BY <1>1, <1>4
<1>6. WorkOK(work')
  BY <1>2, <1>4, <1>5 DEF WorkOK
<1>7. EditorOK(editor', work')
  BY <1>2, <1>4, <1>5, LoadIn
<1>8. ASSUME work.active \in 1..n PROVE a \in 1..Len(d) /\ d[a] = work.list[work.active]
  <2>1. CASE work.active > i
    <3>1. a = work.active + 1 /\ a \in 1..(n + 1) /\ a > i + 1 /\ a - 1 = work.active
      BY <1>1, <1>8, <2>1
    <3> QED
      BY <1>4, <3>1
  <2>2. CASE work.active <= i
    <3>1. a = work.active /\ a \in 1..(n + 1) /\ a < i + 1
      BY <1>1, <1>8, <2>2
    <3> QED
      BY <1>4, <3>1
  <2> QED
    BY <1>8, <2>1, <2>2
<1> QED
  BY <1>2, <1>6, <1>7, <1>8 DEF Kept

Swapped(k, i, j) == CASE k = i -> j [] k = j -> i [] OTHER -> k

\* move_node swaps two nodes, and the active index with them.
LEMMA MoveKeeps ==
    ASSUME ListInv, NEW i \in 1..Len(work.list), NEW j \in 1..Len(work.list), Move(i, j)
    PROVE  Kept
<1> DEFINE n == Len(work.list)
           d == [k \in DOMAIN work.list |-> work.list[Swapped(k, i, j)]]
<1>1. work.list \in Seq(Profiles) /\ n \in Nat \ {0} /\ work.active \in Nat \ {0} /\ DOMAIN work.list = 1..n
      /\ editor \in [selected : Nat, invalid : BOOLEAN] /\ editor.selected \in 1..n
  BY WorkFacts DEF ListInv, EditorOK
<1>2. work' = [list |-> d, active |-> Swapped(work.active, i, j)]
      /\ editor' = [editor EXCEPT !.selected = Swapped(@, i, j)]
  BY DEF Move, Swapped
<1>3. \A k \in 1..n : Swapped(k, i, j) \in 1..n /\ Swapped(Swapped(k, i, j), i, j) = k
  BY DEF Swapped
<1>4. Swapped(work.active, i, j) \in Nat \ {0}
  BY <1>1 DEF Swapped
<1>5. d \in Seq(Profiles) /\ Len(d) = n /\ \A k \in 1..n : d[k] = work.list[Swapped(k, i, j)]
  <2>1. \A k \in 1..n : work.list[Swapped(k, i, j)] \in Profiles
    BY <1>1, <1>3
  <2>2. d \in [1..n -> Profiles]
    BY <1>1, <2>1
  <2> QED
    BY <1>1, <2>2
<1> HIDE DEF d
<1>6. WorkOK(work')
  BY <1>1, <1>2, <1>4, <1>5 DEF WorkOK
<1>7. EditorOK(editor', work')
  BY <1>1, <1>2, <1>3, <1>5 DEF EditorOK
<1>8. ASSUME work.active \in 1..n
      PROVE  Swapped(work.active, i, j) \in 1..n /\ d[Swapped(work.active, i, j)] = work.list[work.active]
  BY <1>3, <1>5, <1>8
<1> QED
  BY <1>2, <1>5, <1>6, <1>7, <1>8 DEF Kept

\* Where an index goes when the node at i is removed.
LEMMA RemapIs ==
    ASSUME ListInv, Len(work.list) > 1, NEW i \in 1..Len(work.list), NEW k \in Nat \ {0}
    PROVE  /\ Remap(k, i) \in Nat \ {0}
           /\ k > i => Remap(k, i) = k - 1
           /\ k < i => Remap(k, i) = k
           /\ k \in 1..Len(work.list) => Remap(k, i) \in 1..(Len(work.list) - 1)
<1>0. Len(work.list) \in Nat
  BY WorkFacts
<1>1. Len(work.list) \in Nat /\ Len(work.list) - 1 \in Nat \ {0}
  <2>1. ASSUME NEW n \in Nat, n > 1 PROVE n - 1 \in Nat \ {0}
    BY <2>1
  <2> QED
    BY <1>0, <2>1
<1>2. Min({k, Len(work.list) - 1}) = IF k <= Len(work.list) - 1 THEN k ELSE Len(work.list) - 1
  BY <1>1, MinOfTwo
<1> QED
  BY <1>1, <1>2 DEF Remap

\* Deleting a node other than the active one; and deleting any.
LEMMA DeleteKeeps ==
    ASSUME ListInv, NEW i \in 1..Len(work.list), Delete(i)
    PROVE  /\ WorkOK(work') /\ EditorOK(editor', work')
           /\ (i # work.active => Kept)
           /\ (work.active \in 1..Len(work.list) => work'.active \in 1..Len(work'.list))
<1> DEFINE n == Len(work.list)
           d == RemoveAt(work.list, i)
           a == Remap(work.active, i)
<1>1. work.list \in Seq(Profiles) /\ n \in Nat /\ n > 1 /\ work.active \in Nat \ {0}
      /\ editor \in [selected : Nat, invalid : BOOLEAN] /\ editor.selected \in 1..n
  BY WorkFacts DEF ListInv, EditorOK, Delete
<1>2. work' = [list |-> d, active |-> a]
      /\ editor' = IF editor.selected = i THEN Load(Remap(i, i), work'.list)
                   ELSE [editor EXCEPT !.selected = Remap(@, i)]
  BY DEF Delete
<1>3. /\ d \in Seq(Profiles) /\ Len(d) = n - 1
      /\ \A k \in 1..(n - 1) : d[k] = IF k < i THEN work.list[k] ELSE work.list[k + 1]
  BY <1>1, RemoveIs
<1>4. a \in Nat \ {0} /\ (work.active > i => a = work.active - 1) /\ (work.active < i => a = work.active)
      /\ (work.active \in 1..n => a \in 1..(n - 1))
  BY <1>1, RemapIs
<1>5. Remap(i, i) \in Nat \ {0} /\ Remap(editor.selected, i) \in 1..(n - 1)
  BY <1>1, RemapIs
<1> HIDE DEF d, a
<1>6. d # <<>>
  BY <1>1, <1>3
<1>7. WorkOK(work')
  BY <1>2, <1>3, <1>4, <1>6 DEF WorkOK
<1>8. EditorOK(editor', work')
  <2>1. work'.list = d
    BY <1>2
  <2>2. CASE editor.selected = i
    BY <1>2, <1>3, <1>5, <1>6, <2>1, <2>2, LoadIn
  <2>3. CASE editor.selected # i
    BY <1>1, <1>2, <1>3, <1>5, <2>1, <2>3 DEF EditorOK
  <2> QED
    BY <2>2, <2>3
<1>9. ASSUME i # work.active, work.active \in 1..n PROVE a \in 1..Len(d) /\ d[a] = work.list[work.active]
  <2>1. CASE work.active > i
    <3>1. a = work.active - 1 /\ a \in 1..(n - 1) /\ ~(a < i) /\ a + 1 = work.active
      BY <1>1, <1>4, <1>9, <2>1
    <3> QED
      BY <1>3, <3>1
  <2>2. CASE work.active < i
    <3>1. a = work.active /\ a \in 1..(n - 1) /\ a < i
      BY <1>1, <1>4, <1>9, <2>2
    <3> QED
      BY <1>3, <3>1
  <2> QED
    BY <1>1, <1>9, <2>1, <2>2
<1>10. work.active \in 1..n => work'.active \in 1..Len(work'.list)
  BY <1>2, <1>3, <1>4
<1> QED
  BY <1>2, <1>7, <1>8, <1>9, <1>10 DEF Kept

\* The list commands keep the active node, and the running one.
LEMMA CommandKeeps ==
    ASSUME ListInv, ListCommand
    PROVE  /\ WorkOK(work') /\ EditorOK(editor', work')
           /\ (~Delete(work.active) => Kept)
           /\ (work.active \in 1..Len(work.list) => work'.active \in 1..Len(work'.list))
<1>0. DOMAIN work.list = 1..Len(work.list) /\ Len(work.list) \in Nat
  BY WorkFacts
<1>1. ASSUME NEW i \in 1..Len(work.list), Duplicate(i) PROVE Kept
  BY <1>1, DuplicateKeeps
<1>2. ASSUME NEW i \in 1..Len(work.list), Move(i, i + 1) PROVE Kept
  <2>1. i + 1 \in 1..Len(work.list)
    BY <1>0, <1>2 DEF Move
  <2> QED
    BY <1>2, <2>1, MoveKeeps
<1>3. ASSUME NEW i \in 1..Len(work.list), Delete(i)
      PROVE  /\ WorkOK(work') /\ EditorOK(editor', work') /\ (~Delete(work.active) => Kept)
             /\ (work.active \in 1..Len(work.list) => work'.active \in 1..Len(work'.list))
  <2>1. ~Delete(work.active) => i # work.active
    BY <1>3
  <2> QED
    BY <1>3, <2>1, DeleteKeeps
<1>4. ASSUME NEW p \in Profiles, AddNode(p) PROVE Kept
  BY <1>4, AddKeeps
<1>5. Kept => /\ WorkOK(work') /\ EditorOK(editor', work')
              /\ (work.active \in 1..Len(work.list) => work'.active \in 1..Len(work'.list))
  BY DEF Kept
<1> QED
  BY <1>0, <1>1, <1>2, <1>3, <1>4, <1>5 DEF ListCommand

\* Editing a node changes neither the length of the list nor the active index.
LEMMA EditKeeps ==
    ASSUME ListInv, NEW p \in Complete, NEW b \in BOOLEAN, EditNode(p, b)
    PROVE  /\ WorkOK(work') /\ EditorOK(editor', work')
           /\ work'.active = work.active /\ Len(work'.list) = Len(work.list)
<1>0. /\ DOMAIN work.list = 1..Len(work.list) /\ work.list \in Seq(Profiles)
      /\ WorkOK(work) /\ EditorOK(editor, work) /\ work.list # <<>>
  BY WorkFacts DEF ListInv
<1>1. /\ work'.list = [work.list EXCEPT ![editor.selected] = p] /\ work'.active = work.active
      /\ work' = [list |-> work'.list, active |-> work'.active]
      /\ editor' = [editor EXCEPT !.invalid = b]
  BY <1>0 DEF EditNode, WorkOK
<1>2. work'.list \in Seq(Profiles) /\ Len(work'.list) = Len(work.list) /\ work'.list # <<>>
  <2> DEFINE l == work.list
             at == editor.selected
  <2>1. l \in Seq(Profiles) /\ at \in 1..Len(l) /\ p \in Profiles /\ l # <<>>
    BY <1>0 DEF EditorOK, Profiles
  <2> HIDE DEF l, at
  <2>2. [l EXCEPT ![at] = p] \in Seq(Profiles) /\ Len([l EXCEPT ![at] = p]) = Len(l)
        /\ Len(l) \in Nat /\ Len(l) # 0
    BY <2>1
  <2> QED
    BY <1>1, <2>2 DEF l, at
<1>3. WorkOK(work')
  BY <1>0, <1>1, <1>2 DEF WorkOK
<1>4. editor'.selected = editor.selected /\ editor' \in [selected : Nat, invalid : BOOLEAN]
  BY <1>0, <1>1 DEF EditorOK
<1>5. EditorOK(editor', work')
  BY <1>0, <1>2, <1>4 DEF EditorOK
<1> QED
  BY <1>1, <1>2, <1>3, <1>5

\* A node that can be started is in the list.
LEMMA StartableIn ==
    ASSUME NEW w, WorkOK(w), Startable(Selected(w))
    PROVE  w.active \in 1..Len(w.list)
  BY GuiAssumption DEF Startable, Selected, WorkOK

\* Every node command keeps the indices in their lists.
LEMMA HandlerKeeps ==
    ASSUME ListInv, NodeHandler
    PROVE  ListInv'
<1>0. /\ DOMAIN work.list = 1..Len(work.list) /\ work.list \in Seq(Profiles) /\ Len(work.list) \in Nat
      /\ WorkOK(work) /\ EditorOK(editor, work) /\ work.list # <<>> /\ RunningOK(connected, work)
  BY WorkFacts DEF ListInv
<1>1. UNCHANGED <<saved, disk>>
  BY DEF NodeHandler
<1> DEFINE Good == /\ WorkOK(work') /\ EditorOK(editor', work')
                   /\ (work.active \in 1..Len(work.list) => work'.active \in 1..Len(work'.list))
<1>2. ASSUME ListCommand PROVE Good
  BY <1>2, CommandKeeps
<1>3. ASSUME NEW i \in 1..Len(work.list), SelectNode(i) PROVE Good
  <2>1. work' = work /\ editor' = Load(i, work.list) /\ i \in Nat \ {0}
    BY <1>0, <1>3 DEF SelectNode
  <2> QED
    BY <1>0, <2>1, LoadIn
<1>4. ASSUME NEW p \in Complete, NEW b \in BOOLEAN, EditNode(p, b) PROVE Good
  BY <1>4, EditKeeps
<1>5. ASSUME connected, Delete(work.active) PROVE Good
  <2>1. work.active \in 1..Len(work.list)
    BY <1>0, <1>5 DEF RunningOK
  <2> QED
    BY <1>5, <2>1, DeleteKeeps
<1> HIDE DEF Good
<1>6. Good
  BY <1>0, <1>2, <1>3, <1>4, <1>5 DEF NodeHandler, Good
<1>7. RunningOK(connected', work')
  <2>1. CASE connected' = connected
    BY <1>0, <1>6, <2>1 DEF RunningOK, Good
  <2>2. CASE connected /\ Delete(work.active)
    BY <1>0, <1>6, <2>2 DEF RunningOK, Good
  <2> QED
    BY <2>1, <2>2 DEF NodeHandler, coreVars
<1> QED
  BY <1>1, <1>6, <1>7 DEF ListInv, Good

\* Writing files leaves them readable, whichever of them fails.
LEMMA WriteSound ==
    ASSUME ListInv, NEW s, SavedOK(s), NEW fs, Write(fs, s)
    PROVE  SavedOK(saved') /\ DiskOK(disk')
<1>1. saved' = s /\ disk' = [f \in Files |-> IF f \in fs THEN Bytes(f, s) ELSE disk[f]]
  BY DEF Write
<1>2. DiskOK(disk)
  BY DEF ListInv
<1>3. s.list \in Seq(Profiles) /\ s.active \in Nat \ {0}
  BY DEF SavedOK
<1>4. /\ DOMAIN disk' = Files
      /\ disk'["profiles"] \in {s.list, disk["profiles"]}
      /\ disk'["runtime"] = disk["runtime"] \/ disk'["runtime"].active = s.active
  BY <1>1 DEF Files, Bytes
<1> QED
  BY <1>1, <1>2, <1>3, <1>4 DEF DiskOK

\* The steps of write_nodes: after both the saved list is the working one.
LEMMA SavedAfter ==
    ASSUME ListInv
    PROVE  /\ SavedOK(AfterList.saved) /\ SavedOK(AfterIndex.saved)
           /\ AfterIndex.saved.list = work.list
           /\ AfterIndex.saved.active = Clamp(work.active, work.list)
<1>1. WorkOK(work) /\ SavedOK(saved)
  BY DEF ListInv
<1>2. /\ work.list \in Seq(Profiles) /\ work.list # <<>> /\ work.active \in Nat \ {0}
      /\ saved.active \in Nat \ {0}
  BY <1>1 DEF WorkOK, SavedOK
<1>3. Clamp(work.active, work.list) \in 1..Len(work.list) /\ Clamp(saved.active, work.list) \in 1..Len(work.list)
      /\ Len(work.list) \in Nat
  BY <1>2, ClampIs
<1>4. SavedOK(NextSaved) /\ NextSaved.list = work.list /\ NextSaved.active = Clamp(work.active, work.list)
  BY <1>2, <1>3 DEF NextSaved, SavedOK
<1>5. SavedOK(AfterList.saved) /\ AfterList.saved.list = work.list
  <2>1. CASE work.list # saved.list
    <3>1. AfterList.saved = [list |-> work.list, active |-> Clamp(saved.active, work.list)]
      BY <2>1 DEF AfterList
    <3> QED
      BY <1>2, <1>3, <3>1 DEF SavedOK
  <2>2. CASE work.list = saved.list
    <3>1. AfterList.saved = saved
      BY <2>2 DEF AfterList
    <3> QED
      BY <1>1, <2>2, <3>1
  <2> QED
    BY <2>1, <2>2
<1>6. \/ AfterIndex.saved = NextSaved
      \/ AfterIndex.saved = AfterList.saved /\ AfterList.saved.active = NextSaved.active
  BY DEF AfterIndex
<1> QED
  BY <1>4, <1>5, <1>6

\* Save, the flush and a kill between the two writes.
LEMMA WritesSound ==
    ASSUME ListInv,
           WritesOk \/ WritesFail \/ (\E bad : Flush(bad)) \/ Write(AfterList.files, AfterList.saved)
           \/ UNCHANGED <<saved, disk>>
    PROVE  SavedOK(saved') /\ DiskOK(disk')
<1>0. SavedOK(saved) /\ DiskOK(disk) /\ SavedOK(AfterList.saved) /\ SavedOK(AfterIndex.saved)
  BY SavedAfter DEF ListInv
<1>1. ASSUME NEW step, Writes(step), SavedOK(step.saved) PROVE SavedOK(saved') /\ DiskOK(disk')
  <2>1. Write(step.files, step.saved)
    BY <1>1 DEF Writes
  <2> QED
    BY <1>1, <2>1, WriteSound
<1>2. CASE WritesOk
  <2>1. Writes(AfterIndex)
    BY <1>2 DEF WritesOk
  <2> QED
    BY <1>0, <1>1, <2>1
<1>3. CASE WritesFail
  <2> DEFINE none == [saved |-> saved, files |-> {}]
  <2>1. Writes(none) \/ Writes(AfterList)
    BY <1>3 DEF WritesFail
  <2>2. none.saved = saved
    OBVIOUS
  <2> HIDE DEF none
  <2> QED
    BY <1>0, <1>1, <2>1, <2>2
<1>4. ASSUME NEW bad, Flush(bad) PROVE SavedOK(saved') /\ DiskOK(disk')
  <2>1. Write(dirty \ bad, saved)
    BY <1>4 DEF Flush
  <2> QED
    BY <1>0, <2>1, WriteSound
<1>5. CASE Write(AfterList.files, AfterList.saved)
  BY <1>0, <1>5, WriteSound
<1>6. CASE UNCHANGED <<saved, disk>>
  BY <1>0, <1>6
<1> QED
  BY <1>2, <1>3, <1>4, <1>5, <1>6

\* Revert gives the saved list and index back, and keeps a running node in the list.
LEMMA RevertSound ==
    ASSUME ListInv, Reverted
    PROVE  /\ WorkOK(work') /\ EditorOK(editor', work')
           /\ (work.active \in 1..Len(work.list) => work'.active \in 1..Len(work'.list))
           /\ work'.list = saved.list /\ Clamp(work'.active, work'.list) = saved.active
<1>0. WorkOK(work) /\ EditorOK(editor, work) /\ SavedOK(saved)
  BY DEF ListInv
<1>1. saved.list \in Seq(Profiles) /\ saved.list # <<>> /\ saved.active \in 1..Len(saved.list)
      /\ Len(saved.list) \in Nat /\ saved.active \in Nat \ {0}
  BY <1>0 DEF SavedOK
<1>2. Clamp(saved.active, saved.list) = saved.active
  BY <1>1, ClampIs
<1>3. CASE NodesDirty
  <2>1. work' = [list |-> saved.list, active |-> saved.active] /\ editor' = Load(saved.active, saved.list)
    BY <1>2, <1>3 DEF Reverted
  <2>2. WorkOK(work')
    BY <1>1, <2>1 DEF WorkOK
  <2>3. EditorOK(editor', work')
    BY <1>1, <2>1, LoadIn
  <2> QED
    BY <1>1, <1>2, <2>1, <2>2, <2>3
<1>4. CASE ~NodesDirty
  <2>1. work' = work /\ editor' = editor /\ work = saved
    BY <1>4 DEF Reverted, NodesDirty, ListDirty
  <2> QED
    BY <1>0, <1>1, <1>2, <2>1
<1> QED
  BY <1>3, <1>4

\* A list that is read is never empty: a blank node stands for none.
LEMMA NonEmptyIs ==
    ASSUME NEW list \in Seq(Profiles)
    PROVE  NonEmpty(list) \in Seq(Profiles) /\ NonEmpty(list) # <<>>
<1>1. <<Blank>> \in Seq(Profiles) /\ <<Blank>> # <<>>
  BY DEF Profiles
<1> QED
  BY <1>1 DEF NonEmpty

\* Controller::new accepts whatever the files say.
LEMMA StartSound ==
    ASSUME ListInv, Start
    PROVE  ListInv'
<1> DEFINE l == Loaded("profiles", <<>>)
           list == NonEmpty(l)
           r == Loaded("runtime", DefaultRuntime)
           w == [list |-> list, active |-> IF l = <<>> THEN 1 ELSE r.active]
<1>0. DiskOK(disk)
  BY DEF ListInv
<1>1. l \in Seq(Profiles) /\ r.active \in Nat \ {0}
  BY <1>0 DEF Loaded, DiskOK, DefaultRuntime
<1>2. list \in Seq(Profiles) /\ list # <<>>
  BY <1>1, NonEmptyIs
<1>3. /\ work' = w /\ saved' = [w EXCEPT !.active = Clamp(@, list)] /\ editor' = Load(w.active, list)
      /\ disk' = [f \in Files |-> IF disk[f] = Garbage THEN None ELSE disk[f]]
      /\ connected' => Startable(Selected(w))
  BY DEF Start
<1> DEFINE a == w.active
<1>4. a \in Nat \ {0} /\ w = [list |-> list, active |-> a]
  BY <1>1
<1> HIDE DEF l, list, r, w, a
<1>5. WorkOK(work') /\ work'.list = list
  BY <1>2, <1>3, <1>4 DEF WorkOK
<1>6. EditorOK(editor', work')
  <2>1. editor' = Load(a, work'.list)
    BY <1>3, <1>5 DEF a
  <2> QED
    BY <1>2, <1>4, <1>5, <2>1, LoadIn
<1>7. SavedOK(saved')
  <2>1. saved' = [list |-> list, active |-> Clamp(a, list)]
    BY <1>3, <1>4
  <2>2. Clamp(a, list) \in 1..Len(list) /\ Len(list) \in Nat
    BY <1>2, <1>4, ClampIs
  <2> QED
    BY <1>2, <2>1, <2>2 DEF SavedOK
<1>8. DiskOK(disk')
  <2>1. DOMAIN disk' = Files /\ disk'["profiles"] \in {disk["profiles"], None} /\ disk'["runtime"] \in {disk["runtime"], None}
    BY <1>3 DEF Files
  <2> QED
    BY <1>0, <2>1 DEF DiskOK
<1>9. RunningOK(connected', work')
  <2>1. connected' => Startable(Selected(w))
    BY <1>3
  <2> QED
    BY <1>3, <1>5, <2>1, StartableIn DEF RunningOK
<1> QED
  BY <1>5, <1>6, <1>7, <1>8, <1>9 DEF ListInv

\* on_files_changed brings every index back into the list that is there.
LEMMA ReloadSound ==
    ASSUME ListInv, OnFilesChanged
    PROVE  ListInv'
<1> DEFINE s == ReloadedSaved
           list == IF "profiles" \in Reloads THEN s.list ELSE work.list
           w == IF ListDirty THEN [work EXCEPT !.active = Clamp(@, work.list)]
                ELSE [list |-> list, active |-> Clamp(s.active, list)]
           at == Clamp(editor.selected, w.list)
           e == IF w.list[at] = work.list[editor.selected] THEN [editor EXCEPT !.selected = at]
                ELSE Load(at, w.list)
<1>0. WorkOK(work) /\ SavedOK(saved) /\ EditorOK(editor, work) /\ DiskOK(disk) /\ RunningOK(connected, work)
  BY DEF ListInv
<1>1. /\ saved' = s /\ disk' = disk /\ connected' = connected
      /\ (work' = work /\ editor' = editor) \/ (work' = w /\ editor' = e)
  BY DEF OnFilesChanged
<1>2. SavedOK(s)
  <2> DEFINE sl == IF "profiles" \in Reloads THEN NonEmpty(disk["profiles"]) ELSE saved.list
             sa == IF "runtime" \in Reloads THEN disk["runtime"].active ELSE saved.active
  <2>1. s = [list |-> sl, active |-> Clamp(sa, sl)]
    BY DEF ReloadedSaved
  <2>2. sl \in Seq(Profiles) /\ sl # <<>>
    <3>1. CASE "profiles" \in Reloads
      <4>1. disk["profiles"] \in Seq(Profiles)
        BY <1>0, <3>1 DEF Reloads, Changed, DiskOK
      <4> QED
        BY <3>1, <4>1, NonEmptyIs
    <3>2. CASE "profiles" \notin Reloads
      BY <1>0, <3>2 DEF SavedOK
    <3> QED
      BY <3>1, <3>2
  <2>3. sa \in Nat \ {0}
    BY <1>0 DEF Reloads, Changed, DiskOK, SavedOK
  <2> HIDE DEF sl, sa
  <2>4. Clamp(sa, sl) \in 1..Len(sl) /\ Len(sl) \in Nat
    BY <2>2, <2>3, ClampIs
  <2> QED
    BY <2>1, <2>2, <2>4 DEF SavedOK
<1>3. WorkOK(w) /\ w.active \in 1..Len(w.list)
  <2>1. CASE ListDirty
    <3>1. w = [list |-> work.list, active |-> Clamp(work.active, work.list)]
      BY <1>0, <2>1 DEF WorkOK
    <3>2. Clamp(work.active, work.list) \in 1..Len(work.list) /\ Len(work.list) \in Nat
      BY <1>0, ClampIs DEF WorkOK
    <3> QED
      BY <1>0, <3>1, <3>2 DEF WorkOK
  <2>2. CASE ~ListDirty
    <3>1. w = [list |-> list, active |-> Clamp(s.active, list)]
      BY <2>2
    <3>2. list \in Seq(Profiles) /\ list # <<>> /\ s.active \in Nat \ {0}
      BY <1>0, <1>2 DEF SavedOK, WorkOK
    <3> HIDE DEF list, s, w
    <3>3. Clamp(s.active, list) \in 1..Len(list) /\ Len(list) \in Nat
      BY <3>2, ClampIs
    <3> QED
      BY <3>1, <3>2, <3>3 DEF WorkOK
  <2> QED
    BY <2>1, <2>2
<1> HIDE DEF s, list, w
<1>4. EditorOK(e, w)
  <2>1. w.list \in Seq(Profiles) /\ w.list # <<>> /\ editor.selected \in Nat \ {0}
        /\ editor \in [selected : Nat, invalid : BOOLEAN]
    BY <1>0, <1>3 DEF WorkOK, EditorOK
  <2>2. at \in 1..Len(w.list) /\ Len(w.list) \in Nat /\ at \in Nat \ {0}
    BY <2>1, ClampIs
  <2> HIDE DEF at
  <2>3. EditorOK(Load(at, w.list), w)
    BY <2>1, <2>2, LoadIn
  <2>4. EditorOK([editor EXCEPT !.selected = at], w)
    BY <2>1, <2>2 DEF EditorOK
  <2> QED
    BY <2>3, <2>4
<1> HIDE DEF e, at
<1>5. WorkOK(work') /\ EditorOK(editor', work') /\ RunningOK(connected', work')
  <2>1. CASE work' = work /\ editor' = editor
    BY <1>0, <1>1, <2>1
  <2>2. CASE work' = w /\ editor' = e
    BY <1>3, <1>4, <2>2 DEF RunningOK
  <2> QED
    BY <1>1, <2>1, <2>2
<1> QED
  BY <1>0, <1>1, <1>2, <1>5 DEF ListInv

\* What another program may write is a list of profiles.
LEMMA DiskListIs ==
    ASSUME NEW l \in DiskLists
    PROVE  l \in Seq(Profiles)
<1>1. l \in [1..2 -> Profiles]
  BY DEF DiskLists, Profiles
<1>2. ASSUME NEW n \in Nat, NEW f \in [1..n -> Profiles] PROVE f \in Seq(Profiles)
  OBVIOUS
<1> QED
  BY <1>1, <1>2

\* A process that has not started satisfies the invariant.
LEMMA ListStart == GuiInit => ListInv
<1> SUFFICES ASSUME GuiInit PROVE ListInv
  OBVIOUS
<1>1. /\ work = [list |-> <<Blank>>, active |-> 1] /\ saved = work
      /\ editor = [selected |-> 1, invalid |-> FALSE] /\ connected = FALSE
  BY DEF GuiInit
<1>2. <<Blank>> \in Seq(Profiles) /\ <<Blank>> # <<>> /\ Len(<<Blank>>) = 1
  BY DEF Profiles
<1>3. WorkOK(work) /\ SavedOK(saved) /\ EditorOK(editor, work) /\ RunningOK(connected, work)
  BY <1>1, <1>2 DEF WorkOK, SavedOK, EditorOK, RunningOK
<1>4. DiskOK(disk)
  <2> DEFINE first == CHOOSE l \in DiskLists : TRUE
  <2>1. first \in Seq(Profiles)
    <3>1. PICK p \in Complete, q \in Complete : p # q
      BY GuiAssumption
    <3>2. [i \in 1..2 |-> IF i = 1 THEN p ELSE q] \in DiskLists
      BY <3>1 DEF DiskLists
    <3>3. first \in DiskLists
      BY <3>2
    <3> QED
      BY <3>3, DiskListIs
  <2> HIDE DEF first
  <2>2. \/ disk \in [Files -> {None}]
        \/ \E i \in 1..2 : disk = [profiles |-> first, runtime |-> [DefaultRuntime EXCEPT !.active = i]]
    BY DEF GuiInit, first
  <2>3. CASE disk \in [Files -> {None}]
    BY <2>3 DEF DiskOK, Files
  <2>4. ASSUME NEW i \in 1..2, disk = [profiles |-> first, runtime |-> [DefaultRuntime EXCEPT !.active = i]]
        PROVE  DiskOK(disk)
    <3>1. disk["profiles"] = first /\ disk["runtime"].active = i /\ DOMAIN disk = Files
      BY <2>4 DEF DefaultRuntime, Files
    <3> QED
      BY <2>1, <3>1 DEF DiskOK
  <2> QED
    BY <2>2, <2>3, <2>4
<1> QED
  BY <1>3, <1>4 DEF ListInv

\* Every command, save, revert, prompt, flush, reload, kill and start keeps it.
LEMMA ListStep == ListInv /\ [GuiNext]_guiVars => ListInv'
<1> SUFFICES ASSUME ListInv, [GuiNext]_guiVars PROVE ListInv'
  OBVIOUS
<1>0. WorkOK(work) /\ SavedOK(saved) /\ EditorOK(editor, work) /\ DiskOK(disk) /\ RunningOK(connected, work)
  BY DEF ListInv
<1>1. ASSUME UNCHANGED <<work, editor, saved, disk>>, connected' = connected PROVE ListInv'
  BY <1>0, <1>1 DEF ListInv
<1>2. ASSUME UNCHANGED <<work, editor>>, connected' = connected \/ connected' = FALSE,
             WritesOk \/ WritesFail \/ (\E bad : Flush(bad)) \/ Write(AfterList.files, AfterList.saved)
             \/ UNCHANGED <<saved, disk>>
      PROVE  ListInv'
  <2>1. SavedOK(saved') /\ DiskOK(disk')
    BY <1>2, WritesSound
  <2>2. RunningOK(connected', work')
    BY <1>0, <1>2 DEF RunningOK
  <2> QED
    BY <1>0, <1>2, <2>1, <2>2 DEF ListInv
<1>3. CASE NodeHandler
  BY <1>3, HandlerKeeps
<1>4. ASSUME NEW i \in DOMAIN work.list, SetActiveNode(i) PROVE ListInv'
  <2>1. work' = [work EXCEPT !.active = i] /\ UNCHANGED <<saved, editor, disk>>
    BY <1>4 DEF SetActiveNode
  <2>2. i \in 1..Len(work.list) /\ i \in Nat \ {0}
    BY <1>0 DEF WorkOK
  <2>3. WorkOK(work') /\ work'.list = work.list /\ work'.active = i
    BY <1>0, <2>1, <2>2 DEF WorkOK
  <2>4. EditorOK(editor', work') /\ RunningOK(connected', work')
    BY <1>0, <2>1, <2>2, <2>3 DEF EditorOK, RunningOK
  <2> QED
    BY <1>0, <2>1, <2>3, <2>4 DEF ListInv
<1>5. CASE ToggleConnection
  <2>1. UNCHANGED <<work, saved, editor, disk>>
    BY <1>5 DEF ToggleConnection
  <2>2. connected' = connected \/ connected' = FALSE \/ (connected' = TRUE /\ Startable(Selected(work)))
    BY <1>5 DEF ToggleConnection, StartActive, SetRunning, coreVars
  <2>3. RunningOK(connected, work)'
    BY <1>0, <2>1, <2>2, StartableIn DEF RunningOK
  <2> QED
    BY <1>0, <2>1, <2>3 DEF ListInv
<1>6. ASSUME NEW s \in Startup, SetStartupConnection(s) PROVE ListInv'
  BY <1>1, <1>6 DEF SetStartupConnection
<1>7. ASSUME NEW l, NEW e, SaveStep(l, e) PROVE ListInv'
  <2>1. UNCHANGED <<work, editor>> /\ connected' = connected
    BY <1>7 DEF SaveStep, coreVars
  <2>2. WritesOk \/ WritesFail \/ UNCHANGED <<saved, disk>>
    BY <1>7 DEF SaveStep
  <2> QED
    BY <1>2, <2>1, <2>2
<1>8. CASE RevertNodes \/ AnswerDiscard
  <2>1. Reverted /\ UNCHANGED <<saved, disk>> /\ connected' = connected
    BY <1>8 DEF RevertNodes, AnswerDiscard, coreVars
  <2>2. /\ WorkOK(work') /\ EditorOK(editor', work')
        /\ (work.active \in 1..Len(work.list) => work'.active \in 1..Len(work'.list))
    BY <2>1, RevertSound
  <2>3. RunningOK(connected', work')
    BY <1>0, <2>1, <2>2 DEF RunningOK
  <2> QED
    BY <1>0, <2>1, <2>2, <2>3 DEF ListInv
<1>9. ASSUME NEW l \in {"hidden", "quit"}, RequestLeave(l) PROVE ListInv'
  BY <1>1, <1>9 DEF RequestLeave, coreVars
<1>10. CASE AnswerSave
  <2>1. SaveStep(None, leave) \/ (UNCHANGED <<work, editor, saved, disk>> /\ connected' = connected)
    BY <1>10 DEF AnswerSave, coreVars
  <2> QED
    BY <1>1, <1>7, <2>1
<1>11. CASE AnswerCancel \/ ShowWindow \/ WatcherEvent \/ CheckStarts
  BY <1>1, <1>11 DEF AnswerCancel, ShowWindow, WatcherEvent, CheckStarts, coreVars
<1>12. CASE FlushDue \/ Shutdown
  <2>1. UNCHANGED <<work, editor>> /\ (connected' = connected \/ connected' = FALSE) /\ \E bad : Flush(bad)
    BY <1>12 DEF FlushDue, Shutdown, coreVars
  <2> QED
    BY <1>2, <2>1
<1>13. CASE CoreExits
  <2>1. UNCHANGED <<work, editor, saved, disk>> /\ connected' = FALSE
    BY <1>13 DEF CoreExits
  <2> QED
    BY <1>2, <2>1
<1>14. CASE Crash
  <2>1. /\ UNCHANGED <<work, editor>> /\ connected' = FALSE
        /\ Write(AfterList.files, AfterList.saved) \/ UNCHANGED <<saved, disk>>
    BY <1>14 DEF Crash
  <2> QED
    BY <1>2, <2>1
<1>15. CASE Start
  BY <1>15, StartSound
<1>16. CASE External
  <2>1. UNCHANGED <<work, saved, editor>> /\ connected' = connected
    BY <1>16 DEF External, ExternalEdit, coreVars
  <2>2. \/ \E c \in DiskLists \cup {<<>>, Garbage} : disk' = [disk EXCEPT !["profiles"] = c]
        \/ \E c \in {[DefaultRuntime EXCEPT !.active = 3], Garbage} : disk' = [disk EXCEPT !["runtime"] = c]
    BY <1>16 DEF External, ExternalEdit
  <2>3. DiskOK(disk')
    <3>1. ASSUME NEW c \in DiskLists \cup {<<>>, Garbage}, disk' = [disk EXCEPT !["profiles"] = c]
          PROVE  DiskOK(disk')
      <4>1. c \in Seq(Profiles) \cup {Garbage}
        <5>1. <<>> \in Seq(Profiles)
          OBVIOUS
        <5> QED
          BY <5>1, DiskListIs
      <4>2. DOMAIN disk' = Files /\ disk'["profiles"] = c /\ disk'["runtime"] = disk["runtime"]
        BY <1>0, <3>1 DEF DiskOK, Files
      <4> QED
        BY <1>0, <4>1, <4>2 DEF DiskOK
    <3>2. ASSUME NEW c \in {[DefaultRuntime EXCEPT !.active = 3], Garbage}, disk' = [disk EXCEPT !["runtime"] = c]
          PROVE  DiskOK(disk')
      <4>1. c = Garbage \/ c.active = 3
        BY DEF DefaultRuntime
      <4>2. DOMAIN disk' = Files /\ disk'["runtime"] = c /\ disk'["profiles"] = disk["profiles"]
        BY <1>0, <3>2 DEF DiskOK, Files
      <4> QED
        BY <1>0, <4>1, <4>2 DEF DiskOK
    <3> QED
      BY <2>2, <3>1, <3>2
  <2> QED
    BY <1>0, <2>1, <2>3 DEF ListInv
<1>17. CASE OnFilesChanged
  BY <1>17, ReloadSound
<1>18. CASE UNCHANGED guiVars
  BY <1>1, <1>18 DEF guiVars, coreVars
<1>19. CASE SaveNodes
  BY <1>7, <1>19 DEF SaveNodes
<1> QED
  BY <1>3, <1>4, <1>5, <1>6, <1>8, <1>9, <1>10, <1>11, <1>12, <1>13, <1>14, <1>15, <1>16, <1>17, <1>18, <1>19
     DEF GuiNext, User

\* The node lists keep their invariant in every behaviour.
LEMMA ListAlways == GuiSpec => []ListInv
  BY ListStart, ListStep, PTL DEF GuiSpec

\* The indices the controller uses to reach into its lists are inside them.
IndicesInLists ==
    /\ editor.selected \in DOMAIN work.list
    /\ saved.active \in DOMAIN saved.list
    /\ connected => work.active \in DOMAIN work.list

\* Through every edit, save, revert and reload of nodes.rs, save.rs and persist.rs the
\* selection points into the working list, the saved index into the saved list and, while
\* a core runs, the active index at a node, for lists of any length.
THEOREM IndicesStayInLists == GuiSpec => []IndicesInLists
<1>1. ListInv => IndicesInLists
  <2> SUFFICES ASSUME ListInv PROVE IndicesInLists
    OBVIOUS
  <2>1. DOMAIN work.list = 1..Len(work.list) /\ DOMAIN saved.list = 1..Len(saved.list)
    BY DEF ListInv, WorkOK, SavedOK
  <2> QED
    BY <2>1 DEF ListInv, EditorOK, SavedOK, RunningOK, IndicesInLists
<1> QED
  BY ListAlways, <1>1, PTL

\* move_node, duplicate_node, delete_node of another node, add_node and import_text remap
\* the active index so that it denotes the same node, for lists of any length.
THEOREM ActiveStays == GuiSpec => ActiveNodeKept
<1>1. ListInv /\ [GuiNext]_guiVars =>
        [Selected(work) # None /\ ListCommand /\ NodeHandler /\ ~Delete(work.active)
           => Selected(work') = Selected(work)]_guiVars
  <2> SUFFICES ASSUME ListInv, Selected(work) # None, ListCommand, ~Delete(work.active)
               PROVE  Selected(work') = Selected(work)
    OBVIOUS
  <2>1. Kept
    BY CommandKeeps
  <2>2. DOMAIN work.list = 1..Len(work.list) /\ DOMAIN work'.list = 1..Len(work'.list)
    BY <2>1 DEF Kept, WorkOK, ListInv
  <2>3. work.active \in 1..Len(work.list)
    BY <2>2 DEF Selected
  <2> QED
    BY <2>1, <2>2, <2>3 DEF Selected, Kept
<1> QED
  BY ListAlways, <1>1, PTL DEF GuiSpec, ActiveNodeKept

\* request_leave and answer_prompt let the window go only with the working list equal to
\* the saved one, whatever was refused, failed or reloaded before.
THEOREM NothingLostSilently == GuiSpec => NoSilentLoss
<1>1. ListInv /\ [GuiNext]_guiVars =>
        [left' # left /\ left' # "no" =>
           work'.list = saved'.list /\ Clamp(work'.active, work'.list) = saved'.active]_guiVars
  <2> SUFFICES ASSUME ListInv, GuiNext, left' # left, left' # "no"
               PROVE  work'.list = saved'.list /\ Clamp(work'.active, work'.list) = saved'.active
    OBVIOUS
  <2>1. ~NodesDirty => work.list = saved.list /\ Clamp(work.active, work.list) = saved.active
    <3>1. SavedOK(saved)
      BY DEF ListInv
    <3>2. Clamp(saved.active, saved.list) = saved.active
      BY <3>1, ClampIs DEF SavedOK
    <3> QED
      BY <3>2 DEF NodesDirty, ListDirty
  <2>2. ASSUME NEW l, NEW e, SaveStep(l, e), WritesOk
        PROVE  work'.list = saved'.list /\ Clamp(work'.active, work'.list) = saved'.active
    <3>1. saved' = AfterIndex.saved /\ work' = work
      BY <2>2 DEF SaveStep, WritesOk, Writes, Write
    <3> QED
      BY <3>1, SavedAfter
  <2>3. ASSUME NEW l \in {"hidden", "quit"}, RequestLeave(l)
        PROVE  work'.list = saved'.list /\ Clamp(work'.active, work'.list) = saved'.active
    <3>1. ~NodesDirty /\ work' = work /\ saved' = saved
      BY <2>3 DEF RequestLeave
    <3> QED
      BY <2>1, <3>1
  <2>4. CASE AnswerSave
    <3>1. CASE SaveStep(None, leave)
      <4>1. WritesOk
        BY <3>1 DEF SaveStep
      <4> QED
        BY <2>2, <3>1, <4>1
    <3>2. CASE ~SaveStep(None, leave)
      <4>1. ~NodesDirty /\ work' = work /\ saved' = saved
        BY <2>4, <3>2 DEF AnswerSave
      <4> QED
        BY <2>1, <4>1
    <3> QED
      BY <3>1, <3>2
  <2>5. CASE AnswerDiscard
    <3>1. Reverted /\ saved' = saved
      BY <2>5 DEF AnswerDiscard
    <3> QED
      BY <3>1, RevertSound
  <2>6. CASE SaveNodes
    <3>1. (SaveStep(leave, left) /\ WritesOk) \/ left' = left
      BY <2>6 DEF SaveNodes, SaveStep
    <3> QED
      BY <2>2, <3>1
  <2>7. ASSUME NodeHandler \/ (\E i \in DOMAIN work.list : SetActiveNode(i)) \/ ToggleConnection
               \/ (\E s \in Startup : SetStartupConnection(s)) \/ RevertNodes \/ AnswerCancel \/ ShowWindow
               \/ FlushDue \/ CoreExits \/ Shutdown \/ Crash \/ Start
               \/ External \/ WatcherEvent \/ CheckStarts \/ OnFilesChanged
        PROVE  left' = left \/ left' = "no"
    BY <2>7 DEF NodeHandler, SetActiveNode, ToggleConnection, SetStartupConnection, RevertNodes, AnswerCancel,
                ShowWindow, FlushDue, CoreExits, Shutdown, Crash, Start, External, ExternalEdit,
                WatcherEvent, CheckStarts, OnFilesChanged
  <2> QED
    BY <2>3, <2>4, <2>5, <2>6, <2>7 DEF GuiNext, User
<1> QED
  BY ListAlways, <1>1, PTL DEF GuiSpec, NoSilentLoss

-----------------------------------------------------------------------------
(* GuiController: types.  The lists and the files stay within what the     *)
(* program can read back.                                                  *)

Sizes ==
    /\ Len(work.list) <= MaxNodes /\ Len(saved.list) <= MaxNodes
    /\ disk["profiles"] \notin {None, Garbage} => Len(disk["profiles"]) <= MaxNodes

RuntimeOK ==
    /\ runtime \in [wasRunning : BOOLEAN, startup : Startup]
    /\ disk["runtime"] \in RuntimeFiles \cup {None, Garbage}

Switches ==
    /\ up \in BOOLEAN /\ connected \in BOOLEAN /\ due \in BOOLEAN
    /\ dirty \subseteq {"runtime"}
    /\ leave \in {None, "hidden", "quit"} /\ left \in {"no", "hidden", "quit"}
    /\ watch \in [event : BOOLEAN, pending : BOOLEAN, checking : BOOLEAN]

GuiInv == ListInv /\ Sizes /\ RuntimeOK /\ Switches

\* What the writes of Save, of the flush and of a kill leave in the files: the saved list,
\* which is the old one or the working one, and an index that belongs to it.
LEMMA WritesTo ==
    ASSUME ListInv,
           WritesOk \/ WritesFail \/ (\E bad : Flush(bad)) \/ Write(AfterList.files, AfterList.saved)
           \/ UNCHANGED <<saved, disk>>
    PROVE  /\ saved'.list \in {saved.list, work.list}
           /\ disk'["profiles"] \in {saved'.list, disk["profiles"]}
           /\ disk'["runtime"] \in {Bytes("runtime", saved'), disk["runtime"]}
<1> DEFINE Goal == /\ saved'.list \in {saved.list, work.list}
                   /\ disk'["profiles"] \in {saved'.list, disk["profiles"]}
                   /\ disk'["runtime"] \in {Bytes("runtime", saved'), disk["runtime"]}
<1> SUFFICES Goal
  OBVIOUS
<1>1. ASSUME NEW s, NEW fs, Write(fs, s), s.list \in {saved.list, work.list} PROVE Goal
  <2>1. saved' = s /\ disk' = [f \in Files |-> IF f \in fs THEN Bytes(f, s) ELSE disk[f]]
    BY <1>1 DEF Write
  <2>2. Bytes("profiles", s) = s.list
    BY DEF Bytes
  <2> QED
    BY <1>1, <2>1, <2>2 DEF Files
<1>2. AfterList.saved.list \in {saved.list, work.list} /\ AfterIndex.saved.list = work.list
  <2>1. AfterList.saved = saved \/ AfterList.saved.list = work.list
    BY DEF AfterList
  <2> QED
    BY <2>1, SavedAfter
<1> HIDE DEF Goal
<1>3. CASE WritesOk
  BY <1>1, <1>2, <1>3 DEF WritesOk, Writes
<1>4. CASE WritesFail
  <2>1. Write({}, saved) \/ Write(AfterList.files, AfterList.saved)
    BY <1>4 DEF WritesFail, Writes
  <2> QED
    BY <1>1, <1>2, <2>1
<1>5. ASSUME NEW bad, Flush(bad) PROVE Goal
  BY <1>1, <1>5 DEF Flush
<1>6. CASE UNCHANGED <<saved, disk>>
  BY <1>6 DEF Goal
<1>7. CASE Write(AfterList.files, AfterList.saved)
  BY <1>1, <1>2, <1>7
<1> QED
  BY <1>3, <1>4, <1>5, <1>6, <1>7

\* A node command keeps the list within the bound.
LEMMA HandlerSize ==
    ASSUME ListInv, Sizes, NodeHandler
    PROVE  Len(work'.list) <= MaxNodes
<1>0. /\ work.list \in Seq(Profiles) /\ Len(work.list) \in Nat \ {0} /\ DOMAIN work.list = 1..Len(work.list)
      /\ work \in [list : Seq(Profiles), active : Nat \ {0}] /\ Len(work.list) <= MaxNodes
      /\ editor.selected \in 1..Len(work.list)
  BY WorkFacts DEF ListInv, WorkOK, Sizes
<1>1. MaxNodes \in Nat
  BY RoomAssumption
<1>2. ASSUME NEW p \in Profiles, AddNode(p) PROVE Len(work'.list) <= MaxNodes
  <2>1. work'.list = Append(work.list, p) /\ Len(work.list) < MaxNodes
    BY <1>0, <1>2 DEF AddNode
  <2> QED
    BY <1>0, <1>1, <2>1
<1>3. ASSUME NEW i \in 1..Len(work.list), Duplicate(i) PROVE Len(work'.list) <= MaxNodes
  <2> DEFINE s == work.list
             m == i + 1
             e == s[i]
  <2>1. work'.list = InsertAt(s, m, e) /\ Len(s) < MaxNodes
    BY <1>3 DEF Duplicate
  <2>2. s \in Seq(Profiles) /\ m \in 1..(Len(s) + 1) /\ e \in Profiles
    BY <1>0
  <2> HIDE DEF s, m, e
  <2>3. Len(InsertAt(s, m, e)) = Len(s) + 1
    BY <2>2, InsertIs
  <2> QED
    BY <1>1, <2>1, <2>2, <2>3
<1>4. ASSUME NEW i \in 1..Len(work.list), NEW j, Move(i, j) PROVE Len(work'.list) <= MaxNodes
  <2>1. DOMAIN work'.list = 1..Len(work.list)
    BY <1>0, <1>4 DEF Move
  <2>2. j \in 1..Len(work.list)
    BY <1>0, <1>4 DEF Move
  <2>3. work'.list \in Seq(Profiles)
    BY <1>4, <2>2, MoveKeeps DEF Kept, WorkOK
  <2>4. Len(work'.list) = Len(work.list)
    BY <1>0, <2>1, <2>3
  <2> QED
    BY <1>0, <2>4
<1>5. ASSUME NEW i \in 1..Len(work.list), Delete(i) PROVE Len(work'.list) <= MaxNodes
  <2>1. work'.list = RemoveAt(work.list, i)
    BY <1>5 DEF Delete
  <2>2. Len(work'.list) = Len(work.list) - 1
    BY <1>0, <2>1, RemoveIs
  <2> QED
    BY <1>0, <1>1, <2>2
<1>6. ASSUME NEW p \in Complete, NEW b \in BOOLEAN, EditNode(p, b) PROVE Len(work'.list) <= MaxNodes
  <2>1. work'.list = [work.list EXCEPT ![editor.selected] = p]
    BY <1>0, <1>6 DEF EditNode
  <2>2. p \in Profiles
    BY DEF Profiles
  <2>3. Len(work'.list) = Len(work.list)
    BY <1>0, <2>1, <2>2
  <2> QED
    BY <1>0, <2>3
<1>7. ASSUME NEW i, SelectNode(i) PROVE Len(work'.list) <= MaxNodes
  BY <1>0, <1>7 DEF SelectNode
<1>8. CASE ListCommand
  BY <1>0, <1>2, <1>3, <1>4, <1>5, <1>8 DEF ListCommand
<1>9. CASE connected /\ Delete(work.active)
  <2>1. work.active \in 1..Len(work.list)
    BY <1>9 DEF ListInv, RunningOK
  <2> QED
    BY <1>5, <1>9, <2>1
<1> QED
  BY <1>6, <1>7, <1>8, <1>9 DEF NodeHandler

\* A list from a file is within the bound, also the blank one that stands for none.
LEMMA ReadSize ==
    ASSUME NEW l \in Seq(Profiles), Len(l) <= MaxNodes
    PROVE  Len(NonEmpty(l)) <= MaxNodes
<1>1. Len(<<Blank>>) = 1
  OBVIOUS
<1> QED
  BY <1>1, RoomAssumption DEF NonEmpty

\* The two nodes that other programs leave on disk fit.
LEMMA DiskListSize ==
    ASSUME NEW l \in DiskLists
    PROVE  Len(l) <= MaxNodes
<1>1. l \in Seq(Profiles) /\ DOMAIN l = 1..2
  BY DiskListIs DEF DiskLists
<1>2. ASSUME NEW n \in Nat, 1..n = 1..2 PROVE n = 2
  BY <1>2
<1>3. Len(l) = 2
  BY <1>1, <1>2
<1> QED
  BY <1>3, RoomAssumption

\* No list outgrows the bound, whichever copy is written over which.
LEMMA SizesStep == ListInv /\ Sizes /\ [GuiNext]_guiVars => Sizes'
<1> SUFFICES ASSUME ListInv, Sizes, [GuiNext]_guiVars PROVE Sizes'
  OBVIOUS
<1>0. DiskOK(disk) /\ WorkOK(work) /\ SavedOK(saved) /\ MaxNodes \in Nat /\ MaxNodes >= 3
  BY RoomAssumption DEF ListInv
<1>1. ASSUME work'.list \in {work.list, saved.list}, saved'.list \in {saved.list, work.list},
             disk'["profiles"] \in {saved'.list, disk["profiles"]}
      PROVE  Sizes'
  BY <1>1 DEF Sizes
<1>2. ASSUME work'.list = work.list,
             WritesOk \/ WritesFail \/ (\E bad : Flush(bad)) \/ Write(AfterList.files, AfterList.saved)
             \/ UNCHANGED <<saved, disk>>
      PROVE  Sizes'
  <2>1. saved'.list \in {saved.list, work.list} /\ disk'["profiles"] \in {saved'.list, disk["profiles"]}
    BY <1>2, WritesTo
  <2> QED
    BY <1>1, <1>2, <2>1
<1>3. CASE NodeHandler
  <2>1. Len(work'.list) <= MaxNodes
    BY <1>3, HandlerSize
  <2> QED
    BY <1>3, <2>1 DEF NodeHandler, Sizes
<1>4. ASSUME NEW i \in DOMAIN work.list, SetActiveNode(i) PROVE Sizes'
  <2>1. work'.list = work.list
    BY <1>0, <1>4 DEF SetActiveNode, WorkOK
  <2> QED
    BY <1>2, <1>4, <2>1 DEF SetActiveNode
<1>5. CASE \/ ToggleConnection \/ (\E s \in Startup : SetStartupConnection(s))
           \/ (\E l \in {"hidden", "quit"} : RequestLeave(l)) \/ AnswerCancel \/ ShowWindow
           \/ CoreExits \/ WatcherEvent \/ CheckStarts \/ UNCHANGED guiVars
  <2>1. UNCHANGED <<work, saved, disk>>
    BY <1>5 DEF ToggleConnection, SetStartupConnection, RequestLeave, AnswerCancel, ShowWindow,
                CoreExits, WatcherEvent, CheckStarts, guiVars
  <2> QED
    BY <1>2, <2>1
<1>6. ASSUME NEW l, NEW e, SaveStep(l, e) PROVE Sizes'
  BY <1>2, <1>6 DEF SaveStep
<1>7. CASE RevertNodes \/ AnswerDiscard
  <2>1. Reverted /\ UNCHANGED <<saved, disk>>
    BY <1>7 DEF RevertNodes, AnswerDiscard
  <2>2. work'.list = saved.list
    BY <2>1, RevertSound
  <2> QED
    BY <1>1, <2>1, <2>2
<1>8. CASE AnswerSave
  <2>1. SaveStep(None, leave) \/ UNCHANGED <<work, saved, disk>>
    BY <1>8 DEF AnswerSave
  <2> QED
    BY <1>2, <1>6, <2>1
<1>9. CASE FlushDue \/ Shutdown \/ Crash
  <2>1. /\ work' = work
        /\ (\E bad : Flush(bad)) \/ Write(AfterList.files, AfterList.saved) \/ UNCHANGED <<saved, disk>>
    BY <1>9 DEF FlushDue, Shutdown, Crash
  <2> QED
    BY <1>2, <2>1
<1>10. CASE Start
  <2> DEFINE l == Loaded("profiles", <<>>)
             list == NonEmpty(l)
  <2>1. l \in Seq(Profiles) /\ Len(l) <= MaxNodes
    <3>1. Len(<<>>) = 0 /\ <<>> \in Seq(Profiles)
      OBVIOUS
    <3> QED
      BY <1>0, <3>1 DEF Loaded, DiskOK, Sizes
  <2>2. Len(list) <= MaxNodes
    BY <2>1, ReadSize
  <2>3. work'.list = list /\ saved'.list = list /\ disk'["profiles"] \in {None, disk["profiles"]}
    BY <1>10 DEF Start, Files
  <2> HIDE DEF list
  <2> QED
    BY <2>2, <2>3 DEF Sizes
<1>11. CASE External
  <2>1. UNCHANGED <<work, saved>>
    BY <1>11 DEF External, ExternalEdit
  <2>2. ASSUME NEW c \in DiskLists \cup {<<>>, Garbage}, ExternalEdit("profiles", c) PROVE Sizes'
    <3>1. disk'["profiles"] = c
      BY <1>0, <2>2 DEF ExternalEdit, DiskOK, Files
    <3>2. c = Garbage \/ Len(c) <= MaxNodes
      <4>1. Len(<<>>) = 0
        OBVIOUS
      <4> QED
        BY <1>0, <4>1, DiskListSize
    <3> QED
      BY <2>1, <3>1, <3>2 DEF Sizes
  <2>3. ASSUME NEW c, ExternalEdit("runtime", c) PROVE Sizes'
    <3>1. disk'["profiles"] = disk["profiles"]
      BY <1>0, <2>3 DEF ExternalEdit, DiskOK, Files
    <3> QED
      BY <2>1, <3>1 DEF Sizes
  <2> QED
    BY <1>11, <2>2, <2>3 DEF External
<1>12. CASE OnFilesChanged
  <2>1. saved' = ReloadedSaved /\ disk' = disk
    BY <1>12 DEF OnFilesChanged
  <2>2. Len(ReloadedSaved.list) <= MaxNodes
    <3>1. CASE "profiles" \in Reloads
      <4>1. disk["profiles"] \in Seq(Profiles) /\ Len(disk["profiles"]) <= MaxNodes
        BY <1>0, <3>1 DEF Reloads, Changed, DiskOK, Sizes
      <4>2. ReloadedSaved.list = NonEmpty(disk["profiles"])
        BY <3>1 DEF ReloadedSaved
      <4> QED
        BY <4>1, <4>2, ReadSize
    <3>2. CASE "profiles" \notin Reloads
      BY <3>2 DEF ReloadedSaved, Sizes
    <3> QED
      BY <3>1, <3>2
  <2>3. work'.list = work.list \/ work'.list = ReloadedSaved.list
    BY <1>0, <1>12 DEF OnFilesChanged, WorkOK
  <2> QED
    BY <2>1, <2>2, <2>3 DEF Sizes
<1>13. CASE SaveNodes
  BY <1>6, <1>13 DEF SaveNodes
<1> QED
  BY <1>3, <1>4, <1>5, <1>7, <1>8, <1>9, <1>10, <1>11, <1>12, <1>13 DEF GuiNext, User

\* The runtime.json that other programs and earlier runs leave.
LEMMA IndexFile ==
    ASSUME NEW i \in 1..3
    PROVE  [DefaultRuntime EXCEPT !.active = i] \in RuntimeFiles
<1>1. DefaultRuntime \in RuntimeFiles
  BY RoomAssumption DEF DefaultRuntime, RuntimeFiles, Startup
<1>2. ASSUME NEW d \in RuntimeFiles PROVE [d EXCEPT !.active = i] \in RuntimeFiles
  BY RoomAssumption DEF RuntimeFiles
<1> QED
  BY <1>1, <1>2

\* runtime.json keeps its shape, and an index within the bound.
LEMMA RuntimeStep ==
    ASSUME GuiInv, [GuiNext]_guiVars, ListInv', Sizes'
    PROVE  RuntimeOK'
<1>0. /\ runtime \in [wasRunning : BOOLEAN, startup : Startup]
      /\ disk["runtime"] \in RuntimeFiles \cup {None, Garbage}
      /\ MaxNodes \in Nat /\ MaxNodes >= 3 /\ DiskOK(disk) /\ ListInv
  BY RoomAssumption DEF GuiInv, RuntimeOK, ListInv
<1>1. saved'.active \in 1..MaxNodes
  <2>1. saved'.active \in 1..Len(saved'.list) /\ saved'.list \in Seq(Profiles) /\ Len(saved'.list) <= MaxNodes
    BY DEF ListInv, SavedOK, Sizes
  <2> QED
    BY <1>0, <2>1
<1>2. Bytes("runtime", saved') \in RuntimeFiles
  BY <1>0, <1>1 DEF Bytes, RuntimeFiles
<1>3. ASSUME runtime' = runtime, disk'["runtime"] = disk["runtime"] PROVE RuntimeOK'
  BY <1>0, <1>3 DEF RuntimeOK
<1>4. ASSUME runtime' = runtime,
             WritesOk \/ WritesFail \/ (\E bad : Flush(bad)) \/ Write(AfterList.files, AfterList.saved)
             \/ UNCHANGED <<saved, disk>>
      PROVE  RuntimeOK'
  <2>1. disk'["runtime"] \in {Bytes("runtime", saved'), disk["runtime"]}
    BY <1>0, <1>4, WritesTo
  <2> QED
    BY <1>0, <1>2, <1>4, <2>1 DEF RuntimeOK
<1>5. ASSUME disk' = disk, \E b \in BOOLEAN : runtime' = [runtime EXCEPT !.wasRunning = b] PROVE RuntimeOK'
  BY <1>0, <1>5 DEF RuntimeOK
<1>6. ASSUME NEW w, StartActive(w) PROVE runtime' = runtime \/ \E b \in BOOLEAN : runtime' = [runtime EXCEPT !.wasRunning = b]
  BY <1>6 DEF StartActive, SetRunning, coreVars
<1>7. CASE NodeHandler \/ (\E i \in DOMAIN work.list : SetActiveNode(i)) \/ ToggleConnection
  <2>1. disk' = disk
    BY <1>7 DEF NodeHandler, SetActiveNode, ToggleConnection
  <2>2. runtime' = runtime \/ \E b \in BOOLEAN : runtime' = [runtime EXCEPT !.wasRunning = b]
    BY <1>6, <1>7 DEF NodeHandler, SetActiveNode, ToggleConnection, CoreAfterDelete, SetRunning, coreVars
  <2> QED
    BY <1>3, <1>5, <2>1, <2>2
<1>8. ASSUME NEW s \in Startup, SetStartupConnection(s) PROVE RuntimeOK'
  BY <1>0, <1>8 DEF SetStartupConnection, RuntimeOK
<1>9. CASE \/ (\E l \in {"hidden", "quit"} : RequestLeave(l)) \/ RevertNodes \/ AnswerDiscard
           \/ AnswerCancel \/ ShowWindow \/ CoreExits \/ WatcherEvent \/ CheckStarts \/ UNCHANGED guiVars
  <2>1. UNCHANGED <<runtime, disk>>
    BY <1>9 DEF RequestLeave, RevertNodes, AnswerDiscard, AnswerCancel, ShowWindow,
                CoreExits, WatcherEvent, CheckStarts, guiVars, coreVars
  <2> QED
    BY <1>3, <2>1
<1>10. ASSUME NEW l, NEW e, SaveStep(l, e) PROVE RuntimeOK'
  BY <1>4, <1>10 DEF SaveStep, coreVars
<1>11. CASE AnswerSave
  <2>1. SaveStep(None, leave) \/ UNCHANGED <<runtime, disk>>
    BY <1>11 DEF AnswerSave, coreVars
  <2> QED
    BY <1>3, <1>10, <2>1
<1>12. CASE FlushDue \/ Shutdown \/ Crash
  <2>1. /\ runtime' = runtime
        /\ (\E bad : Flush(bad)) \/ Write(AfterList.files, AfterList.saved) \/ UNCHANGED <<saved, disk>>
    BY <1>12 DEF FlushDue, Shutdown, Crash, coreVars
  <2> QED
    BY <1>4, <2>1
<1>13. CASE Start
  <2> DEFINE r == Loaded("runtime", DefaultRuntime)
  <2>1. r \in RuntimeFiles
    BY <1>0 DEF Loaded, DefaultRuntime, RuntimeFiles, Startup
  <2>2. /\ \E b \in BOOLEAN : runtime' = [wasRunning |-> b \/ r.wasRunning, startup |-> r.startup]
        /\ disk'["runtime"] \in {disk["runtime"], None}
    BY <1>13 DEF Start, Files
  <2> HIDE DEF r
  <2> QED
    BY <1>0, <2>1, <2>2 DEF RuntimeFiles, RuntimeOK
<1>14. CASE External
  <2>1. runtime' = runtime
    BY <1>14 DEF External, ExternalEdit, coreVars
  <2>2. ASSUME NEW c, ExternalEdit("profiles", c) PROVE RuntimeOK'
    <3>1. disk'["runtime"] = disk["runtime"]
      BY <1>0, <2>2 DEF ExternalEdit, DiskOK, Files
    <3> QED
      BY <1>3, <2>1, <3>1
  <2>3. ASSUME NEW c \in {[DefaultRuntime EXCEPT !.active = 3], Garbage}, ExternalEdit("runtime", c)
        PROVE  RuntimeOK'
    <3>1. disk'["runtime"] = c
      BY <1>0, <2>3 DEF ExternalEdit, DiskOK, Files
    <3>2. c \in RuntimeFiles \cup {Garbage}
      BY IndexFile
    <3> QED
      BY <1>0, <2>1, <3>1, <3>2 DEF RuntimeOK
  <2> QED
    BY <1>14, <2>2, <2>3 DEF External
<1>15. CASE OnFilesChanged
  <2>1. disk' = disk
    BY <1>15 DEF OnFilesChanged
  <2>2. CASE "runtime" \in Reloads
    <3>1. disk["runtime"] \in RuntimeFiles
      BY <1>0, <2>2 DEF Reloads, Changed
    <3>2. runtime' = [wasRunning |-> disk["runtime"].wasRunning, startup |-> disk["runtime"].startup]
      BY <1>15, <2>2 DEF OnFilesChanged
    <3> QED
      BY <2>1, <3>1, <3>2 DEF RuntimeFiles, RuntimeOK
  <2>3. CASE "runtime" \notin Reloads
    <3>1. runtime' = runtime
      BY <1>15, <2>3 DEF OnFilesChanged
    <3> QED
      BY <1>3, <2>1, <3>1
  <2> QED
    BY <2>2, <2>3
<1>16. CASE SaveNodes
  BY <1>10, <1>16 DEF SaveNodes
<1> QED
  BY <1>7, <1>8, <1>9, <1>11, <1>12, <1>13, <1>14, <1>15, <1>16 DEF GuiNext, User

\* The switches of the process, the prompt and the watcher.
LEMMA SwitchesStep ==
    ASSUME GuiInv, [GuiNext]_guiVars
    PROVE  Switches'
<1>0. Switches
  BY DEF GuiInv
<1>1. ASSUME NEW w, StartActive(w) PROVE connected' \in BOOLEAN /\ due' \in BOOLEAN /\ dirty' \subseteq {"runtime"}
  BY <1>0, <1>1 DEF StartActive, SetRunning, Mark, Switches, coreVars, persistVars
<1>2. ASSUME NEW fs, NEW s, Write(fs, s) PROVE dirty' \subseteq {"runtime"}
  BY <1>0, <1>2 DEF Write, Switches
<1>3. ASSUME OwnEvent PROVE watch' \in [event : BOOLEAN, pending : BOOLEAN, checking : BOOLEAN]
  BY <1>0, <1>3 DEF OwnEvent, Switches
<1>4. CASE NodeHandler \/ (\E i \in DOMAIN work.list : SetActiveNode(i)) \/ ToggleConnection
  <2>1. connected' \in BOOLEAN /\ due' \in BOOLEAN /\ dirty' \subseteq {"runtime"}
    BY <1>0, <1>1, <1>4 DEF NodeHandler, SetActiveNode, ToggleConnection, CoreAfterDelete, SetRunning, Mark,
                            Switches, coreVars, persistVars
  <2>2. UNCHANGED <<up, leave, left, watch>>
    BY <1>4 DEF NodeHandler, SetActiveNode, ToggleConnection, EditStep, UserStep
  <2> QED
    BY <1>0, <2>1, <2>2 DEF Switches
<1>5. ASSUME NEW s \in Startup, SetStartupConnection(s) PROVE Switches'
  BY <1>0, <1>5 DEF SetStartupConnection, EditStep, UserStep, Mark, Switches
<1>6. ASSUME NEW l \in {None, "hidden", "quit"}, NEW e \in {"no", "hidden", "quit"}, SaveStep(l, e)
      PROVE  Switches'
  <2>1. /\ UNCHANGED <<up, connected>> /\ leave' \in {None, "hidden", "quit"} /\ left' \in {"no", "hidden", "quit"}
        /\ OwnEvent
    BY <1>0, <1>6 DEF SaveStep, Switches, coreVars
  <2>2. due' = due /\ dirty' \subseteq {"runtime"}
    <3>1. due' = due /\ (dirty' = dirty \/ \E fs, s : Write(fs, s))
      BY <1>6 DEF SaveStep, WritesOk, WritesFail, Writes, persistVars
    <3> QED
      BY <1>0, <1>2, <3>1 DEF Switches
  <2> QED
    BY <1>0, <1>3, <2>1, <2>2 DEF Switches
<1>7. CASE RevertNodes \/ AnswerDiscard \/ AnswerCancel \/ ShowWindow
  BY <1>0, <1>7 DEF RevertNodes, AnswerDiscard, AnswerCancel, ShowWindow, UserStep, Switches, coreVars, persistVars
<1>8. ASSUME NEW l \in {"hidden", "quit"}, RequestLeave(l) PROVE Switches'
  BY <1>0, <1>8 DEF RequestLeave, EditStep, UserStep, Switches, coreVars, persistVars
<1>9. CASE AnswerSave
  <2>1. leave \in {"hidden", "quit"}
    BY <1>0, <1>9 DEF AnswerSave, Switches
  <2>2. CASE SaveStep(None, leave)
    BY <1>6, <2>1, <2>2
  <2>3. CASE ~SaveStep(None, leave)
    BY <1>0, <1>9, <2>1, <2>3 DEF AnswerSave, UserStep, Switches, coreVars, persistVars
  <2> QED
    BY <2>2, <2>3
<1>10. CASE FlushDue
  <2>1. OwnEvent /\ UNCHANGED <<up, connected, leave, left>> /\ \E bad : Flush(bad)
    BY <1>10 DEF FlushDue, coreVars
  <2>2. due' \in BOOLEAN /\ \E fs, s : Write(fs, s)
    BY <2>1 DEF Flush
  <2> QED
    BY <1>0, <1>2, <1>3, <2>1, <2>2 DEF Switches
<1>11. CASE CoreExits
  BY <1>0, <1>11 DEF CoreExits, Switches, persistVars
<1>12. CASE Shutdown \/ Crash
  <2>1. /\ up' = FALSE /\ connected' = FALSE /\ UNCHANGED <<leave, left>>
        /\ watch' = [event |-> FALSE, pending |-> FALSE, checking |-> FALSE]
    BY <1>12 DEF Shutdown, Crash
  <2>2. due' \in BOOLEAN /\ (dirty' = dirty \/ \E fs, s : Write(fs, s))
    BY <1>0, <1>12 DEF Shutdown, Crash, Flush, Switches
  <2> QED
    BY <1>0, <1>2, <2>1, <2>2 DEF Switches
<1>13. CASE Start
  <2>1. /\ up' = TRUE /\ leave' = None /\ left' = "no"
        /\ watch' = [event |-> FALSE, pending |-> FALSE, checking |-> TRUE]
        /\ connected' \in BOOLEAN /\ due' \in BOOLEAN /\ dirty' \subseteq {"runtime"}
    BY <1>13 DEF Start
  <2> QED
    BY <2>1 DEF Switches
<1>14. CASE External
  <2>1. UNCHANGED <<up, connected, due, dirty, leave, left>> /\ watch' = [watch EXCEPT !.event = up]
    BY <1>14 DEF External, ExternalEdit, coreVars, persistVars
  <2> QED
    BY <1>0, <2>1 DEF Switches
<1>15. CASE WatcherEvent \/ CheckStarts
  BY <1>0, <1>15 DEF WatcherEvent, CheckStarts, Switches, coreVars, persistVars
<1>16. CASE OnFilesChanged
  <2>1. UNCHANGED <<up, connected, dirty, leave, left>> /\ watch' = [watch EXCEPT !.checking = FALSE]
        /\ due' \in BOOLEAN
    BY <1>16 DEF OnFilesChanged
  <2> QED
    BY <1>0, <2>1 DEF Switches
<1>17. CASE UNCHANGED guiVars
  BY <1>0, <1>17 DEF guiVars, Switches, coreVars, persistVars
<1>18. CASE SaveNodes
  BY <1>0, <1>6, <1>18 DEF SaveNodes, Switches
<1> QED
  BY <1>4, <1>5, <1>7, <1>8, <1>9, <1>10, <1>11, <1>12, <1>13, <1>14, <1>15, <1>16, <1>17, <1>18
     DEF GuiNext, User

\* A process that has not started, over no files or those of an earlier run.
LEMMA GuiStart == GuiInit => GuiInv
<1> SUFFICES ASSUME GuiInit PROVE GuiInv
  OBVIOUS
<1>1. ListInv
  BY ListStart
<1>2. Switches
  BY DEF GuiInit, Switches
<1> DEFINE first == CHOOSE l \in DiskLists : TRUE
<1>3. Len(first) <= MaxNodes
  <2>1. PICK p \in Complete, q \in Complete : p # q
    BY GuiAssumption
  <2>2. [i \in 1..2 |-> IF i = 1 THEN p ELSE q] \in DiskLists
    BY <2>1 DEF DiskLists
  <2>3. first \in DiskLists
    BY <2>2
  <2> QED
    BY <2>3, DiskListSize
<1> HIDE DEF first
<1>4. \/ disk["profiles"] = None /\ disk["runtime"] = None
      \/ \E i \in 1..2 : disk["profiles"] = first /\ disk["runtime"] = [DefaultRuntime EXCEPT !.active = i]
  BY DEF GuiInit, first, Files
<1>5. Sizes
  <2>1. work.list = <<Blank>> /\ saved.list = <<Blank>> /\ Len(<<Blank>>) = 1
    BY DEF GuiInit
  <2> QED
    BY <1>3, <1>4, <2>1, RoomAssumption DEF Sizes
<1>6. RuntimeOK
  <2>1. disk["runtime"] \in RuntimeFiles \cup {None, Garbage}
    BY <1>4, IndexFile
  <2>2. runtime \in [wasRunning : BOOLEAN, startup : Startup]
    BY DEF GuiInit, Startup
  <2> QED
    BY <2>1, <2>2 DEF RuntimeOK
<1> QED
  BY <1>1, <1>2, <1>5, <1>6 DEF GuiInv

\* Every step of the controller keeps its types.
LEMMA GuiStep == GuiInv /\ [GuiNext]_guiVars => GuiInv'
<1> SUFFICES ASSUME GuiInv, [GuiNext]_guiVars PROVE GuiInv'
  OBVIOUS
<1>1. ListInv' /\ Sizes'
  BY ListStep, SizesStep DEF GuiInv
<1>2. RuntimeOK' /\ Switches'
  BY <1>1, RuntimeStep, SwitchesStep
<1> QED
  BY <1>1, <1>2 DEF GuiInv

\* The invariant in the terms of the type invariant.
LEMMA GuiTyped == GuiInv => GuiTypeOK
<1> SUFFICES ASSUME GuiInv PROVE GuiTypeOK
  OBVIOUS
<1>0. MaxNodes \in Nat /\ MaxNodes >= 3 /\ WorkOK(work) /\ SavedOK(saved) /\ EditorOK(editor, work) /\ DiskOK(disk)
  BY RoomAssumption DEF GuiInv, ListInv
<1>1. ASSUME NEW l \in Seq(Profiles), l # <<>>, Len(l) <= MaxNodes PROVE l \in Lists /\ DOMAIN l = 1..Len(l)
  <2>1. Len(l) \in 1..MaxNodes /\ DOMAIN l = 1..Len(l) /\ l \in [1..Len(l) -> Profiles]
    BY <1>0, <1>1
  <2> QED
    BY <2>1 DEF Lists
<1>2. work.list \in Lists /\ DOMAIN work.list = 1..Len(work.list)
  BY <1>0, <1>1 DEF WorkOK, GuiInv, Sizes
<1>3. saved.list \in Lists /\ DOMAIN saved.list = 1..Len(saved.list)
  BY <1>0, <1>1 DEF SavedOK, GuiInv, Sizes
<1>4. disk["profiles"] \in Lists \cup {<<>>, None, Garbage}
  BY <1>0, <1>1 DEF DiskOK, GuiInv, Sizes
<1> HIDE DEF Lists
<1>5. work \in [list : Lists, active : Nat \ {0}]
  BY <1>0, <1>2 DEF WorkOK
<1>6. saved \in [list : Lists, active : 1..MaxNodes] /\ saved.active \in DOMAIN saved.list
  <2>1. saved.active \in 1..Len(saved.list) /\ Len(saved.list) \in Nat /\ Len(saved.list) <= MaxNodes
    BY <1>0 DEF SavedOK, GuiInv, Sizes
  <2>2. saved.active \in 1..MaxNodes
    BY <1>0, <2>1
  <2> QED
    BY <1>0, <1>3, <2>1, <2>2 DEF SavedOK
<1>7. editor \in [selected : 1..MaxNodes, invalid : BOOLEAN] /\ editor.selected \in DOMAIN work.list
  <2>1. editor.selected \in 1..Len(work.list) /\ Len(work.list) \in Nat /\ Len(work.list) <= MaxNodes
    BY <1>0 DEF EditorOK, WorkOK, GuiInv, Sizes
  <2>2. editor.selected \in 1..MaxNodes
    BY <1>0, <2>1
  <2> QED
    BY <1>0, <1>2, <2>1, <2>2 DEF EditorOK
<1>8. RuntimeOK /\ Switches
  BY DEF GuiInv
<1> QED
  BY <1>4, <1>5, <1>6, <1>7, <1>8 DEF GuiTypeOK, RuntimeOK, Switches

-----------------------------------------------------------------------------
(* LogPane: what the page shows under the current version.                 *)

\* A snapshot whose version is still the current one, with no bump due, holds the lines.
SnapCurrent ==
    /\ uiPc \in {"lines", "dropped"} => snap.version <= logVersion
    /\ uiPc = "dropped" /\ snap.version = logVersion /\ bumping = {} => snap.lines = lines

LogInv ==
    /\ LogTypeOK
    /\ lines \in Seq(Nat) /\ pushes \in Nat /\ snap \in [version : Nat, lines : Seq(Nat)]
    /\ shownVersion # NoVersion => shownVersion <= logVersion
    /\ SnapCurrent
    /\ RowsMatchVersion

\* An empty page over an empty buffer.
LEMMA LogStart == LogInit => LogInv
<1> SUFFICES ASSUME LogInit PROVE LogInv
  OBVIOUS
<1>1. shownVersion # logVersion
  BY LogAssumption DEF LogInit
<1>v. visible \in BOOLEAN
  BY Zenon DEF LogInit
<1>2. LogTypeOK
  BY <1>v, LogAssumption DEF LogInit, LogTypeOK, Pages
<1> QED
  BY <1>1, <1>2 DEF LogInit, LogInv, SnapCurrent, RowsMatchVersion

\* The buffer never grows beyond its limit.
LEMMA AppendBounded ==
    ASSUME lines \in Seq(Nat), Len(lines) <= MaxLines, NEW l \in Nat
    PROVE  Append1(l) \in Seq(Nat) /\ Len(Append1(l)) <= MaxLines
<1>1. CASE Len(lines) = MaxLines
  <2>1. lines # <<>>
    BY <1>1, LogAssumption
  <2>2. Tail(lines) \in Seq(Nat) /\ Len(Tail(lines)) = Len(lines) - 1
    BY <2>1
  <2> QED
    BY <1>1, <2>2, LogAssumption DEF Append1
<1>2. CASE Len(lines) # MaxLines
  BY <1>2, LogAssumption DEF Append1
<1> QED
  BY <1>1, <1>2

\* Every step of a logger, the UI thread, the timer and the user keeps the invariant.
LEMMA LogStep == LogInv /\ [LogNext]_logVars => LogInv'
<1> SUFFICES ASSUME LogInv, [LogNext]_logVars PROVE LogInv'
  OBVIOUS
<1> USE DEF LogInv
<1>n. NoVersion \notin Nat
  BY LogAssumption
<1>1. ASSUME NEW t \in Loggers, Push(t) PROVE LogInv'
  <2>1. pushes' \in Nat /\ lines' \in Seq(Nat) /\ Len(lines') <= MaxLines /\ dropped' \in Nat
    <3>1. pushes' \in Nat
      BY <1>1 DEF Push
    <3>2. lines' = Append1(pushes')
      BY <1>1 DEF Push
    <3>3. lines' \in Seq(Nat) /\ Len(lines') <= MaxLines
      BY <3>1, <3>2, AppendBounded DEF LogTypeOK
    <3> QED
      BY <1>1, <3>1, <3>3 DEF Push, LogTypeOK
  <2>2. bumping' # {} /\ bumping' \subseteq Loggers
    BY <1>1 DEF Push, LogTypeOK
  <2> QED
    BY <1>1, <2>1, <2>2 DEF Push, LogTypeOK, SnapCurrent, RowsMatchVersion, pageVars, storeVars
<1>2. ASSUME NEW t \in Loggers, Bump(t) PROVE LogInv'
  BY <1>2, <1>n DEF Bump, LogTypeOK, SnapCurrent, RowsMatchVersion, pageVars, storeVars
<1>3. CASE ReadVersion
  BY <1>3 DEF ReadVersion, LogTypeOK, SnapCurrent, RowsMatchVersion, bufferVars, pageVars, storeVars
<1>4. CASE ReadLines
  BY <1>4 DEF ReadLines, LogTypeOK, SnapCurrent, RowsMatchVersion, bufferVars, pageVars, storeVars
<1>5. CASE SyncLogs
  BY <1>5, <1>n DEF SyncLogs, LogTypeOK, SnapCurrent, RowsMatchVersion, bufferVars, pageVars
<1>6. CASE ClearBump
  BY <1>6, <1>n DEF ClearBump, LogTypeOK, SnapCurrent, RowsMatchVersion, pageVars, storeVars
<1>7. CASE ClearSeen
  BY <1>7 DEF ClearSeen, LogTypeOK, SnapCurrent, RowsMatchVersion, bufferVars, pageVars, storeVars
<1>8. CASE Tick
  BY <1>8 DEF Tick, LogTypeOK, SnapCurrent, RowsMatchVersion, bufferVars, storeVars
<1>r. \A p, v : Refreshed(p, v) \in {"logs", "overview", "off"}
  BY DEF Refreshed
<1>9. ASSUME NEW p \in Pages, Navigate(p) \/ ShowPage(p) PROVE LogInv'
  <2>1. page' \in Pages /\ timer' \in {"logs", "overview", "off"}
    BY <1>9, <1>r DEF Navigate, ShowPage, UpdateRefresh
  <2>2. visible' \in BOOLEAN
    BY <1>9, Zenon DEF Navigate, ShowPage, LogTypeOK
  <2>3. /\ UNCHANGED <<lines, dropped, logVersion, bumping, pushes, snap, rows>> /\ uiPc = "idle"
        /\ \/ shownVersion' = NoVersion /\ seenLogs' = logVersion /\ uiPc' = "version"
           \/ UNCHANGED <<shownVersion, seenLogs, uiPc>>
    BY <1>9 DEF Navigate, ShowPage, UpdateRefresh, Click, bufferVars
  <2> QED
    BY <2>1, <2>2, <2>3, <1>n DEF LogTypeOK, SnapCurrent, RowsMatchVersion
<1>10. CASE HideWindow
  BY <1>10 DEF HideWindow, Click, LogTypeOK, SnapCurrent, RowsMatchVersion, bufferVars
<1>11. CASE SetFollow
  BY <1>11 DEF SetFollow, Click, LogTypeOK, SnapCurrent, RowsMatchVersion, bufferVars, pageVars
<1>12. CASE ClearLogs
  BY <1>12, LogAssumption DEF ClearLogs, Click, LogTypeOK, SnapCurrent, RowsMatchVersion, pageVars
<1>13. CASE UNCHANGED logVars
  BY <1>13 DEF logVars, LogTypeOK, SnapCurrent, RowsMatchVersion, bufferVars, pageVars, storeVars
<1> QED
  BY <1>1, <1>2, <1>3, <1>4, <1>5, <1>6, <1>7, <1>8, <1>9, <1>10, <1>11, <1>12, <1>13 DEF LogNext, UiStep

\* sync_logs and LogBuffer: for any number of threads and lines, rows shown under the
\* current version are the lines of the buffer, so that a page which skips a refresh
\* because the version has not changed leaves nothing out.
THEOREM RowsAreCurrent == LogSpec => []RowsMatchVersion
<1>1. LogInv => RowsMatchVersion
  BY DEF LogInv
<1> QED
  BY LogStart, LogStep, <1>1, PTL DEF LogSpec

-----------------------------------------------------------------------------
(* GuiWindow: one process holds the instance lock.                         *)

Flags == {guarded, pipe, ready, waiting, shown, startTimer, unsaved} \subseteq [Launches -> BOOLEAN]
Claims ==
    /\ lock \in Launches \cup {NoLock}
    /\ phase \in [Launches -> {"new", "asking", "gone"} \cup Running]
    /\ OneInstance
Places ==
    /\ tray \in [Launches -> {"none", "shown", "offline"}]
    /\ prompt \in [Launches -> Leaves \cup {NoLock}]
    /\ desktop \in {"linux", "windows"} /\ closeToTray \in BOOLEAN /\ hideOnStart \in BOOLEAN

\* The type invariant and OneInstance, grouped by the provers that handle them.
WindowInv == Flags /\ Claims /\ Places

\* Before any launch nobody holds the lock.
LEMMA WindowStart == WindowInit => WindowInv
  BY WindowAssumption DEF WindowInit, WindowInv, Flags, Claims, Places, OneInstance

\* A flag of one launch is set.
LEMMA FlagSet ==
    \A f \in [Launches -> BOOLEAN], p \in Launches, b \in BOOLEAN :
        [f EXCEPT ![p] = b] \in [Launches -> BOOLEAN]
  OBVIOUS

\* The flags stay flags.
LEMMA FlagsStep == WindowInv /\ [WindowNext]_windowVars => Flags'
<1> SUFFICES ASSUME WindowInv, [WindowNext]_windowVars PROVE Flags'
  OBVIOUS
<1> DEFINE F == [Launches -> BOOLEAN]
<1>0. /\ guarded \in F /\ pipe \in F /\ ready \in F /\ waiting \in F /\ shown \in F
      /\ startTimer \in F /\ unsaved \in F /\ hideOnStart \in BOOLEAN
  BY DEF WindowInv, Flags, Places
<1>f. \A f \in F, p \in Launches, b \in BOOLEAN : [f EXCEPT ![p] = b] \in F
  BY FlagSet
<1>b. TRUE \in BOOLEAN /\ FALSE \in BOOLEAN
  BY Zenon
<1> HIDE DEF F
<1> SUFFICES /\ guarded' \in F /\ pipe' \in F /\ ready' \in F /\ waiting' \in F /\ shown' \in F
             /\ startTimer' \in F /\ unsaved' \in F
  BY DEF Flags, F
<1> DEFINE Goal == /\ guarded' \in F /\ pipe' \in F /\ ready' \in F /\ waiting' \in F /\ shown' \in F
                   /\ startTimer' \in F /\ unsaved' \in F
<1>1. ASSUME NEW p \in Launches, Acquire(p) PROVE Goal
  BY <1>0, <1>b, <1>f, <1>1, Zenon DEF Acquire, uiVars
<1>2. ASSUME NEW p \in Launches, AcquireUnguarded(p) PROVE Goal
  BY <1>0, <1>2, Zenon DEF AcquireUnguarded, uiVars
<1>3. ASSUME NEW p \in Launches, ServePipe(p) PROVE Goal
  BY <1>0, <1>b, <1>f, <1>3, Zenon DEF ServePipe, uiVars
<1>4. ASSUME NEW p \in Launches, Activate(p) PROVE Goal
  BY <1>0, <1>4, Zenon DEF Activate, uiVars, claimVars
<1>5. ASSUME NEW p \in Launches, ActivateFails(p) PROVE Goal
  BY <1>0, <1>5, Zenon DEF ActivateFails, uiVars
<1>6. ASSUME NEW p \in Launches, RunLoop(p) PROVE Goal
  <2>1. (~hideOnStart \/ waiting[p]) \in BOOLEAN
    BY Zenon
  <2> QED
    BY <1>0, <1>b, <1>f, <1>6, <2>1, Zenon DEF RunLoop, claimVars
<1>7. ASSUME NEW p \in Launches, Finish(p) PROVE Goal
  BY <1>0, <1>b, <1>f, <1>7, Zenon DEF Finish
<1>8. ASSUME NEW p \in Launches, RequestActivation(p) PROVE Goal
  BY <1>0, <1>b, <1>f, <1>8, Zenon DEF RequestActivation, claimVars
<1>9. ASSUME NEW p \in Launches, StartTimerFires(p) PROVE Goal
  <2>1. (shown[p] \/ tray[p] # "shown") \in BOOLEAN
    BY Zenon
  <2> QED
    BY <1>0, <1>b, <1>f, <1>9, <2>1, Zenon DEF StartTimerFires, claimVars
<1>10. ASSUME NEW p \in Launches, TrayHost(p) \/ EditNodes(p) \/ ToggleWindow(p) PROVE Goal
  <2>1. (~shown[p]) \in BOOLEAN
    BY Zenon
  <2> QED
    BY <1>0, <1>b, <1>f, <1>10, <2>1, Zenon DEF TrayHost, EditNodes, ToggleWindow, UserEvent, claimVars
<1>p. ASSUME NEW p \in Launches, NEW c, Perform(p, c) PROVE shown' \in F
  <2>1. shown[p] \in BOOLEAN
    BY <1>0 DEF F
  <2>2. (IF c = "hide" THEN FALSE ELSE shown[p]) \in BOOLEAN
    BY <1>b, <2>1, Zenon
  <2> QED
    BY <1>0, <1>f, <1>p, <2>2, Zenon DEF Perform
<1>11. ASSUME NEW p \in Launches, CloseRequested(p) PROVE Goal
  BY <1>0, <1>p, <1>11, Zenon DEF CloseRequested, UserEvent, claimVars
<1>12. ASSUME NEW p \in Launches, RequestQuit(p) PROVE Goal
  BY <1>0, <1>b, <1>f, <1>p, <1>12, Zenon DEF RequestQuit, UserEvent, claimVars
<1>13. ASSUME NEW p \in Launches, AnswerPrompt(p) PROVE Goal
  BY <1>0, <1>b, <1>f, <1>p, <1>13, Zenon DEF AnswerPrompt, UserEvent, claimVars
<1>14. CASE UNCHANGED windowVars
  BY <1>0, <1>14, Zenon DEF windowVars
<1> QED
  BY <1>1, <1>2, <1>3, <1>4, <1>5, <1>6, <1>7, <1>8, <1>9, <1>10, <1>11, <1>12, <1>13, <1>14 DEF WindowNext, Proceed

\* Every step of a launch, the user and the tray host leaves the lock with its holder.
LEMMA ClaimsStep == WindowInv /\ [WindowNext]_windowVars => Claims'
<1> SUFFICES ASSUME WindowInv, [WindowNext]_windowVars PROVE Claims'
  OBVIOUS
<1>0. Claims /\ guarded \in [Launches -> BOOLEAN]
  BY DEF WindowInv, Flags
<1> USE DEF Claims, OneInstance, Running
<1>1. ASSUME NEW p \in Launches, Acquire(p) PROVE Claims'
  BY <1>0, <1>1, WindowAssumption DEF Acquire
<1>2. ASSUME NEW p \in Launches, AcquireUnguarded(p) PROVE Claims'
  BY <1>0, <1>2 DEF AcquireUnguarded
<1> DEFINE Moves(p) ==
             \/ phase' = phase
             \/ phase' = [phase EXCEPT ![p] = "gone"] /\ phase[p] = "asking"
             \/ phase' = [phase EXCEPT ![p] = "loop"] /\ phase[p] = "starting"
             \/ phase' = [phase EXCEPT ![p] = "leaving"] /\ phase[p] = "loop"
<1>3. ASSUME NEW p \in Launches, Moves(p), UNCHANGED <<lock, guarded>> PROVE Claims'
  BY <1>0, <1>3
<1> HIDE DEF Moves
<1>4. ASSUME NEW p \in Launches,
             \/ ServePipe(p) \/ Activate(p) \/ ActivateFails(p) \/ RunLoop(p) \/ RequestActivation(p)
             \/ StartTimerFires(p) \/ TrayHost(p) \/ EditNodes(p) \/ ToggleWindow(p)
      PROVE  Claims'
  <2>1. UNCHANGED <<lock, guarded>>
    BY <1>4, Zenon DEF ServePipe, Activate, ActivateFails, RunLoop, RequestActivation, StartTimerFires,
                       TrayHost, EditNodes, ToggleWindow, UserEvent, claimVars
  <2>2. Moves(p)
    <3>1. CASE Activate(p)
      BY <3>1, Zenon DEF Activate, Moves
    <3>2. CASE ActivateFails(p)
      BY <3>2, Zenon DEF ActivateFails, Moves
    <3>3. CASE RunLoop(p)
      BY <3>3, Zenon DEF RunLoop, Moves
    <3>4. CASE ServePipe(p) \/ RequestActivation(p) \/ StartTimerFires(p) \/ TrayHost(p) \/ EditNodes(p) \/ ToggleWindow(p)
      BY <3>4, Zenon DEF ServePipe, RequestActivation, StartTimerFires, TrayHost, EditNodes, ToggleWindow, Moves
    <3> QED
      BY <1>4, <3>1, <3>2, <3>3, <3>4, Zenon
  <2> QED
    BY <1>3, <2>1, <2>2, Zenon
<1>7. ASSUME NEW p \in Launches, Finish(p) PROVE Claims'
  BY <1>0, <1>7, WindowAssumption DEF Finish
<1>p. ASSUME NEW p \in Launches, NEW c, Perform(p, c) PROVE phase' = phase \/ phase' = [phase EXCEPT ![p] = "leaving"]
  BY <1>0, <1>p DEF Perform
<1>8. ASSUME NEW p \in Launches, CloseRequested(p) \/ RequestQuit(p) \/ AnswerPrompt(p) PROVE Claims'
  <2>1. UNCHANGED <<lock, guarded>> /\ phase[p] = "loop"
    BY <1>8, Zenon DEF CloseRequested, RequestQuit, AnswerPrompt, UserEvent, claimVars
  <2>2. phase' = phase \/ phase' = [phase EXCEPT ![p] = "leaving"]
    BY <1>p, <1>8, Zenon DEF CloseRequested, RequestQuit, AnswerPrompt
  <2>3. Moves(p)
    BY <2>1, <2>2, Zenon DEF Moves
  <2> QED
    BY <1>3, <2>1, <2>3, Zenon
<1>14. CASE UNCHANGED windowVars
  BY <1>0, <1>14 DEF windowVars
<1> QED
  BY <1>1, <1>2, <1>4, <1>7, <1>8, <1>14 DEF WindowNext, Proceed

\* The tray icon, the prompt and the settings stay well typed.
LEMMA PlacesStep == WindowInv /\ [WindowNext]_windowVars => Places'
<1> SUFFICES ASSUME WindowInv, [WindowNext]_windowVars PROVE Places'
  OBVIOUS
<1>0. Places
  BY DEF WindowInv
<1>s. UNCHANGED settingVars
  BY Zenon DEF WindowNext, Proceed, Acquire, AcquireUnguarded, ServePipe, Activate, ActivateFails, RunLoop, Finish,
               RequestActivation, StartTimerFires, TrayHost, EditNodes, CloseRequested, RequestQuit, ToggleWindow,
               AnswerPrompt, UserEvent, windowVars, settingVars
<1>1. ASSUME UNCHANGED <<tray, prompt>> PROVE Places'
  BY <1>0, <1>1, <1>s, Zenon DEF Places, settingVars
<1>2. ASSUME NEW p \in Launches, Proceed(p), ~Finish(p) PROVE Places'
  BY <1>1, <1>2, Zenon DEF Proceed, Acquire, AcquireUnguarded, ServePipe, Activate, ActivateFails, RunLoop,
               RequestActivation, StartTimerFires, uiVars
<1> DEFINE T == [Launches -> {"none", "shown", "offline"}]
           P == [Launches -> Leaves \cup {NoLock}]
<1>t. tray \in T /\ prompt \in P
  BY <1>0 DEF Places
<1>3. ASSUME tray' \in T, prompt' \in P PROVE Places'
  BY <1>0, <1>3, <1>s, Zenon DEF Places, settingVars
<1>4. ASSUME NEW p \in Launches, Finish(p) \/ TrayHost(p) PROVE Places'
  <2>1. tray' \in T /\ prompt' = prompt
    BY <1>4, <1>t DEF Finish, TrayHost
  <2> QED
    BY <1>3, <1>t, <2>1
<1>5. ASSUME NEW p \in Launches, EditNodes(p) \/ ToggleWindow(p) PROVE Places'
  BY <1>1, <1>5, Zenon DEF EditNodes, ToggleWindow
<1>6. ASSUME NEW p \in Launches, CloseRequested(p) \/ RequestQuit(p) \/ AnswerPrompt(p) PROVE Places'
  <2>1. OnClose(p) \in Leaves /\ "quit" \in Leaves
    BY DEF OnClose, Leaves
  <2>2. tray' = tray /\ \E c \in Leaves \cup {NoLock} : prompt' \in {prompt, [prompt EXCEPT ![p] = c]}
    <3>1. tray' = tray
      BY <1>6, Zenon DEF CloseRequested, RequestQuit, AnswerPrompt
    <3>2. CASE CloseRequested(p)
      BY <2>1, <3>1, <3>2 DEF CloseRequested
    <3>3. CASE RequestQuit(p)
      <4>1. prompt[p] \in Leaves \cup {NoLock}
        BY <1>t
      <4> QED
        BY <2>1, <3>1, <3>3, <4>1 DEF RequestQuit
    <3>4. CASE AnswerPrompt(p)
      BY <3>1, <3>4 DEF AnswerPrompt
    <3> QED
      BY <1>6, <3>2, <3>3, <3>4
  <2>3. prompt' \in P
    BY <1>t, <2>2
  <2> QED
    BY <1>3, <1>t, <2>2, <2>3
<1>7. CASE UNCHANGED windowVars
  BY <1>1, <1>7, Zenon DEF windowVars
<1> QED
  BY <1>2, <1>4, <1>5, <1>6, <1>7 DEF WindowNext, Proceed

\* Every step keeps the invariant.
LEMMA WindowStep == WindowInv /\ [WindowNext]_windowVars => WindowInv'
  BY FlagsStep, ClaimsStep, PlacesStep DEF WindowInv

\* acquire and the drop of an Instance, for any number of launches: the one that was
\* granted the lock has it while it runs, and nobody else does.
THEOREM OneInstanceRuns == WindowSpec => []OneInstance
<1>1. WindowInv => OneInstance
  BY DEF WindowInv, Claims
<1> QED
  BY WindowStart, WindowStep, <1>1, PTL DEF WindowSpec

\* No window is on the screen before its event loop.
StartsUnseen == \A p \in Launches : phase[p] \in {"new", "starting"} => ~shown[p]

\* A launch that goes on, or meets an event, changes its own window only; it hides it to an
\* icon, by the answer to a prompt, or at its start.
LEMMA WindowEffect ==
    ASSUME WindowInv, NEW q \in Launches,
           \/ Proceed(q) \/ TrayHost(q) \/ EditNodes(q)
           \/ CloseRequested(q) \/ RequestQuit(q) \/ ToggleWindow(q) \/ AnswerPrompt(q)
    PROVE  /\ \A p \in Launches \ {q} : shown'[p] = shown[p] /\ phase'[p] = phase[p]
           /\ phase'[q] \in {"new", "starting"} => phase[q] \in {"new", "starting"} /\ shown'[q] = shown[q]
           /\ shown[q] /\ ~shown'[q] /\ phase'[q] = "loop"
                => phase[q] = "starting" \/ tray[q] = "shown" \/ prompt[q] = "hide"
<1> DEFINE Goal ==
      /\ \A p \in Launches \ {q} : shown'[p] = shown[p] /\ phase'[p] = phase[p]
      /\ phase'[q] \in {"new", "starting"} => phase[q] \in {"new", "starting"} /\ shown'[q] = shown[q]
      /\ shown[q] /\ ~shown'[q] /\ phase'[q] = "loop"
           => phase[q] = "starting" \/ tray[q] = "shown" \/ prompt[q] = "hide"
<1>0. shown \in [Launches -> BOOLEAN] /\ phase \in [Launches -> {"new", "asking", "gone"} \cup Running]
  BY DEF WindowInv, Flags, Claims
<1>1. CASE Acquire(q) \/ AcquireUnguarded(q) \/ ServePipe(q) \/ Activate(q) \/ ActivateFails(q) \/ Finish(q)
  <2>1. shown' = shown
    BY <1>1, Zenon DEF Acquire, AcquireUnguarded, ServePipe, Activate, ActivateFails, Finish, uiVars
  <2>2. /\ \A p \in Launches \ {q} : phase'[p] = phase[p]
        /\ phase'[q] \in {"new", "starting"} => phase[q] \in {"new", "starting"}
    BY <1>0, <1>1 DEF Acquire, AcquireUnguarded, ServePipe, Activate, ActivateFails, Finish
  <2> QED
    BY <2>1, <2>2
<1>2. CASE RunLoop(q)
  BY <1>0, <1>2 DEF RunLoop
<1>3. CASE RequestActivation(q) \/ StartTimerFires(q)
  BY <1>0, <1>3 DEF RequestActivation, StartTimerFires
<1>4. CASE TrayHost(q) \/ EditNodes(q)
  BY <1>0, <1>4 DEF TrayHost, EditNodes, UserEvent
<1>5. CASE ToggleWindow(q)
  BY <1>0, <1>5 DEF ToggleWindow, UserEvent
<1>6. ASSUME NEW c, Perform(q, c), phase[q] = "loop", c = "hide" => tray[q] = "shown" \/ prompt[q] = "hide"
      PROVE Goal
  BY <1>0, <1>6 DEF Perform
<1>7. CASE CloseRequested(q)
  <2>1. OnClose(q) = "hide" => tray[q] = "shown"
    BY DEF OnClose
  <2> QED
    BY <1>0, <1>6, <1>7, <2>1 DEF CloseRequested, UserEvent
<1>8. CASE RequestQuit(q)
  BY <1>0, <1>6, <1>8 DEF RequestQuit, UserEvent
<1>9. CASE AnswerPrompt(q)
  BY <1>0, <1>6, <1>9 DEF AnswerPrompt, UserEvent
<1> QED
  BY <1>1, <1>2, <1>3, <1>4, <1>5, <1>7, <1>8, <1>9 DEF Proceed

\* Every step keeps a window off the screen until its event loop runs.
LEMMA UnseenStep == WindowInv /\ StartsUnseen /\ [WindowNext]_windowVars => StartsUnseen'
<1> SUFFICES ASSUME WindowInv, StartsUnseen, [WindowNext]_windowVars PROVE StartsUnseen'
  OBVIOUS
<1>1. CASE UNCHANGED windowVars
  BY <1>1 DEF windowVars, StartsUnseen
<1>2. CASE WindowNext
  <2>1. PICK q \in Launches :
          \/ Proceed(q) \/ TrayHost(q) \/ EditNodes(q)
          \/ CloseRequested(q) \/ RequestQuit(q) \/ ToggleWindow(q) \/ AnswerPrompt(q)
    BY <1>2, Zenon DEF WindowNext
  <2> QED
    BY <2>1, WindowEffect DEF StartsUnseen
<1> QED
  BY <1>1, <1>2

\* quits_on_close and the prompt, for any number of launches and events: the window is hidden
\* only to an icon, or by the answer to a question asked when there was one.
THEOREM HiddenToIcon == WindowSpec => HidesToIcon
<1> DEFINE HidesWell ==
      \A p \in Launches :
         shown[p] /\ ~shown'[p] /\ phase'[p] = "loop" => tray[p] = "shown" \/ prompt[p] = "hide"
<1>1. WindowInit => StartsUnseen
  BY DEF WindowInit, StartsUnseen
<1>2. ASSUME WindowInv, StartsUnseen, [WindowNext]_windowVars PROVE [HidesWell]_windowVars
  <2>1. CASE WindowNext
    <3>1. PICK q \in Launches :
            \/ Proceed(q) \/ TrayHost(q) \/ EditNodes(q)
            \/ CloseRequested(q) \/ RequestQuit(q) \/ ToggleWindow(q) \/ AnswerPrompt(q)
      BY <2>1, Zenon DEF WindowNext
    <3> QED
      BY <1>2, <3>1, WindowEffect DEF StartsUnseen
  <2> QED
    BY <1>2, <2>1
<1> QED
  BY WindowStart, WindowStep, UnseenStep, <1>1, <1>2, PTL DEF WindowSpec, HidesToIcon

-----------------------------------------------------------------------------
(* All the parts of MCGui.                                                 *)

GuiPartsInv == GuiInv /\ ProxyInv /\ SysInv /\ EditorInv /\ LogInv /\ MeterInv /\ WindowInv

\* Each part starts in its invariant.
LEMMA GuiPartsStart == Init => GuiPartsInv
<1>1. Init => GuiInit /\ ProxyInit /\ SysInit /\ EditorInit /\ LogInit /\ MeterInit /\ WindowInit
  BY DEF Init
<1> QED
  BY <1>1, GuiStart, ProxyStart, SysStart, EditorStart, LogStart, MeterStart, WindowStart DEF GuiPartsInv

\* A step of one part leaves the others where they are.
LEMMA GuiPartsStep == GuiPartsInv /\ [Next]_vars => GuiPartsInv'
<1>1. [Next]_vars => [GuiNext]_guiVars /\ [ProxyNext]_proxyVars /\ [SysNext]_sysVars
  BY DEF Next, vars
<1>2. [Next]_vars => [EditorNext]_editorVars /\ [LogNext]_logVars
  BY DEF Next, vars
<1>3. [Next]_vars => [MeterNext]_meterVars /\ [WindowNext]_windowVars
  BY DEF Next, vars
<1> QED
  BY <1>1, <1>2, <1>3, GuiStep, ProxyStep, SysStep, EditorStep, LogStep, MeterStep, WindowStep
     DEF GuiPartsInv

\* The node lists and files, the proxy settings, the OS scripts, the editor, the Logs page,
\* the traffic meter and the window are well typed in every behaviour of the instance
\* MCGui, for every value of its constants.
THEOREM GuiTypeCorrect == FairSpec => []TypeOK
<1>1. GuiPartsInv => TypeOK
  <2>1. ProxyInv => ProxyTypeOK
    BY DEF ProxyInv
  <2>2. SysInv => SysTypeOK
    BY DEF SysInv, SysShape, SysTypeOK
  <2>3. EditorInv => EditorTypeOK
    BY DEF EditorInv, EditorShape, IsProfile, IsDraft, EditorTypeOK
  <2>4. LogInv => LogTypeOK
    BY DEF LogInv
  <2>5. MeterInv => MeterTypeOK
    BY DEF MeterInv
  <2>6. WindowInv => WindowTypeOK
    BY Zenon DEF WindowInv, Flags, Claims, Places, WindowTypeOK
  <2> QED
    BY <2>1, <2>2, <2>3, <2>4, <2>5, <2>6, GuiTyped DEF GuiPartsInv, TypeOK
<1> QED
  BY GuiPartsStart, GuiPartsStep, <1>1, PTL DEF FairSpec
=============================================================================
