----------------------------- MODULE TrafficMeter -----------------------------
(***************************************************************************)
(* The traffic statistics of the GUI: traffic.rs, CoreManager::traffic and  *)
(* the flow-statistics reader of core.rs, sample_traffic and the resets in  *)
(* ui/controller.                                                          *)
(*                                                                         *)
(* A core reports cumulative counters that restart: a Juicity core's with   *)
(* every connection it replaces, a Shadowsocks core's with every core.  The *)
(* poll timer reads them and adds the differences up.  Upload and download  *)
(* are counted alike; the model has one of them.  A speed is the bytes of   *)
(* its sample; bytes move one unit at a time.                              *)
(***************************************************************************)
EXTENDS Naturals

CONSTANTS
    NoReading,  \* no counters, no baseline, no sample time, no core
    MaxBytes,   \* bound on bytes moved, and on samples
    MaxStarts   \* bound on cores started and connections replaced

ASSUME MeterAssumption == NoReading \notin Nat /\ NoReading \notin {"juicity", "shadowsocks"}

VARIABLES
    coreKind,    \* the running core, or NoReading
    counter,     \* bytes on its current connection (Juicity) or since its start
    link,        \* a Juicity client's connection: "none", "free", or "locked" by a reconnect
    report,      \* FlowCounters: what the Shadowsocks core last reported
    lastTraffic, \* RunningCore.last_traffic
    previous, pending, totalBytes, current, metering, \* Data
    sampleAge,   \* last_sample: NoReading, or whether SAMPLE_INTERVAL has passed since
    samples,     \* samples pushed
    meterVersion,
    moved,       \* history: all bytes moved
    starts

counterVars == <<coreKind, counter, link, report, lastTraffic>>
dataVars == <<previous, pending, totalBytes, current, metering, sampleAge, samples, meterVersion>>
meterVars == <<counterVars, dataVars, moved, starts>>

-----------------------------------------------------------------------------
(* The core.                                                               *)

Minus(a, b) == IF a > b THEN a - b ELSE 0

\* TrafficMonitor::reset.
Reset ==
    /\ previous' = NoReading
    /\ pending' = 0
    /\ sampleAge' = NoReading
    /\ current' = 0
    /\ metering' = FALSE
    /\ meterVersion' = IF current # 0 THEN meterVersion + 1 ELSE meterVersion
    /\ UNCHANGED <<totalBytes, samples>>

\* start_active: the monitor is reset, the old core stops and a new one starts or not.
StartMetered(kind) ==
    /\ starts < MaxStarts
    /\ starts' = starts + 1
    /\ Reset
    /\ coreKind' = kind
    /\ counter' = 0 /\ report' = 0 /\ lastTraffic' = 0
    /\ link' = "none"
    /\ UNCHANGED moved

\* toggle_connection of a running core.
StopCore ==
    /\ coreKind # NoReading
    /\ Reset
    /\ coreKind' = NoReading
    /\ UNCHANGED <<counter, link, report, lastTraffic, moved, starts>>

\* A Juicity client stores a new connection; its counters start from zero.
Connected ==
    /\ coreKind = "juicity"
    /\ starts < MaxStarts
    /\ starts' = starts + 1
    /\ link' = "free"
    /\ counter' = 0
    /\ UNCHANGED <<coreKind, report, lastTraffic, dataVars, moved>>

\* A reconnect takes the lock that JuicityClient::traffic tries, or frees it.
LockConnection ==
    /\ coreKind = "juicity"
    /\ link # "none"
    /\ link' = IF link = "free" THEN "locked" ELSE "free"
    /\ UNCHANGED <<coreKind, counter, report, lastTraffic, dataVars, moved, starts>>

MoveByte ==
    /\ coreKind = "shadowsocks" \/ (coreKind = "juicity" /\ link # "none")
    /\ moved < MaxBytes
    /\ moved' = moved + 1
    /\ counter' = counter + 1
    /\ UNCHANGED <<coreKind, link, report, lastTraffic, dataVars, starts>>

\* The flow-statistics reader stores a report of the Shadowsocks core.
FlowReport ==
    /\ coreKind = "shadowsocks"
    /\ report' = counter
    /\ UNCHANGED <<coreKind, counter, link, lastTraffic, dataVars, moved, starts>>

-----------------------------------------------------------------------------
(* The poll timer: CoreManager::traffic and TrafficMonitor::record.        *)

\* CoreManager::traffic; the last value is repeated when there is no fresh one.
Reading ==
    CASE coreKind = NoReading -> NoReading
      [] coreKind = "shadowsocks" -> report
      [] coreKind = "juicity" -> IF link = "free" THEN counter ELSE lastTraffic

RecordNone ==
    /\ IF previous # NoReading \/ current # 0 \/ metering
       THEN samples' = samples + 1 /\ meterVersion' = meterVersion + 1
       ELSE UNCHANGED <<samples, meterVersion>>
    /\ current' = 0
    /\ metering' = FALSE
    /\ previous' = NoReading
    /\ pending' = 0
    /\ sampleAge' = NoReading
    /\ UNCHANGED totalBytes

\* Mutant: the bytes of a flushed sample stay pending.
RecordSome_KeepsPending(reading) ==
    LET sum == IF previous = NoReading THEN pending ELSE pending + Minus(reading, previous) IN
    /\ previous' = reading
    /\ metering' = TRUE
    /\ pending' = sum
    /\ sampleAge' = "young"
    /\ IF sampleAge = "old"
       THEN /\ totalBytes' = totalBytes + sum
            /\ current' = sum
            /\ samples' = samples + 1
            /\ meterVersion' = meterVersion + 1
       ELSE UNCHANGED <<totalBytes, current, samples, meterVersion>>

RecordSome(reading) ==
    LET sum == IF previous = NoReading THEN pending ELSE pending + Minus(reading, previous) IN
    /\ previous' = reading
    /\ metering' = TRUE
    /\ IF sampleAge = "old"
       THEN /\ totalBytes' = totalBytes + sum
            /\ pending' = 0
            /\ current' = sum
            /\ sampleAge' = "young"
            /\ samples' = samples + 1
            /\ meterVersion' = meterVersion + 1
       ELSE /\ pending' = sum
            /\ sampleAge' = "young"
            /\ UNCHANGED <<totalBytes, current, samples, meterVersion>>

\* poll_core: sample_traffic, then a core whose task has ended is taken away.
PollCore(exits) ==
    /\ samples < MaxBytes
    /\ IF coreKind = NoReading THEN RecordNone /\ UNCHANGED lastTraffic
       ELSE RecordSome(Reading) /\ lastTraffic' = Reading
    /\ coreKind' = IF exits THEN NoReading ELSE coreKind
    /\ UNCHANGED <<counter, link, report, moved, starts>>

\* SAMPLE_INTERVAL passes.
Elapse ==
    /\ sampleAge = "young"
    /\ sampleAge' = "old"
    /\ UNCHANGED <<counterVars, previous, pending, totalBytes, current, metering, samples,
                   meterVersion, moved, starts>>

-----------------------------------------------------------------------------
MeterInit ==
    /\ coreKind = NoReading /\ counter = 0 /\ link = "none" /\ report = 0 /\ lastTraffic = 0
    /\ previous = NoReading /\ pending = 0 /\ totalBytes = 0 /\ current = 0 /\ metering = FALSE
    /\ sampleAge = NoReading /\ samples = 0 /\ meterVersion = 0
    /\ moved = 0 /\ starts = 0

MeterNext ==
    \/ \E kind \in {"juicity", "shadowsocks", NoReading} : StartMetered(kind)
    \/ StopCore
    \/ Connected
    \/ LockConnection
    \/ MoveByte
    \/ FlowReport
    \/ \E exits \in BOOLEAN : PollCore(exits)
    \/ Elapse

MeterSpec == MeterInit /\ [][MeterNext]_meterVars

MeterTypeOK ==
    /\ coreKind \in {"juicity", "shadowsocks", NoReading} /\ link \in {"none", "free", "locked"}
    /\ previous \in Nat \cup {NoReading} /\ {pending, totalBytes, current} \subseteq Nat
    /\ sampleAge \in {NoReading, "young", "old"} /\ metering \in BOOLEAN

\* No byte is counted twice, whatever restarts, failed readings and resets come between
\* two samples: the totals never exceed what really moved.
NeverOvercounted == totalBytes + pending <= moved
=============================================================================
