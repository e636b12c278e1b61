----------------------------- MODULE CertReload -----------------------------
(***************************************************************************)
(* ReloadingCertificateResolver (server/src/server.rs): a task reloads the *)
(* TLS certificate and key every five seconds when the modification times  *)
(* of the two files differ from the recorded ones, while a renewal         *)
(* replaces the files one after the other.                                 *)
(*                                                                         *)
(* A certificate is the pair (serial, key) it certifies, a key is a        *)
(* number; Torn stands for contents that do not parse.  Every write of a   *)
(* file gives it a modification time it never had before.                  *)
(***************************************************************************)
EXTENDS Naturals

CONSTANTS
    MaxWrites,  \* bound: writes to the two files; also numbers keys and serials
    Torn        \* contents that do not parse

ASSUME CertReloadConstants ==
    /\ MaxWrites \in Nat
    /\ Torn \notin Nat \cup [serial : Nat, key : Nat]

VARIABLES
    cert,      \* the certificate file: [body, mtime]
    key,       \* the key file: [body, mtime]
    writes,    \* writes so far: the last modification time
    cached,    \* CachedCertificate: [cert, key, modified]
    reloadPc,  \* where reload() is
    stat,      \* `modified`: the two times read
    loaded     \* the certificates load_certs returned

files    == <<cert, key, writes>>
certVars == <<files, cached, reloadPc, stat, loaded>>

Cert == [serial : Nat, key : Nat]
Times == [cert : Nat, key : Nat]
ReloadPCs == {"sleep", "statCert", "statKey", "compare", "loadCert", "loadKey"}

CertTypeOK ==
    /\ cert \in [body : Cert \cup {Torn}, mtime : Nat]
    /\ key \in [body : Nat \cup {Torn}, mtime : Nat]
    /\ writes \in 0..MaxWrites
    /\ cached \in [cert : Cert, key : Nat, modified : Times]
    /\ reloadPc \in ReloadPCs
    /\ stat \in Times
    /\ loaded \in Cert

\* ReloadingCertificateResolver::new succeeded on a matching pair.
CertInit ==
    /\ cert = [body |-> [serial |-> 0, key |-> 0], mtime |-> 0]
    /\ key = [body |-> 0, mtime |-> 0]
    /\ writes = 0
    /\ cached = [cert |-> cert.body, key |-> key.body, modified |-> [cert |-> 0, key |-> 0]]
    /\ reloadPc = "sleep"
    /\ stat = cached.modified
    /\ loaded = cert.body

-----------------------------------------------------------------------------
(* The renewal: an operator or an ACME client writes the files             *)

\* The certificate file is replaced, with a certificate of an old or a new key,
\* or is seen half written.
WriteCert ==
    /\ writes < MaxWrites
    /\ writes' = writes + 1
    /\ cert' \in [body : [serial : {writes + 1}, key : 0..MaxWrites] \cup {Torn}, mtime : {writes + 1}]
    /\ UNCHANGED <<key, cached, reloadPc, stat, loaded>>

WriteKey ==
    /\ writes < MaxWrites
    /\ writes' = writes + 1
    /\ key' \in [body : 0..MaxWrites \cup {Torn}, mtime : {writes + 1}]
    /\ UNCHANGED <<cert, cached, reloadPc, stat, loaded>>

-----------------------------------------------------------------------------
(* reload                                                                  *)

ReloadGoto(l) == reloadPc' = l

Wakes ==
    /\ reloadPc = "sleep"
    /\ ReloadGoto("statCert")
    /\ UNCHANGED <<files, cached, stat, loaded>>

StatCert ==
    /\ reloadPc = "statCert"
    /\ stat' = [stat EXCEPT !.cert = cert.mtime]
    /\ ReloadGoto("statKey")
    /\ UNCHANGED <<files, cached, loaded>>

StatKey ==
    /\ reloadPc = "statKey"
    /\ stat' = [stat EXCEPT !.key = key.mtime]
    /\ ReloadGoto("compare")
    /\ UNCHANGED <<files, cached, loaded>>

\* A file is missing while the renewal replaces it: metadata() fails.
StatFails ==
    /\ writes < MaxWrites
    /\ reloadPc \in {"statCert", "statKey"}
    /\ ReloadGoto("sleep")
    /\ UNCHANGED <<files, cached, stat, loaded>>

Compare ==
    /\ reloadPc = "compare"
    /\ ReloadGoto(IF cached.modified = stat THEN "sleep" ELSE "loadCert")
    /\ UNCHANGED <<files, cached, stat, loaded>>

\* load_certs
LoadCert ==
    /\ reloadPc = "loadCert"
    /\ IF cert.body = Torn
       THEN ReloadGoto("sleep") /\ UNCHANGED loaded
       ELSE ReloadGoto("loadKey") /\ loaded' = cert.body
    /\ UNCHANGED <<files, cached, stat>>

\* Mutant: the pair is published without matching certificate and key.
LoadKey_Unmatched ==
    /\ reloadPc = "loadKey"
    /\ IF key.body = Torn
       THEN UNCHANGED cached
       ELSE cached' = [cert |-> loaded, key |-> key.body, modified |-> stat]
    /\ ReloadGoto("sleep")
    /\ UNCHANGED <<files, stat, loaded>>

\* Mutant: the times are read again when the pair is published.
LoadKey_LateStat ==
    /\ reloadPc = "loadKey"
    /\ IF key.body = Torn \/ loaded.key # key.body
       THEN UNCHANGED cached
       ELSE cached' = [cert |-> loaded, key |-> key.body, modified |-> [cert |-> cert.mtime, key |-> key.mtime]]
    /\ ReloadGoto("sleep")
    /\ UNCHANGED <<files, stat, loaded>>

\* load_private_key, CertifiedKey::from_der, and publishing the pair with the
\* times read before the loads; a failure leaves the cache and its times alone.
LoadKey ==
    /\ reloadPc = "loadKey"
    /\ IF key.body = Torn \/ loaded.key # key.body
       THEN UNCHANGED cached
       ELSE cached' = [cert |-> loaded, key |-> key.body, modified |-> stat]
    /\ ReloadGoto("sleep")
    /\ UNCHANGED <<files, stat, loaded>>

Reload == Wakes \/ StatCert \/ StatKey \/ Compare \/ LoadCert \/ LoadKey

CertNext == WriteCert \/ WriteKey \/ Reload \/ StatFails

CertSpec == CertInit /\ [][CertNext]_certVars

\* The task's five-second sleep ends and spawn_blocking runs the reload.
CertFairness == WF_certVars(Reload)

CertFairSpec == CertSpec /\ CertFairness

-----------------------------------------------------------------------------
(* Properties                                                              *)

\* "Publish the pair only after parsing and key matching succeed. A renewal may
\* replace the files separately": handshakes are never served a certificate with
\* the key of another.
ServedPairMatches == cached.cert.key = cached.key

\* "failed loads must be retried": once the renewal is over and left a matching
\* pair, that pair is eventually served, whatever reloads failed in between.
FilesMatch == cert.body # Torn /\ key.body # Torn /\ cert.body.key = key.body
EventuallyServed == (writes = MaxWrites /\ FilesMatch) ~> (cached.cert = cert.body /\ cached.key = key.body)
=============================================================================
