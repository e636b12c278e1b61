--------------------------- MODULE CredentialStore ---------------------------
(***************************************************************************)
(* What the in-flight table promises, without locks, waiters or clocks: a  *)
(* store of single-use credentials.  A credential may be dropped at any    *)
(* time; it is given to at most one packet, at a moment when it is held,   *)
(* and only to a packet that was encrypted under it.                       *)
(***************************************************************************)
EXTENDS Integers

CONSTANTS Keys, Psks, Packets

VARIABLES
    sent,    \* sent[p]: salt and key of packet p
    issued,  \* number of credentials issued so far
    live,    \* the credentials held
    spent    \* the pairs <<credential, packet>> of credentials given out

vars == <<sent, issued, live, spent>>

Init ==
    /\ sent \in [Packets -> [key : Keys, psk : Psks]]
    /\ issued = 0
    /\ live = {}
    /\ spent = {}

Fresh(k, s) == [key |-> k, psk |-> s, stamp |-> issued + 1]

\* A new credential arrives; it and others may be dropped on the way.
Issue(k, s) ==
    /\ issued' = issued + 1
    /\ live' \in SUBSET (live \cup {Fresh(k, s)})
    /\ UNCHANGED <<sent, spent>>

\* Packet p takes credential c, which it decrypts under, out of the store.
Consume(c, p) ==
    /\ sent[p] = [key |-> c.key, psk |-> c.psk]
    /\ \A e \in spent : e[2] # p
    /\ live' = live \ {c}
    /\ spent' = spent \cup {<<c, p>>}
    /\ UNCHANGED <<sent, issued>>

\* Credentials expire.
Discard ==
    /\ live' \in SUBSET live
    /\ UNCHANGED <<sent, issued, spent>>

Next ==
    \/ \E k \in Keys, s \in Psks : Issue(k, s)
    \/ \E c \in live, p \in Packets : Consume(c, p)
    \/ Discard

Spec == Init /\ [][Next]_vars
=============================================================================
