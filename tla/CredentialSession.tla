-------------------------- MODULE CredentialSession --------------------------
(***************************************************************************)
(* What every TCP proxy of the gateway promises about a session: the       *)
(* upstream must answer the configured credential, and not refuse it,      *)
(* before the client is let in, the client's own traffic passes only in a  *)
(* session that is open for relaying, and a closed session stays closed.   *)
(*                                                                         *)
(* PostgreSQL, Oracle and Redis keep the stronger promise that the         *)
(* upstream has accepted: their verdicts are pending and accepted only.    *)
(* MySQL's proxy takes any packet but an error or a request for another    *)
(* plugin for the end of the login (mysql.go:133-147, which says "OK or    *)
(* ERR"), so that an answer that says neither yes nor no, "other", lets a  *)
(* client in as well.                                                      *)
(***************************************************************************)
EXTENDS Naturals

VARIABLES
    phase,      \* "opening", "granted", "relay", "closed"
    verdict,    \* the upstream's: "pending", "accepted", "refused" or "other"
    passed      \* number of the client's messages passed to the upstream

vars == <<phase, verdict, passed>>

Init ==
    /\ phase = "opening"
    /\ verdict \in {"pending", "accepted"}    \* accepted: none is configured
    /\ passed = 0

UpstreamAnswers ==
    /\ verdict = "pending"
    /\ verdict' \in {"accepted", "refused", "other"}
    /\ UNCHANGED <<phase, passed>>

\* The client is told that it is in; a handler may have more to do before it
\* relays (granted), or relay at once.
Grant ==
    /\ phase = "opening" /\ verdict \in {"accepted", "other"}
    /\ phase' \in {"granted", "relay"}
    /\ UNCHANGED <<verdict, passed>>

Open ==
    /\ phase = "granted"
    /\ phase' = "relay"
    /\ UNCHANGED <<verdict, passed>>

Pass ==
    /\ phase = "relay"
    /\ passed' = passed + 1
    /\ UNCHANGED <<phase, verdict>>

Close ==
    /\ phase # "closed"
    /\ phase' = "closed"
    /\ UNCHANGED <<verdict, passed>>

Next == UpstreamAnswers \/ Grant \/ Open \/ Pass \/ Close

Spec == Init /\ [][Next]_vars
=============================================================================
