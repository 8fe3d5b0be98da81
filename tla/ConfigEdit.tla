------------------------------ MODULE ConfigEdit ------------------------------
(***************************************************************************)
(* config.yaml between the admin UI that rewrites it in place and the      *)
(* gateway service that loads it: concurrent saves, each a sequence of     *)
(* system calls on the same file, the admin process stopped or killed at   *)
(* any of them, write errors, loss of power, and systemd's validate, start *)
(* and restart of the gateway.                                             *)
(*                                                                         *)
(* A file is a sequence of characters, written one at a time: a line has   *)
(* the name of a listener and the text of its credential, so that a file   *)
(* may end in a shortened credential, and what one save leaves of another  *)
(* may begin in the middle of a line.                                      *)
(***************************************************************************)
EXTENDS Naturals, Sequences

CONSTANTS
    Listeners,   \* the listeners a document may configure
    Text,        \* the characters of a credential
    Docs,        \* the documents operators submit, good and bad ones
    Seeds,       \* what the file may be when the admin service first starts
    Savers,      \* browser requests that can be under way at the same time
    MaxSaves     \* bound: saves submitted in a run

Newline == "newline"
Remark  == "remark"     \* a line that is a comment, but for its end
Hole    == "hole"       \* a zero byte left before a write past the end
Characters == Listeners \cup Text \cup {Newline, Remark}

ASSUME DocsAssumption ==
    /\ Docs \subseteq Seq(Characters) /\ Seeds \subseteq Seq(Characters)
    /\ MaxSaves \in Nat

\* What config.Parse accepts: at least one listener, each with a credential and
\* none twice, and nothing that belongs to none of them.
StartsLine(f, i) == i > 1 => f[i - 1] = Newline

Valid(f) ==
    /\ \E i \in 1..Len(f) : f[i] \in Listeners
    /\ \A i \in 1..Len(f) :
           /\ f[i] # Hole
           /\ f[i] \in Listeners => StartsLine(f, i) /\ i < Len(f) /\ f[i + 1] \in Text
           /\ f[i] \in Text => i > 1 /\ f[i - 1] \in Listeners \cup Text
           /\ f[i] = Remark => StartsLine(f, i)
    /\ \A i, j \in 1..Len(f) : f[i] \in Listeners /\ f[i] = f[j] => i = j

VARIABLES
    file,      \* the file as any reader sees it (page cache)
    maybe,     \* the contents a loss of power may leave on the disk
    admin,     \* the admin process: "up", "draining", "down"
    pc,        \* [Savers -> ...]: where handleSave and writeConfig are
    doc,       \* [Savers -> Docs]: the content of the request
    off,       \* [Savers -> Nat]: the offset of the open file
    answer,    \* [Savers -> ...]: the page the last request was answered with
    gw,        \* the gateway service: "down", "checked", "running"
    conf,      \* what the running gateway has loaded
    saves,     \* number of saves submitted
    (* history, for the properties *)
    accepted,  \* the documents that passed validation, and the file at first
    opened,    \* [Savers -> BOOLEAN]: this request has truncated the file
    alone,     \* [Savers -> BOOLEAN]: no other request wrote since it opened
    torn       \* a save was interrupted, failed or overlapped by another

fileVars  == <<file, maybe>>
saveVars  == <<pc, doc, off, answer>>
gwVars    == <<gw, conf>>
ghostVars == <<accepted, opened, alone, torn>>
vars == <<fileVars, admin, saveVars, gwVars, saves, ghostVars>>

Writing == {"write", "sync", "close"}       \* the file is open in writeConfig
Idle(s) == pc[s] = "idle"

Init ==
    /\ file \in Seeds /\ maybe = {file}
    /\ admin = "up"
    /\ pc = [s \in Savers |-> "idle"]
    /\ doc = [s \in Savers |-> <<>>]
    /\ off = [s \in Savers |-> 0]
    /\ answer = [s \in Savers |-> "none"]
    /\ gw = "down" /\ conf = <<>>
    /\ saves = 0
    /\ accepted = {file}
    /\ opened = [s \in Savers |-> FALSE]
    /\ alone = [s \in Savers |-> FALSE]
    /\ torn = FALSE

\* The file's content changes; until an fsync the disk may hold the old one.
Put(f) ==
    /\ file' = f
    /\ maybe' = maybe \cup {f}
-----------------------------------------------------------------------------
(* handleSave *)

\* A same-origin POST with a document; http.Server runs it in a goroutine.
Submit(s, d) ==
    /\ admin = "up" /\ Idle(s) /\ saves < MaxSaves
    /\ saves' = saves + 1
    /\ pc' = [pc EXCEPT ![s] = "validate"]
    /\ doc' = [doc EXCEPT ![s] = d]
    /\ off' = [off EXCEPT ![s] = 0]
    /\ answer' = [answer EXCEPT ![s] = "none"]
    /\ opened' = [opened EXCEPT ![s] = FALSE]
    /\ alone' = [alone EXCEPT ![s] = FALSE]
    /\ UNCHANGED <<fileVars, admin, gwVars, accepted, torn>>

\* config.Parse on the submitted bytes, before the file is touched.
Passes(d) == Valid(d)

Validate(s) ==
    /\ pc[s] = "validate"
    /\ IF Passes(doc[s])
       THEN /\ pc' = [pc EXCEPT ![s] = "open"]
            /\ accepted' = IF Valid(doc[s]) THEN accepted \cup {doc[s]} ELSE accepted
            /\ UNCHANGED answer
       ELSE /\ pc' = [pc EXCEPT ![s] = "idle"]
            /\ answer' = [answer EXCEPT ![s] = "error"]
            /\ UNCHANGED accepted
    /\ UNCHANGED <<fileVars, admin, doc, off, gwVars, saves, opened, alone, torn>>

\* OpenFile with O_WRONLY and O_TRUNC: empty for every reader at once.
Open(s) ==
    /\ pc[s] = "open"
    /\ Put(<<>>)
    /\ pc' = [pc EXCEPT ![s] = "write"]
    /\ opened' = [opened EXCEPT ![s] = TRUE]
    /\ alone' = [t \in Savers |-> t = s /\ \A u \in Savers \ {s} : pc[u] \notin Writing]
    /\ torn' = (\E u \in Savers \ {s} : pc[u] \in Writing)
    /\ UNCHANGED <<admin, doc, off, answer, gwVars, saves, accepted>>

\* open, write or fsync report an error: writeConfig returns it at once.
Fail(s) ==
    /\ pc[s] \in {"open", "write", "sync", "close"}
    /\ pc' = [pc EXCEPT ![s] = "idle"]
    /\ answer' = [answer EXCEPT ![s] = "error"]
    /\ torn' = (torn \/ pc[s] \in {"write", "sync"})
    /\ UNCHANGED <<fileVars, admin, doc, off, gwVars, saves, accepted, opened, alone>>

\* The next byte of the document reaches the file, at this request's own offset;
\* what another request wrote beyond it stays, and a gap before it is zeros.  A
\* kill, a full disk or a reader can come between any two.
Written(f, n, char) ==
    [i \in 1..(IF Len(f) > n THEN Len(f) ELSE n + 1) |->
        IF i = n + 1 THEN char ELSE IF i <= Len(f) THEN f[i] ELSE Hole]

Write(s) ==
    /\ pc[s] = "write"
    /\ Put(Written(file, off[s], doc[s][off[s] + 1]))
    /\ off' = [off EXCEPT ![s] = @ + 1]
    /\ pc' = [pc EXCEPT ![s] = IF off[s] + 1 = Len(doc[s]) THEN "sync" ELSE "write"]
    /\ UNCHANGED <<admin, doc, answer, gwVars, saves, ghostVars>>

AfterSyncLazily == maybe      \* mutant: no f.Sync()
AfterSync == {file}

Sync(s) ==
    /\ pc[s] = "sync"
    /\ maybe' = AfterSync
    /\ pc' = [pc EXCEPT ![s] = "close"]
    /\ UNCHANGED <<file, admin, doc, off, answer, gwVars, saves, ghostVars>>

Saved(s) ==
    /\ pc[s] = "close"
    /\ pc' = [pc EXCEPT ![s] = "idle"]
    /\ answer' = [answer EXCEPT ![s] = "saved"]
    /\ UNCHANGED <<fileVars, admin, doc, off, gwVars, saves, ghostVars>>
-----------------------------------------------------------------------------
(* The admin process, under systemd with Restart=always *)

\* What is lost when the process is gone: requests under way have no answer.
Abandon ==
    /\ pc' = [s \in Savers |-> "idle"]
    /\ torn' = (torn \/ \E s \in Savers : pc[s] \in {"write", "sync"})

\* SIGTERM: Shutdown lets the requests under way finish.
AdminTerm ==
    /\ admin = "up"
    /\ admin' = "draining"
    /\ UNCHANGED <<fileVars, saveVars, gwVars, saves, ghostVars>>

ShutdownDoneEarly == TRUE      \* mutant: Close() instead of Shutdown()
ShutdownDone == \A s \in Savers : Idle(s)

\* The process is over with nothing under way to abandon.
AdminStops ==
    /\ admin = "draining" /\ ShutdownDone
    /\ admin' = "down"
    /\ pc' = [s \in Savers |-> "idle"]
    /\ UNCHANGED <<fileVars, doc, off, answer, gwVars, saves, ghostVars>>

\* SIGKILL, out of memory, or a Shutdown that ran into its deadline.
AdminKilled ==
    /\ admin # "down"
    /\ admin' = "down"
    /\ Abandon
    /\ UNCHANGED <<fileVars, doc, off, answer, gwVars, saves, accepted, opened, alone>>

AdminStart ==
    /\ admin = "down"
    /\ admin' = "up"
    /\ UNCHANGED <<fileVars, saveVars, gwVars, saves, ghostVars>>

PowerLoss ==
    /\ admin' = "down" /\ gw' = "down" /\ conf' = <<>>
    /\ Abandon
    /\ \E f \in maybe : file' = f /\ maybe' = {f}
    /\ UNCHANGED <<doc, off, answer, saves, accepted, opened, alone>>
-----------------------------------------------------------------------------
(* The gateway service *)

\* ExecStartPre: -validate loads the file and exits.
PreCheck ==
    /\ gw = "down" /\ Valid(file)
    /\ gw' = "checked"
    /\ UNCHANGED <<fileVars, admin, saveVars, conf, saves, ghostVars>>

\* ExecStart loads the file again: it may have changed since the check.
LoadsUnchecked(f) == TRUE      \* mutant: trusts ExecStartPre
Loads(f) == Valid(f)

StartOnce ==      \* mutant: Restart=on-success
    /\ gw = "checked"
    /\ \/ Loads(file) /\ gw' = "running" /\ conf' = file
       \/ ~Loads(file) /\ gw' = "failed" /\ UNCHANGED conf
    /\ UNCHANGED <<fileVars, admin, saveVars, saves, ghostVars>>
Start ==
    /\ gw = "checked"
    /\ \/ Loads(file) /\ gw' = "running" /\ conf' = file
       \/ ~Loads(file) /\ gw' = "down" /\ UNCHANGED conf
    /\ UNCHANGED <<fileVars, admin, saveVars, saves, ghostVars>>

\* gateway.Start fails on a document that passed: its socket is taken, or an
\* upstream is no URL (module Startup).
StartFails ==
    /\ gw = "checked" /\ Loads(file)
    /\ gw' = "down"
    /\ UNCHANGED <<fileVars, admin, saveVars, conf, saves, ghostVars>>

\* systemctl restart, or the process ends; systemd starts it again.
RestartStateNo == "failed"     \* mutant: Restart=no
RestartState == "down"

GatewayEnds ==
    /\ gw = "running"
    /\ gw' = RestartState /\ conf' = <<>>
    /\ UNCHANGED <<fileVars, admin, saveVars, saves, ghostVars>>

Request(s) == Validate(s) \/ Open(s) \/ Fail(s) \/ Write(s) \/ Sync(s) \/ Saved(s)

Next ==
    \/ \E s \in Savers : Request(s) \/ \E d \in Docs : Submit(s, d)
    \/ AdminTerm \/ AdminStops \/ AdminKilled \/ AdminStart \/ PowerLoss
    \/ PreCheck \/ Start \/ StartFails \/ GatewayEnds

Spec == Init /\ [][Next]_vars

\* systemd keeps trying to start the gateway.
FairSpec == Spec /\ WF_vars(PreCheck) /\ WF_vars(Start)
-----------------------------------------------------------------------------
(* Properties *)

Contents == Seq(Characters \cup {Hole})

TypeOK ==
    /\ file \in Contents
    /\ maybe \subseteq Contents /\ file \in maybe
    /\ admin \in {"up", "draining", "down"}
    /\ pc \in [Savers -> {"idle", "validate", "open"} \cup Writing]
    /\ doc \in [Savers -> Docs \cup {<<>>}]
    /\ off \in [Savers -> Nat] /\ \A s \in Savers : off[s] <= Len(doc[s])
    /\ answer \in [Savers -> {"none", "saved", "error"}]
    /\ gw \in {"down", "checked", "running"}
    /\ conf \in Contents
    /\ saves \in 0..MaxSaves
    /\ accepted \subseteq Docs \cup Seeds
    /\ opened \in [Savers -> BOOLEAN]
    /\ alone \in [Savers -> BOOLEAN]
    /\ torn \in BOOLEAN

\* Every byte of the file, of whatever a loss of power may leave of it, and of
\* the configuration the gateway serves is at the place it has in a document
\* that passed validation: overlapping saves mix documents, in the middle of a
\* line too, but no byte of a rejected one gets in and none is displaced.  "A
\* bad config ... never binds a port": whatever is written between ExecStartPre
\* and ExecStart, what is served is valid.
BytesFromAccepted ==
    /\ \A f \in maybe \cup {conf} : \A i \in 1..Len(f) :
           f[i] = Hole \/ \E d \in accepted : i <= Len(d) /\ d[i] = f[i]
    /\ gw = "running" => Valid(conf)

\* "Saved.": a save that no other save has interfered with is what every reader
\* sees and what survives a loss of power.
SavedIsDurable ==
    \A s \in Savers :
        answer[s] = "saved" /\ alone[s] => file = doc[s] /\ maybe = {doc[s]}

\* While no save is under way and none was interrupted, overlapped or failed,
\* the file is a document somebody submitted: an orderly stop of the admin
\* service included.
WholeWhenQuiet ==
    ~torn /\ (\A s \in Savers : pc[s] \notin Writing) => file \in accepted

\* The gateway comes back: once the file stays valid, the power stays on and
\* gateway.Start finds its sockets free, it runs again and again, however often
\* it is restarted and whatever the saves and the failed starts did before.
GatewayComesBack ==
    (<>[]Valid(file) /\ <>[][~PowerLoss /\ ~StartFails]_vars) => []<>(gw = "running")

\* "Rejected -- file not changed": the page shows it for every error, also for
\* one that follows the truncation.
ErrorMeansUnchanged ==
    \A s \in Savers : answer[s] = "error" => ~opened[s]

\* "the worst case is 'gateway refuses to start on a bad file'": a gateway that
\* does start runs on a document that somebody submitted.
RefusesOrServesSubmitted == gw = "running" => conf \in accepted
=============================================================================
