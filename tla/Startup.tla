-------------------------------- MODULE Startup --------------------------------
(***************************************************************************)
(* From the command line to the open ports: config.Load with its search,   *)
(* its check of the file's permissions, system call by system call, and    *)
(* its validation; then gateway.New and Gateway.Start (main.go,            *)
(* internal/config, internal/gateway/gateway.go).  Meanwhile others may    *)
(* change the permissions of the files, replace or remove them.            *)
(***************************************************************************)
EXTENDS Naturals, Sequences, FiniteSets, Functions

CONSTANTS
    Nothing,        \* what a path holds where there is no file
    Files,          \* the files there may be: permissions and a document
    Sockets,        \* a function from listen addresses, as written, to sockets
    Takens,         \* the sets of sockets that other processes may hold
    MaxChanges      \* bound: changes of the files while the gateway starts

\* The search path, in its order.
SearchPaths == <<"home", "etc">>

(* Permissions: whether the owning group and others have access, or, with an *)
(* extended ACL, the group entry, a named group's, others' and the mask.     *)
Permissions == [ext : BOOLEAN, group : BOOLEAN, named : BOOLEAN, mask : BOOLEAN,
                other : BOOLEAN]

(* A document is a sequence of entries: the section, the listen address, the *)
(* fields it has, and whether url.Parse takes its upstream.  An entry of an   *)
(* unknown section stands for all that the decoder refuses.                   *)
Sections == <<"http", "mysql", "redis", "postgres", "oracle">>

ASSUME ChangesAssumption == MaxChanges \in Nat
ASSUME FilesAssumption ==
    \A f \in Files : f.perms \in Permissions /\ f.doc \in Seq(Range(f.doc))

VARIABLES
    pc,         \* where main is
    asked,      \* the -config flag: a path or ""
    validate,   \* the -validate flag
    file,       \* what each path holds
    taken,      \* the sockets of other processes
    path,       \* the path to load, "" if none is found yet
    looked,     \* how many search paths have been looked at
    mode,       \* the mode bits that Stat has returned
    size,       \* the size of the ACL that Getxattr has returned
    doc,        \* the document that was read
    bound,      \* the listeners that are bound, by number
    changes,    \* number of changes so far
    clean,      \* history: at some moment of the check the file was private
    everBound   \* history: a listener has been bound

loadVars  == <<path, looked, mode, size, doc>>
envVars   == <<asked, validate, taken>>
histVars  == <<clean, everBound>>
vars == <<pc, file, bound, changes, loadVars, envVars, histVars>>

NoMode == [group |-> FALSE, other |-> FALSE]

Init ==
    /\ pc = "search"
    /\ asked \in {""} \cup Range(SearchPaths) /\ validate \in BOOLEAN
    /\ file \in [Range(SearchPaths) -> {Nothing} \cup Files]
    /\ taken \in Takens
    /\ path = asked /\ looked = 0 /\ mode = NoMode /\ size = 0 /\ doc = <<>>
    /\ bound = {} /\ changes = 0
    /\ clean = FALSE /\ everBound = FALSE
-----------------------------------------------------------------------------
(* The others *)

\* Who has access: the mask limits the group class of an extended ACL.
Exposed(p) == p.other \/ IF p.ext THEN p.mask /\ (p.group \/ p.named) ELSE p.group
PrivateNow(f) == f # Nothing /\ ~Exposed(f.perms)

Checking == pc \in {"aclSize", "aclData"}

Change ==
    /\ changes < MaxChanges /\ pc \in {"search", "stat", "aclSize", "aclData", "read"}
    /\ \E p \in Range(SearchPaths), f \in {Nothing} \cup Files :
           /\ file' = [file EXCEPT ![p] = f]
           /\ clean' = (clean \/ (Checking /\ p = path /\ PrivateNow(f)))
    /\ changes' = changes + 1
    /\ UNCHANGED <<pc, bound, everBound, loadVars, envVars>>
-----------------------------------------------------------------------------
(* config.Load *)

OthersUnchanged == UNCHANGED <<file, changes, envVars>>
Fail == pc' = "failed"

NotFoundGoesOn == pc' = "stat"    \* mutant: the empty path is loaded
NotFound == Fail

\* A path on the command line is taken as it is.
Search ==
    /\ pc = "search"
    /\ IF path # "" THEN pc' = "stat" /\ UNCHANGED <<path, looked>>
       ELSE IF looked = Len(SearchPaths) THEN NotFound /\ UNCHANGED <<path, looked>>
       ELSE /\ looked' = looked + 1
            /\ path' = IF file[SearchPaths[looked + 1]] = Nothing
                       THEN "" ELSE SearchPaths[looked + 1]
            /\ UNCHANGED pc
    /\ UNCHANGED <<mode, size, doc, bound, histVars>> /\ OthersUnchanged

There == file[path] # Nothing
Perms == file[path].perms

\* The mode bits show an extended ACL's mask in place of the group's.
ModeBits(p) == [group |-> IF p.ext THEN p.mask ELSE p.group, other |-> p.other]

StatFile ==
    /\ pc = "stat"
    /\ \/ There /\ mode' = ModeBits(Perms) /\ clean' = ~Exposed(Perms) /\ pc' = "aclSize"
       \/ ~There /\ Fail /\ UNCHANGED <<mode, clean>>
    /\ UNCHANGED <<path, looked, size, doc, bound, everBound>> /\ OthersUnchanged

\* An ACL has the entries for owner, group, mask and others, and the named ones.
Entries(p) == IF p.named THEN 5 ELSE 4

\* Without an extended ACL the mode bits of before decide.
JudgeMode == IF mode.group \/ mode.other THEN Fail ELSE pc' = "read"

AclSize ==
    /\ pc = "aclSize"
    /\ \/ ~There /\ Fail /\ UNCHANGED size
       \/ There /\ ~Perms.ext /\ JudgeMode /\ UNCHANGED size
       \/ There /\ Perms.ext /\ size' = Entries(Perms) /\ pc' = "aclData"
    /\ UNCHANGED <<path, looked, mode, doc, bound, histVars>> /\ OthersUnchanged

\* The entries are judged as they are, whatever the mask; named users may have
\* access.
GrantsUnnamed(p) == p.group \/ p.other    \* mutant: named groups are forgotten
Grants(p) == p.group \/ p.named \/ p.other

\* An ACL that has grown does not fit (ERANGE); one that is gone leaves the mode.
AclData ==
    /\ pc = "aclData"
    /\ \/ ~There /\ Fail
       \/ There /\ ~Perms.ext /\ JudgeMode
       \/ There /\ Perms.ext
          /\ IF Entries(Perms) > size \/ Grants(Perms) THEN Fail ELSE pc' = "read"
    /\ UNCHANGED <<loadVars, bound, histVars>> /\ OthersUnchanged

ReadFile ==
    /\ pc = "read"
    /\ \/ There /\ doc' = file[path].doc /\ pc' = "parse"
       \/ ~There /\ Fail /\ UNCHANGED doc
    /\ UNCHANGED <<path, looked, mode, size, bound, histVars>> /\ OthersUnchanged
-----------------------------------------------------------------------------
(* config.Parse and Validate, gateway.New and Start *)

Required(section) ==
    CASE section = "http"  -> {"listen", "upstream", "headers"}
      [] section = "redis" -> {"listen", "upstream"}
      [] section = "oracle" -> {"listen", "upstream", "user", "password", "service"}
      [] OTHER             -> {"listen", "upstream", "user", "password"}

\* Validate and New go through the sections in their order, and through the
\* entries of a section in theirs.
SectionNo(e) == CHOOSE n \in DOMAIN Sections : Sections[n] = e.section
Before(d, i, j) ==
    \/ SectionNo(d[i]) < SectionNo(d[j])
    \/ SectionNo(d[i]) = SectionNo(d[j]) /\ i < j
Turn(d, i) == 1 + Cardinality({j \in DOMAIN d : Before(d, j, i)})
Listeners(d) == [k \in DOMAIN d |-> d[CHOOSE i \in DOMAIN d : Turn(d, i) = k]]

\* One map of addresses serves all sections.
SeenInSection(d, k) ==         \* mutant: a map for every section
    {Listeners(d)[j].listen :
        j \in {i \in 1..(k - 1) : Listeners(d)[i].section = Listeners(d)[k].section}}
Seen(d, k) == {Listeners(d)[j].listen : j \in 1..(k - 1)}
Validate(d) ==
    /\ d # <<>>
    /\ \A k \in DOMAIN d :
           /\ Required(Listeners(d)[k].section) \subseteq Listeners(d)[k].fields
           /\ Listeners(d)[k].listen \notin Seen(d, k)

Decodes(d) == \A e \in Range(d) : e.section \in Range(Sections)

Parse ==
    /\ pc = "parse"
    /\ pc' = IF ~Decodes(doc) \/ ~Validate(doc) THEN "failed"
             ELSE IF validate THEN "valid" ELSE "start"
    /\ UNCHANGED <<loadVars, bound, histVars>> /\ OthersUnchanged

\* Start of the next listener: an upstream that url.Parse refuses, or a socket
\* that somebody has, makes main exit, and the exit closes what was bound.
SocketOf(k) == Sockets[Listeners(doc)[k].listen]
Refuses(e)  == e.section = "http" /\ ~e.url

\* mutant: a listener that cannot bind is left out
OnStartErrorSkip(k) == bound' = bound \cup {k} /\ UNCHANGED pc
OnStartError(k) == Fail /\ bound' = {}

StartNext ==
    /\ pc = "start" /\ Cardinality(bound) < Len(doc)
    /\ LET k == Cardinality(bound) + 1
           busy == SocketOf(k) \in taken \cup {SocketOf(j) : j \in bound} IN
       IF Refuses(Listeners(doc)[k]) \/ busy
       THEN OnStartError(k) /\ UNCHANGED everBound
       ELSE bound' = bound \cup {k} /\ everBound' = TRUE /\ UNCHANGED pc
    /\ UNCHANGED <<loadVars, clean>> /\ OthersUnchanged

StartDone ==
    /\ pc = "start" /\ Cardinality(bound) = Len(doc)
    /\ pc' = "running"
    /\ UNCHANGED <<loadVars, bound, histVars>> /\ OthersUnchanged

Next ==
    \/ Change
    \/ Search \/ StatFile \/ AclSize \/ AclData \/ ReadFile \/ Parse
    \/ StartNext \/ StartDone

Spec == Init /\ [][Next]_vars
-----------------------------------------------------------------------------
(* Properties *)

Loaded == {"start", "running", "valid"}

TypeOK ==
    /\ pc \in {"search", "stat", "aclSize", "aclData", "read", "parse", "failed"} \cup Loaded
    /\ file \in [Range(SearchPaths) -> {Nothing} \cup Files]
    /\ path \in Range(SearchPaths) \/ (path = "" /\ pc \in {"search", "failed"})
    /\ looked \in 0..Len(SearchPaths)
    /\ mode \in [group : BOOLEAN, other : BOOLEAN] /\ size \in {0, 4, 5}
    /\ doc \in {<<>>} \cup {f.doc : f \in Files}
    /\ bound \subseteq 1..Len(doc)
    /\ changes \in 0..MaxChanges

\* A file passes the check only if, at some moment of the check, a file was there
\* to which neither its group nor a named group nor others had access, whatever
\* was done between the system calls (config.go:208-215).
SafeWhenChecked == pc \in {"read", "parse"} \cup Loaded => clean

\* What Load takes when nobody interferes: the file of -config, which the search
\* path never overrides, else the first that is there of the home and /etc.  (So
\* config.go:61-69.  README.md:129-133, "first found wins", has the custom path
\* third, behind both: a -config file would lose to one in the home.)  It must be
\* private to its owner and named users, name every required field, and no
\* address twice.
Chosen == IF asked # "" THEN asked ELSE
          IF file["home"] # Nothing THEN "home" ELSE "etc"
Distinct(d) == \A i, j \in DOMAIN d : d[i].listen = d[j].listen => i = j
Acceptable(f) ==
    /\ f # Nothing
    /\ ~f.perms.group /\ ~f.perms.other /\ ~(f.perms.ext /\ f.perms.named)
    /\ f.doc # <<>> /\ Distinct(f.doc)
    /\ \A e \in Range(f.doc) :
           e.section \in Range(Sections) /\ Required(e.section) \subseteq e.fields

\* Undisturbed, Load takes that file, with -config given and a file in the home
\* too, and refuses it for those reasons only; -validate and a start agree
\* (main.go:67-76).
LoadMatchesReference ==
    changes = 0 =>
        /\ pc \in Loaded => Acceptable(file[Chosen]) /\ doc = file[Chosen].doc
        /\ pc = "failed" /\ ~everBound /\ taken = {} =>
               \/ ~Acceptable(file[Chosen])
               \/ Refuses(Listeners(file[Chosen].doc)[1])

\* A gateway that runs has all its listeners, each on a socket of its own.
RunsComplete ==
    pc = "running" =>
        /\ bound = 1..Len(doc)
        /\ \A j, k \in bound : SocketOf(j) = SocketOf(k) => j = k
        /\ \A k \in bound : SocketOf(k) \notin taken /\ ~Refuses(Listeners(doc)[k])

\* "a bad config [...] fails with a clean journalctl error and never binds a
\* port" (README.md:155).
BadNeverBinds == pc = "failed" => ~everBound
=============================================================================
