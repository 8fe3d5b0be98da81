---------------------------- MODULE StartupProofs ----------------------------
(***************************************************************************)
(* Proofs about Startup: for any set of files, and any number of changes    *)
(* made to them between the system calls of the check.                      *)
(***************************************************************************)
EXTENDS Startup, FiniteSetTheorems, TLAPS

Paths == Range(SearchPaths)

\* What the check knows between its system calls: of the path, ...
PathOK ==
    /\ looked \in 0..2
    /\ path \in Paths \/ (path = "" /\ pc \in {"search", "failed"})

\* ... of the files, ...
FilesOK == file \in [Paths -> {Nothing} \cup Files]

\* ... and of the moments passed: the mode bits that were read are those of a
\* private file only if there was one, and one that is there now has been noted.
CheckOK ==
    Checking =>
        /\ ~mode.group /\ ~mode.other => clean
        /\ PrivateNow(file[path]) => clean

IInv == PathOK /\ FilesOK /\ CheckOK /\ SafeWhenChecked

\* The search path has two entries.
LEMMA TwoPaths ==
    /\ Len(SearchPaths) = 2
    /\ Paths = {"home", "etc"}
    /\ \A i \in 1..2 : SearchPaths[i] \in Paths
<1>1. Len(SearchPaths) = 2 /\ DOMAIN SearchPaths = 1..2
  BY DEF SearchPaths
<1>2. SearchPaths[1] = "home" /\ SearchPaths[2] = "etc"
  BY DEF SearchPaths
<1>3. Paths = {SearchPaths[i] : i \in 1..2}
  BY <1>1 DEF Paths, Range
<1>4. QED
  BY <1>1, <1>2, <1>3

\* Mode bits that give no access, in a file with or without an extended ACL, are
\* those of a file that is not exposed.
LEMMA ModeBitsTell ==
    ASSUME NEW p \in Permissions, ~ModeBits(p).group, ~ModeBits(p).other
    PROVE  ~Exposed(p)
BY DEF Permissions, ModeBits, Exposed

\* Neither is a file whose ACL has no entry that grants access.
LEMMA GrantsTells == ASSUME NEW p \in Permissions, ~Grants(p) PROVE ~Exposed(p)
BY DEF Permissions, Grants, Exposed

\* Where there is a file, its permissions are permissions.
LEMMA ThereIsFile ==
    ASSUME FilesOK, path \in Paths, There
    PROVE  file[path] \in Files /\ Perms \in Permissions
BY FilesAssumption DEF FilesOK, There, Perms

LEMMA InitIInv == Init => IInv
<1> SUFFICES ASSUME Init PROVE IInv
  OBVIOUS
<1>1. PathOK
  <2>1. path = "" \/ path \in Paths
    BY DEF Init, Paths
  <2>2. looked = 0 /\ pc = "search"
    BY DEF Init
  <2>3. looked \in 0..2
    BY <2>2
  <2>4. QED
    BY <2>1, <2>2, <2>3, Zenon DEF PathOK
<1>2. FilesOK
  BY DEF Init, FilesOK, Paths
<1>3. CheckOK /\ SafeWhenChecked
  BY DEF Init, CheckOK, Checking, SafeWhenChecked, Loaded
<1>4. QED
  BY <1>1, <1>2, <1>3 DEF IInv

\* A change by somebody else: a private file that appears is noted.
LEMMA ChangeIInv == IInv /\ Change => IInv'
<1> SUFFICES ASSUME IInv, Change PROVE IInv'
  OBVIOUS
<1>1. PICK p \in Paths, f \in {Nothing} \cup Files :
          /\ file' = [file EXCEPT ![p] = f]
          /\ clean' = (clean \/ (Checking /\ p = path /\ PrivateNow(f)))
  BY DEF Change, Paths
<1>2. UNCHANGED <<pc, looked, path, mode>>
  BY DEF Change, loadVars
<1>3. PathOK' /\ FilesOK'
  BY <1>1, <1>2 DEF IInv, PathOK, FilesOK
<1>4. SafeWhenChecked'
  BY <1>1, <1>2 DEF IInv, SafeWhenChecked, Loaded
<1>5. CheckOK'
  <2> SUFFICES ASSUME Checking PROVE CheckOK'
    BY <1>2 DEF CheckOK, Checking
  <2>1. path \in Paths
    BY DEF IInv, PathOK, Checking
  <2>2. ~mode'.group /\ ~mode'.other => clean'
    BY <1>1, <1>2 DEF IInv, CheckOK
  <2>3. PrivateNow(file'[path]) => clean'
    <3>1. CASE p = path
      BY <1>1, <2>1, <3>1 DEF IInv, FilesOK
    <3>2. CASE p # path
      <4>1. file'[path] = file[path]
        BY <1>1, <2>1, <3>2 DEF IInv, FilesOK
      <4>2. QED
        BY <1>1, <4>1 DEF IInv, CheckOK
    <3>3. QED
      BY <3>1, <3>2
  <2>4. QED
    BY <1>2, <2>2, <2>3 DEF CheckOK, PrivateNow
<1>6. QED
  BY <1>3, <1>4, <1>5 DEF IInv

\* Finding a path.
LEMMA SearchIInv == IInv /\ Search => IInv'
<1> SUFFICES ASSUME IInv, Search PROVE IInv'
  OBVIOUS
<1>1. file' = file /\ clean' = clean /\ pc = "search"
  BY DEF Search, OthersUnchanged, histVars
<1>2. pc' \in {"search", "stat", "failed"}
  BY DEF Search, NotFound, Fail
<1>3. PathOK'
  <2>1. CASE path # ""
    BY <2>1 DEF Search, IInv, PathOK
  <2>2. CASE path = "" /\ looked = Len(SearchPaths)
    BY <2>2 DEF Search, NotFound, Fail, IInv, PathOK
  <2>3. CASE path = "" /\ looked # Len(SearchPaths)
    <3>1. looked' = looked + 1 /\ looked + 1 \in 1..2
      <4>1. looked \in 0..2 /\ looked # 2
        BY <2>3, TwoPaths DEF IInv, PathOK
      <4>2. looked' = looked + 1
        BY <2>3 DEF Search
      <4>3. QED
        BY <4>1, <4>2
    <3>2. path' \in {"", SearchPaths[looked + 1]} /\ pc' = "search"
      BY <2>3, <1>1 DEF Search
    <3>3. SearchPaths[looked + 1] \in Paths
      BY <3>1, TwoPaths
    <3>4. looked' \in 0..2
      BY <3>1
    <3>5. QED
      BY <3>2, <3>3, <3>4 DEF PathOK
  <2>4. QED
    BY <2>1, <2>2, <2>3
<1>4. QED
  BY <1>1, <1>2, <1>3
  DEF IInv, FilesOK, CheckOK, Checking, SafeWhenChecked, Loaded

\* Stat begins a check.
LEMMA StatIInv == IInv /\ StatFile => IInv'
<1> SUFFICES ASSUME IInv, StatFile PROVE IInv'
  OBVIOUS
<1>1. UNCHANGED <<file, path, looked>> /\ path \in Paths
  BY DEF StatFile, OthersUnchanged, IInv, PathOK
<1>2. CASE ~There
  BY <1>1, <1>2
  DEF StatFile, Fail, IInv, PathOK, FilesOK, CheckOK, Checking, SafeWhenChecked, Loaded
<1>3. CASE There
  <2>1. mode' = ModeBits(Perms) /\ clean' = ~Exposed(Perms) /\ pc' = "aclSize"
    BY <1>3 DEF StatFile
  <2>2. Perms \in Permissions
    BY <1>1, <1>3, ThereIsFile DEF IInv
  <2>3. ~mode'.group /\ ~mode'.other => clean'
    BY <2>1, <2>2, ModeBitsTell
  <2>4. PrivateNow(file[path]) => clean'
    BY <2>1 DEF PrivateNow, Perms
  <2>5. CheckOK'
    BY <1>1, <2>3, <2>4 DEF CheckOK, PrivateNow
  <2>6. QED
    BY <1>1, <2>1, <2>5 DEF IInv, PathOK, FilesOK, SafeWhenChecked, Loaded
<1>4. QED
  BY <1>2, <1>3

\* Reading the ACL ends the check, one way or the other.
LEMMA AclIInv == IInv /\ (AclSize \/ AclData) => IInv'
<1> SUFFICES ASSUME IInv, AclSize \/ AclData PROVE IInv'
  OBVIOUS
<1>1. UNCHANGED <<file, path, looked, mode, clean>> /\ path \in Paths /\ Checking
  BY DEF AclSize, AclData, OthersUnchanged, loadVars, histVars, IInv, PathOK, Checking
<1>2. pc' \in {"failed", "read", "aclData"}
  BY DEF AclSize, AclData, JudgeMode, Fail
<1>3. pc' = "read" => clean
  <2>1. SUFFICES ASSUME pc' = "read" PROVE clean
    OBVIOUS
  <2>2. (~mode.group /\ ~mode.other) \/ (There /\ ~Grants(Perms))
    BY <2>1 DEF AclSize, AclData, JudgeMode, Fail
  <2>3. CASE ~mode.group /\ ~mode.other
    BY <1>1, <2>3 DEF IInv, CheckOK
  <2>4. CASE There /\ ~Grants(Perms)
    <3>1. Perms \in Permissions
      BY <1>1, <2>4, ThereIsFile DEF IInv
    <3>2. PrivateNow(file[path])
      BY <2>4, <3>1, GrantsTells DEF PrivateNow, There, Perms
    <3>3. QED
      BY <1>1, <3>2 DEF IInv, CheckOK
  <2>5. QED
    BY <2>2, <2>3, <2>4
<1>4. CheckOK'
  BY <1>1 DEF IInv, CheckOK, PrivateNow
<1>5. QED
  BY <1>1, <1>2, <1>3, <1>4 DEF IInv, PathOK, FilesOK, SafeWhenChecked, Loaded

\* What comes after the check.
LEMMA AfterIInv == IInv /\ (ReadFile \/ Parse \/ StartNext \/ StartDone) => IInv'
<1> SUFFICES ASSUME IInv, ReadFile \/ Parse \/ StartNext \/ StartDone PROVE IInv'
  OBVIOUS
<1>1. UNCHANGED <<file, path, looked, clean>>
  BY DEF ReadFile, Parse, StartNext, StartDone, OthersUnchanged, loadVars, histVars
<1>2. pc \in {"read", "parse", "start"}
  BY DEF ReadFile, Parse, StartNext, StartDone
<1>3. pc' \in {"failed", "parse", "start", "valid", "running"}
  BY DEF ReadFile, Parse, StartNext, StartDone, Fail, OnStartError
<1>4. QED
  BY <1>1, <1>2, <1>3
  DEF IInv, PathOK, FilesOK, CheckOK, Checking, SafeWhenChecked, Loaded

LEMMA NextIInv == IInv /\ [Next]_vars => IInv'
<1>1. ASSUME IInv, UNCHANGED vars PROVE IInv'
  <2>1. UNCHANGED <<pc, file, path, looked, mode, clean>>
    BY <1>1 DEF vars, loadVars, envVars, histVars
  <2>2. PathOK' /\ FilesOK' /\ SafeWhenChecked'
    BY <1>1, <2>1 DEF IInv, PathOK, FilesOK, SafeWhenChecked
  <2>3. CheckOK'
    BY <1>1, <2>1 DEF IInv, CheckOK, Checking, PrivateNow
  <2>4. QED
    BY <2>2, <2>3 DEF IInv
<1>2. QED
  BY <1>1, ChangeIInv, SearchIInv, StatIInv, AclIInv, AfterIInv DEF Next

\* Whatever others do to the files between Stat, the two Getxattr calls and the
\* reading, a file is loaded only if, at some moment of the check, the path held
\* one that was closed to all but its owner and named users (config.go:208-215).
THEOREM AlwaysSafeWhenChecked == Spec => []SafeWhenChecked
<1>1. IInv => SafeWhenChecked
  BY DEF IInv
<1>2. QED
  BY InitIInv, NextIInv, <1>1, PTL DEF Spec
-----------------------------------------------------------------------------
(* The order of the listeners *)

\* The sections have different names, so that every name has one number.
LEMMA SectionNumbers ==
    \A s \in Range(Sections) : \E n \in 1..5 :
        /\ Sections[n] = s
        /\ \A m \in DOMAIN Sections : Sections[m] = s => m = n
<1>1. DOMAIN Sections = 1..5
  BY DEF Sections
<1>2. \A m, n \in 1..5 : Sections[m] = Sections[n] => m = n
  BY DEF Sections
<1>3. QED
  BY <1>1, <1>2 DEF Range

LEMMA SectionNoType ==
    ASSUME NEW e, e.section \in Range(Sections)
    PROVE  SectionNo(e) \in 1..5
<1>1. \E n \in DOMAIN Sections : Sections[n] = e.section
  BY DEF Range
<1>2. SectionNo(e) \in DOMAIN Sections
  BY <1>1 DEF SectionNo
<1>3. QED
  BY <1>2 DEF Sections

LEMMA CountUpTo ==
    ASSUME NEW n \in Nat PROVE IsFiniteSet(1..n) /\ Cardinality(1..n) = n
BY FS_Interval

\* A document, as far as its order goes: entries of known sections.
Document(d) == d \in Seq(Range(d)) /\ Decodes(d)

LEMMA DocumentDomain ==
    ASSUME NEW d, Document(d)
    PROVE  /\ Len(d) \in Nat /\ DOMAIN d = 1..Len(d)
           /\ IsFiniteSet(DOMAIN d) /\ Cardinality(DOMAIN d) = Len(d)
           /\ \A i \in DOMAIN d : SectionNo(d[i]) \in 1..5
<1>1. Len(d) \in Nat /\ DOMAIN d = 1..Len(d)
  BY DEF Document
<1>2. \A i \in DOMAIN d : SectionNo(d[i]) \in 1..5
  BY SectionNoType DEF Document, Decodes, Range
<1>3. IsFiniteSet(1..Len(d)) /\ Cardinality(1..Len(d)) = Len(d)
  BY <1>1, CountUpTo
<1>4. QED
  BY <1>1, <1>2, <1>3

\* Before is a strict total order of the entries.
LEMMA BeforeOrders ==
    ASSUME NEW d, Document(d), NEW i \in DOMAIN d, NEW j \in DOMAIN d
    PROVE  /\ ~Before(d, i, i)
           /\ i # j => Before(d, i, j) \/ Before(d, j, i)
           /\ \A l \in DOMAIN d : Before(d, l, i) /\ Before(d, i, j) => Before(d, l, j)
<1>1. Len(d) \in Nat /\ DOMAIN d = 1..Len(d)
  BY DocumentDomain
<1>2. \A l \in DOMAIN d : SectionNo(d[l]) \in Nat /\ l \in Nat
  BY <1>1, DocumentDomain
<1> HIDE DEF Document
<1>3. QED
  BY <1>2 DEF Before

Earlier(d, i) == {j \in DOMAIN d : Before(d, j, i)}

\* So the entries before an earlier entry are fewer.
LEMMA EarlierFewer ==
    ASSUME NEW d, Document(d), NEW i \in DOMAIN d, NEW j \in DOMAIN d, Before(d, i, j)
    PROVE  Cardinality(Earlier(d, i)) < Cardinality(Earlier(d, j))
<1>1. Earlier(d, i) \subseteq Earlier(d, j)
  BY BeforeOrders DEF Earlier
<1>2. i \in Earlier(d, j) /\ i \notin Earlier(d, i)
  BY BeforeOrders DEF Earlier
<1>3. IsFiniteSet(Earlier(d, j))
  BY DocumentDomain, FS_Subset DEF Earlier
<1>4. /\ IsFiniteSet(Earlier(d, i))
      /\ Cardinality(Earlier(d, i)) <= Cardinality(Earlier(d, j))
      /\ Cardinality(Earlier(d, j)) # Cardinality(Earlier(d, i))
  BY <1>1, <1>2, <1>3, FS_Subset
<1>5. Cardinality(Earlier(d, i)) \in Nat /\ Cardinality(Earlier(d, j)) \in Nat
  BY <1>3, <1>4, FS_CardinalityType
<1>6. QED
  BY <1>4, <1>5

LEMMA TurnIs ==
    ASSUME NEW d, Document(d), NEW i \in DOMAIN d
    PROVE  /\ Turn(d, i) = 1 + Cardinality(Earlier(d, i))
           /\ Cardinality(Earlier(d, i)) \in Nat
           /\ Turn(d, i) \in DOMAIN d
<1>1. Turn(d, i) = 1 + Cardinality(Earlier(d, i))
  BY DEF Turn, Earlier
<1>2. Earlier(d, i) \subseteq DOMAIN d /\ i \notin Earlier(d, i)
  BY BeforeOrders DEF Earlier
<1>3. IsFiniteSet(Earlier(d, i)) /\ Cardinality(Earlier(d, i)) <= Len(d)
      /\ Cardinality(Earlier(d, i)) # Len(d)
  BY <1>2, DocumentDomain, FS_Subset
<1>4. Cardinality(Earlier(d, i)) \in Nat
  BY <1>3, FS_CardinalityType
<1>5. Turn(d, i) \in 1..Len(d)
  BY <1>1, <1>3, <1>4, DocumentDomain
<1>6. QED
  BY <1>1, <1>4, <1>5, DocumentDomain

\* No two entries have the same turn, ...
LEMMA TurnsDiffer ==
    ASSUME NEW d, Document(d), NEW i \in DOMAIN d, NEW j \in DOMAIN d,
           Turn(d, i) = Turn(d, j)
    PROVE  i = j
<1>1. SUFFICES ASSUME i # j PROVE FALSE
  OBVIOUS
<1>2. Before(d, i, j) \/ Before(d, j, i)
  BY <1>1, BeforeOrders
<1>3. Cardinality(Earlier(d, i)) # Cardinality(Earlier(d, j))
  BY <1>2, EarlierFewer, TurnIs
<1>4. QED
  BY <1>3, TurnIs

\* ... and hence every turn is that of an entry.
LEMMA TurnsTaken ==
    ASSUME NEW d, Document(d), NEW k \in DOMAIN d
    PROVE  \E i \in DOMAIN d : Turn(d, i) = k
<1> DEFINE f == [i \in DOMAIN d |-> Turn(d, i)]
<1>1. f \in Injection(DOMAIN d, DOMAIN d)
  <2>1. f \in [DOMAIN d -> DOMAIN d]
    BY TurnIs
  <2>2. \A i, j \in DOMAIN d : f[i] = f[j] => i = j
    BY TurnsDiffer
  <2>3. QED
    BY <2>1, <2>2 DEF Injection, IsInjective
<1>2. f \in Surjection(DOMAIN d, DOMAIN d)
  BY <1>1, DocumentDomain, FS_Injection
<1>3. \E i \in DOMAIN d : f[i] = k
  BY <1>2 DEF Surjection
<1>4. QED
  BY <1>3

\* The listeners are the entries of the document, each once.
LEMMA ListenersAre ==
    ASSUME NEW d, Document(d)
    PROVE  /\ DOMAIN Listeners(d) = DOMAIN d
           /\ \A i \in DOMAIN d : Listeners(d)[Turn(d, i)] = d[i]
           /\ \A k \in DOMAIN d : \E i \in DOMAIN d : Turn(d, i) = k
<1>1. ASSUME NEW i \in DOMAIN d PROVE Listeners(d)[Turn(d, i)] = d[i]
  <2> DEFINE j == CHOOSE j \in DOMAIN d : Turn(d, j) = Turn(d, i)
  <2>1. j \in DOMAIN d /\ Turn(d, j) = Turn(d, i)
    OBVIOUS
  <2>2. j = i
    BY <2>1, TurnsDiffer
  <2>3. Turn(d, i) \in DOMAIN d
    BY TurnIs
  <2>4. Listeners(d)[Turn(d, i)] = d[j]
    BY <2>3 DEF Listeners
  <2>5. QED
    BY <2>2, <2>4
<1>2. DOMAIN Listeners(d) = DOMAIN d
  BY DEF Listeners
<1>3. QED
  BY <1>1, <1>2, TurnsTaken

\* Validate, in the order of its sections and with its map of addresses, accepts
\* what names every required field and no address twice.
LEMMA ValidateTells ==
    ASSUME NEW d, Document(d)
    PROVE  Validate(d) <=>
               /\ d # <<>> /\ Distinct(d)
               /\ \A e \in Range(d) : Required(e.section) \subseteq e.fields
<1> DEFINE L == Listeners(d)
<1> HIDE DEF L
<1>1. /\ \A i \in DOMAIN d : Turn(d, i) \in DOMAIN d /\ L[Turn(d, i)] = d[i]
      /\ \A k \in DOMAIN d : \E i \in DOMAIN d : Turn(d, i) = k
      /\ \A i, j \in DOMAIN d : Turn(d, i) = Turn(d, j) => i = j
  BY ListenersAre, TurnIs, TurnsDiffer DEF L
<1>2. Len(d) \in Nat /\ DOMAIN d = 1..Len(d)
  BY DocumentDomain
<1>3. (\A k \in DOMAIN d : Required(L[k].section) \subseteq L[k].fields)
      <=> (\A e \in Range(d) : Required(e.section) \subseteq e.fields)
  BY <1>1 DEF Range
<1>4. (\A k \in DOMAIN d : L[k].listen \notin Seen(d, k))
      <=> (\A j, k \in DOMAIN d : L[j].listen = L[k].listen => j = k)
  <2>1. ASSUME NEW k \in DOMAIN d
        PROVE  L[k].listen \notin Seen(d, k)
               <=> \A j \in 1..(k - 1) : L[j].listen # L[k].listen
    BY DEF Seen, L
  <2>2. ASSUME \A k \in DOMAIN d : \A j \in 1..(k - 1) : L[j].listen # L[k].listen,
               NEW j \in DOMAIN d, NEW k \in DOMAIN d, L[j].listen = L[k].listen
        PROVE  j = k
    BY <1>2, <2>2
  <2>3. ASSUME \A j, k \in DOMAIN d : L[j].listen = L[k].listen => j = k,
               NEW k \in DOMAIN d, NEW j \in 1..(k - 1)
        PROVE  L[j].listen # L[k].listen
    BY <1>2, <2>3
  <2>4. QED
    BY <2>1, <2>2, <2>3
<1>5. (\A j, k \in DOMAIN d : L[j].listen = L[k].listen => j = k) <=> Distinct(d)
  <2>1. ASSUME \A j, k \in DOMAIN d : L[j].listen = L[k].listen => j = k
        PROVE  Distinct(d)
    <3>1. SUFFICES ASSUME NEW i \in DOMAIN d, NEW j \in DOMAIN d, d[i].listen = d[j].listen
                   PROVE  i = j
      BY DEF Distinct
    <3>2. Turn(d, i) = Turn(d, j)
      BY <1>1, <2>1, <3>1
    <3>3. QED
      BY <1>1, <3>2
  <2>2. ASSUME Distinct(d), NEW j \in DOMAIN d, NEW k \in DOMAIN d,
               L[j].listen = L[k].listen
        PROVE  j = k
    <3>1. PICK m \in DOMAIN d, n \in DOMAIN d : Turn(d, m) = j /\ Turn(d, n) = k
      BY <1>1
    <3>2. m = n
      BY <1>1, <2>2, <3>1 DEF Distinct
    <3>3. QED
      BY <3>1, <3>2
  <2>3. QED
    BY <2>1, <2>2
<1>6. QED
  BY <1>3, <1>4, <1>5 DEF Validate, L
-----------------------------------------------------------------------------
(* The types, and the listeners that are bound *)

\* The states of main.
PCs == {"search", "stat", "aclSize", "aclData", "read", "parse", "failed"} \cup Loaded
FileDocs == {<<>>} \cup {f.doc : f \in Files}

\* What TypeOK says besides PathOK and FilesOK, ...
RestOK ==
    /\ pc \in PCs
    /\ mode \in [group : BOOLEAN, other : BOOLEAN] /\ size \in {0, 4, 5}
    /\ doc \in FileDocs
    /\ changes \in 0..MaxChanges

\* ... and the listeners: Start binds them in their order, each to a socket of
\* its own; where main is not starting or running, nothing is bound.
BoundOK ==
    /\ \E n \in 0..Len(doc) : bound = 1..n
    /\ pc \notin {"start", "running"} => bound = {}
    /\ pc = "running" => bound = 1..Len(doc)
    /\ bound # {} => everBound
    /\ \A k \in bound : SocketOf(k) \notin taken /\ ~Refuses(Listeners(doc)[k])
    /\ \A j, k \in bound : SocketOf(j) = SocketOf(k) => j = k

StartInv == RestOK /\ BoundOK

\* A document has a length.
LEMMA DocLength ==
    ASSUME NEW d \in FileDocs
    PROVE  d \in Seq(Range(d)) /\ Len(d) \in Nat
<1>1. CASE d = <<>>
  BY <1>1
<1>2. CASE d \in {f.doc : f \in Files}
  BY <1>2, FilesAssumption
<1>3. QED
  BY <1>1, <1>2 DEF FileDocs

LEMMA InitStartInv == Init => StartInv
<1> SUFFICES ASSUME Init PROVE StartInv
  OBVIOUS
<1>1. /\ pc = "search" /\ mode = NoMode /\ size = 0 /\ doc = <<>> /\ bound = {}
      /\ changes = 0
  BY Zenon DEF Init
<1>2. RestOK
  BY <1>1, ChangesAssumption DEF RestOK, NoMode, PCs, FileDocs
<1>3. Len(doc) = 0 /\ bound = 1..0
  BY <1>1
<1>4. BoundOK
  BY <1>1, <1>3 DEF BoundOK
<1>5. QED
  BY <1>2, <1>4 DEF StartInv

\* Steps that leave the listeners alone.
LEMMA BoundStays ==
    ASSUME BoundOK, UNCHANGED <<doc, bound, taken, everBound>>,
           pc' = pc \/ (bound = {} /\ pc' # "running")
    PROVE  BoundOK'
BY DEF BoundOK, SocketOf

\* The steps before Start.
LEMMA EarlyStartInv ==
    IInv /\ StartInv /\ (Change \/ Search \/ StatFile \/ AclSize \/ AclData \/ Parse)
        => StartInv'
<1> SUFFICES ASSUME IInv, StartInv,
                    Change \/ Search \/ StatFile \/ AclSize \/ AclData \/ Parse
             PROVE  StartInv'
  OBVIOUS
<1>1. /\ UNCHANGED <<doc, bound, taken, everBound>>
      /\ pc \in {"search", "stat", "aclSize", "aclData", "read", "parse"}
      /\ pc' \in PCs \ {"running"}
  <2>1. CASE Change
    BY <2>1 DEF Change, loadVars, envVars, StartInv, RestOK
  <2>2. CASE Search
    BY <2>2 DEF Search, NotFound, Fail, OthersUnchanged, envVars, histVars, PCs
  <2>3. CASE StatFile
    BY <2>3 DEF StatFile, Fail, OthersUnchanged, envVars, PCs
  <2>4. CASE AclSize
    BY <2>4 DEF AclSize, JudgeMode, Fail, OthersUnchanged, envVars, histVars, PCs
  <2>5. CASE AclData
    BY <2>5
    DEF AclData, JudgeMode, Fail, OthersUnchanged, loadVars, envVars, histVars, PCs
  <2>6. CASE Parse
    BY <2>6 DEF Parse, OthersUnchanged, loadVars, envVars, histVars, PCs, Loaded
  <2>7. QED
    BY <2>1, <2>2, <2>3, <2>4, <2>5, <2>6
<1>3. BoundOK'
  <2>1. bound = {}
    BY <1>1 DEF StartInv, BoundOK
  <2>2. QED
    BY <1>1, <2>1, BoundStays DEF StartInv
<1>4. changes' \in 0..MaxChanges
  <2>1. CASE Change
    BY <2>1, ChangesAssumption DEF Change, StartInv, RestOK
  <2>2. CASE Search \/ StatFile \/ AclSize \/ AclData \/ Parse
    <3>1. OthersUnchanged
      BY <2>2 DEF Search, StatFile, AclSize, AclData, Parse
    <3>2. QED
      BY <3>1 DEF OthersUnchanged, StartInv, RestOK
  <2>3. QED
    BY <2>1, <2>2
<1>5. mode' \in [group : BOOLEAN, other : BOOLEAN] /\ size' \in {0, 4, 5}
  <2>1. CASE StatFile
    <3>1. size' = size
      BY <2>1 DEF StatFile
    <3>2. CASE There
      <4>1. path \in Paths
        BY <2>1 DEF IInv, PathOK, StatFile
      <4>2. Perms \in Permissions
        BY <3>2, <4>1, ThereIsFile DEF IInv
      <4>3. mode' = ModeBits(Perms)
        BY <2>1, <3>2 DEF StatFile
      <4>4. QED
        BY <3>1, <4>2, <4>3 DEF ModeBits, Permissions, StartInv, RestOK
    <3>3. CASE ~There
      BY <2>1, <3>1, <3>3 DEF StatFile, StartInv, RestOK
    <3>4. QED
      BY <3>2, <3>3
  <2>2. CASE AclSize
    BY <2>2 DEF AclSize, Entries, StartInv, RestOK
  <2>3. CASE Change \/ Search \/ AclData \/ Parse
    <3>1. UNCHANGED <<mode, size>>
      BY <2>3 DEF Change, Search, AclData, Parse, loadVars
    <3>2. QED
      BY <3>1 DEF StartInv, RestOK
  <2>4. QED
    BY <2>1, <2>2, <2>3
<1>6. QED
  BY <1>1, <1>3, <1>4, <1>5 DEF StartInv, RestOK

LEMMA ReadStartInv == IInv /\ StartInv /\ ReadFile => StartInv'
<1> SUFFICES ASSUME IInv, StartInv, ReadFile PROVE StartInv'
  OBVIOUS
<1>1. /\ UNCHANGED <<mode, size, bound, changes>> /\ bound = {}
      /\ pc' \in {"parse", "failed"}
  BY DEF ReadFile, OthersUnchanged, Fail, StartInv, BoundOK
<1>2. doc' \in FileDocs
  <2>1. CASE There
    <3>1. path \in Paths
      BY DEF ReadFile, IInv, PathOK
    <3>2. file[path] \in Files
      BY <2>1, <3>1, ThereIsFile DEF IInv
    <3>3. doc' = file[path].doc
      BY <2>1 DEF ReadFile
    <3>4. QED
      BY <3>2, <3>3 DEF FileDocs
  <2>2. CASE ~There
    BY <2>2 DEF ReadFile, StartInv, RestOK
  <2>3. QED
    BY <2>1, <2>2
<1>3. RestOK'
  BY <1>1, <1>2 DEF RestOK, StartInv, PCs
<1>4. BoundOK'
  <2>1. Len(doc') \in Nat
    BY <1>2, DocLength
  <2>2. bound' = 1..0 /\ 0 \in 0..Len(doc')
    BY <1>1, <2>1
  <2>3. QED
    BY <1>1, <2>2 DEF BoundOK
<1>5. QED
  BY <1>3, <1>4 DEF StartInv

\* Start, one listener after the other.
LEMMA BindStartInv == StartInv /\ StartNext => StartInv'
<1> SUFFICES ASSUME StartInv, StartNext PROVE StartInv'
  OBVIOUS
<1>1. UNCHANGED <<doc, mode, size, taken, changes>> /\ pc = "start"
  BY DEF StartNext, OthersUnchanged, loadVars, envVars
<1>2. Len(doc) \in Nat
  BY DocLength DEF StartInv, RestOK
<1>3. PICK n \in 0..Len(doc) : bound = 1..n
  BY DEF StartInv, BoundOK
<1>4. Cardinality(bound) = n
  BY <1>3, CountUpTo
<1> DEFINE k == Cardinality(bound) + 1
           busy == SocketOf(k) \in taken \cup {SocketOf(j) : j \in bound}
<1>5. CASE Refuses(Listeners(doc)[k]) \/ busy
  <2>1. pc' = "failed" /\ bound' = {} /\ bound' = 1..0
    BY <1>5 DEF StartNext, OnStartError, Fail
  <2>2. BoundOK'
    BY <1>1, <1>2, <2>1 DEF BoundOK
  <2>3. QED
    BY <1>1, <2>1, <2>2 DEF StartInv, RestOK, PCs
<1>6. CASE ~(Refuses(Listeners(doc)[k]) \/ busy)
  <2>1. bound' = bound \cup {k} /\ everBound' /\ pc' = pc
    BY <1>6 DEF StartNext
  <2>2. k = n + 1 /\ n + 1 \in 0..Len(doc)
    <3>1. n < Len(doc)
      BY <1>4 DEF StartNext
    <3>2. QED
      BY <1>2, <1>4, <3>1
  <2>3. bound' = 1..(n + 1)
    BY <1>3, <2>1, <2>2
  <2>4. SocketOf(k) \notin taken /\ ~Refuses(Listeners(doc)[k])
        /\ \A j \in bound : SocketOf(j) # SocketOf(k)
    BY <1>6
  <2> HIDE DEF k, busy
  <2>5. \A j \in bound' : SocketOf(j)' = SocketOf(j)
    BY <1>1 DEF SocketOf
  <2>6. \A j \in bound' : SocketOf(j)' \notin taken' /\ ~Refuses(Listeners(doc')[j])
    BY <1>1, <2>1, <2>4, <2>5 DEF StartInv, BoundOK
  <2>7. \A i, j \in bound' : SocketOf(i)' = SocketOf(j)' => i = j
    BY <2>1, <2>4, <2>5 DEF StartInv, BoundOK
  <2>8. BoundOK'
    BY <1>1, <2>1, <2>2, <2>3, <2>6, <2>7 DEF BoundOK
  <2>9. QED
    BY <1>1, <2>1, <2>8 DEF StartInv, RestOK
<1>7. QED
  BY <1>5, <1>6

LEMMA DoneStartInv == StartInv /\ StartDone => StartInv'
<1> SUFFICES ASSUME StartInv, StartDone PROVE StartInv'
  OBVIOUS
<1>1. /\ UNCHANGED <<doc, mode, size, taken, changes, bound, everBound>>
      /\ pc = "start" /\ pc' = "running" /\ Cardinality(bound) = Len(doc)
  BY DEF StartDone, OthersUnchanged, loadVars, envVars, histVars
<1>2. PICK n \in 0..Len(doc) : bound = 1..n
  BY DEF StartInv, BoundOK
<1>3. n = Len(doc)
  BY <1>1, <1>2, CountUpTo
<1>4. BoundOK'
  BY <1>1, <1>2, <1>3 DEF StartInv, BoundOK, SocketOf
<1>5. QED
  BY <1>1, <1>4 DEF StartInv, RestOK, PCs, Loaded

LEMMA NextStartInv == IInv /\ StartInv /\ [Next]_vars => StartInv'
<1>1. ASSUME StartInv, UNCHANGED vars PROVE StartInv'
  <2>1. UNCHANGED <<pc, mode, size, doc, bound, changes, taken, everBound>>
    BY <1>1 DEF vars, loadVars, envVars, histVars
  <2>2. QED
    BY <1>1, <2>1, BoundStays DEF StartInv, RestOK
<1>2. QED
  BY <1>1, EarlyStartInv, ReadStartInv, BindStartInv, DoneStartInv DEF Next

\* Every variable keeps to its values: an empty path is never loaded, and the
\* listeners bound are listeners of the document (config.go:61-79).
THEOREM AlwaysTypeOK == Spec => []TypeOK
<1>1. IInv /\ StartInv => TypeOK
  <2> SUFFICES ASSUME IInv, StartInv PROVE TypeOK
    OBVIOUS
  <2>1. Len(doc) \in Nat
    BY DocLength DEF StartInv, RestOK
  <2>2. bound \subseteq 1..Len(doc)
    BY <2>1 DEF StartInv, BoundOK
  <2>3. looked \in 0..Len(SearchPaths)
    <3>1. looked \in 0..2
      BY DEF IInv, PathOK
    <3>2. QED
      BY <3>1, TwoPaths, Zenon
  <2>4. RestOK /\ PathOK /\ FilesOK
    BY DEF IInv, StartInv
  <2>5. QED
    BY <2>2, <2>3, <2>4, Zenon DEF PathOK, FilesOK, Paths, RestOK, PCs, FileDocs, TypeOK
<1>2. QED
  BY InitIInv, NextIInv, InitStartInv, NextStartInv, <1>1, PTL DEF Spec

\* A gateway that runs has bound every listener of its document, each on a socket
\* of its own that nobody else had (gateway.go:63-71, main.go:79-82).
THEOREM AlwaysRunsComplete == Spec => []RunsComplete
<1>1. StartInv => RunsComplete
  BY DEF StartInv, BoundOK, RunsComplete
<1>2. QED
  BY InitIInv, NextIInv, InitStartInv, NextStartInv, <1>1, PTL DEF Spec
-----------------------------------------------------------------------------
(* Load and its reference *)

\* Nobody but the owner and named users has access, as Acceptable says it.
Unshared(p) == ~p.group /\ ~p.other /\ ~(p.ext /\ p.named)

\* Undisturbed, the path found is the one chosen, the system calls of the check
\* tell of one and the same file, and what is read is that file.
FoundOK ==
    /\ pc \notin {"search", "failed"} => path = Chosen
    /\ pc = "search" =>
           /\ path # "" => path = Chosen
           /\ path = "" => asked = "" /\ \A i \in 1..looked : file[SearchPaths[i]] = Nothing
JudgedOK ==
    /\ Checking => There /\ mode = ModeBits(Perms)
    /\ pc = "aclData" => Perms.ext /\ size = Entries(Perms)
    /\ pc \in {"read", "parse"} \cup Loaded => There /\ Unshared(Perms)
ReadOK ==
    /\ pc \in {"parse"} \cup Loaded => doc = file[path].doc
    /\ pc \in Loaded => Decodes(doc) /\ Validate(doc)

\* Why an undisturbed Load, or the start of the first listener, has failed.
Justified ==
    \/ ~Acceptable(file[Chosen])
    \/ taken # {}
    \/ Refuses(Listeners(file[Chosen].doc)[1])
FailedOK == pc = "failed" /\ ~everBound => Justified

LoadInv == changes = 0 => FoundOK /\ JudgedOK /\ ReadOK /\ FailedOK

\* The mode bits of a file without an extended ACL, or the entries of the ACL,
\* tell whether it is shared.
LEMMA JudgesUnshared ==
    ASSUME NEW p \in Permissions
    PROVE  /\ ~p.ext => (ModeBits(p).group \/ ModeBits(p).other <=> ~Unshared(p))
           /\ p.ext => (Grants(p) <=> ~Unshared(p))
BY DEF Permissions, ModeBits, Grants, Unshared

\* What is accepted is what decodes and passes Validate.
LEMMA AcceptableIs ==
    ASSUME NEW f \in Files
    PROVE  Acceptable(f)
               <=> f # Nothing /\ Unshared(f.perms) /\ Decodes(f.doc) /\ Validate(f.doc)
<1>1. f.doc \in Seq(Range(f.doc))
  BY FilesAssumption
<1>2. (\A e \in Range(f.doc) :
          e.section \in Range(Sections) /\ Required(e.section) \subseteq e.fields)
      <=> /\ Decodes(f.doc)
          /\ \A e \in Range(f.doc) : Required(e.section) \subseteq e.fields
  BY DEF Decodes
<1>3. Decodes(f.doc) =>
        (Validate(f.doc) <=>
            /\ f.doc # <<>> /\ Distinct(f.doc)
            /\ \A e \in Range(f.doc) : Required(e.section) \subseteq e.fields)
  BY <1>1, ValidateTells DEF Document
<1>4. QED
  BY <1>2, <1>3, Zenon DEF Acceptable, Unshared

LEMMA NothingUnacceptable == ~Acceptable(Nothing)
BY DEF Acceptable

LEMMA InitLoadInv == Init => LoadInv
<1> SUFFICES ASSUME Init PROVE LoadInv
  OBVIOUS
<1>1. pc = "search" /\ path = asked /\ looked = 0
  BY Zenon DEF Init
<1>2. FoundOK
  <2>1. path # "" => path = Chosen
    BY <1>1, Zenon DEF Chosen
  <2>2. \A i \in 1..looked : file[SearchPaths[i]] = Nothing
    <3>1. 1..looked = {}
      BY <1>1
    <3>2. QED
      BY <3>1
  <2>3. path = "" => asked = ""
    BY <1>1
  <2>4. QED
    BY <1>1, <2>1, <2>2, <2>3 DEF FoundOK
<1>3. JudgedOK /\ ReadOK /\ FailedOK
  BY <1>1 DEF JudgedOK, Checking, ReadOK, FailedOK, Loaded
<1>4. QED
  BY <1>2, <1>3 DEF LoadInv

\* After a change there is nothing to show.
LEMMA ChangeLoadInv == StartInv /\ Change => LoadInv'
BY ChangesAssumption DEF StartInv, RestOK, Change, LoadInv

\* The search, in the order of its paths.
LEMMA SearchLoadInv == IInv /\ LoadInv /\ Search => LoadInv'
<1> SUFFICES ASSUME IInv, LoadInv, Search, changes = 0 PROVE LoadInv'
  BY DEF LoadInv, Search, OthersUnchanged
<1>1. /\ UNCHANGED <<file, asked, taken, everBound>> /\ pc = "search" /\ FoundOK
  BY DEF Search, OthersUnchanged, envVars, histVars, LoadInv
<1>2. SearchPaths[1] = "home" /\ SearchPaths[2] = "etc" /\ Len(SearchPaths) = 2
  BY DEF SearchPaths
<1>3. looked \in 0..2
  BY DEF IInv, PathOK
<1>4. Chosen' = Chosen
  BY <1>1 DEF Chosen
<1>5. CASE path # ""
  <2>1. pc' = "stat" /\ path' = path
    BY <1>5 DEF Search
  <2>2. FoundOK'
    BY <1>1, <1>4, <1>5, <2>1 DEF FoundOK
  <2>3. JudgedOK' /\ ReadOK' /\ FailedOK'
    BY <2>1 DEF JudgedOK, Checking, ReadOK, FailedOK, Loaded
  <2>4. QED
    BY <2>2, <2>3 DEF LoadInv
<1>6. CASE path = "" /\ looked = 2
  <2>1. pc' = "failed"
    BY <1>2, <1>6 DEF Search, NotFound, Fail
  <2>2. asked = "" /\ file["home"] = Nothing /\ file["etc"] = Nothing
    <3>1. asked = "" /\ \A i \in 1..2 : file[SearchPaths[i]] = Nothing
      BY <1>1, <1>6, Zenon DEF FoundOK
    <3>2. 1 \in 1..2 /\ 2 \in 1..2
      OBVIOUS
    <3>3. QED
      BY <1>2, <3>1, <3>2, Zenon
  <2>3. file'[Chosen'] = Nothing
    BY <1>1, <1>4, <2>2 DEF Chosen
  <2>4. FailedOK'
    BY <2>3, NothingUnacceptable DEF FailedOK, Justified
  <2>5. FoundOK' /\ JudgedOK' /\ ReadOK'
    BY <2>1 DEF FoundOK, JudgedOK, Checking, ReadOK, Loaded
  <2>6. QED
    BY <2>4, <2>5 DEF LoadInv
<1>7. CASE path = "" /\ looked # 2
  <2> DEFINE p == SearchPaths[looked + 1]
  <2>1. /\ looked' = looked + 1 /\ pc' = "search"
        /\ path' = IF file[p] = Nothing THEN "" ELSE p
    BY <1>1, <1>2, <1>7 DEF Search
  <2>2. asked = "" /\ \A i \in 1..looked : file[SearchPaths[i]] = Nothing
    BY <1>1, <1>7, Zenon DEF FoundOK
  <2>3. (looked = 0 /\ p = "home") \/ (looked = 1 /\ p = "etc" /\ file["home"] = Nothing)
    <3>1. CASE looked = 0
      BY <1>2, <3>1
    <3>2. CASE looked = 1
      <4>1. 1 \in 1..looked /\ p = SearchPaths[2]
        BY <3>2
      <4>2. file[SearchPaths[1]] = Nothing
        BY <2>2, <4>1, Zenon
      <4>3. QED
        BY <1>2, <3>2, <4>1, <4>2, Zenon
    <3>3. looked = 0 \/ looked = 1
      <4>1. looked # 2
        BY <1>7, Zenon
      <4>2. QED
        BY <1>3, <4>1
    <3>4. QED
      BY <3>1, <3>2, <3>3, Zenon
  <2>4. CASE file[p] = Nothing
    <3>1. \A i \in 1..(looked + 1) : file[SearchPaths[i]] = Nothing
      <4>1. \A i \in 1..(looked + 1) : i \in 1..looked \/ i = looked + 1
        BY <1>3
      <4>2. QED
        BY <2>2, <2>4, <4>1, Zenon
    <3>2. path' = "" /\ asked' = ""
      BY <1>1, <2>1, <2>2, <2>4
    <3>3. QED
      BY <1>1, <2>1, <3>1, <3>2 DEF FoundOK, LoadInv, JudgedOK, Checking, ReadOK,
         FailedOK, Loaded
  <2>5. CASE file[p] # Nothing
    <3>1. path' = Chosen
      <4>1. path' = p
        BY <2>1, <2>5
      <4>2. Chosen = p
        <5>1. Chosen = IF file["home"] # Nothing THEN "home" ELSE "etc"
          BY <2>2, Zenon DEF Chosen
        <5>2. QED
          BY <2>3, <2>5, <5>1
      <4>3. QED
        BY <4>1, <4>2, Zenon
    <3>2. path' # ""
      BY <2>1, <2>3, <2>5
    <3>3. QED
      BY <1>4, <2>1, <3>1, <3>2 DEF FoundOK, LoadInv, JudgedOK, Checking, ReadOK,
         FailedOK, Loaded
  <2>6. QED
    BY <2>4, <2>5
<1>8. QED
  BY <1>5, <1>6, <1>7

\* Steps that fail because the file chosen is not acceptable.
LEMMA FailsJustly ==
    ASSUME UNCHANGED <<file, asked, taken>>, pc' = "failed", Justified
    PROVE  LoadInv'
<1>1. Justified'
  BY DEF Justified, Chosen
<1>2. QED
  BY <1>1 DEF LoadInv, FoundOK, JudgedOK, Checking, ReadOK, FailedOK, Loaded

\* The check of the permissions.
LEMMA CheckLoadInv ==
    IInv /\ LoadInv /\ (StatFile \/ AclSize \/ AclData) => LoadInv'
<1> SUFFICES ASSUME IInv, LoadInv, StatFile \/ AclSize \/ AclData, changes = 0
             PROVE  LoadInv'
  BY DEF LoadInv, StatFile, AclSize, AclData, OthersUnchanged
<1>1. /\ UNCHANGED <<file, asked, taken, path>>
      /\ pc \in {"stat", "aclSize", "aclData"}
  BY DEF StatFile, AclSize, AclData, OthersUnchanged, envVars, loadVars
<1>2. FoundOK /\ JudgedOK
  BY DEF LoadInv
<1>3. path = Chosen /\ path \in Paths /\ Chosen' = Chosen
  BY <1>1, <1>2 DEF FoundOK, IInv, PathOK, Chosen
<1>4. CASE ~There
  <2>1. Justified
    BY <1>3, <1>4, NothingUnacceptable DEF There, Justified
  <2>2. pc' = "failed"
    BY <1>4 DEF StatFile, AclSize, AclData, Fail
  <2>3. QED
    BY <1>1, <2>1, <2>2, FailsJustly
<1>5. CASE There
  <2>1. file[path] \in Files /\ Perms \in Permissions
    BY <1>3, <1>5, ThereIsFile DEF IInv
  <2>2. There' /\ Perms' = Perms
    BY <1>1, <1>5 DEF There, Perms
  <2>3. ~Unshared(Perms) => Justified
    BY <1>3, <2>1, AcceptableIs DEF Justified, Perms
  <2>4. FoundOK' \/ pc' = "failed"
    BY <1>1, <1>3 DEF FoundOK, StatFile, AclSize, AclData, JudgeMode, Fail
  <2>5. CASE StatFile
    <3>1. mode' = ModeBits(Perms) /\ pc' = "aclSize"
      BY <1>5, <2>5 DEF StatFile
    <3>2. QED
      BY <2>2, <2>4, <3>1 DEF LoadInv, JudgedOK, Checking, ReadOK, FailedOK, Loaded
  <2>6. CASE AclSize /\ Perms.ext
    <3>1. size' = Entries(Perms) /\ pc' = "aclData" /\ mode' = mode /\ pc = "aclSize"
      BY <1>5, <2>6 DEF AclSize
    <3>2. mode' = ModeBits(Perms)
      BY <1>2, <3>1 DEF JudgedOK, Checking
    <3>3. QED
      BY <2>2, <2>4, <2>6, <3>1, <3>2
      DEF LoadInv, JudgedOK, Checking, ReadOK, FailedOK, Loaded
  <2>7. CASE AclSize /\ ~Perms.ext
    <3>1. JudgeMode /\ mode = ModeBits(Perms)
      BY <1>2, <1>5, <2>7 DEF AclSize, JudgedOK, Checking
    <3>2. CASE Unshared(Perms)
      <4>1. pc' = "read"
        BY <2>1, <2>7, <3>1, <3>2, JudgesUnshared DEF JudgeMode
      <4>2. QED
        BY <2>2, <2>4, <3>2, <4>1
        DEF LoadInv, JudgedOK, Checking, ReadOK, FailedOK, Loaded
    <3>3. CASE ~Unshared(Perms)
      <4>1. pc' = "failed"
        BY <2>1, <2>7, <3>1, <3>3, JudgesUnshared DEF JudgeMode, Fail
      <4>2. QED
        BY <1>1, <2>3, <3>3, <4>1, FailsJustly
    <3>4. QED
      BY <3>2, <3>3
  <2>8. CASE AclData
    <3>1. Perms.ext /\ size = Entries(Perms)
      BY <1>2, <2>8 DEF AclData, JudgedOK
    <3>2. IF Grants(Perms) THEN Fail ELSE pc' = "read"
      <4>1. ~(Entries(Perms) > size)
        BY <3>1 DEF Entries
      <4>2. QED
        BY <1>5, <2>8, <3>1, <4>1, Zenon DEF AclData
    <3>3. CASE Unshared(Perms)
      <4>1. pc' = "read"
        BY <2>1, <3>1, <3>2, <3>3, JudgesUnshared
      <4>2. QED
        BY <2>2, <2>4, <3>3, <4>1
        DEF LoadInv, JudgedOK, Checking, ReadOK, FailedOK, Loaded
    <3>4. CASE ~Unshared(Perms)
      <4>1. pc' = "failed"
        BY <2>1, <3>1, <3>2, <3>4, JudgesUnshared DEF Fail
      <4>2. QED
        BY <1>1, <2>3, <3>4, <4>1, FailsJustly
    <3>5. QED
      BY <3>3, <3>4
  <2>9. QED
    BY <2>5, <2>6, <2>7, <2>8
<1>6. QED
  BY <1>4, <1>5

\* Reading, decoding and validating.
LEMMA ParseLoadInv == IInv /\ LoadInv /\ (ReadFile \/ Parse) => LoadInv'
<1> SUFFICES ASSUME IInv, LoadInv, ReadFile \/ Parse, changes = 0 PROVE LoadInv'
  BY DEF LoadInv, ReadFile, Parse, OthersUnchanged
<1>1. UNCHANGED <<file, asked, taken, path>> /\ pc \in {"read", "parse"}
  BY DEF ReadFile, Parse, OthersUnchanged, envVars, loadVars
<1>2. FoundOK /\ JudgedOK /\ ReadOK
  BY DEF LoadInv
<1>3. path = Chosen /\ path \in Paths /\ Chosen' = Chosen
  BY <1>1, <1>2 DEF FoundOK, IInv, PathOK, Chosen
<1>4. There /\ Unshared(Perms) /\ file[path] \in Files
  BY <1>1, <1>2, <1>3, ThereIsFile DEF JudgedOK, IInv
<1>5. There' /\ Unshared(Perms)'
  BY <1>1, <1>4 DEF There, Perms, Unshared
<1>6. CASE ReadFile
  <2>1. pc' = "parse" /\ doc' = file[path].doc
    BY <1>4, <1>6 DEF ReadFile
  <2>2. QED
    BY <1>1, <1>3, <1>5, <2>1
    DEF LoadInv, FoundOK, JudgedOK, Checking, ReadOK, FailedOK, Loaded
<1>7. CASE Parse
  <2>1. doc = file[path].doc /\ doc' = doc
    BY <1>2, <1>7 DEF ReadOK, Parse, loadVars
  <2>2. CASE Decodes(doc) /\ Validate(doc)
    <3>1. pc' \in {"valid", "start"}
      BY <1>7, <2>2 DEF Parse
    <3>2. QED
      BY <1>1, <1>3, <1>5, <2>1, <2>2, <3>1
      DEF LoadInv, FoundOK, JudgedOK, Checking, ReadOK, FailedOK, Loaded
  <2>3. CASE ~(Decodes(doc) /\ Validate(doc))
    <3>1. pc' = "failed"
      BY <1>7, <2>3 DEF Parse
    <3>2. Justified
      BY <1>3, <1>4, <2>1, <2>3, AcceptableIs DEF Justified
    <3>3. QED
      BY <1>1, <3>1, <3>2, FailsJustly
  <2>4. QED
    BY <2>2, <2>3
<1>8. QED
  BY <1>6, <1>7

\* Start: where nothing has been bound, the first listener has failed.
LEMMA StartLoadInv ==
    StartInv /\ LoadInv /\ (StartNext \/ StartDone) => LoadInv'
<1> SUFFICES ASSUME StartInv, LoadInv, StartNext \/ StartDone, changes = 0
             PROVE  LoadInv'
  BY DEF LoadInv, StartNext, StartDone, OthersUnchanged
<1>1. UNCHANGED <<file, asked, taken, path, doc>> /\ pc = "start"
  BY DEF StartNext, StartDone, OthersUnchanged, envVars, loadVars
<1>2. FoundOK /\ JudgedOK /\ ReadOK
  BY DEF LoadInv
<1>3. Chosen' = Chosen /\ There' = There /\ Unshared(Perms)' = Unshared(Perms)
  BY <1>1 DEF Chosen, There, Perms, Unshared
<1>4. CASE pc' \in {"start", "running"}
  BY <1>1, <1>2, <1>3, <1>4
  DEF LoadInv, FoundOK, JudgedOK, Checking, ReadOK, FailedOK, Loaded
<1>5. CASE pc' = "failed"
  <2>1. StartNext
    BY <1>5 DEF StartDone
  <2>2. CASE everBound
    <3>1. everBound'
      BY <2>1, <2>2 DEF StartNext
    <3>2. QED
      BY <1>5, <3>1 DEF LoadInv, FoundOK, JudgedOK, Checking, ReadOK, FailedOK, Loaded
  <2>3. CASE ~everBound
    <3>1. bound = {}
      BY <2>3 DEF StartInv, BoundOK
    <3>2. Cardinality(bound) = 0
      BY <3>1, FS_EmptySet
    <3>3. Refuses(Listeners(doc)[1]) \/ SocketOf(1) \in taken
      BY <1>1, <1>5, <2>1, <3>1, <3>2 DEF StartNext
    <3>4. doc = file[Chosen].doc
      BY <1>1, <1>2 DEF FoundOK, ReadOK, Loaded
    <3>5. Justified
      BY <3>3, <3>4 DEF Justified
    <3>6. QED
      BY <1>1, <1>5, <3>5, FailsJustly
  <2>4. QED
    BY <2>2, <2>3
<1>6. QED
  BY <1>1, <1>4, <1>5 DEF StartNext, StartDone, OnStartError, Fail

LEMMA NextLoadInv == IInv /\ StartInv /\ LoadInv /\ [Next]_vars => LoadInv'
<1>1. ASSUME LoadInv, UNCHANGED vars PROVE LoadInv'
  <2>1. UNCHANGED <<pc, file, asked, taken, path, looked, mode, size, doc, changes, everBound>>
    BY <1>1 DEF vars, loadVars, envVars, histVars
  <2>2. /\ Chosen' = Chosen /\ There' = There /\ Perms' = Perms
        /\ Checking' = Checking /\ Justified' = Justified
    BY <2>1 DEF Chosen, There, Perms, Checking, Justified
  <2>3. FoundOK' = FoundOK
    BY <2>1, <2>2 DEF FoundOK
  <2>4. JudgedOK' = JudgedOK
    BY <2>1, <2>2 DEF JudgedOK
  <2>5. ReadOK' = ReadOK /\ FailedOK' = FailedOK
    BY <2>1, <2>2 DEF ReadOK, FailedOK
  <2>6. QED
    BY <1>1, <2>1, <2>3, <2>4, <2>5 DEF LoadInv
<1>2. QED
  BY <1>1, ChangeLoadInv, SearchLoadInv, CheckLoadInv, ParseLoadInv, StartLoadInv DEF Next

\* Undisturbed, the system calls of Load come to what one look at the first file
\* of the search path would: it is taken just if it is private to its owner and
\* named users, names every required field and no address twice, in whatever
\* order Validate goes through it (config.go:61-101, main.go:67-76).
THEOREM AlwaysLoadMatchesReference == Spec => []LoadMatchesReference
<1>1. IInv /\ LoadInv => LoadMatchesReference
  <2> SUFFICES ASSUME IInv, LoadInv, changes = 0 PROVE LoadMatchesReference
    BY DEF LoadMatchesReference
  <2>1. FoundOK /\ JudgedOK /\ ReadOK /\ FailedOK
    BY DEF LoadInv
  <2>2. ASSUME pc \in Loaded
        PROVE  Acceptable(file[Chosen]) /\ doc = file[Chosen].doc
    <3>1. path = Chosen /\ path \in Paths
      BY <2>1, <2>2 DEF FoundOK, Loaded, IInv, PathOK
    <3>2. There /\ Unshared(Perms) /\ doc = file[path].doc /\ Decodes(doc) /\ Validate(doc)
      BY <2>1, <2>2 DEF JudgedOK, ReadOK
    <3>3. file[path] \in Files
      BY <3>1, <3>2, ThereIsFile DEF IInv
    <3>4. QED
      BY <3>1, <3>2, <3>3, AcceptableIs DEF There, Perms
  <2>3. pc = "failed" /\ ~everBound /\ taken = {} =>
           \/ ~Acceptable(file[Chosen])
           \/ Refuses(Listeners(file[Chosen].doc)[1])
    BY <2>1 DEF FailedOK, Justified
  <2>4. QED
    BY <2>2, <2>3 DEF LoadMatchesReference
<1>2. QED
  BY InitIInv, NextIInv, InitStartInv, NextStartInv, InitLoadInv, NextLoadInv, <1>1, PTL
  DEF Spec
=============================================================================
