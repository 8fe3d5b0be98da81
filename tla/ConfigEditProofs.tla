--------------------------- MODULE ConfigEditProofs ---------------------------
(***************************************************************************)
(* Proofs about ConfigEdit: for any documents, any number of requests under *)
(* way at the same time and any number of saves.                            *)
(***************************************************************************)
EXTENDS ConfigEdit, TLAPS, SequenceTheorems

-----------------------------------------------------------------------------
(* The file as a sequence of characters *)

\* Documents are contents.
LEMMA DocsAreContents ==
    /\ Docs \subseteq Contents /\ Seeds \subseteq Contents /\ <<>> \in Contents
    /\ \A d \in Docs \cup {<<>>} : d \in Seq(Characters)
<1>1. Seq(Characters) \subseteq Contents
  BY SeqMonotonic DEF Contents
<1>2. QED
  BY <1>1, DocsAssumption, EmptySeq

\* What a write leaves: its character behind the offset, a hole up to it if need be,
\* and otherwise the file as it was.
LEMMA WrittenIs ==
    ASSUME NEW f \in Contents, NEW n \in Nat, NEW char \in Characters
    PROVE  LET m == IF Len(f) > n THEN Len(f) ELSE n + 1 IN
           /\ Written(f, n, char) \in Contents
           /\ Len(Written(f, n, char)) = m
           /\ \A i \in 1..m : Written(f, n, char)[i] =
                  IF i = n + 1 THEN char ELSE IF i <= Len(f) THEN f[i] ELSE Hole
<1> DEFINE m == IF Len(f) > n THEN Len(f) ELSE n + 1
           at(i) == IF i = n + 1 THEN char ELSE IF i <= Len(f) THEN f[i] ELSE Hole
           w == [i \in 1..m |-> at(i)]
<1>1. m \in Nat /\ Len(f) \in Nat
  BY LenProperties DEF Contents
<1>2. \A i \in 1..m : at(i) \in Characters \cup {Hole}
  BY <1>1, ElementOfSeq DEF Contents
<1>3. w \in [1..m -> Characters \cup {Hole}]
  BY <1>2
<1>4. w \in Contents /\ Len(w) = m
  BY <1>1, <1>3 DEF Contents
<1>5. Written(f, n, char) = w
  BY DEF Written
<1>6. QED
  BY <1>4, <1>5

-----------------------------------------------------------------------------
(* The inductive invariant *)

\* Behind the validation a request has a document that passed it, and its offset
\* says how much of it is written.
Pending ==
    \A s \in Savers :
        /\ pc[s] \in {"open"} \cup Writing => Valid(doc[s]) /\ doc[s] \in accepted
        /\ pc[s] \in {"validate", "open"} => off[s] = 0
        /\ pc[s] = "write" => off[s] < Len(doc[s])
        /\ pc[s] \in {"sync", "close"} => off[s] = Len(doc[s])

\* A save that no other has interfered with: nobody else has the file open, and
\* the file is as far as the save is.
Prefix(s) ==
    /\ Len(file) = off[s]
    /\ \A i \in 1..off[s] : file[i] = doc[s][i]
Lone ==
    \A s \in Savers : alone[s] =>
        /\ \A u \in Savers \ {s} : pc[u] \notin Writing
        /\ pc[s] = "write" => Prefix(s)
        /\ pc[s] \in {"sync", "close"} => file = doc[s]
        /\ pc[s] = "close" => maybe = {doc[s]}

\* A request that was answered is over.
Over == \A s \in Savers : answer[s] = "saved" => pc[s] = "idle"

\* Unless a save was torn, whoever writes is alone, and when nobody does the disk
\* holds documents that passed validation.
Quiet ==
    ~torn =>
        /\ \A s \in Savers : pc[s] \in Writing => alone[s]
        /\ (\A s \in Savers : pc[s] \notin Writing) => maybe \subseteq accepted

IInv == TypeOK /\ Pending /\ BytesFromAccepted /\ Lone /\ Over /\ SavedIsDurable /\ Quiet

\* What the documents of the requests are.
LEMMA DocFacts ==
    ASSUME TypeOK, NEW s \in Savers
    PROVE  doc[s] \in Contents /\ doc[s] \in Seq(Characters) /\ Len(doc[s]) \in Nat
<1>1. doc[s] \in Docs \cup {<<>>}
  BY DEF TypeOK
<1>2. doc[s] \in Seq(Characters)
  BY <1>1, DocsAreContents
<1>3. doc[s] \in Contents
  BY <1>1, DocsAreContents
<1>4. QED
  BY <1>2, <1>3, LenProperties

LEMMA InitIInv == Init => IInv
<1> SUFFICES ASSUME Init PROVE IInv
  OBVIOUS
<1>1. TypeOK
  <2>1. file \in Contents /\ maybe \subseteq Contents /\ file \in maybe
    BY DocsAreContents DEF Init
  <2>2. conf \in Contents
    BY DocsAreContents DEF Init
  <2>3. pc \in [Savers -> {"idle", "validate", "open"} \cup Writing]
    BY DEF Init
  <2>4. doc \in [Savers -> Docs \cup {<<>>}]
    BY DEF Init
  <2>5. off \in [Savers -> Nat] /\ \A s \in Savers : off[s] <= Len(doc[s])
    <3>1. Len(<<>>) = 0
      OBVIOUS
    <3>2. \A s \in Savers : doc[s] = <<>> /\ off[s] = 0
      BY DEF Init
    <3>3. \A s \in Savers : off[s] <= Len(doc[s])
      BY <3>1, <3>2
    <3>4. QED
      BY <3>3 DEF Init
  <2>6. answer \in [Savers -> {"none", "saved", "error"}]
    BY DEF Init
  <2>7. saves \in 0..MaxSaves
    BY DocsAssumption DEF Init
  <2>8. opened \in [Savers -> BOOLEAN] /\ alone \in [Savers -> BOOLEAN] /\ torn \in BOOLEAN
    BY DEF Init
  <2>9. accepted \subseteq Docs \cup Seeds /\ gw \in {"down", "checked", "running"}
        /\ admin \in {"up", "draining", "down"}
    BY DEF Init
  <2>10. QED
    BY <2>1, <2>2, <2>3, <2>4, <2>5, <2>6, <2>7, <2>8, <2>9 DEF TypeOK
<1>2. BytesFromAccepted
  <2>1. Len(<<>>) = 0 /\ Len(file) \in Nat
    BY DocsAssumption, LenProperties DEF Init
  <2>2. QED
    BY <2>1 DEF Init, BytesFromAccepted
<1>3. Pending /\ Lone /\ Over /\ SavedIsDurable /\ Quiet
  BY DEF Init, Pending, Lone, Over, SavedIsDurable, Quiet, Writing
<1>4. QED
  BY <1>1, <1>2, <1>3 DEF IInv

-----------------------------------------------------------------------------
(* Every step preserves it: handleSave *)

LEMMA SubmitKeeps ==
    ASSUME IInv, NEW s \in Savers, NEW d \in Docs, Submit(s, d) PROVE IInv'
<1> USE DEF IInv, Submit, fileVars, gwVars, Idle
<1>1. TypeOK'
  <2>1. Len(d) \in Nat
    BY DocsAreContents, LenProperties DEF Contents
  <2>2. (\A u \in Savers : off[u] <= Len(doc[u]))'
    BY <2>1 DEF TypeOK
  <2>3. saves' \in 0..MaxSaves
    BY DocsAssumption DEF TypeOK
  <2>4. QED
    BY <2>2, <2>3 DEF TypeOK
<1>2. Pending'
  BY DEF Pending, TypeOK, Writing
<1>3. BytesFromAccepted'
  BY DEF BytesFromAccepted
<1>4. Lone'
  BY DEF Lone, Prefix, TypeOK, Writing
<1>5. Over' /\ SavedIsDurable'
  BY DEF Over, SavedIsDurable, TypeOK
<1>6. Quiet'
  BY DEF Quiet, TypeOK, Writing
<1>7. QED
  BY <1>1, <1>2, <1>3, <1>4, <1>5, <1>6

LEMMA ValidateKeeps ==
    ASSUME IInv, NEW s \in Savers, Validate(s) PROVE IInv'
<1> USE DEF IInv, Validate, fileVars, gwVars, Passes
<1>0. accepted \subseteq accepted' /\ accepted' \subseteq accepted \cup {doc[s]}
      /\ (accepted' # accepted => Valid(doc[s]))
  OBVIOUS
<1>1. TypeOK'
  <2>1. accepted' \subseteq Docs \cup Seeds
    <3>1. CASE Valid(doc[s])
      <4>1. doc[s] # <<>>
        <5>1. Len(<<>>) = 0
          OBVIOUS
        <5>2. QED
          BY <3>1, <5>1 DEF Valid
      <4>2. QED
        BY <4>1, <1>0 DEF TypeOK
    <3>2. QED
      BY <3>1, <1>0 DEF TypeOK
  <2>2. pc' \in [Savers -> {"idle", "validate", "open"} \cup Writing]
    BY DEF TypeOK
  <2>3. answer' \in [Savers -> {"none", "saved", "error"}]
    BY DEF TypeOK
  <2>4. QED
    BY <2>1, <2>2, <2>3 DEF TypeOK
<1>2. Pending'
  BY <1>0 DEF Pending, TypeOK, Writing
<1>3. BytesFromAccepted'
  BY <1>0 DEF BytesFromAccepted
<1>4. Lone'
  BY DEF Lone, Prefix, TypeOK, Writing
<1>5. Over' /\ SavedIsDurable'
  BY DEF Over, SavedIsDurable, TypeOK
<1>6. Quiet'
  BY <1>0 DEF Quiet, TypeOK, Writing
<1>7. QED
  BY <1>1, <1>2, <1>3, <1>4, <1>5, <1>6

LEMMA OpenKeeps ==
    ASSUME IInv, NEW s \in Savers, Open(s) PROVE IInv'
<1> USE DEF IInv, Open, Put, gwVars
<1>0. <<>> \in Contents /\ Len(<<>>) = 0
  BY DocsAreContents
<1>1. TypeOK'
  <2>1. (file \in Contents /\ maybe \subseteq Contents /\ file \in maybe)'
    BY <1>0 DEF TypeOK
  <2>2. (pc \in [Savers -> {"idle", "validate", "open"} \cup Writing])'
    BY DEF TypeOK, Writing
  <2>3. (opened \in [Savers -> BOOLEAN] /\ alone \in [Savers -> BOOLEAN] /\ torn \in BOOLEAN)'
    BY DEF TypeOK
  <2>4. QED
    BY <2>1, <2>2, <2>3 DEF TypeOK
<1>2. Pending'
  <2>1. Len(doc[s]) > 0 /\ off[s] = 0
    <3>1. Valid(doc[s]) /\ off[s] = 0
      BY DEF Pending
    <3>2. QED
      BY <3>1, DocFacts DEF Valid
  <2>2. QED
    BY <2>1 DEF Pending, TypeOK, Writing
<1>3. BytesFromAccepted'
  BY <1>0 DEF BytesFromAccepted
<1>4. Lone'
  <2>1. off[s] = 0
    BY DEF Pending
  <2>2. off'[s] = 0 /\ Len(file') = 0 /\ pc'[s] = "write"
    BY <1>0, <2>1 DEF TypeOK
  <2>3. Prefix(s)'
    BY <2>2 DEF Prefix
  <2>4. \A t \in Savers : alone'[t] =>
            t = s /\ \A u \in Savers \ {s} : pc[u] \notin Writing
    OBVIOUS
  <2>5. \A u \in Savers \ {s} : pc'[u] = pc[u]
    BY DEF TypeOK
  <2>6. QED
    BY <2>2, <2>3, <2>4, <2>5 DEF Lone
<1>5. Over' /\ SavedIsDurable'
  BY DEF Over, SavedIsDurable, TypeOK
<1>6. Quiet'
  BY DEF Quiet, TypeOK, Writing
<1>7. QED
  BY <1>1, <1>2, <1>3, <1>4, <1>5, <1>6

LEMMA FailKeeps ==
    ASSUME IInv, NEW s \in Savers, Fail(s) PROVE IInv'
<1> USE DEF IInv, Fail, fileVars, gwVars
<1>1. TypeOK'
  <2>1. (pc \in [Savers -> {"idle", "validate", "open"} \cup Writing])'
    BY DEF TypeOK
  <2>2. (answer \in [Savers -> {"none", "saved", "error"}])'
    BY DEF TypeOK
  <2>3. torn' \in BOOLEAN
    BY DEF TypeOK
  <2>4. QED
    BY <2>1, <2>2, <2>3 DEF TypeOK
<1>2. Pending'
  BY DEF Pending, TypeOK, Writing
<1>3. BytesFromAccepted'
  BY DEF BytesFromAccepted
<1>4. Lone'
  BY DEF Lone, Prefix, TypeOK, Writing
<1>5. Over' /\ SavedIsDurable'
  BY DEF Over, SavedIsDurable, TypeOK
<1>6. Quiet'
  <2> SUFFICES ASSUME ~torn' PROVE
        /\ \A u \in Savers : pc'[u] \in Writing => alone[u]
        /\ (\A u \in Savers : pc'[u] \notin Writing) => maybe \subseteq accepted
    BY DEF Quiet
  <2>1. ~torn /\ pc[s] \in {"open", "close"}
    OBVIOUS
  <2>2. CASE pc[s] = "close"
    <3>1. maybe = {doc[s]} /\ doc[s] \in accepted
      BY <2>1, <2>2 DEF Quiet, Lone, Pending, Writing
    <3>2. QED
      BY <2>1, <3>1 DEF Quiet, TypeOK, Writing
  <2>3. CASE pc[s] = "open"
    BY <2>1, <2>3 DEF Quiet, TypeOK, Writing
  <2>4. QED
    BY <2>1, <2>2, <2>3
<1>7. QED
  BY <1>1, <1>2, <1>3, <1>4, <1>5, <1>6

LEMMA WriteKeeps ==
    ASSUME IInv, NEW s \in Savers, Write(s) PROVE IInv'
<1> DEFINE char == doc[s][off[s] + 1]
           m == IF Len(file) > off[s] THEN Len(file) ELSE off[s] + 1
<1>0. /\ pc[s] = "write" /\ off[s] \in Nat /\ off[s] < Len(doc[s])
      /\ Len(doc[s]) \in Nat /\ file \in Contents /\ file \in maybe
      /\ Valid(doc[s]) /\ doc[s] \in accepted
  BY DocFacts DEF IInv, Write, TypeOK, Pending, Writing
<1>1. char \in Characters
  BY <1>0, DocFacts, ElementOfSeq DEF IInv
<1>2. Len(file) \in Nat
  BY <1>0, LenProperties DEF Contents
<1>3. /\ file' \in Contents /\ Len(file') = m
      /\ \A i \in 1..m : file'[i] =
             IF i = off[s] + 1 THEN char ELSE IF i <= Len(file) THEN file[i] ELSE Hole
  <2>1. file' = Written(file, off[s], char)
    BY DEF Write, Put
  <2> HIDE DEF char
  <2>2. QED
    BY <1>0, <1>1, <2>1, WrittenIs
<1>4. /\ maybe' = maybe \cup {file'}
      /\ off' = [off EXCEPT ![s] = off[s] + 1]
      /\ pc' = [pc EXCEPT ![s] = IF off[s] + 1 = Len(doc[s]) THEN "sync" ELSE "write"]
      /\ UNCHANGED <<admin, doc, answer, gw, conf, saves, accepted, opened, alone, torn>>
  BY DEF Write, Put, gwVars, ghostVars
<1>5. TypeOK'
  <2>1. (file \in Contents /\ maybe \subseteq Contents /\ file \in maybe)'
    BY <1>3, <1>4 DEF IInv, TypeOK
  <2>2. (pc \in [Savers -> {"idle", "validate", "open"} \cup Writing])'
    BY <1>4 DEF IInv, TypeOK, Writing
  <2>3. (off \in [Savers -> Nat] /\ \A u \in Savers : off[u] <= Len(doc[u]))'
    BY <1>0, <1>4 DEF IInv, TypeOK
  <2>4. QED
    BY <1>4, <2>1, <2>2, <2>3 DEF IInv, TypeOK
<1>6. Pending'
  BY <1>0, <1>4 DEF IInv, Pending, TypeOK, Writing
<1>7. BytesFromAccepted'
  <2>1. ASSUME NEW i \in 1..Len(file')
        PROVE  file'[i] = Hole \/ \E d \in accepted : i <= Len(d) /\ d[i] = file'[i]
    <3>1. CASE i = off[s] + 1
      BY <1>0, <1>2, <1>3, <3>1
    <3>2. CASE i # off[s] + 1 /\ i <= Len(file)
      <4>1. file'[i] = file[i] /\ i \in 1..Len(file)
        BY <1>2, <1>3, <3>2
      <4>2. QED
        BY <1>0, <4>1 DEF IInv, BytesFromAccepted
    <3>3. CASE i # off[s] + 1 /\ ~(i <= Len(file))
      BY <1>2, <1>3, <3>3
    <3>4. QED
      BY <3>1, <3>2, <3>3
  <2>2. QED
    BY <1>4, <2>1 DEF IInv, BytesFromAccepted
<1>8. Lone'
  <2> SUFFICES ASSUME NEW t \in Savers, alone[t] PROVE
        /\ \A u \in Savers \ {t} : pc'[u] \notin Writing
        /\ pc'[t] = "write" => Prefix(t)'
        /\ pc'[t] \in {"sync", "close"} => file' = doc[t]
        /\ pc'[t] = "close" => maybe' = {doc[t]}
    BY <1>4 DEF Lone
  <2>1. t = s
    BY <1>0 DEF IInv, Lone, Writing
  <2>2. \A u \in Savers \ {t} : pc'[u] \notin Writing
    BY <1>4, <2>1 DEF IInv, Lone, TypeOK
  <2>3. Len(file) = off[s] /\ \A i \in 1..off[s] : file[i] = doc[s][i]
    BY <1>0, <2>1 DEF IInv, Lone, Prefix
  <2>4. Len(file') = off[s] + 1 /\ \A i \in 1..(off[s] + 1) : file'[i] = doc[s][i]
    BY <1>0, <1>3, <2>3
  <2>5. pc'[t] = IF off[s] + 1 = Len(doc[s]) THEN "sync" ELSE "write"
    BY <1>4, <2>1 DEF IInv, TypeOK
  <2>6. Prefix(t)'
    <3>1. off'[s] = off[s] + 1 /\ doc' = doc
      BY <1>4 DEF IInv, TypeOK
    <3>2. QED
      BY <2>1, <2>4, <3>1 DEF Prefix
  <2>7. off[s] + 1 = Len(doc[s]) => file' = doc[s]
    <3>1. file' \in Contents /\ doc[s] \in Contents
      BY <1>3, DocFacts DEF IInv
    <3>2. QED
      BY <2>4, <3>1, SeqEqual DEF Contents
  <2>8. QED
    BY <2>1, <2>2, <2>5, <2>6, <2>7
<1>9. Over' /\ SavedIsDurable'
  <2>1. \A t \in Savers : answer[t] = "saved" => t # s /\ ~alone[t]
    BY <1>0 DEF IInv, Over, Lone, Writing
  <2>2. QED
    BY <1>4, <2>1 DEF IInv, Over, SavedIsDurable, TypeOK
<1>10. Quiet'
  BY <1>0, <1>4 DEF IInv, Quiet, TypeOK, Writing
<1>11. QED
  BY <1>5, <1>6, <1>7, <1>8, <1>9, <1>10 DEF IInv

LEMMA SyncKeeps ==
    ASSUME IInv, NEW s \in Savers, Sync(s) PROVE IInv'
<1> USE DEF IInv, Sync, AfterSync, gwVars, ghostVars
<1>1. TypeOK'
  <2>1. (pc \in [Savers -> {"idle", "validate", "open"} \cup Writing])'
    BY DEF TypeOK, Writing
  <2>2. (maybe \subseteq Contents /\ file \in maybe)'
    BY DEF TypeOK
  <2>3. QED
    BY <2>1, <2>2 DEF TypeOK
<1>2. Pending'
  BY DEF Pending, TypeOK, Writing
<1>3. BytesFromAccepted'
  BY DEF BytesFromAccepted, TypeOK
<1>4. Lone'
  BY DEF Lone, Prefix, TypeOK, Writing
<1>5. Over' /\ SavedIsDurable'
  <2>1. \A t \in Savers : answer[t] = "saved" => t # s /\ ~alone[t]
    BY DEF Over, Lone, Writing
  <2>2. QED
    BY <2>1 DEF Over, SavedIsDurable, TypeOK
<1>6. Quiet'
  BY DEF Quiet, TypeOK, Writing
<1>7. QED
  BY <1>1, <1>2, <1>3, <1>4, <1>5, <1>6

LEMMA SavedKeeps ==
    ASSUME IInv, NEW s \in Savers, Saved(s) PROVE IInv'
<1> USE DEF IInv, Saved, fileVars, gwVars, ghostVars
<1>1. TypeOK'
  <2>1. (pc \in [Savers -> {"idle", "validate", "open"} \cup Writing])'
    BY DEF TypeOK
  <2>2. (answer \in [Savers -> {"none", "saved", "error"}])'
    BY DEF TypeOK
  <2>3. QED
    BY <2>1, <2>2 DEF TypeOK
<1>2. Pending'
  BY DEF Pending, TypeOK, Writing
<1>3. BytesFromAccepted'
  BY DEF BytesFromAccepted
<1>4. Lone'
  BY DEF Lone, Prefix, TypeOK, Writing
<1>5. Over' /\ SavedIsDurable'
  BY DEF Over, SavedIsDurable, Lone, TypeOK, Writing
<1>6. Quiet'
  <2> SUFFICES ASSUME ~torn PROVE
        /\ \A u \in Savers : pc'[u] \in Writing => alone[u]
        /\ (\A u \in Savers : pc'[u] \notin Writing) => maybe \subseteq accepted
    BY DEF Quiet
  <2>1. maybe = {doc[s]} /\ doc[s] \in accepted
    BY DEF Quiet, Lone, Pending, Writing
  <2>2. QED
    BY <2>1 DEF Quiet, TypeOK, Writing
<1>7. QED
  BY <1>1, <1>2, <1>3, <1>4, <1>5, <1>6

-----------------------------------------------------------------------------
(* Every step preserves it: the processes *)

\* Requests that are gone leave what they wrote, and a tear if they were writing.
LEMMA AbandonKeeps ==
    ASSUME IInv, Abandon,
           file' \in maybe', maybe' \subseteq maybe,
           (maybe' = maybe /\ file' = file) \/ maybe' = {file'},
           UNCHANGED <<doc, off, answer, saves, accepted, opened, alone>>,
           admin' \in {"up", "draining", "down"}, gw' \in {"down", "checked", "running"},
           conf' = conf \/ conf' = <<>>, gw' = "running" => (gw = "running" /\ conf' = conf)
    PROVE  IInv'
<1>0. <<>> \in Contents /\ Len(<<>>) = 0
  BY DocsAreContents
<1>1. TypeOK'
  <2>1. (file \in Contents /\ maybe \subseteq Contents /\ file \in maybe)'
    BY DEF IInv, TypeOK
  <2>2. conf' \in Contents
    BY <1>0 DEF IInv, TypeOK
  <2>3. pc' \in [Savers -> {"idle", "validate", "open"} \cup Writing] /\ torn' \in BOOLEAN
    BY DEF IInv, TypeOK, Abandon
  <2>4. QED
    BY <2>1, <2>2, <2>3 DEF IInv, TypeOK
<1>2. Pending'
  BY DEF Pending, Abandon, Writing
<1>3. BytesFromAccepted'
  BY <1>0 DEF IInv, BytesFromAccepted
<1>4. Lone' /\ Over'
  BY DEF Lone, Over, Abandon, Writing
<1>5. SavedIsDurable'
  BY DEF IInv, SavedIsDurable
<1>6. Quiet'
  <2> SUFFICES ASSUME ~torn' PROVE maybe' \subseteq accepted
    BY DEF Quiet, Abandon, Writing
  <2>1. ~torn /\ \A s \in Savers : pc[s] \notin {"write", "sync"}
    BY DEF Abandon
  <2>2. CASE \E s \in Savers : pc[s] = "close"
    <3>1. PICK s \in Savers : pc[s] = "close"
      BY <2>2
    <3>2. maybe = {doc[s]} /\ doc[s] \in accepted
      BY <2>1, <3>1 DEF IInv, Quiet, Lone, Pending, Writing
    <3>3. QED
      BY <3>2
  <2>3. CASE ~ \E s \in Savers : pc[s] = "close"
    BY <2>1, <2>3 DEF IInv, Quiet, Writing
  <2>4. QED
    BY <2>2, <2>3
<1>7. QED
  BY <1>1, <1>2, <1>3, <1>4, <1>5, <1>6 DEF IInv

\* Steps that leave the file and the requests alone.
LEMMA OthersKeep ==
    ASSUME IInv,
           UNCHANGED <<file, maybe, pc, doc, off, answer, saves, accepted, opened, alone, torn>>,
           admin' \in {"up", "draining", "down"}, gw' \in {"down", "checked", "running"},
           conf' = conf \/ conf' = <<>> \/ conf' = file,
           gw' = "running" => Valid(conf')
    PROVE  IInv'
<1>0. <<>> \in Contents /\ Len(<<>>) = 0
  BY DocsAreContents
<1>1. TypeOK'
  <2>1. conf' \in Contents
    BY <1>0 DEF IInv, TypeOK
  <2>2. QED
    BY <2>1 DEF IInv, TypeOK
<1>2. BytesFromAccepted'
  <2>1. \A f \in maybe \cup {conf'} : f \in maybe \cup {conf} \/ f = <<>>
    BY DEF IInv, TypeOK
  <2>2. QED
    BY <1>0, <2>1 DEF IInv, BytesFromAccepted
<1>3. Pending' /\ Lone' /\ Over' /\ SavedIsDurable' /\ Quiet'
  BY DEF IInv, Pending, Lone, Prefix, Over, SavedIsDurable, Quiet
<1>4. QED
  BY <1>1, <1>2, <1>3 DEF IInv

LEMMA NextIInv == IInv /\ [Next]_vars => IInv'
<1> SUFFICES ASSUME IInv, [Next]_vars PROVE IInv'
  OBVIOUS
<1>1. ASSUME NEW s \in Savers, Request(s) PROVE IInv'
  BY <1>1, ValidateKeeps, OpenKeeps, FailKeeps, WriteKeeps, SyncKeeps, SavedKeeps DEF Request
<1>2. ASSUME NEW s \in Savers, NEW d \in Docs, Submit(s, d) PROVE IInv'
  BY <1>2, SubmitKeeps
<1>3. CASE AdminTerm
  BY <1>3, OthersKeep
  DEF AdminTerm, fileVars, saveVars, gwVars, ghostVars, IInv, TypeOK, BytesFromAccepted
<1>4. CASE AdminStops
  <2>1. Abandon
    BY <1>4 DEF AdminStops, ShutdownDone, Idle, Abandon, ghostVars, IInv, TypeOK
  <2>2. QED
    BY <1>4, <2>1, AbandonKeeps DEF AdminStops, fileVars, gwVars, ghostVars, IInv, TypeOK
<1>5. CASE AdminKilled
  BY <1>5, AbandonKeeps DEF AdminKilled, fileVars, gwVars, IInv, TypeOK
<1>6. CASE AdminStart
  BY <1>6, OthersKeep
  DEF AdminStart, fileVars, saveVars, gwVars, ghostVars, IInv, TypeOK, BytesFromAccepted
<1>7. CASE PowerLoss
  BY <1>7, AbandonKeeps DEF PowerLoss
<1>8. CASE PreCheck
  BY <1>8, OthersKeep DEF PreCheck, fileVars, saveVars, ghostVars, IInv, TypeOK
<1>9. CASE Start \/ StartFails
  BY <1>9, OthersKeep
  DEF Start, StartFails, Loads, fileVars, saveVars, ghostVars, IInv, TypeOK
<1>10. CASE GatewayEnds
  BY <1>10, OthersKeep
  DEF GatewayEnds, RestartState, fileVars, saveVars, ghostVars, IInv, TypeOK
<1>11. CASE UNCHANGED vars
  BY <1>11, OthersKeep
  DEF vars, fileVars, saveVars, gwVars, ghostVars, IInv, TypeOK, BytesFromAccepted
<1>12. QED
  BY <1>1, <1>2, <1>3, <1>4, <1>5, <1>6, <1>7, <1>8, <1>9, <1>10, <1>11 DEF Next

LEMMA AlwaysIInv == Spec => []IInv
  BY InitIInv, NextIInv, PTL DEF Spec

-----------------------------------------------------------------------------
(* What it is for *)

\* The state of the file, the requests and the services is well-formed, and a
\* request never writes past its document, however many requests, kills and
\* losses of power (server.go, writeConfig).
THEOREM AlwaysTypeOK == Spec => []TypeOK
<1>1. IInv => TypeOK
  BY DEF IInv
<1>2. QED
  BY <1>1, AlwaysIInv, PTL

\* Whatever saves overlap, fail, are killed or lose power in whatever order and
\* at whatever byte, each byte of the file is at its place in a document that
\* passed validation, and the gateway serves only what it has found valid itself
\* (handleSave, writeConfig, config.Load).
THEOREM AlwaysBytesFromAccepted == Spec => []BytesFromAccepted
<1>1. IInv => BytesFromAccepted
  BY DEF IInv
<1>2. QED
  BY <1>1, AlwaysIInv, PTL

\* "Saved." of a save that nobody has interfered with is true of every reader and
\* of the disk, for as long as no other save opens the file (writeConfig's fsync
\* before close).
THEOREM AlwaysSavedIsDurable == Spec => []SavedIsDurable
<1>1. IInv => SavedIsDurable
  BY DEF IInv
<1>2. QED
  BY <1>1, AlwaysIInv, PTL

\* With no save under way and none torn, the file is a whole document that passed
\* validation, or the file at first: also after an orderly stop of the admin service,
\* a kill after the fsync, and a loss of power.
THEOREM AlwaysWholeWhenQuiet == Spec => []WholeWhenQuiet
<1>1. IInv => WholeWhenQuiet
  BY DEF IInv, TypeOK, Quiet, WholeWhenQuiet
<1>2. QED
  BY <1>1, AlwaysIInv, PTL
=============================================================================
