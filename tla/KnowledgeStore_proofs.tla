----------------------- MODULE KnowledgeStore_proofs -----------------------
(***************************************************************************)
(* What the knowledge cache saves, its next load accepts; and, as long as  *)
(* the clock advances, what a save loses is the oldest there is, and is    *)
(* lost only because not everything fits.                                  *)
(***************************************************************************)
EXTENDS KnowledgeStore, Selection_proofs

\* What every document the program makes satisfies, whatever its size.
WellFormed(doc) == doc \in Document /\ OneOfEach(doc) /\ Referenced(doc)

\* Another label is all that a relabelled record or project has different.
LEMMA RelabelRecord ==
    ASSUME NEW r \in Record, NEW l \in Labels
    PROVE  /\ [r EXCEPT !.label = l] \in Record
           /\ [r EXCEPT !.label = l].label = l
           /\ [r EXCEPT !.label = l].project = r.project
           /\ Fingerprint([r EXCEPT !.label = l]) = Fingerprint(r)
  BY DEF Record, Fingerprint

LEMMA RelabelProject ==
    ASSUME NEW p \in Project, NEW l \in Labels
    PROVE  /\ [p EXCEPT !.label = l] \in Project
           /\ [p EXCEPT !.label = l].label = l
           /\ [p EXCEPT !.label = l].id = p.id
  BY DEF Project

LEMMA EmptyWellFormed == WellFormed(Empty)
  BY DEF WellFormed, Empty, Document, OneOfEach, Referenced

\* Sanitizing with further secrets may merge labels, never records or projects.
LEMMA SanitizedWellFormed ==
    ASSUME NEW doc, WellFormed(doc), NEW sanitize \in [Labels -> Labels]
    PROVE  WellFormed(Sanitized(doc, sanitize))
<1> DEFINE rec(r) == [r EXCEPT !.label = sanitize[r.label]]
           prj(p) == [p EXCEPT !.label = sanitize[p.label]]
           d == Sanitized(doc, sanitize)
<1>1. /\ d.projects = {prj(p) : p \in doc.projects}
      /\ d.records = {rec(r) : r \in doc.records}
      /\ d = [projects |-> d.projects, records |-> d.records]
  BY DEF Sanitized
<1>2. ASSUME NEW r \in doc.records
      PROVE  /\ r \in Record /\ rec(r) \in Record /\ rec(r).label = sanitize[r.label]
             /\ rec(r).project = r.project /\ Fingerprint(rec(r)) = Fingerprint(r)
  <2>1. r \in Record
    BY DEF WellFormed, Document
  <2>2. sanitize[r.label] \in Labels
    BY <2>1 DEF Record
  <2> QED
    BY <2>1, <2>2, RelabelRecord
<1>3. ASSUME NEW p \in doc.projects
      PROVE  prj(p) \in Project /\ prj(p).label = sanitize[p.label] /\ prj(p).id = p.id
  <2>1. p \in Project
    BY DEF WellFormed, Document
  <2>2. sanitize[p.label] \in Labels
    BY <2>1 DEF Project
  <2> QED
    BY <2>1, <2>2, RelabelProject
<1> HIDE DEF rec, prj, d
<1>4. d \in Document
  BY <1>1, <1>2, <1>3 DEF Document
<1>5. OneOfEach(d)
  BY <1>1, <1>2, <1>3 DEF OneOfEach, WellFormed
<1>6. Referenced(d)
  <2>1. ASSUME NEW r \in doc.records
        PROVE  \E p \in d.projects : p.id = rec(r).project /\ p.label = rec(r).label
    <3>1. PICK p \in doc.projects : p.id = r.project /\ p.label = r.label
      BY DEF WellFormed, Referenced
    <3> QED
      BY <1>1, <1>2, <1>3, <3>1
  <2>2. ASSUME NEW p \in doc.projects PROVE \E r \in d.records : r.project = prj(p).id
    <3>1. PICK r \in doc.records : r.project = p.id
      BY DEF WellFormed, Referenced
    <3> QED
      BY <1>1, <1>2, <1>3, <3>1
  <2> QED
    BY <1>1, <2>1, <2>2 DEF Referenced
<1> QED
  BY <1>4, <1>5, <1>6 DEF WellFormed, d

\* The touched project would be without a record if none were added; with it the
\* document is well-formed again.
LEMMA RecordedWellFormed ==
    ASSUME NEW doc, WellFormed(doc), NEW record \in Record, NEW nr \in Nat
    PROVE  WellFormed(Recorded(Touched(doc, record.project, record.label, nr), record))
<1> DEFINE id == record.project
           l == record.label
           new == [id |-> id, label |-> l, nr |-> nr]
           re(r) == IF r.project = id THEN [r EXCEPT !.label = l] ELSE r
           d == Recorded(Touched(doc, id, l, nr), record)
<1>1. id \in Projects /\ l \in Labels
  BY DEF Record
<1>2. new \in Project /\ new.id = id /\ new.label = l
  BY <1>1 DEF Project
<1>3. /\ d.projects = {p \in doc.projects : p.id # id} \cup {new}
      /\ d.records = {r \in {re(r) : r \in doc.records} : Fingerprint(r) # Fingerprint(record)}
                       \cup {record}
      /\ d = [projects |-> d.projects, records |-> d.records]
  <2> DEFINE T == Touched(doc, id, l, nr)
             R == {r \in {re(x) : x \in doc.records} : Fingerprint(r) # Fingerprint(record)}
                    \cup {record}
  <2>1. T = [projects |-> {p \in doc.projects : p.id # id} \cup {new},
             records |-> {re(x) : x \in doc.records}]
    BY DEF Touched, Relabelled
  <2> HIDE DEF T, re, new
  <2>2. d = [T EXCEPT !.records = R]
    BY <2>1 DEF Recorded, T
  <2> HIDE DEF R, d
  <2>3. d = [projects |-> {p \in doc.projects : p.id # id} \cup {new}, records |-> R]
    BY <2>1, <2>2
  <2> QED
    BY <2>3 DEF R
<1>4. ASSUME NEW r \in doc.records
      PROVE  /\ r \in Record /\ re(r) \in Record /\ re(r).project = r.project
             /\ Fingerprint(re(r)) = Fingerprint(r)
             /\ r.project = id => re(r).label = l
             /\ r.project # id => re(r) = r
  <2>1. r \in Record
    BY DEF WellFormed, Document
  <2> QED
    BY <1>1, <2>1, RelabelRecord
<1>5. doc.projects \subseteq Project
  BY DEF WellFormed, Document
<1> HIDE DEF re, d, new
<1>6. d \in Document
  BY <1>2, <1>3, <1>4, <1>5 DEF Document
<1>7. OneOfEach(d)
  <2>1. ASSUME NEW p \in d.projects, NEW q \in d.projects, p.id = q.id PROVE p = q
    BY <1>2, <1>3, <2>1 DEF OneOfEach, WellFormed
  <2>2. ASSUME NEW r \in d.records, NEW s \in d.records, Fingerprint(r) = Fingerprint(s)
        PROVE  r = s
    BY <1>3, <1>4, <2>2 DEF OneOfEach, WellFormed
  <2> QED
    BY <2>1, <2>2 DEF OneOfEach
<1>8. ASSUME NEW r \in d.records
      PROVE  \E p \in d.projects : p.id = r.project /\ p.label = r.label
  <2>1. CASE r = record
    BY <1>2, <1>3, <2>1
  <2>2. CASE r # record
    <3>1. PICK o \in doc.records : r = re(o)
      BY <1>3, <2>2
    <3>2. CASE o.project = id
      BY <1>2, <1>3, <1>4, <3>1, <3>2
    <3>3. CASE o.project # id
      <4>1. r = o
        BY <1>4, <3>1, <3>3
      <4>2. PICK p \in doc.projects : p.id = o.project /\ p.label = o.label
        BY DEF WellFormed, Referenced
      <4> QED
        BY <1>3, <3>3, <4>1, <4>2
    <3> QED
      BY <3>2, <3>3
  <2> QED
    BY <2>1, <2>2
<1>9. ASSUME NEW p \in d.projects PROVE \E r \in d.records : r.project = p.id
  <2>1. CASE p = new
    BY <1>2, <1>3, <2>1
  <2>2. CASE p # new
    <3>1. p \in doc.projects /\ p.id # id
      BY <1>3, <2>2
    <3>2. PICK o \in doc.records : o.project = p.id
      BY <3>1 DEF WellFormed, Referenced
    <3>3. re(o) = o /\ Fingerprint(o) # Fingerprint(record)
      BY <1>4, <3>1, <3>2 DEF Fingerprint
    <3> QED
      BY <1>3, <3>2, <3>3
  <2> QED
    BY <2>1, <2>2
<1>10. Referenced(d)
  BY <1>8, <1>9 DEF Referenced
<1> QED
  BY <1>6, <1>7, <1>10 DEF WellFormed, d

LEMMA WithoutProjectWellFormed ==
    ASSUME NEW doc, WellFormed(doc), NEW p \in doc.projects
    PROVE  WellFormed(WithoutProject(doc, p))
<1> DEFINE d == WithoutProject(doc, p)
<1>1. /\ d.projects = doc.projects \ {p} /\ d.records = {r \in doc.records : r.project # p.id}
      /\ d = [projects |-> d.projects, records |-> d.records]
  BY DEF WithoutProject
<1> HIDE DEF d
<1>2. d \in Document
  BY <1>1 DEF WellFormed, Document
<1>3. OneOfEach(d)
  BY <1>1 DEF WellFormed, OneOfEach
<1>4. \A r \in d.records : \E q \in d.projects : q.id = r.project /\ q.label = r.label
  BY <1>1 DEF WellFormed, Referenced
<1>5. \A q \in d.projects : q.id # p.id /\ \E r \in d.records : r.project = q.id
  BY <1>1 DEF WellFormed, Referenced, OneOfEach
<1> QED
  BY <1>2, <1>3, <1>4, <1>5 DEF WellFormed, Referenced, d

LEMMA WithoutRecordWellFormed ==
    ASSUME NEW doc, WellFormed(doc), NEW r \in doc.records
    PROVE  WellFormed(WithoutRecord(doc, r))
<1> DEFINE d == WithoutRecord(doc, r)
           left == doc.records \ {r}
<1>1. /\ d.records = left
      /\ d.projects = {p \in doc.projects :
                         p.id = r.project => \E s \in left : s.project = p.id}
      /\ d = [projects |-> d.projects, records |-> d.records]
  BY DEF WithoutRecord
<1> HIDE DEF d
<1>2. d \in Document
  BY <1>1 DEF WellFormed, Document
<1>3. OneOfEach(d)
  BY <1>1 DEF WellFormed, OneOfEach
<1>4. ASSUME NEW s \in d.records
      PROVE  \E p \in d.projects : p.id = s.project /\ p.label = s.label
  <2>1. PICK p \in doc.projects : p.id = s.project /\ p.label = s.label
    BY <1>1 DEF WellFormed, Referenced
  <2> QED
    BY <1>1, <2>1
<1>5. ASSUME NEW p \in d.projects PROVE \E s \in d.records : s.project = p.id
  <2>1. PICK s \in doc.records : s.project = p.id
    BY <1>1 DEF WellFormed, Referenced
  <2> QED
    BY <1>1, <2>1
<1> QED
  BY <1>2, <1>3, <1>4, <1>5 DEF WellFormed, Referenced, d

-----------------------------------------------------------------------------

\* What a thread works on is well-formed after every round of the trimming loops,
\* and so is the saved document, which is also within the limits.
KnowledgeInv ==
    /\ TypeOK
    /\ file # None => WellFormed(file) /\ WithinLimits(file)
    /\ \A t \in Threads : WellFormed(copy[t])
    /\ \A t \in Threads : pc[t] = "save" => mine[t] \in Record

LEMMA KnowledgeInit == Init => KnowledgeInv
<1> SUFFICES ASSUME Init PROVE KnowledgeInv
  OBVIOUS
<1>1. WellFormed(Empty)
  BY EmptyWellFormed
<1>2. TypeOK
  BY <1>1, KnowledgeAssumption DEF Init, TypeOK, WellFormed
<1> QED
  BY <1>1, <1>2 DEF Init, KnowledgeInv

\* A step that only changes the copy of one thread to a well-formed document.
LEMMA CopyKeeps ==
    ASSUME KnowledgeInv, NEW t \in Threads, NEW doc, WellFormed(doc),
           copy' = [copy EXCEPT ![t] = doc],
           UNCHANGED <<file, lock, pc, mine, now, steady, calls, faults>>
    PROVE  KnowledgeInv'
<1>1. TypeOK'
  BY DEF KnowledgeInv, TypeOK, WellFormed
<1>2. \A s \in Threads : WellFormed(copy'[s])
  BY DEF KnowledgeInv, TypeOK
<1> QED
  BY <1>1, <1>2 DEF KnowledgeInv

\* Out of the lock, with the document saved or not.
LEMMA LeaveKeeps ==
    ASSUME KnowledgeInv, NEW t \in Threads, Leave(t),
           file' # None => WellFormed(file') /\ WithinLimits(file'),
           faults' \in 0..MaxFaults, UNCHANGED <<now, steady, calls>>
    PROVE  KnowledgeInv'
<1>1. WellFormed(Empty)
  BY EmptyWellFormed
<1>2. file' \in Document \cup {None}
  BY DEF WellFormed
<1>3. copy' \in [Threads -> Document] /\ \A s \in Threads : WellFormed(copy'[s])
  BY <1>1 DEF Leave, KnowledgeInv, TypeOK, WellFormed
<1>4. /\ mine' \in [Threads -> Record \cup {None}] /\ pc' \in [Threads -> {"idle", "save"}]
      /\ \A s \in Threads : pc'[s] = "save" => mine'[s] \in Record
  BY DEF Leave, KnowledgeInv, TypeOK
<1>5. TypeOK'
  BY <1>2, <1>3, <1>4 DEF Leave, KnowledgeInv, TypeOK
<1> QED
  BY <1>3, <1>4, <1>5 DEF KnowledgeInv

LEMMA LoadKeeps == ASSUME KnowledgeInv, NEW t \in Threads, Load(t) PROVE KnowledgeInv'
<1>1. WellFormed(Stored)
  BY EmptyWellFormed DEF KnowledgeInv, Stored
<1>2. PICK kind \in Kinds : \E project \in Projects, body \in Bodies, sanitize \in Sanitizers :
       \E at \in {0, now, now + 1} :
         LET label == sanitize[RawLabel[project]]
             record == [kind |-> kind, project |-> project, named |-> label, body |-> body,
                        label |-> label, at |-> at, nr |-> calls']
         IN  /\ mine' = [mine EXCEPT ![t] = record]
             /\ copy' = [copy EXCEPT ![t] =
                  Recorded(Touched(Sanitized(Stored, sanitize), project, label, calls'), record)]
             /\ now' = IF at > now THEN at ELSE now
             /\ steady' = (steady /\ at > now)
  BY DEF Load
<1>3. PICK project \in Projects, body \in Bodies, sanitize \in Sanitizers :
       \E at \in {0, now, now + 1} :
         LET label == sanitize[RawLabel[project]]
             record == [kind |-> kind, project |-> project, named |-> label, body |-> body,
                        label |-> label, at |-> at, nr |-> calls']
         IN  /\ mine' = [mine EXCEPT ![t] = record]
             /\ copy' = [copy EXCEPT ![t] =
                  Recorded(Touched(Sanitized(Stored, sanitize), project, label, calls'), record)]
             /\ now' = IF at > now THEN at ELSE now
             /\ steady' = (steady /\ at > now)
  BY <1>2
<1> DEFINE label == sanitize[RawLabel[project]]
           record(at) == [kind |-> kind, project |-> project, named |-> label, body |-> body,
                          label |-> label, at |-> at, nr |-> calls']
<1>4. PICK at \in {0, now, now + 1} :
         /\ mine' = [mine EXCEPT ![t] = record(at)]
         /\ copy' = [copy EXCEPT ![t] =
              Recorded(Touched(Sanitized(Stored, sanitize), project, label, calls'), record(at))]
         /\ now' = IF at > now THEN at ELSE now
         /\ steady' = (steady /\ at > now)
  BY <1>3
<1>5. now \in Nat /\ calls' \in Nat /\ at \in Nat /\ now' \in Nat /\ steady' \in BOOLEAN
  BY <1>4 DEF Load, KnowledgeInv, TypeOK
<1>6. sanitize \in [Labels -> Labels] /\ label \in Labels
  BY KnowledgeAssumption
<1>7. record(at) \in Record /\ record(at).project = project /\ record(at).label = label
  BY <1>5, <1>6 DEF Record
<1> HIDE DEF label, record
<1> DEFINE doc == Recorded(Touched(Sanitized(Stored, sanitize), project, label, calls'), record(at))
<1>8. WellFormed(doc)
  <2>1. WellFormed(Sanitized(Stored, sanitize))
    BY <1>1, <1>6, SanitizedWellFormed
  <2>2. WellFormed(Recorded(Touched(Sanitized(Stored, sanitize), record(at).project,
                                    record(at).label, calls'), record(at)))
    BY <2>1, <1>5, <1>7, RecordedWellFormed
  <2> QED
    BY <2>2, <1>7
<1>9. copy' = [copy EXCEPT ![t] = doc]
  BY <1>4
<1> HIDE DEF doc
<1>10. copy' \in [Threads -> Document] /\ \A s \in Threads : WellFormed(copy'[s])
  BY <1>8, <1>9 DEF KnowledgeInv, TypeOK, WellFormed
<1>11. /\ mine' \in [Threads -> Record \cup {None}]
       /\ \A s \in Threads : pc'[s] = "save" => mine'[s] \in Record
  BY <1>4, <1>7 DEF Load, KnowledgeInv, TypeOK
<1>12. TypeOK'
  BY <1>5, <1>10, <1>11 DEF Load, KnowledgeInv, TypeOK
<1> QED
  BY <1>10, <1>11, <1>12 DEF Load, KnowledgeInv

LEMMA KnowledgeNext == KnowledgeInv /\ [Next]_vars => KnowledgeInv'
<1> SUFFICES ASSUME KnowledgeInv, [Next]_vars PROVE KnowledgeInv'
  OBVIOUS
<1>1. CASE UNCHANGED vars
  BY <1>1 DEF vars, KnowledgeInv, TypeOK
<1>2. ASSUME NEW t \in Threads, DropProject(t) PROVE KnowledgeInv'
  <2>1. PICK p \in LeastRecent(copy[t]) : copy' = [copy EXCEPT ![t] = WithoutProject(copy[t], p)]
    BY <1>2 DEF DropProject
  <2>2. WellFormed(WithoutProject(copy[t], p))
    BY WithoutProjectWellFormed DEF LeastRecent, KnowledgeInv
  <2> QED
    BY <1>2, <2>1, <2>2, CopyKeeps DEF DropProject
<1>3. ASSUME NEW t \in Threads, EvictOldest(t) PROVE KnowledgeInv'
  <2>1. PICK r \in Oldest(copy[t]) : copy' = [copy EXCEPT ![t] = WithoutRecord(copy[t], r)]
    BY <1>3 DEF EvictOldest
  <2>2. WellFormed(WithoutRecord(copy[t], r))
    BY WithoutRecordWellFormed DEF Oldest, Firsts, KnowledgeInv
  <2> QED
    BY <1>3, <2>1, <2>2, CopyKeeps DEF EvictOldest
<1>4. ASSUME NEW t \in Threads, Replace(t) PROVE KnowledgeInv'
  <2>1. WellFormed(file') /\ WithinLimits(file')
    BY <1>4 DEF Replace, KnowledgeInv
  <2> QED
    BY <1>4, <2>1, LeaveKeeps DEF Replace, KnowledgeInv, TypeOK
<1>5. ASSUME NEW t \in Threads, TooLarge(t) PROVE KnowledgeInv'
  BY <1>5, LeaveKeeps DEF TooLarge, KnowledgeInv, TypeOK
<1>6. ASSUME NEW t \in Threads, Fail(t) PROVE KnowledgeInv'
  <2>1. faults' \in 0..MaxFaults
    BY <1>6, KnowledgeAssumption DEF Fail, KnowledgeInv, TypeOK
  <2> QED
    BY <1>6, <2>1, LeaveKeeps DEF Fail, KnowledgeInv
<1> QED
  BY <1>1, <1>2, <1>3, <1>4, <1>5, <1>6, LoadKeeps DEF Next

\* Types of the knowledge cache's state.
THEOREM KnowledgeTypeCorrect == Spec => []TypeOK
<1>1. KnowledgeInv => TypeOK
  BY DEF KnowledgeInv
<1> QED
  BY <1>1, KnowledgeInit, KnowledgeNext, PTL DEF Spec

\* For any threads, projects, secrets, limits and clock: a document that was saved
\* always passes the validation of the next load.
THEOREM KnowledgeAlwaysLoads == Spec => []SavedDocumentLoads
<1>1. KnowledgeInv => SavedDocumentLoads
  BY DEF KnowledgeInv, SavedDocumentLoads, Loads, WellFormed
<1> QED
  BY <1>1, KnowledgeInit, KnowledgeNext, PTL DEF Spec

-----------------------------------------------------------------------------

\* The fingerprints of records and the ids of projects, and what a record of a
\* fingerprint weighs: they tell how much there is, whatever it is labelled.
Prints(R) == {Fingerprint(r) : r \in R}
IdsOf(P) == {p.id : p \in P}
PrintSize == [f \in Kinds \X Projects \X Labels \X Bodies |-> Size[f[4]]]

\* All that a call with the record m has to save over the document doc, and whether
\* it is too much.
AllPrints(doc, m) == Prints(doc.records) \cup {Fingerprint(m)}
AllIds(doc, m) == IdsOf(doc.projects) \cup {m.project}
Excess(P, I) ==
    \/ Cardinality(I) > MaxProjects \/ Cardinality(P) > MaxEntries
    \/ Cardinality(I) + Total(PrintSize, P) > MaxFileBytes

\* The numbers of the insertions are those of the calls up to n, and agree with the
\* times as long as the clock advances.
Ordered(doc, n, time, inOrder) ==
    /\ IsFiniteSet(doc.projects) /\ IsFiniteSet(doc.records)
    /\ \A p \in doc.projects : p.nr <= n
    /\ \A r \in doc.records : r.nr <= n /\ r.at <= time
    /\ \A r, s \in doc.records : r # s => r.nr # s.nr
    /\ inOrder => \A r, s \in doc.records : r.nr < s.nr => r.at < s.at

\* c has nothing but m, its project touched at n, and what doc has.
Comes(doc, c, m, n) ==
    /\ \A r \in c.records : r = m \/ \E x \in doc.records :
          Fingerprint(x) = Fingerprint(r) /\ x.at = r.at /\ x.nr = r.nr
    /\ \A p \in c.projects : \/ p.id = m.project /\ p.nr = n
                             \/ \E q \in doc.projects : q.id = p.id /\ q.nr = p.nr

\* The records of doc that c does not have any more, and when that is right.
LostOf(doc, c) == {x \in doc.records : \A y \in c.records : Fingerprint(y) # Fingerprint(x)}

RightlyLost(doc, c, m) ==
    /\ m \in c.records
    /\ LostOf(doc, c) # {} => Excess(AllPrints(doc, m), AllIds(doc, m))
    /\ \A x \in LostOf(doc, c) :
         \/ /\ Cardinality(AllIds(doc, m)) > MaxProjects
            /\ \E p \in LeastRecent(doc) : p.id = x.project
         \/ \A y \in c.records : x.at < y.at

\* The invariant of the trimming loops: c is what is left of doc and m. A project goes
\* only while none has gone yet, so at most one does.
Trimming(doc, c, m, n, time, inOrder) ==
    /\ m.nr = n /\ \A p \in doc.projects : p.nr < n
    /\ Ordered(c, n, time, inOrder) /\ Comes(doc, c, m, n)
    /\ Cardinality(c.projects) > MaxProjects => IdsOf(c.projects) = AllIds(doc, m)
    /\ inOrder => RightlyLost(doc, c, m)

\* Only the holder of the lock is trimming, and what it trims comes from the document
\* that is still stored.
TrimInv ==
    /\ Ordered(Stored, calls, now, steady)
    /\ \A t \in Threads : pc[t] = "save" =>
         /\ lock = t
         /\ Trimming(Stored, copy[t], mine[t], calls, now, steady)

-----------------------------------------------------------------------------
RecordSize == [r \in Record |-> Size[r.body]]

\* The size of a document as the sum of a function.
LEMMA BytesOf ==
    ASSUME NEW doc, doc.records \subseteq Record
    PROVE  Bytes(doc) = Cardinality(doc.projects) + Total(RecordSize, doc.records)
<1> DEFINE R == doc.records
<1>1. \A x \in R : Size[x.body] = RecordSize[x]
  BY DEF RecordSize
<1> HIDE DEF R
<1>2. MapThenSumSet(LAMBDA r : Size[r.body], R) = Total(RecordSize, R)
  <2> DEFINE Sums(g) == g = [s \in SUBSET R |->
                        IF s = {} THEN 0 ELSE Size[AnyOf(s).body] + g[s \ {AnyOf(s)}]]
  <2>1. MapThenSumSet(LAMBDA r : Size[r.body], R) = (CHOOSE g : Sums(g))[R]
    BY DEF MapThenSumSet, MapThenFoldSet, AnyOf
  <2>2. \A g : Sums(g) <=> Adding(g, RecordSize, R)
    BY <1>1, AnyOfIsIn DEF Adding
  <2> HIDE DEF Sums
  <2>3. (CHOOSE g : Sums(g)) = (CHOOSE g : Adding(g, RecordSize, R))
    BY <2>2, Zenon
  <2> QED
    BY <2>1, <2>3, TotalAdds
<1> QED
  BY <1>2 DEF Bytes, R

\* What records weigh, and how many they are, is told by their fingerprints.
OneEachOf(R) == \A r, s \in R : Fingerprint(r) = Fingerprint(s) => r = s

LEMMA PrintsCount ==
    ASSUME NEW R, R \subseteq Record, IsFiniteSet(R), OneEachOf(R)
    PROVE  /\ IsFiniteSet(Prints(R)) /\ Cardinality(Prints(R)) = Cardinality(R)
           /\ Total(PrintSize, Prints(R)) = Total(RecordSize, R)
<1> DEFINE b == [r \in R |-> Fingerprint(r)]
<1>1. b \in Bijection(R, Prints(R))
  <2>1. b \in [R -> Prints(R)]
    BY DEF Prints
  <2>2. \A r, s \in R : b[r] = b[s] => r = s
    BY DEF OneEachOf
  <2>3. \A f \in Prints(R) : \E r \in R : b[r] = f
    BY DEF Prints
  <2>4. DOMAIN b = R
    OBVIOUS
  <2> HIDE DEF b
  <2>5. b \in Injection(R, Prints(R))
    BY <2>1, <2>2, <2>4 DEF Injection, IsInjective
  <2>6. b \in Surjection(R, Prints(R))
    BY <2>1, <2>3 DEF Surjection
  <2> QED
    BY <2>5, <2>6 DEF Bijection
<1>2. IsFiniteSet(Prints(R)) /\ Cardinality(Prints(R)) = Cardinality(R)
  BY <1>1, FS_Bijection DEF ExistsBijection
<1>3. \A r \in R : RecordSize[r] \in Nat /\ PrintSize[b[r]] = RecordSize[r]
  <2> TAKE r \in R
  <2>1. /\ r.kind \in Kinds /\ r.project \in Projects /\ r.named \in Labels /\ r.body \in Bodies
        /\ r \in Record
    BY DEF Record
  <2>2. RecordSize[r] = Size[r.body] /\ Size[r.body] \in Nat
    BY <2>1, KnowledgeAssumption DEF RecordSize
  <2>3. b[r] = <<r.kind, r.project, r.named, r.body>>
    BY DEF Fingerprint
  <2>4. b[r] \in Kinds \X Projects \X Labels \X Bodies /\ b[r][4] = r.body
    BY <2>1, <2>3
  <2> HIDE DEF b
  <2>5. PrintSize[b[r]] = Size[r.body]
    BY <2>4 DEF PrintSize
  <2> QED
    BY <2>2, <2>5
<1>4. \A r, s \in R : b[r] = b[s] => r = s
  BY DEF OneEachOf
<1>5. Prints(R) = { b[r] : r \in R }
  BY DEF Prints
<1> HIDE DEF b
<1>6. Total(RecordSize, R) = Total(PrintSize, { b[r] : r \in R })
  BY <1>3, <1>4, TotalOfImage
<1> QED
  BY <1>2, <1>5, <1>6

\* So is how many projects there are, by their ids.
LEMMA IdsCount ==
    ASSUME NEW P, IsFiniteSet(P), \A p, q \in P : p.id = q.id => p = q
    PROVE  IsFiniteSet(IdsOf(P)) /\ Cardinality(IdsOf(P)) = Cardinality(P)
<1> DEFINE b == [p \in P |-> p.id]
<1>1. b \in Bijection(P, IdsOf(P))
  <2>1. b \in [P -> IdsOf(P)] /\ \A p, q \in P : b[p] = b[q] => p = q
    BY DEF IdsOf
  <2>2. \A f \in IdsOf(P) : \E p \in P : b[p] = f
    BY DEF IdsOf
  <2>3. DOMAIN b = P
    OBVIOUS
  <2> HIDE DEF b
  <2>4. b \in Injection(P, IdsOf(P))
    BY <2>1, <2>3 DEF Injection, IsInjective
  <2>5. b \in Surjection(P, IdsOf(P))
    BY <2>1, <2>2 DEF Surjection
  <2> QED
    BY <2>4, <2>5 DEF Bijection
<1> QED
  BY <1>1, FS_Bijection DEF ExistsBijection

\* The image of a finite set is finite.
LEMMA FiniteImage ==
    ASSUME NEW S, IsFiniteSet(S), NEW f PROVE IsFiniteSet({ f[x] : x \in S })
<1> DEFINE g == [x \in S |-> f[x]]
<1>1. g \in Surjection(S, { f[x] : x \in S })
  BY DEF Surjection
<1> QED
  BY <1>1, FS_Surjection

\* The same record, up to its label.
Agrees(r, x) == Fingerprint(x) = Fingerprint(r) /\ x.at = r.at /\ x.nr = r.nr

LEMMA RelabelAgrees ==
    ASSUME NEW r \in Record, NEW l \in Labels
    PROVE  [r EXCEPT !.label = l] \in Record /\ Agrees([r EXCEPT !.label = l], r)
  BY DEF Record, Fingerprint, Agrees

LEMMA RelabelProjectKeeps ==
    ASSUME NEW p \in Project, NEW l \in Labels
    PROVE  /\ [p EXCEPT !.label = l] \in Project
           /\ [p EXCEPT !.label = l].id = p.id /\ [p EXCEPT !.label = l].nr = p.nr
  BY DEF Project

\* What the document of a call is made of.
MadeOf(doc, c, m, n) ==
    /\ IsFiniteSet(c.projects) /\ IsFiniteSet(c.records) /\ Comes(doc, c, m, n)
    /\ m \in c.records /\ LostOf(doc, c) = {} /\ IdsOf(c.projects) = AllIds(doc, m)

\* Sanitizing, touching and recording lose nothing.
LEMMA LoadedMadeOf ==
    ASSUME NEW doc, WellFormed(doc), IsFiniteSet(doc.projects), IsFiniteSet(doc.records),
           NEW sanitize \in [Labels -> Labels], NEW m \in Record, NEW n \in Nat
    PROVE  MadeOf(doc, Recorded(Touched(Sanitized(doc, sanitize), m.project, m.label, n), m), m, n)
<1> DEFINE id == m.project
           l == m.label
           rec == [r \in doc.records |-> [r EXCEPT !.label = sanitize[r.label]]]
           prj == [p \in doc.projects |-> [p EXCEPT !.label = sanitize[p.label]]]
           re(r) == IF r.project = id THEN [r EXCEPT !.label = l] ELSE r
           f == [r \in doc.records |-> re(rec[r])]
           new == [id |-> id, label |-> l, nr |-> n]
           S == Sanitized(doc, sanitize)
           T == Touched(S, id, l, n)
           c == Recorded(T, m)
<1>1. doc.records \subseteq Record /\ doc.projects \subseteq Project
  BY DEF WellFormed, Document
<1>2. id \in Projects /\ l \in Labels
  BY DEF Record
<1>3. ASSUME NEW r \in doc.records PROVE rec[r] \in Record /\ Agrees(rec[r], r)
  <2>1. r \in Record /\ r.label \in Labels
    BY <1>1 DEF Record
  <2> QED
    BY <2>1, RelabelAgrees
<1>4. ASSUME NEW r \in doc.records PROVE f[r] \in Record /\ Agrees(f[r], r)
  <2>1. f[r] = re(rec[r])
    OBVIOUS
  <2>2. rec[r] \in Record /\ Agrees(rec[r], r)
    BY <1>3
  <2> HIDE DEF rec, f
  <2>3. re(rec[r]) \in Record /\ Agrees(re(rec[r]), rec[r])
    <3>1. Agrees(rec[r], rec[r])
      BY DEF Agrees
    <3> QED
      BY <1>2, <2>2, <3>1, RelabelAgrees
  <2> HIDE DEF re
  <2> QED
    BY <2>1, <2>2, <2>3 DEF Agrees
<1>5. ASSUME NEW p \in doc.projects PROVE prj[p].id = p.id /\ prj[p].nr = p.nr
  <2>1. p \in Project /\ p.label \in Labels
    BY <1>1 DEF Project
  <2> QED
    BY <2>1, RelabelProjectKeeps
<1>6. S = [projects |-> {prj[p] : p \in doc.projects}, records |-> {rec[r] : r \in doc.records}]
  BY DEF Sanitized
<1>7. S.records = {rec[r] : r \in doc.records} /\ S.projects = {prj[p] : p \in doc.projects}
  BY <1>6
<1>8. {re(x) : x \in {rec[r] : r \in doc.records}} = {f[r] : r \in doc.records}
  OBVIOUS
<1>9. T = [projects |-> {p \in S.projects : p.id # id} \cup {new}, records |-> {re(x) : x \in S.records}]
  BY DEF Touched, Relabelled
<1> HIDE DEF rec, prj, re, f, S
<1>10. T.projects = {p \in S.projects : p.id # id} \cup {new} /\ T.records = {f[r] : r \in doc.records}
  <2>1. {re(x) : x \in S.records} = {f[r] : r \in doc.records}
    BY <1>7, <1>8
  <2> HIDE DEF T
  <2> QED
    BY <1>9, <2>1
<1>11. /\ c.records = {r \in T.records : Fingerprint(r) # Fingerprint(m)} \cup {m}
       /\ c.projects = T.projects
  <2> DEFINE R == {r \in T.records : Fingerprint(r) # Fingerprint(m)} \cup {m}
  <2>1. c = [T EXCEPT !.records = R]
    BY DEF Recorded
  <2> HIDE DEF R, T, c
  <2>2. T = [projects |-> T.projects, records |-> T.records]
    BY <1>9, <1>10 DEF T
  <2> QED
    BY <2>1, <2>2 DEF R
<1> HIDE DEF T, c
<1>12. c.records = {r \in {f[x] : x \in doc.records} : Fingerprint(r) # Fingerprint(m)} \cup {m}
  BY <1>10, <1>11
<1>13. c.projects = {p \in {prj[q] : q \in doc.projects} : p.id # id} \cup {new}
  BY <1>7, <1>10, <1>11
<1>14. new.id = id /\ new.nr = n
  OBVIOUS
<1> HIDE DEF new
<1>15. IsFiniteSet(c.records)
  <2>1. IsFiniteSet({f[x] : x \in doc.records})
    BY FiniteImage
  <2>2. IsFiniteSet({r \in {f[x] : x \in doc.records} : Fingerprint(r) # Fingerprint(m)})
    BY <2>1, FS_Subset
  <2> QED
    BY ZenonT(60), <1>12, <2>2, FS_AddElement
<1>16. IsFiniteSet(c.projects)
  <2>1. IsFiniteSet({prj[x] : x \in doc.projects})
    BY FiniteImage
  <2>2. IsFiniteSet({p \in {prj[q] : q \in doc.projects} : p.id # id})
    BY <2>1, FS_Subset
  <2> QED
    BY ZenonT(60), <1>13, <2>2, FS_AddElement
<1>17. Comes(doc, c, m, n)
  <2>1. ASSUME NEW r \in c.records, r # m PROVE \E x \in doc.records : Agrees(r, x)
    BY <1>4, <1>12, <2>1
  <2>2. ASSUME NEW p \in c.projects
        PROVE  \/ p.id = m.project /\ p.nr = n
               \/ \E q \in doc.projects : q.id = p.id /\ q.nr = p.nr
    BY <1>5, <1>13, <1>14
  <2> QED
    BY <2>1, <2>2 DEF Comes, Agrees
<1>18. m \in c.records
  BY <1>12
<1>19. LostOf(doc, c) = {}
  <2> SUFFICES ASSUME NEW x \in doc.records PROVE \E y \in c.records : Fingerprint(y) = Fingerprint(x)
    BY DEF LostOf
  <2>1. Fingerprint(f[x]) = Fingerprint(x)
    BY <1>4 DEF Agrees
  <2>2. CASE Fingerprint(x) = Fingerprint(m)
    BY <1>18, <2>2
  <2>3. CASE Fingerprint(x) # Fingerprint(m)
    BY <1>12, <2>1, <2>3
  <2> QED
    BY <2>2, <2>3
<1>20. IdsOf(c.projects) = AllIds(doc, m)
  BY <1>5, <1>13, <1>14 DEF IdsOf, AllIds
<1> QED
  BY <1>15, <1>16, <1>17, <1>18, <1>19, <1>20 DEF MadeOf, c, T, S

\* The trimming loops start from the document and the record of the call.
LEMMA LoadedTrims ==
    ASSUME NEW doc, NEW c, WellFormed(c), NEW m, NEW n \in Nat, NEW time \in Nat, NEW later \in Nat,
           NEW inOrder \in BOOLEAN, doc.records \subseteq Record, doc.projects \subseteq Project,
           m \in Record, m.nr = n + 1, m.at <= later, time <= later, Ordered(doc, n, time, inOrder),
           MadeOf(doc, c, m, n + 1)
    PROVE  Trimming(doc, c, m, n + 1, later, inOrder /\ m.at > time)
<1> DEFINE o == inOrder /\ m.at > time
<1>1. ASSUME NEW r \in c.records, r # m
      PROVE  \E x \in doc.records : Fingerprint(x) = Fingerprint(r) /\ x.at = r.at /\ x.nr = r.nr
  BY <1>1 DEF MadeOf, Comes
<1>2. \A x \in doc.records : x.nr \in Nat /\ x.at \in Nat /\ x.nr <= n /\ x.at <= time
  BY DEF Ordered, Record
<1>3. m.at \in Nat
  BY DEF Record
<1>4. \A p \in doc.projects : p.nr \in Nat /\ p.nr < n + 1
  BY DEF Ordered, Project
<1>5. Ordered(c, n + 1, later, o)
  <2>1. \A p \in c.projects : p.nr <= n + 1
    BY <1>4 DEF MadeOf, Comes
  <2>2. \A r \in c.records : r.nr <= n + 1 /\ r.at <= later
    BY <1>1, <1>2, <1>3
  <2>3. ASSUME NEW r \in c.records, r # m PROVE r.nr < m.nr /\ r.nr \in Nat
    BY <1>1, <1>2, <2>3
  <2>4. ASSUME NEW r \in c.records, NEW s \in c.records, r # s PROVE r.nr # s.nr
    <3>1. CASE r = m \/ s = m
      BY <2>3, <2>4, <3>1
    <3>2. CASE r # m /\ s # m
      <4>1. PICK x \in doc.records : Fingerprint(x) = Fingerprint(r) /\ x.at = r.at /\ x.nr = r.nr
        BY <1>1, <3>2
      <4>2. PICK y \in doc.records : Fingerprint(y) = Fingerprint(s) /\ y.at = s.at /\ y.nr = s.nr
        BY <1>1, <3>2
      <4>3. x # y
        BY <2>4, <4>1, <4>2 DEF WellFormed, OneOfEach
      <4> QED
        BY <4>1, <4>2, <4>3 DEF Ordered
    <3> QED
      BY <3>1, <3>2
  <2>5. ASSUME o, NEW r \in c.records, NEW s \in c.records, r.nr < s.nr PROVE r.at < s.at
    <3>1. r # m
      <4>1. CASE s = m
        BY <2>5, <4>1
      <4>2. CASE s # m
        BY <2>3, <2>5, <4>2
      <4> QED
        BY <4>1, <4>2
    <3>2. PICK x \in doc.records : Fingerprint(x) = Fingerprint(r) /\ x.at = r.at /\ x.nr = r.nr
      BY <1>1, <3>1
    <3>3. CASE s = m
      BY <1>2, <1>3, <2>5, <3>2, <3>3
    <3>4. CASE s # m
      <4>1. PICK y \in doc.records : Fingerprint(y) = Fingerprint(s) /\ y.at = s.at /\ y.nr = s.nr
        BY <1>1, <3>4
      <4> QED
        BY <2>5, <3>2, <4>1 DEF Ordered
    <3> QED
      BY <3>3, <3>4
  <2> QED
    BY <2>1, <2>2, <2>4, <2>5 DEF Ordered, MadeOf
<1>6. RightlyLost(doc, c, m)
  BY DEF MadeOf, RightlyLost
<1> QED
  BY <1>4, <1>5, <1>6 DEF Trimming, MadeOf

\* What trimming leaves is still in order.
LEMMA PartOrdered ==
    ASSUME NEW c, NEW d, d.projects \subseteq c.projects, d.records \subseteq c.records,
           NEW n, NEW time, NEW inOrder, Ordered(c, n, time, inOrder)
    PROVE  Ordered(d, n, time, inOrder)
<1>1. IsFiniteSet(d.projects) /\ IsFiniteSet(d.records)
  BY FS_Subset DEF Ordered
<1> QED
  BY <1>1 DEF Ordered

\* And it comes from where it came from.
LEMMA PartComes ==
    ASSUME NEW doc, NEW c, NEW d, d.projects \subseteq c.projects, d.records \subseteq c.records,
           NEW m, NEW n, Comes(doc, c, m, n)
    PROVE  Comes(doc, d, m, n)
  BY DEF Comes

\* The ids and the fingerprints of a document being trimmed are of the whole.
LEMMA PartsOfAll ==
    ASSUME NEW doc, NEW c, NEW m, NEW n, Comes(doc, c, m, n)
    PROVE  IdsOf(c.projects) \subseteq AllIds(doc, m) /\ Prints(c.records) \subseteq AllPrints(doc, m)
  BY DEF Comes, IdsOf, Prints, AllIds, AllPrints

\* What is known of the stored document.
Fits(doc) == /\ WellFormed(doc) /\ IsFiniteSet(doc.projects) /\ IsFiniteSet(doc.records)
             /\ Cardinality(doc.projects) <= MaxProjects

\* There is only a finite amount to save.
LEMMA AllCount ==
    ASSUME NEW doc, Fits(doc), NEW m
    PROVE  /\ IsFiniteSet(AllIds(doc, m)) /\ IsFiniteSet(AllPrints(doc, m))
           /\ IsFiniteSet(IdsOf(doc.projects)) /\ Cardinality(IdsOf(doc.projects)) <= MaxProjects
<1>1. \A p, q \in doc.projects : p.id = q.id => p = q
  BY DEF Fits, WellFormed, OneOfEach
<1>2. IsFiniteSet(IdsOf(doc.projects)) /\ Cardinality(IdsOf(doc.projects)) <= MaxProjects
  BY <1>1, IdsCount DEF Fits
<1>3. doc.records \subseteq Record /\ OneEachOf(doc.records)
  BY DEF Fits, WellFormed, Document, OneOfEach, OneEachOf
<1>4. IsFiniteSet(Prints(doc.records))
  BY <1>3, PrintsCount DEF Fits
<1> QED
  BY <1>2, <1>4, FS_AddElement DEF AllIds, AllPrints

\* The stored document has no project too many, so only a new one can be, and the
\* least recent of the others is dropped for it.
LEMMA DroppedTrims ==
    ASSUME NEW doc, Fits(doc), NEW c, WellFormed(c), NEW m \in Record, NEW n \in Nat,
           NEW time, NEW inOrder \in BOOLEAN, Trimming(doc, c, m, n, time, inOrder),
           Cardinality(c.projects) > MaxProjects, NEW p \in LeastRecent(c)
    PROVE  Trimming(doc, WithoutProject(c, p), m, n, time, inOrder)
<1> DEFINE d == WithoutProject(c, p)
           I == AllIds(doc, m)
<1>1. d.projects = c.projects \ {p} /\ d.records = {r \in c.records : r.project # p.id}
  BY DEF WithoutProject
<1>2. p \in c.projects /\ \A q \in c.projects : p.nr <= q.nr
  BY DEF LeastRecent
<1>3. MaxProjects \in Nat \ {0}
  BY KnowledgeAssumption
<1>4. IsFiniteSet(c.projects) /\ IdsOf(c.projects) = I
  BY DEF Trimming, Ordered
<1>5. \A q, r \in c.projects : q.id = r.id => q = r
  BY DEF WellFormed, OneOfEach
<1>6. Cardinality(I) = Cardinality(c.projects) /\ Cardinality(I) \in Nat
  BY <1>4, <1>5, IdsCount, FS_CardinalityType
<1>7. /\ IsFiniteSet(IdsOf(doc.projects)) /\ Cardinality(IdsOf(doc.projects)) <= MaxProjects
      /\ Cardinality(IdsOf(doc.projects)) \in Nat
  BY AllCount, FS_CardinalityType
<1>8. /\ Cardinality(I) <= Cardinality(IdsOf(doc.projects)) + 1
      /\ m.project \notin IdsOf(doc.projects)
  <2> DEFINE J == IdsOf(doc.projects)
  <2>1. Cardinality(J \cup {m.project})
          = IF m.project \in J THEN Cardinality(J) ELSE Cardinality(J) + 1
    BY <1>7, FS_AddElement
  <2>2. I = J \cup {m.project}
    BY DEF AllIds
  <2>3. Cardinality(I) > MaxProjects
    BY <1>6
  <2> HIDE DEF I, J
  <2>4. Cardinality(J) \in Nat /\ Cardinality(J) <= MaxProjects
    BY <1>7 DEF J
  <2>5. Cardinality(I) = IF m.project \in J THEN Cardinality(J) ELSE Cardinality(J) + 1
    BY <2>1, <2>2
  <2> QED
    BY <1>3, <2>3, <2>4, <2>5 DEF J
<1>9. m.project \notin IdsOf(doc.projects)
  BY <1>8
<1>10. Cardinality(d.projects) = Cardinality(c.projects) - 1
  BY ZenonT(60), <1>1, <1>2, <1>4, FS_RemoveElement
<1>11. ~ (Cardinality(d.projects) > MaxProjects)
  BY <1>3, <1>6, <1>7, <1>8, <1>10
<1>12. Cardinality(c.projects) \in Nat /\ Cardinality(c.projects) > 1
  BY <1>3, <1>4, FS_CardinalityType
<1>13. PICK q \in c.projects : q # p
  <2> SUFFICES ASSUME c.projects \subseteq {p} PROVE FALSE
    OBVIOUS
  <2>1. c.projects = {p}
    BY <1>2
  <2> QED
    BY <1>12, <2>1, FS_Singleton
<1>14. \A r \in c.projects : r.nr \in Nat
  BY DEF WellFormed, Document, Project
<1>15. \A r \in c.projects : \/ r.id = m.project /\ r.nr = n
                             \/ \E s \in doc.projects : s.id = r.id /\ s.nr = r.nr
  BY DEF Trimming, Comes
<1>16. \A s \in doc.projects : s.nr < n
  BY DEF Trimming
<1>17. p.id # m.project
  <2> SUFFICES ASSUME p.id = m.project PROVE FALSE
    OBVIOUS
  <2>1. p.nr = n
    BY <1>2, <1>9, <1>15 DEF IdsOf
  <2>2. q.id # m.project
    BY <1>2, <1>5, <1>13
  <2>3. q.nr < n
    BY <1>15, <1>16, <2>2
  <2> QED
    BY <1>2, <1>13, <1>14, <2>1, <2>3
<1>18. PICK s \in doc.projects : s.id = p.id /\ s.nr = p.nr
  BY <1>2, <1>15, <1>17
<1>19. s \in LeastRecent(doc)
  <2> SUFFICES ASSUME NEW u \in doc.projects PROVE s.nr <= u.nr
    BY DEF LeastRecent
  <2>1. PICK v \in c.projects : v.id = u.id
    BY <1>4 DEF IdsOf, AllIds
  <2>2. u.id # m.project
    BY <1>9 DEF IdsOf
  <2>3. PICK z \in doc.projects : z.id = v.id /\ z.nr = v.nr
    BY <1>15, <2>1, <2>2
  <2>4. z = u
    BY <2>1, <2>3 DEF Fits, WellFormed, OneOfEach
  <2> QED
    BY <1>2, <1>18, <2>1, <2>3, <2>4
<1> HIDE DEF d
<1>20. ASSUME inOrder PROVE RightlyLost(doc, d, m)
  <2>1. RightlyLost(doc, c, m)
    BY <1>20 DEF Trimming
  <2>2. m \in d.records
    BY <1>1, <1>17, <2>1 DEF RightlyLost
  <2>3. Excess(AllPrints(doc, m), I)
    BY <1>6 DEF Excess
  <2>4. ASSUME NEW x \in LostOf(doc, d)
        PROVE  \/ /\ Cardinality(I) > MaxProjects
                  /\ \E u \in LeastRecent(doc) : u.id = x.project
               \/ \A y \in d.records : x.at < y.at
    <3>1. CASE x \in LostOf(doc, c)
      BY <1>1, <2>1, <3>1 DEF RightlyLost
    <3>2. CASE x \notin LostOf(doc, c)
      <4>1. PICK r \in c.records : Fingerprint(r) = Fingerprint(x)
        BY <2>4, <3>2 DEF LostOf
      <4>2. r.project = p.id
        BY <1>1, <2>4, <4>1 DEF LostOf
      <4>3. x.project = p.id
        BY <4>1, <4>2 DEF Fingerprint
      <4> QED
        BY <1>6, <1>18, <1>19, <4>3
    <3> QED
      BY <3>1, <3>2
  <2> QED
    BY <2>2, <2>3, <2>4 DEF RightlyLost
<1>21. Ordered(d, n, time, inOrder)
  BY <1>1, PartOrdered DEF Trimming
<1>22. Comes(doc, d, m, n)
  BY <1>1, PartComes DEF Trimming
<1> QED
  BY <1>11, <1>20, <1>21, <1>22 DEF Trimming, d

\* Every kind of record has a first one.
LEMMA FirstOfKind ==
    ASSUME NEW c, c.records \subseteq Record, NEW y \in c.records
    PROVE  \E f \in Firsts(c) : f.kind = y.kind /\ f.nr <= y.nr
<1> DEFINE K == {r \in c.records : r.kind = y.kind}
           N == {r.nr : r \in K}
<1>1. N \subseteq Nat /\ y.nr \in N
  BY DEF Record
<1>2. PICK k \in N : \A j \in N : k <= j
  BY <1>1, Least
<1>3. PICK f \in K : f.nr = k
  BY <1>2
<1>4. \A s \in K : f.nr <= s.nr
  BY <1>2, <1>3
<1> QED
  BY <1>1, <1>2, <1>3, <1>4 DEF Firsts

\* The evicted record is older than every other one as long as the clock advances.
LEMMA OldestIsOldest ==
    ASSUME NEW c, c.records \subseteq Record, NEW n, NEW time, Ordered(c, n, time, TRUE),
           NEW r \in Oldest(c)
    PROVE  r \in c.records /\ \A y \in c.records \ {r} : r.at < y.at
<1>1. /\ r \in c.records /\ \A s \in c.records : s.kind = r.kind => r.nr <= s.nr
      /\ \A s \in Firsts(c) \ {r} : r.at < s.at \/ r.at = s.at
  BY DEF Oldest, Firsts
<1>2. \A x \in c.records : x.nr \in Nat /\ x.at \in Nat
  BY DEF Record
<1>3. \A x, y \in c.records : x # y => x.nr # y.nr
  BY DEF Ordered
<1>4. \A x, y \in c.records : x.nr < y.nr => x.at < y.at
  BY DEF Ordered
<1>5. ASSUME NEW y \in c.records \ {r} PROVE r.at < y.at
  <2>1. CASE y.kind = r.kind
    <3>1. r.nr < y.nr
      BY <1>1, <1>2, <1>3, <2>1
    <3> QED
      BY <1>1, <1>4, <3>1
  <2>2. CASE y.kind # r.kind
    <3>1. PICK f \in Firsts(c) : f.kind = y.kind /\ f.nr <= y.nr
      BY FirstOfKind DEF Ordered
    <3>2. f \in c.records /\ f # r
      BY <2>2, <3>1 DEF Firsts
    <3>3. r.at <= f.at
      BY <1>1, <1>2, <3>1, <3>2
    <3>4. r.at # f.at
      BY <1>1, <1>2, <1>3, <1>4, <3>2
    <3>5. f.at <= y.at
      <4>1. CASE f = y
        BY <1>2, <4>1
      <4>2. CASE f # y
        <5>1. f.nr < y.nr
          BY <1>2, <1>3, <3>1, <3>2, <4>2
        <5> QED
          BY <1>2, <1>4, <3>2, <5>1
      <4> QED
        BY <4>1, <4>2
    <3> QED
      BY <1>1, <1>2, <3>2, <3>3, <3>4, <3>5
  <2> QED
    BY <2>1, <2>2
<1> QED
  BY <1>1, <1>5

\* A document that has to give up a record shows that not everything fits.
LEMMA TooMuch ==
    ASSUME NEW doc, Fits(doc), NEW m \in Record, NEW c, WellFormed(c),
           IsFiniteSet(c.projects), IsFiniteSet(c.records),
           IdsOf(c.projects) \subseteq AllIds(doc, m), Prints(c.records) \subseteq AllPrints(doc, m),
           Cardinality(c.records) > MaxEntries \/ Bytes(c) > MaxFileBytes
    PROVE  Excess(AllPrints(doc, m), AllIds(doc, m))
<1> DEFINE P == AllPrints(doc, m)
           I == AllIds(doc, m)
<1>1. IsFiniteSet(P) /\ IsFiniteSet(I)
  BY AllCount
<1>2. c.records \subseteq Record /\ OneEachOf(c.records)
  BY DEF WellFormed, Document, OneOfEach, OneEachOf
<1>3. /\ Cardinality(Prints(c.records)) = Cardinality(c.records)
      /\ Total(PrintSize, Prints(c.records)) = Total(RecordSize, c.records)
  BY <1>2, PrintsCount
<1>4. \A p, q \in c.projects : p.id = q.id => p = q
  BY DEF WellFormed, OneOfEach
<1>5. Cardinality(IdsOf(c.projects)) = Cardinality(c.projects)
  BY <1>4, IdsCount
<1>6. P \subseteq Kinds \X Projects \X Labels \X Bodies
  <2>1. \A r \in Record : Fingerprint(r) \in Kinds \X Projects \X Labels \X Bodies
    BY DEF Fingerprint, Record
  <2>2. doc.records \subseteq Record
    BY DEF Fits, WellFormed, Document
  <2> QED
    BY <2>1, <2>2 DEF AllPrints, Prints
<1>7. \A f \in P : PrintSize[f] \in Nat
  <2> SUFFICES ASSUME NEW f \in Kinds \X Projects \X Labels \X Bodies PROVE PrintSize[f] \in Nat
    BY <1>6
  <2>1. f[4] \in Bodies
    OBVIOUS
  <2>2. PrintSize[f] = Size[f[4]]
    BY DEF PrintSize
  <2> QED
    BY <2>1, <2>2, KnowledgeAssumption
<1> HIDE DEF P, I
<1>8. Cardinality(Prints(c.records)) <= Cardinality(P) /\ Cardinality(IdsOf(c.projects)) <= Cardinality(I)
  BY <1>1, FS_Subset DEF P, I
<1>9. Total(PrintSize, Prints(c.records)) <= Total(PrintSize, P)
  <2>1. \A R \in SUBSET P : Total(PrintSize, R) <= Total(PrintSize, P)
    BY <1>1, <1>7, TotalOfPart
  <2> QED
    BY <2>1 DEF P
<1>10. Bytes(c) = Cardinality(c.projects) + Total(RecordSize, c.records)
  BY <1>2, BytesOf
<1>11. /\ Cardinality(P) \in Nat /\ Cardinality(I) \in Nat /\ Cardinality(c.projects) \in Nat
       /\ Cardinality(c.records) \in Nat
  BY <1>1, FS_CardinalityType
<1>12. Total(PrintSize, P) \in Nat /\ Total(PrintSize, Prints(c.records)) \in Nat
  <2>1. \A S \in SUBSET P : TakesAny(PrintSize, S)
    BY <1>1, <1>7, TotalTakesAny
  <2>2. P \in SUBSET P /\ Prints(c.records) \in SUBSET P
    BY DEF P
  <2> QED
    BY <2>1, <2>2 DEF TakesAny
<1>13. MaxProjects \in Nat /\ MaxEntries \in Nat /\ MaxFileBytes \in Nat
  BY KnowledgeAssumption
<1>14. CASE Cardinality(c.records) > MaxEntries
  <2>1. Cardinality(P) > MaxEntries
    BY <1>3, <1>8, <1>11, <1>13, <1>14
  <2> QED
    BY <2>1 DEF Excess, P
<1>15. CASE Bytes(c) > MaxFileBytes
  <2>1. Cardinality(I) + Total(PrintSize, P) > MaxFileBytes
    BY <1>3, <1>5, <1>8, <1>9, <1>10, <1>11, <1>12, <1>13, <1>15
  <2> QED
    BY <2>1 DEF Excess, P, I
<1> QED
  BY <1>14, <1>15

\* An evicted record is older than all that stay, and not that of the call, which is
\* the latest of at least two.
LEMMA EvictedTrims ==
    ASSUME NEW doc, Fits(doc), NEW c, WellFormed(c), NEW m \in Record, NEW n \in Nat,
           NEW time, NEW inOrder \in BOOLEAN, Trimming(doc, c, m, n, time, inOrder),
           Cardinality(c.projects) <= MaxProjects,
           \/ Cardinality(c.records) > MaxEntries
           \/ Bytes(c) > MaxFileBytes /\ Cardinality(c.records) > 1,
           NEW r \in Oldest(c)
    PROVE  Trimming(doc, WithoutRecord(c, r), m, n, time, inOrder)
<1> DEFINE d == WithoutRecord(c, r)
<1>1. d.projects \subseteq c.projects /\ d.records = c.records \ {r}
  BY DEF WithoutRecord
<1> HIDE DEF d
<1>2. Ordered(d, n, time, inOrder) /\ Comes(doc, d, m, n)
  BY <1>1, PartOrdered, PartComes DEF Trimming
<1>3. IsFiniteSet(c.projects) /\ IsFiniteSet(c.records)
  BY DEF Trimming, Ordered
<1>4. MaxProjects \in Nat /\ MaxEntries \in Nat \ {0}
  BY KnowledgeAssumption
<1>5. ~ (Cardinality(d.projects) > MaxProjects)
  <2>1. /\ Cardinality(d.projects) <= Cardinality(c.projects)
        /\ IsFiniteSet(d.projects)
    BY <1>1, <1>3, FS_Subset
  <2>2. Cardinality(d.projects) \in Nat /\ Cardinality(c.projects) \in Nat
    BY <1>3, <2>1, FS_CardinalityType
  <2> QED
    BY <1>4, <2>1, <2>2
<1>6. ASSUME inOrder PROVE RightlyLost(doc, d, m)
  <2>1. RightlyLost(doc, c, m)
    BY <1>6 DEF Trimming
  <2>2. c.records \subseteq Record
    BY DEF WellFormed, Document
  <2>3. Ordered(c, n, time, TRUE)
    BY <1>6 DEF Trimming, Ordered
  <2>4. r \in c.records /\ \A y \in c.records \ {r} : r.at < y.at
    BY <2>2, <2>3, OldestIsOldest
  <2>5. PICK z \in c.records : z # m
    <3> SUFFICES ASSUME c.records \subseteq {m} PROVE FALSE
      OBVIOUS
    <3>1. c.records = {m}
      BY <2>1 DEF RightlyLost
    <3>2. Cardinality(c.records) = 1
      BY <3>1, FS_Singleton
    <3> QED
      BY <1>4, <3>2
  <2>6. z.at < m.at
    <3>1. z.nr <= n /\ m.nr = n /\ m \in c.records
      BY <2>1, <2>5 DEF Trimming, Ordered, RightlyLost
    <3>2. z.nr # m.nr
      BY <2>5, <3>1 DEF Trimming, Ordered
    <3>3. z.nr < m.nr
      <4>1. z.nr \in Nat
        BY <2>2, <2>5 DEF Record
      <4> QED
        BY <3>1, <3>2, <4>1
    <3> QED
      BY <2>3, <2>5, <3>1, <3>3 DEF Ordered
  <2>7. r # m
    <3>1. z.at \in Nat /\ m.at \in Nat
      BY <2>2 DEF Record
    <3> QED
      BY <2>4, <2>5, <2>6, <3>1
  <2>8. m \in d.records
    BY <1>1, <2>1, <2>7 DEF RightlyLost
  <2>9. Excess(AllPrints(doc, m), AllIds(doc, m))
    <3>1. IdsOf(c.projects) \subseteq AllIds(doc, m) /\ Prints(c.records) \subseteq AllPrints(doc, m)
      BY PartsOfAll DEF Trimming
    <3> QED
      BY <1>3, <3>1, TooMuch
  <2>10. ASSUME NEW x \in LostOf(doc, d)
         PROVE  \/ /\ Cardinality(AllIds(doc, m)) > MaxProjects
                   /\ \E u \in LeastRecent(doc) : u.id = x.project
                \/ \A y \in d.records : x.at < y.at
    <3>1. CASE x \in LostOf(doc, c)
      BY <1>1, <2>1, <3>1 DEF RightlyLost
    <3>2. CASE x \notin LostOf(doc, c)
      <4>1. x \in doc.records /\ \A y \in d.records : Fingerprint(y) # Fingerprint(x)
        BY <2>10 DEF LostOf
      <4>2. Fingerprint(r) = Fingerprint(x)
        BY <1>1, <3>2, <4>1 DEF LostOf
      <4>3. PICK o \in doc.records : Fingerprint(o) = Fingerprint(r) /\ o.at = r.at
        BY <2>4, <2>7 DEF Trimming, Comes
      <4>4. o = x
        BY <4>1, <4>2, <4>3 DEF Fits, WellFormed, OneOfEach
      <4> QED
        BY <1>1, <2>4, <4>3, <4>4
    <3> QED
      BY <3>1, <3>2
  <2> QED
    BY <2>8, <2>9, <2>10 DEF RightlyLost
<1> QED
  BY <1>2, <1>5, <1>6 DEF Trimming, d

\* A document, and what a saved one lacks of it, are together all that had to fit.
Whole(doc, c) ==
    [projects |-> c.projects \cup {p \in doc.projects : \A q \in c.projects : q.id # p.id},
     records |-> c.records \cup LostOf(doc, c)]

\* It weighs what all ids and fingerprints weigh.
LEMMA WholeCounts ==
    ASSUME NEW doc, Fits(doc), NEW c, WellFormed(c), IsFiniteSet(c.projects),
           IsFiniteSet(c.records), NEW m \in c.records, NEW n, Comes(doc, c, m, n)
    PROVE  /\ Cardinality(Whole(doc, c).projects) = Cardinality(AllIds(doc, m))
           /\ Excess(AllPrints(doc, m), AllIds(doc, m)) => ~ WithinLimits(Whole(doc, c))
<1> DEFINE w == Whole(doc, c)
           P == AllPrints(doc, m)
           I == AllIds(doc, m)
<1>1. /\ w.projects = c.projects \cup {p \in doc.projects : \A q \in c.projects : q.id # p.id}
      /\ w.records = c.records \cup LostOf(doc, c)
  BY DEF Whole
<1> HIDE DEF w
<1>2. w.records \subseteq Record
  BY <1>1 DEF LostOf, Fits, WellFormed, Document
<1>3. IsFiniteSet(w.projects) /\ IsFiniteSet(w.records)
  <2> DEFINE gone == {p \in doc.projects : \A q \in c.projects : q.id # p.id}
  <2>1. IsFiniteSet(gone)
    BY FS_Subset DEF Fits
  <2>2. IsFiniteSet(LostOf(doc, c))
    BY FS_Subset DEF Fits, LostOf
  <2>3. w.projects = c.projects \cup gone
    BY <1>1
  <2> HIDE DEF gone
  <2>4. IsFiniteSet(c.projects \cup gone)
    BY <2>1, FS_Union
  <2>5. IsFiniteSet(c.records \cup LostOf(doc, c))
    BY <2>2, FS_Union
  <2> QED
    BY <1>1, <2>3, <2>4, <2>5
<1>4. \A p, q \in w.projects : p.id = q.id => p = q
  BY <1>1 DEF Fits, WellFormed, OneOfEach
<1>5. OneEachOf(w.records)
  BY <1>1 DEF Fits, WellFormed, OneOfEach, OneEachOf, LostOf
<1>6. IdsOf(w.projects) = I
  <2>1. IdsOf(c.projects) \subseteq I
    BY PartsOfAll
  <2>2. \E p \in c.projects : p.id = m.project
    BY DEF WellFormed, Referenced
  <2>3. IdsOf(w.projects) \subseteq I
    BY <1>1, <2>1 DEF IdsOf, AllIds
  <2>4. ASSUME NEW p \in doc.projects PROVE p.id \in IdsOf(w.projects)
    BY <1>1 DEF IdsOf
  <2>5. m.project \in IdsOf(w.projects)
    BY <1>1, <2>2 DEF IdsOf
  <2>6. \A i \in I : i \in IdsOf(w.projects)
    BY <2>4, <2>5 DEF AllIds, IdsOf
  <2> QED
    BY <2>3, <2>6
<1>7. Prints(w.records) = P
  <2>1. Prints(c.records) \subseteq P
    BY PartsOfAll
  <2>2. Prints(w.records) \subseteq P
    BY <1>1, <2>1 DEF Prints, AllPrints, LostOf
  <2>3. ASSUME NEW x \in doc.records PROVE Fingerprint(x) \in Prints(w.records)
    BY <1>1 DEF Prints, LostOf
  <2>4. Fingerprint(m) \in Prints(w.records)
    BY <1>1 DEF Prints
  <2>5. \A i \in P : i \in Prints(w.records)
    BY <2>3, <2>4 DEF AllPrints, Prints
  <2> QED
    BY <2>2, <2>5
<1>8. Cardinality(w.projects) = Cardinality(I)
  BY <1>3, <1>4, <1>6, IdsCount
<1>9. /\ Cardinality(P) = Cardinality(w.records)
      /\ Total(PrintSize, P) = Total(RecordSize, w.records)
  BY <1>2, <1>3, <1>5, <1>7, PrintsCount
<1>10. Bytes(w) = Cardinality(I) + Total(PrintSize, P)
  <2>1. Bytes(w) = Cardinality(w.projects) + Total(RecordSize, w.records)
    BY <1>2, BytesOf
  <2> QED
    BY <1>8, <1>9, <2>1
<1>11. /\ Cardinality(I) \in Nat /\ Cardinality(P) \in Nat
       /\ MaxProjects \in Nat /\ MaxEntries \in Nat /\ MaxFileBytes \in Nat
  BY <1>3, <1>8, <1>9, FS_CardinalityType, KnowledgeAssumption
<1>12. Total(PrintSize, P) \in Nat
  <2>1. \A r \in w.records : RecordSize[r] \in Nat
    BY <1>2, KnowledgeAssumption DEF RecordSize, Record
  <2>2. \A S \in SUBSET w.records : TakesAny(RecordSize, S)
    BY <1>3, <2>1, TotalTakesAny
  <2>3. Total(RecordSize, w.records) \in Nat
    BY <2>2 DEF TakesAny
  <2> QED
    BY <1>9, <2>3
<1>13. ASSUME Excess(P, I), WithinLimits(w) PROVE FALSE
  <2> HIDE DEF P, I
  <2> QED
    BY <1>8, <1>9, <1>10, <1>11, <1>12, <1>13 DEF Excess, WithinLimits
<1> QED
  BY <1>8, <1>13 DEF w

-----------------------------------------------------------------------------

\* A document stays in order while the clock and the calls go on.
LEMMA LaterOrdered ==
    ASSUME NEW doc, doc.records \subseteq Record, doc.projects \subseteq Project,
           NEW n \in Nat, NEW k \in Nat, n <= k,
           NEW time \in Nat, NEW later \in Nat, time <= later, NEW inOrder,
           NEW still, still => inOrder, Ordered(doc, n, time, inOrder)
    PROVE  Ordered(doc, k, later, still)
<1>1. \A p \in doc.projects : p.nr \in Nat
  BY DEF Project
<1>2. \A r \in doc.records : r.nr \in Nat /\ r.at \in Nat
  BY DEF Record
<1> QED
  BY <1>1, <1>2 DEF Ordered

\* The stored document is within the limits, as it was saved.
LEMMA StoredFits ==
    ASSUME KnowledgeInv, TrimInv PROVE Fits(Stored)
<1>1. WellFormed(Stored)
  BY EmptyWellFormed DEF KnowledgeInv, Stored
<1>2. IsFiniteSet(Stored.projects) /\ IsFiniteSet(Stored.records)
  BY DEF TrimInv, Ordered
<1>3. Cardinality(Stored.projects) <= MaxProjects
  <2>1. CASE file = None
    <3>1. Stored.projects = {}
      BY <2>1 DEF Stored, Empty
    <3> QED
      BY <3>1, FS_EmptySet, KnowledgeAssumption
  <2>2. CASE file # None
    BY <2>2 DEF Stored, KnowledgeInv, WithinLimits
  <2> QED
    BY <2>1, <2>2
<1> QED
  BY <1>1, <1>2, <1>3 DEF Fits

\* The invariant of the loops is established, and kept by every step.
LEMMA TrimInit == Init => TrimInv
<1> SUFFICES ASSUME Init PROVE TrimInv
  OBVIOUS
<1>1. Stored.projects = {} /\ Stored.records = {}
  BY DEF Init, Stored, Empty
<1>2. Ordered(Stored, calls, now, steady)
  BY <1>1, FS_EmptySet DEF Ordered
<1> QED
  BY <1>2 DEF Init, TrimInv

\* A call starts trimming with the lock, so it is the only one that does.
LEMMA TrimLoad ==
    ASSUME KnowledgeInv, KnowledgeInv', TrimInv, NEW t \in Threads, Load(t) PROVE TrimInv'
<1> DEFINE label(project, sanitize) == sanitize[RawLabel[project]]
           record(kind, project, body, sanitize, at) ==
             [kind |-> kind, project |-> project, named |-> label(project, sanitize),
              body |-> body, label |-> label(project, sanitize), at |-> at, nr |-> calls']
           loaded(r, sanitize) ==
             Recorded(Touched(Sanitized(Stored, sanitize), r.project, r.label, calls'), r)
<1>1. PICK kind \in Kinds, project \in Projects, body \in Bodies, sanitize \in Sanitizers :
        \E at \in {0, now, now + 1} :
          LET m == record(kind, project, body, sanitize, at)
          IN  /\ mine' = [mine EXCEPT ![t] = m]
              /\ copy' = [copy EXCEPT ![t] =
                   Recorded(Touched(Sanitized(Stored, sanitize), project,
                                    label(project, sanitize), calls'), m)]
              /\ now' = IF at > now THEN at ELSE now
              /\ steady' = (steady /\ at > now)
  BY DEF Load
<1>2. PICK at \in {0, now, now + 1} :
          LET m == record(kind, project, body, sanitize, at)
          IN  /\ mine' = [mine EXCEPT ![t] = m]
              /\ copy' = [copy EXCEPT ![t] =
                   Recorded(Touched(Sanitized(Stored, sanitize), project,
                                    label(project, sanitize), calls'), m)]
              /\ now' = IF at > now THEN at ELSE now
              /\ steady' = (steady /\ at > now)
  BY <1>1
<1> DEFINE m == record(kind, project, body, sanitize, at)
           c == loaded(m, sanitize)
<1>3. m.project = project /\ m.label = label(project, sanitize) /\ m.at = at /\ m.nr = calls'
  OBVIOUS
<1>4. now \in Nat /\ calls \in Nat /\ calls' = calls + 1 /\ steady \in BOOLEAN
  BY DEF Load, KnowledgeInv, TypeOK
<1>5. m \in Record /\ sanitize \in [Labels -> Labels]
  <2>1. sanitize \in [Labels -> Labels] /\ RawLabel[project] \in Labels
    BY KnowledgeAssumption
  <2> QED
    BY <1>4, <2>1 DEF Record
<1>6. mine' = [mine EXCEPT ![t] = m] /\ copy' = [copy EXCEPT ![t] = c]
  BY <1>2, <1>3
<1>7. now' = (IF at > now THEN at ELSE now) /\ steady' = (steady /\ at > now)
  BY <1>2
<1>8. at \in Nat /\ now' \in Nat /\ at <= now' /\ now <= now'
  BY <1>2, <1>4, <1>7
<1> HIDE DEF m, c, record, label
<1>9. mine'[t] = m /\ copy'[t] = c
  BY <1>6 DEF KnowledgeInv, TypeOK
<1>10. Fits(Stored) /\ Ordered(Stored, calls, now, steady)
  BY StoredFits DEF TrimInv
<1>11. WellFormed(c)
  BY <1>9 DEF KnowledgeInv
<1>12. MadeOf(Stored, c, m, calls + 1)
  <2>1. calls + 1 \in Nat
    BY <1>4
  <2>2. MadeOf(Stored, Recorded(Touched(Sanitized(Stored, sanitize), m.project, m.label,
                                        calls + 1), m), m, calls + 1)
    BY <1>5, <1>10, <2>1, LoadedMadeOf DEF Fits
  <2> QED
    BY <1>4, <2>2 DEF c
<1>13. Stored.records \subseteq Record /\ Stored.projects \subseteq Project
  BY <1>10 DEF Fits, WellFormed, Document
<1>14. Trimming(Stored, c, m, calls + 1, now', steady /\ m.at > now)
  BY <1>3, <1>4, <1>5, <1>8, <1>10, <1>11, <1>12, <1>13, LoadedTrims
<1>15. Ordered(Stored, calls', now', steady')
  <2>1. steady' => steady
    BY <1>7
  <2>2. calls' \in Nat /\ calls <= calls'
    BY <1>4
  <2> QED
    BY <1>4, <1>8, <1>10, <1>13, <2>1, <2>2, LaterOrdered
<1>16. Stored' = Stored
  BY DEF Load, Stored
<1>17. Trimming(Stored, c, m, calls', now', steady')
  BY <1>3, <1>4, <1>7, <1>14
<1>18. \A s \in Threads : pc'[s] = "save" => s = t
  <2> SUFFICES ASSUME NEW s \in Threads, s # t, pc'[s] = "save" PROVE FALSE
    OBVIOUS
  <2>1. pc[s] = "save"
    BY DEF Load, KnowledgeInv, TypeOK
  <2> QED
    BY <2>1, KnowledgeAssumption DEF TrimInv, Load, Free
<1>19. lock' = t
  BY DEF Load
<1> QED
  BY <1>9, <1>15, <1>16, <1>17, <1>18, <1>19 DEF TrimInv

\* A round of the loops of the only thread that is trimming.
LEMMA TrimRound ==
    ASSUME KnowledgeInv, TrimInv, NEW t \in Threads, pc[t] = "save", NEW d,
           copy' = [copy EXCEPT ![t] = d], Trimming(Stored, d, mine[t], calls, now, steady),
           UNCHANGED <<file, lock, pc, mine, now, steady, calls, faults>>
    PROVE  TrimInv'
<1>1. Stored' = Stored
  BY DEF Stored
<1>2. lock = t /\ \A s \in Threads : pc[s] = "save" => s = t
  BY DEF TrimInv
<1>3. copy'[t] = d
  BY DEF KnowledgeInv, TypeOK
<1> QED
  BY <1>1, <1>2, <1>3 DEF TrimInv

\* Whatever ends a call ends the trimming; what it saved is in order.
LEMMA TrimLeave ==
    ASSUME KnowledgeInv, TrimInv, NEW t \in Threads, pc[t] = "save", Leave(t),
           file' = file \/ file' = copy[t], UNCHANGED <<now, steady, calls>>
    PROVE  TrimInv'
<1>1. Stored' = Stored \/ Stored' = copy[t]
  BY NoFileAssumption DEF Stored, KnowledgeInv, TypeOK
<1>2. Ordered(Stored, calls, now, steady) /\ Ordered(copy[t], calls, now, steady)
  BY DEF TrimInv, Trimming
<1>3. Ordered(Stored', calls', now', steady')
  BY <1>1, <1>2
<1>4. \A s \in Threads : pc'[s] # "save"
  BY DEF TrimInv, Leave, KnowledgeInv, TypeOK
<1> QED
  BY <1>3, <1>4 DEF TrimInv

\* Every step keeps the invariant.
LEMMA TrimNext ==
    KnowledgeInv /\ KnowledgeInv' /\ TrimInv /\ [Next]_vars => TrimInv'
<1> SUFFICES ASSUME KnowledgeInv, KnowledgeInv', TrimInv, [Next]_vars PROVE TrimInv'
  OBVIOUS
<1>1. CASE UNCHANGED vars
  BY <1>1 DEF vars, TrimInv, Stored
<1> DEFINE trims(t) == /\ mine[t] \in Record /\ WellFormed(copy[t])
                       /\ Trimming(Stored, copy[t], mine[t], calls, now, steady)
<1>2. \A t \in Threads : pc[t] = "save" => trims(t)
  BY DEF KnowledgeInv, TrimInv
<1>3. Fits(Stored) /\ calls \in Nat /\ steady \in BOOLEAN
  BY StoredFits DEF KnowledgeInv, TypeOK
<1>4. ASSUME NEW t \in Threads, DropProject(t) PROVE TrimInv'
  <2>1. PICK p \in LeastRecent(copy[t]) : copy' = [copy EXCEPT ![t] = WithoutProject(copy[t], p)]
    BY <1>4 DEF DropProject
  <2>2. pc[t] = "save" /\ Cardinality(copy[t].projects) > MaxProjects
    BY <1>4 DEF DropProject
  <2>3. Trimming(Stored, WithoutProject(copy[t], p), mine[t], calls, now, steady)
    BY <1>2, <1>3, <2>2, DroppedTrims
  <2> QED
    BY <1>4, <2>1, <2>2, <2>3, TrimRound DEF DropProject
<1>5. ASSUME NEW t \in Threads, EvictOldest(t) PROVE TrimInv'
  <2>1. PICK r \in Oldest(copy[t]) : copy' = [copy EXCEPT ![t] = WithoutRecord(copy[t], r)]
    BY <1>5 DEF EvictOldest
  <2>2. /\ pc[t] = "save" /\ Cardinality(copy[t].projects) <= MaxProjects
        /\ \/ Cardinality(copy[t].records) > MaxEntries
           \/ Bytes(copy[t]) > MaxFileBytes /\ Cardinality(copy[t].records) > 1
    BY <1>5 DEF EvictOldest
  <2>3. Trimming(Stored, WithoutRecord(copy[t], r), mine[t], calls, now, steady)
    BY <1>2, <1>3, <2>2, EvictedTrims
  <2> QED
    BY <1>5, <2>1, <2>2, <2>3, TrimRound DEF EvictOldest
<1>6. ASSUME NEW t \in Threads, Replace(t) PROVE TrimInv'
  BY <1>6, TrimLeave DEF Replace
<1>7. ASSUME NEW t \in Threads, TooLarge(t) PROVE TrimInv'
  BY <1>7, TrimLeave DEF TooLarge
<1>8. ASSUME NEW t \in Threads, Fail(t) PROVE TrimInv'
  BY <1>8, TrimLeave DEF Fail
<1> QED
  BY <1>1, <1>4, <1>5, <1>6, <1>7, <1>8, TrimLoad DEF Next

\* What a save loses, it loses rightly.
LEMMA SavesRightly ==
    ASSUME KnowledgeInv, TrimInv, [Next]_vars, file' # file, steady PROVE LosesTheOldest
<1>1. PICK t \in Threads : Replace(t)
  BY DEF Next, vars, Load, DropProject, EvictOldest, TooLarge, Fail
<1> DEFINE c == copy[t]
           m == mine[t]
<1>2. pc[t] = "save" /\ file' = c /\ pc'[t] = "idle"
  BY <1>1 DEF Replace, Leave, KnowledgeInv, TypeOK
<1>3. WellFormed(c) /\ m \in Record /\ c # None
  BY <1>2, NoFileAssumption DEF KnowledgeInv, WellFormed
<1>4. Trimming(Stored, c, m, calls, now, steady)
  BY <1>2 DEF TrimInv
<1>5. RightlyLost(Stored, c, m) /\ Comes(Stored, c, m, calls)
  BY <1>4 DEF Trimming
<1>6. IsFiniteSet(c.projects) /\ IsFiniteSet(c.records)
  BY <1>4 DEF Trimming, Ordered
<1> HIDE DEF c, m
<1>7. m \in c.records
  BY <1>5 DEF RightlyLost
<1>8. /\ Cardinality(Whole(Stored, c).projects) = Cardinality(AllIds(Stored, m))
      /\ Excess(AllPrints(Stored, m), AllIds(Stored, m)) => ~ WithinLimits(Whole(Stored, c))
  BY <1>3, <1>5, <1>6, <1>7, StoredFits, WholeCounts
<1> DEFINE lost == Missing(file').records
           all == [projects |-> file'.projects \cup Missing(file').projects,
                   records |-> file'.records \cup lost]
<1>9. lost = LostOf(Stored, c) /\ all = Whole(Stored, c)
  BY <1>2 DEF Missing, LostOf, Whole
<1> HIDE DEF lost, all
<1>10. lost # {} => ~ WithinLimits(all)
  BY <1>5, <1>8, <1>9 DEF RightlyLost
<1>11. \A x \in lost : \/ /\ Cardinality(all.projects) > MaxProjects
                          /\ \E p \in LeastRecent(Stored) : p.id = x.project
                       \/ \A y \in file'.records : x.at < y.at
  BY <1>2, <1>5, <1>8, <1>9 DEF RightlyLost
<1> QED
  BY <1>2, <1>3, <1>7, <1>10, <1>11 DEF LosesTheOldest, lost, all, m

\* For any threads, limits and order of calls: as long as the clock advances, the
\* oldest records and projects go first, and only when something has to.
THEOREM OldestRecordsGoFirst == Spec => OldestGoFirst
<1> DEFINE Inv == KnowledgeInv /\ TrimInv
<1>1. Init => Inv
  BY KnowledgeInit, TrimInit
<1>2. Inv /\ [Next]_vars => Inv'
  BY KnowledgeNext, TrimNext
<1>3. Inv /\ [Next]_vars => [steady => LosesTheOldest]_file
  BY SavesRightly
<1> HIDE DEF Inv
<1> QED
  BY <1>1, <1>2, <1>3, PTL DEF Spec, OldestGoFirst

=============================================================================
