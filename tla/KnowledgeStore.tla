--------------------------- MODULE KnowledgeStore ---------------------------
(***************************************************************************)
(* The local knowledge cache (services/local_knowledge.py): one bounded    *)
(* JSON document of projects and records that remember and                 *)
(* record_resolution load, change, trim and replace under a lock that all  *)
(* threads share. A list, or the order of a dictionary, is a set whose     *)
(* members carry the number nr of their insertion. The trimming loops of   *)
(* _save take a step for every round, on the thread's own copy.            *)
(***************************************************************************)
EXTENDS Naturals, FiniteSets, FiniteSetsExt

CONSTANTS
    Threads,
    Projects,           \* hashed identities of projects (_identity)
    Labels, RawLabel,   \* project labels, and the one a project is submitted with
    Sanitizers,         \* what the secrets of a call make of labels
    Bodies, Size,       \* contents of records, and their share of the file
    MaxProjects, MaxEntries, MaxFileBytes,
    MaxCalls, MaxFaults,    \* bounds
    None                    \* no thread, no record, no file

ASSUME KnowledgeAssumption ==
    /\ RawLabel \in [Projects -> Labels] /\ Sanitizers \subseteq [Labels -> Labels]
    /\ Size \in [Bodies -> Nat]
    /\ {MaxProjects, MaxEntries} \subseteq Nat \ {0}
    /\ {MaxFileBytes, MaxCalls, MaxFaults} \subseteq Nat
    /\ None \notin Threads

VARIABLES
    file,           \* knowledge.json, None before the first save
    lock,           \* _LOCK
    pc, copy, mine, \* of each thread: its place, the document it works on, its record
    now,            \* the latest time the clock has shown
    steady,         \* whether the clock has advanced at every call
    calls,          \* the calls that have loaded the document; numbers insertions too
    faults

vars == <<file, lock, pc, copy, mine, now, steady, calls, faults>>

Kinds == {"observation", "confirmed_resolution"}

Project == [id : Projects, label : Labels, nr : Nat]

\* named is the label in the fingerprint, label the one of the project today.
Record == [kind : Kinds, project : Projects, named : Labels, body : Bodies,
           label : Labels, at : Nat, nr : Nat]

Document == [projects : SUBSET Project, records : SUBSET Record]

ASSUME NoFileAssumption == None \notin Document

Empty == [projects |-> {}, records |-> {}]

\* The document a call starts from: without a file, an empty one (_empty).
Stored == IF file = None THEN Empty ELSE file

\* What _fingerprint is taken of.
Fingerprint(r) == <<r.kind, r.project, r.named, r.body>>

-----------------------------------------------------------------------------
(* What the next load demands (_validate). *)

Bytes(doc) == Cardinality(doc.projects)
                + MapThenSumSet(LAMBDA r : Size[r.body], doc.records)

WithinLimits(doc) ==
    /\ Cardinality(doc.projects) <= MaxProjects
    /\ Cardinality(doc.records) <= MaxEntries
    /\ Bytes(doc) <= MaxFileBytes

OneOfEach(doc) ==
    /\ \A p, q \in doc.projects : p.id = q.id => p = q
    /\ \A r, s \in doc.records : Fingerprint(r) = Fingerprint(s) => r = s

\* A record has its project, under the same label, and no project is without one.
Referenced(doc) ==
    /\ \A r \in doc.records : \E p \in doc.projects : p.id = r.project /\ p.label = r.label
    /\ \A p \in doc.projects : \E r \in doc.records : r.project = p.id

Loads(doc) == WithinLimits(doc) /\ OneOfEach(doc) /\ Referenced(doc)

-----------------------------------------------------------------------------
(* What a call does to the document. *)

\* _load sanitizes what it reads with the secrets of the call.
Sanitized(doc, sanitize) ==
    [projects |-> {[p EXCEPT !.label = sanitize[p.label]] : p \in doc.projects},
     records |-> {[r EXCEPT !.label = sanitize[r.label]] : r \in doc.records}]

\* The labels of a project that is not that of the call.
Relabelled_Project(doc, project, label) == doc.records      \* mutant: only the project
Relabelled(doc, project, label) ==
    {IF r.project = project THEN [r EXCEPT !.label = label] ELSE r : r \in doc.records}

\* _touch_project
Touched(doc, project, label, nr) ==
    [projects |-> {p \in doc.projects : p.id # project}
                    \cup {[id |-> project, label |-> label, nr |-> nr]},
     records |-> Relabelled(doc, project, label)]

\* The record goes to the end of its list, and an equal one leaves it.
Recorded(doc, record) ==
    [doc EXCEPT !.records = {r \in doc.records : Fingerprint(r) # Fingerprint(record)}
                              \cup {record}]

\* _drop_project, of the project touched least recently.
LeastRecent(doc) == {p \in doc.projects : \A q \in doc.projects : p.nr <= q.nr}
WithoutProject(doc, p) ==
    [projects |-> doc.projects \ {p}, records |-> {r \in doc.records : r.project # p.id}]

\* _evict_oldest compares the first record of either list; of two equal times the
\* observation goes.
Firsts(doc) == {r \in doc.records : \A s \in doc.records : s.kind = r.kind => r.nr <= s.nr}
Oldest(doc) == {r \in Firsts(doc) : \A s \in Firsts(doc) \ {r} :
                  r.at < s.at \/ (r.at = s.at /\ r.kind = "observation")}
WithoutRecord(doc, r) ==
    LET left == doc.records \ {r}
    IN  [projects |-> {p \in doc.projects : p.id = r.project => \E s \in left : s.project = p.id},
         records |-> left]

-----------------------------------------------------------------------------

Init ==
    /\ file = None /\ lock = None
    /\ pc = [t \in Threads |-> "idle"]
    /\ copy = [t \in Threads |-> Empty]
    /\ mine = [t \in Threads |-> None]
    /\ now = 0 /\ steady = TRUE /\ calls = 0 /\ faults = 0

Free_Always == TRUE             \* mutant: a lock of each object
Free == lock = None

\* The lock is taken, the document is loaded and sanitized, the project touched and
\* the record appended. The clock (datetime.now) may advance, stand or go back. A
\* document that does not load is refused, here and for ever.
Load(t) ==
    /\ pc[t] = "idle" /\ Free /\ calls < MaxCalls
    /\ file # None => Loads(file)
    /\ lock' = t
    /\ calls' = calls + 1
    /\ \E kind \in Kinds, project \in Projects, body \in Bodies, sanitize \in Sanitizers :
       \E at \in {0, now, now + 1} :
         LET label == sanitize[RawLabel[project]]
             record == [kind |-> kind, project |-> project, named |-> label, body |-> body,
                        label |-> label, at |-> at, nr |-> calls']
         IN  /\ mine' = [mine EXCEPT ![t] = record]
             /\ copy' = [copy EXCEPT ![t] =
                  Recorded(Touched(Sanitized(Stored, sanitize), project, label, calls'), record)]
             /\ now' = IF at > now THEN at ELSE now
             /\ steady' = (steady /\ at > now)
    /\ pc' = [pc EXCEPT ![t] = "save"]
    /\ UNCHANGED <<file, faults>>

\* A round of the first loop of _save.
DropProject(t) ==
    /\ pc[t] = "save" /\ Cardinality(copy[t].projects) > MaxProjects
    /\ \E p \in LeastRecent(copy[t]) : copy' = [copy EXCEPT ![t] = WithoutProject(copy[t], p)]
    /\ UNCHANGED <<file, lock, pc, mine, now, steady, calls, faults>>

\* A round of the other two.
EvictOldest(t) ==
    /\ pc[t] = "save" /\ Cardinality(copy[t].projects) <= MaxProjects
    /\ \/ Cardinality(copy[t].records) > MaxEntries
       \/ Bytes(copy[t]) > MaxFileBytes /\ Cardinality(copy[t].records) > 1
    /\ \E r \in Oldest(copy[t]) : copy' = [copy EXCEPT ![t] = WithoutRecord(copy[t], r)]
    /\ UNCHANGED <<file, lock, pc, mine, now, steady, calls, faults>>

Leave(t) ==
    /\ lock' = None
    /\ pc' = [pc EXCEPT ![t] = "idle"]
    /\ copy' = [copy EXCEPT ![t] = Empty]
    /\ mine' = [mine EXCEPT ![t] = None]

\* The temporary file is written and replaces the document in one step.
Replace(t) ==
    /\ pc[t] = "save" /\ WithinLimits(copy[t])
    /\ file' = copy[t]
    /\ Leave(t)
    /\ UNCHANGED <<now, steady, calls, faults>>

\* A single record that is too large.
TooLarge(t) ==
    /\ pc[t] = "save" /\ Cardinality(copy[t].projects) <= MaxProjects
    /\ Cardinality(copy[t].records) <= MaxEntries
    /\ Bytes(copy[t]) > MaxFileBytes /\ Cardinality(copy[t].records) <= 1
    /\ Leave(t)
    /\ UNCHANGED <<file, now, steady, calls, faults>>

\* The file cannot be written or replaced, or the process dies before it is.
Fail(t) ==
    /\ pc[t] = "save" /\ faults < MaxFaults
    /\ faults' = faults + 1
    /\ Leave(t)
    /\ UNCHANGED <<file, now, steady, calls>>

Next == \E t \in Threads : \/ Load(t) \/ DropProject(t) \/ EvictOldest(t)
                           \/ Replace(t) \/ TooLarge(t) \/ Fail(t)

Spec == Init /\ [][Next]_vars

-----------------------------------------------------------------------------
(* Properties. *)

TypeOK ==
    /\ file \in Document \cup {None}
    /\ lock \in Threads \cup {None}
    /\ pc \in [Threads -> {"idle", "save"}]
    /\ copy \in [Threads -> Document]
    /\ mine \in [Threads -> Record \cup {None}]
    /\ now \in Nat /\ steady \in BOOLEAN
    /\ calls \in Nat /\ faults \in 0..MaxFaults

\* Whatever is redacted, relabelled, dropped or evicted, and whatever the clock does,
\* the saved document passes the validation of the next load, which fails closed.
SavedDocumentLoads == file # None => Loads(file)

\* What of the stored document is not in another one any more.
Missing(doc) ==
    [projects |-> {p \in Stored.projects : \A q \in doc.projects : q.id # p.id},
     records |-> {x \in Stored.records : \A y \in doc.records : Fingerprint(y) # Fingerprint(x)}]

\* A save keeps the record of its own call, and loses another one only if not
\* everything fits, and either its project was the least recent and one too many, or
\* it is older than all that is kept.
LosesTheOldest ==
    /\ file' # None
    /\ \E t \in Threads : pc[t] = "save" /\ pc'[t] = "idle" /\ mine[t] \in file'.records
    /\ LET lost == Missing(file').records
           all == [projects |-> file'.projects \cup Missing(file').projects,
                   records |-> file'.records \cup lost]
       IN  /\ lost # {} => ~ WithinLimits(all)
           /\ \A x \in lost :
                \/ /\ Cardinality(all.projects) > MaxProjects
                   /\ \E p \in LeastRecent(Stored) : p.id = x.project
                \/ \A y \in file'.records : x.at < y.at

\* As long as the clock advances, the oldest go first ("oldest records/projects evicted
\* when necessary"; "Locks cover threads and multiple instances").
OldestGoFirst == [][steady => LosesTheOldest]_file

=============================================================================
