----------------------- MODULE CredentialVault_proofs -----------------------
(***************************************************************************)
(* The vault's document always decodes, and the threads of one process     *)
(* lose no update of each other.                                           *)
(***************************************************************************)
EXTENDS CredentialVault, FiniteSetTheorems, SequenceTheorems, TLAPS

-----------------------------------------------------------------------------
(* The document. *)

IdsOf(doc) == {doc[i].id : i \in DOMAIN doc}

\* Adding a project keeps a document well-formed as long as there is room.
LEMMA AssociateDecodes ==
    ASSUME NEW doc, Decodes(doc), NEW i \in DOMAIN doc, NEW project \in Projects,
           HasRoomFor(doc[i], project)
    PROVE  Decodes(Associate(doc, i, project)) /\ IdsOf(Associate(doc, i, project)) = IdsOf(doc)
<1> DEFINE P == doc[i].projects \cup {project}
           e == [doc[i] EXCEPT !.projects = P]
           d == Associate(doc, i, project)
<1>1. doc \in Seq(Entry) /\ doc[i] \in Entry
  BY DEF Decodes
<1>2. P # {} /\ IsFiniteSet(P) /\ Cardinality(P) <= MaxProjects
  <2>1. IsFiniteSet(doc[i].projects) /\ Cardinality(doc[i].projects) <= MaxProjects
    BY DEF Decodes
  <2>2. CASE project \in doc[i].projects
    <3>1. P = doc[i].projects
      BY <2>2
    <3> QED
      BY <2>1, <2>2, <3>1
  <2>3. CASE project \notin doc[i].projects
    <3>1. Cardinality(doc[i].projects) < MaxProjects
      BY <2>3 DEF HasRoomFor
    <3>2. IsFiniteSet(P) /\ Cardinality(P) = Cardinality(doc[i].projects) + 1
      BY <2>1, <2>3, FS_AddElement
    <3>3. Cardinality(doc[i].projects) \in Nat
      BY <2>1, FS_CardinalityType
    <3> QED
      BY <3>1, <3>2, <3>3, VaultAssumption
  <2> QED
    BY <2>2, <2>3
<1>3. P \in SUBSET Projects
  BY <1>1 DEF Entry
<1> HIDE DEF P
<1>4. e \in Entry /\ e.projects = P /\ e.id = doc[i].id /\ e.host = doc[i].host
        /\ e.token = doc[i].token
  BY <1>1, <1>3 DEF Entry
<1>5. d = [doc EXCEPT ![i] = e]
  BY <1>1 DEF Associate, P
<1> HIDE DEF e
<1>6. d \in Seq(Entry) /\ DOMAIN d = DOMAIN doc /\ Len(d) = Len(doc) /\ d[i] = e
        /\ \A j \in DOMAIN doc : j # i => d[j] = doc[j]
  BY <1>1, <1>4, <1>5, ExceptSeq
<1> HIDE DEF d
<1>7. \A j \in DOMAIN doc : d[j].id = doc[j].id /\ d[j].host = doc[j].host
                              /\ d[j].token = doc[j].token
  BY <1>4, <1>6
<1>8. \A j \in DOMAIN d : d[j].projects # {} /\ IsFiniteSet(d[j].projects)
                             /\ Cardinality(d[j].projects) <= MaxProjects
  BY <1>2, <1>4, <1>6 DEF Decodes
<1>9. \A j, k \in DOMAIN d : j # k =>
         d[j].id # d[k].id /\ <<d[j].host, d[j].token>> # <<d[k].host, d[k].token>>
  BY <1>6, <1>7 DEF Decodes
<1>10. Decodes(d)
  BY <1>6, <1>8, <1>9 DEF Decodes
<1>11. IdsOf(d) = IdsOf(doc)
  BY <1>6, <1>7 DEF IdsOf
<1> QED
  BY <1>10, <1>11 DEF d

\* A new entry keeps a document well-formed if its id is new, its token is not
\* in the document for that host and there is room.
LEMMA AppendDecodes ==
    ASSUME NEW doc, Decodes(doc), NEW c \in Calls, NEW id \in Ids \ IdsOf(doc),
           AddsEntry(doc, c)
    PROVE  /\ Decodes(Append(doc, NewEntry(c, id)))
           /\ IdsOf(Append(doc, NewEntry(c, id))) = IdsOf(doc) \cup {id}
<1> DEFINE e == NewEntry(c, id)
           d == Append(doc, e)
<1>1. doc \in Seq(Entry) /\ Len(doc) \in Nat /\ DOMAIN doc = 1..Len(doc)
  BY DEF Decodes
<1>2. c.op = "save" /\ c.host \in Hosts /\ c.project \in Projects /\ c.token \in Tokens
  BY DEF AddsEntry, Calls
<1>3. /\ e \in Entry /\ e.id = id /\ e.host = c.host /\ e.token = c.token
      /\ e.projects = {c.project}
  BY <1>2 DEF Entry, NewEntry
<1>4. e.projects # {} /\ IsFiniteSet(e.projects) /\ Cardinality(e.projects) <= MaxProjects
  <2> HIDE DEF e
  <2>1. IsFiniteSet({c.project}) /\ Cardinality({c.project}) = 1
    BY FS_Singleton
  <2> QED
    BY <1>3, <2>1, VaultAssumption
<1> HIDE DEF e
<1>5. /\ d \in Seq(Entry) /\ Len(d) = Len(doc) + 1 /\ d[Len(doc) + 1] = e
      /\ DOMAIN d = 1..(Len(doc) + 1)
      /\ \A j \in 1..Len(doc) : d[j] = doc[j]
  BY <1>1, <1>3
<1> HIDE DEF d
<1>6. \A j \in 1..Len(doc) :
        doc[j].id # id /\ <<doc[j].host, doc[j].token>> # <<c.host, c.token>>
  BY <1>1, <1>2 DEF AddsEntry, Meant, IdsOf
<1>7. Len(d) <= MaxEntries
  BY <1>1, <1>5, VaultAssumption DEF AddsEntry
<1>8. \A j \in DOMAIN d : d[j].projects # {} /\ IsFiniteSet(d[j].projects)
                             /\ Cardinality(d[j].projects) <= MaxProjects
  <2> SUFFICES ASSUME NEW j \in DOMAIN d
               PROVE  d[j].projects # {} /\ IsFiniteSet(d[j].projects)
                        /\ Cardinality(d[j].projects) <= MaxProjects
    OBVIOUS
  <2>1. CASE j \in 1..Len(doc)
    BY <1>1, <1>5, <2>1 DEF Decodes
  <2>2. CASE j = Len(doc) + 1
    BY <1>4, <1>5, <2>2
  <2> QED
    BY <1>1, <1>5, <2>1, <2>2
<1>9. ASSUME NEW j \in DOMAIN d, NEW k \in DOMAIN d, j # k
      PROVE  d[j].id # d[k].id /\ <<d[j].host, d[j].token>> # <<d[k].host, d[k].token>>
  <2>1. CASE j \in 1..Len(doc) /\ k \in 1..Len(doc)
    BY <1>1, <1>5, <1>9, <2>1 DEF Decodes
  <2>2. CASE j \in 1..Len(doc) /\ k = Len(doc) + 1
    BY <1>3, <1>5, <1>6, <2>2
  <2>3. CASE j = Len(doc) + 1 /\ k \in 1..Len(doc)
    BY <1>3, <1>5, <1>6, <2>3
  <2> QED
    BY <1>1, <1>5, <1>9, <2>1, <2>2, <2>3
<1>10. Decodes(d)
  BY <1>5, <1>7, <1>8, <1>9 DEF Decodes
<1>11. IdsOf(d) = IdsOf(doc) \cup {id}
  <2>1. ASSUME NEW x \in IdsOf(d) PROVE x \in IdsOf(doc) \cup {id}
    BY <1>1, <1>3, <1>5, <2>1 DEF IdsOf
  <2>2. ASSUME NEW x \in IdsOf(doc) PROVE x \in IdsOf(d)
    BY <1>1, <1>5, <2>2 DEF IdsOf
  <2>3. id \in IdsOf(d)
    BY <1>1, <1>3, <1>5 DEF IdsOf
  <2> QED
    BY <2>1, <2>2, <2>3
<1> QED
  BY <1>10, <1>11 DEF d, e

\* What is left when an entry is taken out, entry by entry.
LEMMA WithoutEntry ==
    ASSUME NEW doc \in Seq(Entry), NEW i \in DOMAIN doc
    PROVE  /\ Without(doc, i) \in Seq(Entry)
           /\ Len(Without(doc, i)) = Len(doc) - 1
           /\ \A j \in 1..(Len(doc) - 1) :
                Without(doc, i)[j] = IF j < i THEN doc[j] ELSE doc[j + 1]
<1> DEFINE a == SubSeq(doc, 1, i - 1)
           b == SubSeq(doc, i + 1, Len(doc))
<1>1. Len(doc) \in Nat /\ i \in 1..Len(doc)
  OBVIOUS
<1>2. a \in Seq(Entry) /\ Len(a) = i - 1 /\ \A j \in 1..(i - 1) : a[j] = doc[j]
  BY <1>1, SubSeqProperties
<1>3. /\ b \in Seq(Entry) /\ Len(b) = Len(doc) - i
      /\ \A j \in 1..(Len(doc) - i) : b[j] = doc[i + j]
  BY <1>1, SubSeqProperties
<1> HIDE DEF a, b
<1>4. /\ a \o b \in Seq(Entry) /\ Len(a \o b) = Len(a) + Len(b)
      /\ \A j \in 1..(Len(a) + Len(b)) :
           (a \o b)[j] = IF j <= Len(a) THEN a[j] ELSE b[j - Len(a)]
  BY <1>2, <1>3, ConcatProperties
<1>5. ASSUME NEW j \in 1..(Len(doc) - 1)
      PROVE  (a \o b)[j] = IF j < i THEN doc[j] ELSE doc[j + 1]
  <2>1. PICK n \in Nat : n = Len(doc)
    BY <1>1
  <2>2. i \in 1..n /\ j \in 1..(n - 1) /\ Len(a) = i - 1 /\ Len(b) = n - i
    BY <2>1, <1>1, <1>2, <1>3
  <2>3. j \in 1..(Len(a) + Len(b))
    <3>1. \A la, lb : la = i - 1 /\ lb = n - i => j \in 1..(la + lb)
      BY SMTT(60), <2>2
    <3> QED
      BY <2>2, <3>1
  <2>4. (a \o b)[j] = IF j <= i - 1 THEN a[j] ELSE b[j - (i - 1)]
    BY <1>4, <2>2, <2>3, ZenonT(30)
  <2>5. CASE j < i
    <3>1. j <= i - 1 /\ j \in 1..(i - 1)
      BY <2>2, <2>5
    <3>2. a[j] = doc[j]
      BY <1>2, <3>1, ZenonT(30)
    <3> QED
      BY <2>4, <2>5, <3>1, <3>2, ZenonT(30)
  <2>6. CASE ~(j < i)
    <3>1. ~(j <= i - 1) /\ j - (i - 1) \in 1..(n - i) /\ i + (j - (i - 1)) = j + 1
      BY SMTT(60), <2>2, <2>6
    <3>2. b[j - (i - 1)] = doc[i + (j - (i - 1))]
      BY <1>3, <2>1, <3>1, ZenonT(30)
    <3> QED
      BY <2>4, <2>6, <3>1, <3>2, ZenonT(30)
  <2> QED
    BY <2>5, <2>6
<1>6. Len(a \o b) = Len(doc) - 1
  BY <1>1, <1>2, <1>3, <1>4
<1> QED
  BY <1>4, <1>5, <1>6 DEF Without, a, b

\* Taking an entry out keeps a document well-formed.
LEMMA WithoutDecodes ==
    ASSUME NEW doc, Decodes(doc), NEW i \in DOMAIN doc
    PROVE  Decodes(Without(doc, i)) /\ IdsOf(Without(doc, i)) \subseteq IdsOf(doc)
<1> DEFINE d == Without(doc, i)
           from(j) == IF j < i THEN j ELSE j + 1
<1>1. doc \in Seq(Entry) /\ Len(doc) \in Nat /\ DOMAIN doc = 1..Len(doc) /\ Len(doc) <= MaxEntries
  BY DEF Decodes
<1> HIDE DEF d
<1>2. /\ d \in Seq(Entry) /\ Len(d) = Len(doc) - 1
      /\ \A j \in 1..(Len(doc) - 1) : d[j] = doc[from(j)]
  <2>1. /\ Without(doc, i) \in Seq(Entry) /\ Len(Without(doc, i)) = Len(doc) - 1
        /\ \A j \in 1..(Len(doc) - 1) :
             Without(doc, i)[j] = IF j < i THEN doc[j] ELSE doc[j + 1]
    BY <1>1, WithoutEntry
  <2> QED
    BY <2>1 DEF d
<1>3. DOMAIN d = 1..(Len(doc) - 1) /\ \A j \in DOMAIN d : from(j) \in DOMAIN doc
  BY <1>1, <1>2
<1>4. \A j, k \in DOMAIN d : j # k => from(j) # from(k)
  BY <1>1, <1>3
<1> HIDE DEF from
<1>5. \A j \in DOMAIN d : d[j].projects # {} /\ IsFiniteSet(d[j].projects)
                             /\ Cardinality(d[j].projects) <= MaxProjects
  BY <1>2, <1>3 DEF Decodes
<1>6. \A j, k \in DOMAIN d : j # k =>
         d[j].id # d[k].id /\ <<d[j].host, d[j].token>> # <<d[k].host, d[k].token>>
  <2> SUFFICES ASSUME NEW j \in DOMAIN d, NEW k \in DOMAIN d, j # k
               PROVE  d[j].id # d[k].id /\ <<d[j].host, d[j].token>> # <<d[k].host, d[k].token>>
    OBVIOUS
  <2>1. d[j] = doc[from(j)] /\ d[k] = doc[from(k)]
    BY <1>2, <1>3
  <2>2. from(j) \in DOMAIN doc /\ from(k) \in DOMAIN doc /\ from(j) # from(k)
    BY <1>3, <1>4
  <2> QED
    BY <2>1, <2>2 DEF Decodes
<1>7. Len(d) <= MaxEntries
  BY <1>1, <1>2, VaultAssumption
<1>8. Decodes(d)
  BY <1>2, <1>5, <1>6, <1>7 DEF Decodes
<1>9. IdsOf(d) \subseteq IdsOf(doc)
  BY <1>2, <1>3 DEF IdsOf
<1> QED
  BY <1>8, <1>9 DEF d

\* Every call that succeeds leaves a document that decodes, and brings in no id
\* but the new one.
LEMMA OutcomesDecode ==
    ASSUME NEW doc, Decodes(doc), NEW c \in Calls, NEW id \in Ids \ IdsOf(doc),
           NEW after \in Outcomes(doc, c, id)
    PROVE  Decodes(after) /\ IdsOf(after) \subseteq IdsOf(doc) \cup {id}
<1>1. CASE c.op = "forget"
  <2>1. PICK i \in Meant(doc, c) : after = Without(doc, i)
    BY <1>1 DEF Outcomes
  <2>2. i \in DOMAIN doc
    BY DEF Meant
  <2> QED
    BY <2>1, <2>2, WithoutDecodes
<1>2. CASE c.op # "forget" /\ AddsEntry(doc, c)
  <2>1. after = Append(doc, NewEntry(c, id))
    BY <1>2 DEF Outcomes
  <2> QED
    BY <1>2, <2>1, AppendDecodes
<1>3. CASE c.op # "forget" /\ ~AddsEntry(doc, c)
  <2>1. PICK i \in {i \in Meant(doc, c) : HasRoomFor(doc[i], c.project)} :
          after = Associate(doc, i, c.project)
    BY <1>3 DEF Outcomes
  <2>2. i \in DOMAIN doc /\ HasRoomFor(doc[i], c.project)
    BY DEF Meant
  <2>3. c.project \in Projects
    BY <1>3 DEF Calls
  <2> QED
    BY <2>1, <2>2, <2>3, AssociateDecodes
<1> QED
  BY <1>1, <1>2, <1>3

-----------------------------------------------------------------------------
(* The inductive invariant. *)

\* A thread in its critical section has the lock of its process.
Exclusion == \A t \in Threads :
    pc[t] \in {"read", "write", "replace"} => lock[Process[t]] = t

\* What a thread is about to write decodes and has no unissued id, and it is
\* what its call makes of the document, unless the thread fell behind.
Prepared == \A t \in Threads : pc[t] \in {"write", "replace"} =>
    /\ Decodes(next[t]) /\ IdsOf(next[t]) \subseteq issued
    /\ behind[t] \/ next[t] \in Outcomes(file, call[t], fresh[t])

Stored == Decodes(file) /\ IdsOf(file) \subseteq issued

Called == \A t \in Threads : pc[t] # "idle" => call[t] \in Calls

VaultInv == TypeOK /\ Stored /\ Called /\ Exclusion /\ Prepared

LEMMA EmptyDecodes == Decodes(<<>>) /\ IdsOf(<<>>) = {}
  BY VaultAssumption DEF Decodes, IdsOf

LEMMA VaultInvInit == Init => VaultInv
<1> SUFFICES ASSUME Init PROVE VaultInv
  OBVIOUS
<1>1. TypeOK
  BY ThreadAssumption DEF Init, TypeOK
<1>2. Stored
  BY EmptyDecodes DEF Init, Stored
<1>3. Called /\ Exclusion /\ Prepared
  BY DEF Init, Called, Exclusion, Prepared
<1> QED
  BY <1>1, <1>2, <1>3 DEF VaultInv

\* Whoever leaves the with block leaves every other thread as it was, and no
\* other thread of its process is inside.
LEMMA LeaveKeeps ==
    ASSUME VaultInv, NEW t \in Threads, pc[t] \in {"read", "write", "replace"}, Leave(t)
    PROVE  /\ lock' \in [Processes -> Threads \cup {NoOne}]
           /\ pc' \in [Threads -> {"idle", "lock", "read", "write", "replace"}]
           /\ call' \in [Threads -> Calls \cup {NoCall}]
           /\ next' \in [Threads -> Seq(Entry)]
           /\ fresh' \in [Threads -> Ids \cup {NoOne}]
           /\ Exclusion' /\ Called'
           /\ pc'[t] = "idle"
           /\ \A s \in Threads \ {t} :
                /\ pc'[s] = pc[s] /\ call'[s] = call[s]
                /\ next'[s] = next[s] /\ fresh'[s] = fresh[s]
                /\ pc[s] \in {"read", "write", "replace"} => Process[s] # Process[t]
<1> USE DEF VaultInv, TypeOK
<1>1. pc'[t] = "idle" /\ pc' \in [Threads -> {"idle", "lock", "read", "write", "replace"}]
  BY DEF Leave
<1>2. call' \in [Threads -> Calls \cup {NoCall}]
  BY DEF Leave
<1>3. next' \in [Threads -> Seq(Entry)]
  <2>1. <<>> \in Seq(Entry)
    OBVIOUS
  <2> QED
    BY <2>1 DEF Leave
<1>4. fresh' \in [Threads -> Ids \cup {NoOne}] /\ lock' \in [Processes -> Threads \cup {NoOne}]
  BY DEF Leave
<1>5. \A s \in Threads \ {t} : /\ pc'[s] = pc[s] /\ call'[s] = call[s]
                               /\ next'[s] = next[s] /\ fresh'[s] = fresh[s]
  BY DEF Leave
<1>6. lock[Process[t]] = t
  BY DEF Exclusion
<1>7. \A s \in Threads \ {t} :
        pc[s] \in {"read", "write", "replace"} => lock[Process[s]] = s /\ Process[s] # Process[t]
  BY <1>6 DEF Exclusion
<1>8. \A s \in Threads : Process[s] \in Processes
  BY DEF Processes
<1>9. \A s \in Threads : Process[s] # Process[t] => lock'[Process[s]] = lock[Process[s]]
  BY <1>8 DEF Leave
<1>10. Exclusion'
  BY <1>1, <1>5, <1>7, <1>9 DEF Exclusion
<1>11. Called'
  BY <1>1, <1>5 DEF Called
<1> QED
  BY <1>1, <1>2, <1>3, <1>4, <1>5, <1>7, <1>10, <1>11

LEMMA CallKeeps == ASSUME VaultInv, NEW t \in Threads, Call(t) PROVE VaultInv'
<1> USE DEF VaultInv
<1>1. PICK c \in Calls : call' = [call EXCEPT ![t] = c]
  BY DEF Call
<1>2. calls' \in 0..MaxCalls
  BY ThreadAssumption DEF Call, TypeOK
<1>3. TypeOK'
  BY <1>1, <1>2 DEF Call, TypeOK
<1>4. pc' = [pc EXCEPT ![t] = "lock"] /\ pc[t] = "idle"
  BY DEF Call
<1>5. Stored'
  BY DEF Call, Stored
<1>6. Called'
  BY <1>1, <1>4 DEF Called, TypeOK
<1>7. Exclusion'
  BY <1>4 DEF Call, Exclusion, TypeOK
<1>8. \A s \in Threads : pc'[s] \in {"write", "replace"} =>
         pc[s] \in {"write", "replace"} /\ call'[s] = call[s]
  BY <1>1, <1>4 DEF TypeOK
<1>9. Prepared'
  BY <1>8 DEF Call, Prepared
<1> QED
  BY <1>3, <1>5, <1>6, <1>7, <1>9

LEMMA LockKeeps == ASSUME VaultInv, NEW t \in Threads, Lock(t) PROVE VaultInv'
<1> USE DEF VaultInv
<1>1. Process[t] \in Processes
  BY DEF Processes
<1>2. TypeOK'
  BY <1>1 DEF Lock, TypeOK
<1>3. pc' = [pc EXCEPT ![t] = "read"] /\ pc[t] = "lock" /\ lock[Process[t]] = NoOne
  BY DEF Lock, LockFree
<1>4. Stored'
  BY DEF Lock, Stored
<1>5. Called'
  BY <1>3 DEF Lock, Called, TypeOK
<1>6. ASSUME NEW s \in Threads, pc'[s] \in {"read", "write", "replace"}
      PROVE  lock'[Process[s]] = s
  <2>1. CASE s = t
    BY <1>1, <2>1 DEF Lock, TypeOK
  <2>2. CASE s # t
    <3>1. pc[s] \in {"read", "write", "replace"}
      BY <1>3, <1>6, <2>2 DEF TypeOK
    <3>2. lock[Process[s]] = s /\ s # NoOne
      BY <3>1, ThreadAssumption DEF Exclusion
    <3>3. Process[s] # Process[t] /\ Process[s] \in Processes
      BY <1>3, <3>2 DEF Processes
    <3> QED
      BY <3>2, <3>3 DEF Lock, TypeOK
  <2> QED
    BY <2>1, <2>2
<1>7. Exclusion'
  BY <1>6 DEF Exclusion
<1>8. Prepared'
  BY <1>3 DEF Lock, Prepared, TypeOK
<1> QED
  BY <1>2, <1>4, <1>5, <1>7, <1>8

LEMMA ReadKeeps == ASSUME VaultInv, NEW t \in Threads, Read(t) PROVE VaultInv'
<1> USE DEF VaultInv
<1>1. pc[t] = "read" /\ file' = file /\ calls' = calls /\ faults' = faults
  BY DEF Read
<1>2. CASE Leave(t) /\ UNCHANGED <<behind, issued>>
  <2>1. TypeOK'
    BY <1>1, <1>2, LeaveKeeps DEF TypeOK
  <2>2. Called' /\ Exclusion'
    BY <1>1, <1>2, LeaveKeeps
  <2>3. Stored'
    BY <1>1, <1>2 DEF Stored
  <2>4. \A s \in Threads : pc'[s] \in {"write", "replace"} =>
          /\ pc[s] \in {"write", "replace"} /\ next'[s] = next[s]
          /\ call'[s] = call[s] /\ fresh'[s] = fresh[s]
    BY <1>1, <1>2, LeaveKeeps
  <2>5. Prepared'
    BY <1>1, <1>2, <2>4 DEF Prepared
  <2> QED
    BY <2>1, <2>2, <2>3, <2>5
<1>3. CASE ~(Leave(t) /\ UNCHANGED <<behind, issued>>)
  <2>1. PICK id \in Ids \ issued : \E after \in Outcomes(file, call[t], id) \ {file} :
          /\ next' = [next EXCEPT ![t] = after]
          /\ fresh' = [fresh EXCEPT ![t] = id]
          /\ issued' = issued \cup {after[i].id : i \in DOMAIN after}
          /\ behind' = [behind EXCEPT ![t] = FALSE]
          /\ pc' = [pc EXCEPT ![t] = "write"]
          /\ UNCHANGED <<lock, call>>
    BY <1>3 DEF Read
  <2>2. PICK after \in Outcomes(file, call[t], id) \ {file} :
          /\ next' = [next EXCEPT ![t] = after]
          /\ fresh' = [fresh EXCEPT ![t] = id]
          /\ issued' = issued \cup {after[i].id : i \in DOMAIN after}
          /\ behind' = [behind EXCEPT ![t] = FALSE]
          /\ pc' = [pc EXCEPT ![t] = "write"]
          /\ UNCHANGED <<lock, call>>
    BY <2>1
  <2>3. call[t] \in Calls /\ id \in Ids \ IdsOf(file)
    BY <1>1 DEF Called, Stored
  <2>4. Decodes(after) /\ IdsOf(after) \subseteq IdsOf(file) \cup {id}
    BY <2>2, <2>3, OutcomesDecode DEF Stored
  <2>5. after \in Seq(Entry) /\ issued' = issued \cup IdsOf(after) /\ issued' \in SUBSET Ids
    BY <2>2, <2>4 DEF Decodes, IdsOf, Stored, TypeOK
  <2>6. TypeOK'
    BY <1>1, <2>2, <2>5 DEF TypeOK
  <2>7. Stored'
    BY <1>1, <2>5 DEF Stored
  <2>8. Called'
    BY <1>1, <2>2 DEF Called, TypeOK
  <2>9. Exclusion'
    BY <1>1, <2>2 DEF Exclusion, TypeOK
  <2>10. ASSUME NEW s \in Threads, pc'[s] \in {"write", "replace"}
         PROVE  /\ Decodes(next'[s]) /\ IdsOf(next'[s]) \subseteq issued'
                /\ behind'[s] \/ next'[s] \in Outcomes(file', call'[s], fresh'[s])
    <3>1. CASE s = t
      <4>1. next'[s] = after /\ fresh'[s] = id /\ call'[s] = call[t]
        BY <2>2, <3>1 DEF TypeOK
      <4> QED
        BY <1>1, <2>2, <2>4, <2>5, <4>1
    <3>2. CASE s # t
      <4>1. /\ pc[s] \in {"write", "replace"} /\ next'[s] = next[s]
            /\ call'[s] = call[s] /\ fresh'[s] = fresh[s] /\ behind'[s] = behind[s]
        BY <2>2, <2>10, <3>2 DEF TypeOK
      <4> QED
        BY <1>1, <2>5, <4>1 DEF Prepared
    <3> QED
      BY <3>1, <3>2
  <2>11. Prepared'
    BY <2>10 DEF Prepared
  <2> QED
    BY <2>6, <2>7, <2>8, <2>9, <2>11
<1> QED
  BY <1>2, <1>3

LEMMA WriteTemporaryKeeps ==
    ASSUME VaultInv, NEW t \in Threads, WriteTemporary(t) PROVE VaultInv'
<1> USE DEF VaultInv
<1>1. pc[t] = "write" /\ pc' = [pc EXCEPT ![t] = "replace"]
  BY DEF WriteTemporary
<1>2. TypeOK'
  BY <1>1 DEF WriteTemporary, TypeOK
<1>3. Stored'
  BY DEF WriteTemporary, Stored
<1>4. Called' /\ Exclusion'
  BY <1>1 DEF WriteTemporary, Called, Exclusion, TypeOK
<1>5. \A s \in Threads : pc'[s] \in {"write", "replace"} => pc[s] \in {"write", "replace"}
  BY <1>1 DEF TypeOK
<1>6. Prepared'
  BY <1>5 DEF WriteTemporary, Prepared
<1> QED
  BY <1>2, <1>3, <1>4, <1>6

LEMMA ReplaceKeeps == ASSUME VaultInv, NEW t \in Threads, Replace(t) PROVE VaultInv'
<1> USE DEF VaultInv
<1>1. /\ pc[t] = "replace" /\ file' = next[t] /\ Leave(t)
      /\ behind' = [s \in Threads |-> behind[s] \/ Process[s] # Process[t]]
      /\ issued' = issued /\ calls' = calls /\ faults' = faults
  BY DEF Replace
<1>2. behind' \in [Threads -> BOOLEAN]
  BY <1>1
<1>3. file' \in Seq(Entry)
  BY <1>1 DEF TypeOK
<1>4. TypeOK'
  BY <1>1, <1>2, <1>3, LeaveKeeps DEF TypeOK
<1>5. Stored'
  BY <1>1 DEF Stored, Prepared
<1>6. Called' /\ Exclusion'
  BY <1>1, LeaveKeeps
<1>7. \A s \in Threads : pc'[s] \in {"write", "replace"} =>
        pc[s] \in {"write", "replace"} /\ next'[s] = next[s] /\ Process[s] # Process[t]
  BY <1>1, LeaveKeeps
<1>8. \A s \in Threads : pc'[s] \in {"write", "replace"} => behind'[s]
  BY <1>1, <1>7
<1>9. Prepared'
  BY <1>1, <1>7, <1>8 DEF Prepared
<1> QED
  BY <1>4, <1>5, <1>6, <1>9

LEMMA FaultCounts == ASSUME TypeOK, Fault PROVE faults' \in 0..MaxFaults
  BY ThreadAssumption DEF TypeOK, Fault

LEMMA FailsKeeps == ASSUME VaultInv, NEW t \in Threads, Fails(t) PROVE VaultInv'
<1> USE DEF VaultInv
<1>1. /\ pc[t] \in {"read", "write", "replace"} /\ Leave(t)
      /\ UNCHANGED <<file, behind, issued, calls>>
  BY DEF Fails
<1>2. TypeOK'
  BY <1>1, LeaveKeeps, FaultCounts DEF TypeOK, Fails
<1>3. Stored'
  BY <1>1 DEF Stored
<1>4. Called' /\ Exclusion'
  BY <1>1, LeaveKeeps
<1>5. \A s \in Threads : pc'[s] \in {"write", "replace"} =>
        /\ pc[s] \in {"write", "replace"} /\ next'[s] = next[s]
        /\ call'[s] = call[s] /\ fresh'[s] = fresh[s]
  BY <1>1, LeaveKeeps
<1>6. Prepared'
  BY <1>1, <1>5 DEF Prepared
<1> QED
  BY <1>2, <1>3, <1>4, <1>6

LEMMA CrashKeeps == ASSUME VaultInv, NEW p \in Processes, Crash(p) PROVE VaultInv'
<1> USE DEF VaultInv
<1>1. /\ lock' = [lock EXCEPT ![p] = NoOne]
      /\ pc' = [t \in Threads |-> IF Process[t] = p THEN "idle" ELSE pc[t]]
      /\ call' = [t \in Threads |-> IF Process[t] = p THEN NoCall ELSE call[t]]
      /\ next' = [t \in Threads |-> IF Process[t] = p THEN <<>> ELSE next[t]]
      /\ fresh' = [t \in Threads |-> IF Process[t] = p THEN NoOne ELSE fresh[t]]
      /\ UNCHANGED <<file, behind, issued, calls>>
  BY DEF Crash
<1>2. next' \in [Threads -> Seq(Entry)]
  <2>1. <<>> \in Seq(Entry)
    OBVIOUS
  <2> QED
    BY <1>1, <2>1 DEF TypeOK
<1>3. TypeOK'
  BY <1>1, <1>2, FaultCounts DEF TypeOK, Crash
<1>4. Stored'
  BY <1>1 DEF Stored
<1>5. \A s \in Threads : pc'[s] # "idle" =>
        /\ Process[s] # p /\ pc'[s] = pc[s] /\ next'[s] = next[s]
        /\ call'[s] = call[s] /\ fresh'[s] = fresh[s]
        /\ lock'[Process[s]] = lock[Process[s]]
  <2>1. \A s \in Threads : Process[s] \in Processes
    BY DEF Processes
  <2> QED
    BY <1>1, <2>1 DEF TypeOK
<1>6. Called' /\ Exclusion'
  BY <1>5 DEF Called, Exclusion
<1>7. Prepared'
  BY <1>1, <1>5 DEF Prepared
<1> QED
  BY <1>3, <1>4, <1>6, <1>7

LEMMA VaultInvNext == VaultInv /\ [Next]_vars => VaultInv'
<1> SUFFICES ASSUME VaultInv, [Next]_vars PROVE VaultInv'
  OBVIOUS
<1>1. CASE UNCHANGED vars
  BY <1>1 DEF vars, VaultInv, TypeOK, Stored, Called, Exclusion, Prepared
<1>2. ASSUME NEW t \in Threads, Call(t) \/ Lock(t) \/ Read(t) PROVE VaultInv'
  BY <1>2, CallKeeps, LockKeeps, ReadKeeps
<1>3. ASSUME NEW t \in Threads, WriteTemporary(t) \/ Replace(t) \/ Fails(t) PROVE VaultInv'
  BY <1>3, WriteTemporaryKeeps, ReplaceKeeps, FailsKeeps
<1>4. ASSUME NEW p \in Processes, Crash(p) PROVE VaultInv'
  BY <1>4, CrashKeeps
<1> QED
  BY <1>1, <1>2, <1>3, <1>4 DEF Next

THEOREM VaultInvariant == Spec => []VaultInv
<1> QED
  BY VaultInvInit, VaultInvNext, PTL DEF Spec

-----------------------------------------------------------------------------

\* The types of the document, the locks and the threads that use them.
THEOREM VaultTypeCorrect == Spec => []TypeOK
<1>1. VaultInv => TypeOK
  BY DEF VaultInv
<1> QED
  BY <1>1, VaultInvariant, PTL

\* Whatever number of threads, processes, failures and crashes, the vault file
\* stays a document that _decode_document accepts.
THEOREM VaultAlwaysDecodes == Spec => []AlwaysDecodes
<1>1. VaultInv => AlwaysDecodes
  BY DEF VaultInv, Stored, AlwaysDecodes
<1> QED
  BY <1>1, VaultInvariant, PTL

\* The threads of one process lose no change of each other.
THEOREM VaultUpdatesAreAtomic == Spec => UpdatesAreAtomic
<1> DEFINE Atomic == \E t \in Threads :
             /\ pc[t] = "replace" /\ file' = next[t]
             /\ behind[t] \/ file' \in Outcomes(file, call[t], fresh[t])
<1>1. VaultInv /\ [Next]_vars => [Atomic]_file
  <2> SUFFICES ASSUME VaultInv, Next, file' # file PROVE Atomic
    BY DEF vars
  <2>1. PICK t \in Threads : Replace(t)
    BY DEF Next, Call, Lock, Read, WriteTemporary, Fails, Crash
  <2>2. pc[t] = "replace" /\ file' = next[t]
    BY <2>1 DEF Replace
  <2> QED
    BY <2>2 DEF VaultInv, Prepared
<1> QED
  BY <1>1, VaultInvariant, PTL DEF Spec, UpdatesAreAtomic

=============================================================================
