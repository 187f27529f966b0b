------------------------- MODULE InspectionService -------------------------
(***************************************************************************)
(* The local inspection API (api/inspection.py): requests that wait for    *)
(* one of three slots, verify each candidate token with GitLab, take their *)
(* answer from the response cache or read the evidence, and record the     *)
(* association in the credential vault; the owner may forget a credential  *)
(* and GitLab may change at any time. Requests interleave at every await;  *)
(* the vault and the cache are used between awaits, so their operations    *)
(* are atomic here (CredentialVault looks inside those of the vault).      *)
(***************************************************************************)
EXTENDS VaultDocument, SequencesExt

CONSTANTS
    Requests,       \* bound: each is made once
    Asks,           \* what requests may ask for
    Slots,          \* Semaphore(3)
    Configured,     \* the configured connections, at most one: [host, token]
    CandidateLimit, \* default limit of vault.candidates
    Roots,          \* fingerprints of the root metadata (verify_resource)
    Evidence,       \* what a complete inspection may read
    RootOnly,       \* the evidence that _ResultCache.reusable accepts
    Size,           \* evidence -> its size in the cache
    CacheEntries, CacheBytes, Ttl,            \* _ResultCache
    Partial, None,  \* unreadable evidence; no token, no credential, no answer
    MaxChanges, MaxForgets, MaxTime           \* bounds

Connections == {"auto", "request", "configured"}
Places == Hosts \X Projects

ASSUME ServiceAssumption ==
    /\ Asks \subseteq [host : Hosts, project : Projects, token : Tokens \cup {None},
                       connection : Connections, remember : BOOLEAN, refresh : BOOLEAN]
    /\ Configured \subseteq [host : Hosts, token : Tokens]
    /\ IsFiniteSet(Configured) /\ Cardinality(Configured) <= 1
    /\ RootOnly \subseteq Evidence /\ Partial \notin Evidence
    /\ Size \in [Evidence -> Nat]
    /\ None \notin Tokens \cup Ids \cup Roots
    /\ {Slots, CacheEntries, Ttl} \subseteq Nat \ {0}
    /\ {CandidateLimit, CacheBytes, MaxChanges, MaxForgets, MaxTime} \subseteq Nat

VARIABLES
    vault, issued,              \* the credentials' document, the ids ever given
    cache,                      \* _ResultCache.entries, least recently used first
    access, root, evidence,     \* GitLab: who may read what, and what is there
    queue,                      \* requests waiting for the semaphore
    pc, ask,                    \* where each request is, and its body
    todo,                       \* the candidates it has still to try, the current one first
    seen,                       \* the fingerprint, or the status, it last got
    result,                     \* what was read for it
    clock, reads, changes, forgets

gitlab == <<access, root, evidence>>
locals == <<pc, ask, todo, seen, result, queue>>
vars == <<vault, issued, cache, gitlab, locals, clock, reads, changes, forgets>>

-----------------------------------------------------------------------------
(* Candidates and the response cache. *)

Candidate == [token : Tokens, id : Ids \cup {None}]

\* candidates(): the token of the request alone, or those of the vault and then
\* the configured one unless it is among them.
Available(a) ==
    IF a.token # None THEN <<[token |-> a.token, id |-> None]>>
    ELSE LET known == Candidates(vault, a.host, a.project)
             saved == IF a.connection = "auto"
                      THEN SubSeq(known, 1, IF Len(known) < CandidateLimit
                                            THEN Len(known) ELSE CandidateLimit)
                      ELSE <<>>
             own == {c \in Configured : c.host = a.host /\ a.connection # "request"
                                         /\ \A i \in DOMAIN saved : saved[i].token # c.token}
         IN  [i \in DOMAIN saved |-> [token |-> saved[i].token, id |-> saved[i].id]]
               \o SetToSeq({[token |-> c.token, id |-> None] : c \in own})

Current(r) == Head(todo[r])
Place(r) == <<ask[r].host, ask[r].project>>

Key_AnyToken(r) ==                          \* mutant: the token is not in the key
    [host |-> ask[r].host, project |-> ask[r].project, token |-> None, root |-> seen[r]]
Key(r) ==
    [host |-> ask[r].host, project |-> ask[r].project, token |-> Current(r).token,
     root |-> seen[r]]

\* What an inspection read, with which token, after which root was verified; nr
\* numbers the readings.
Reading == [evidence : Evidence \cup {Partial}, host : Hosts, project : Projects,
            token : Tokens, root : Roots, nr : Nat]

Live(c) == Selected(c, {e \in ToSet(c) : clock - e.created < Ttl})
Others(c, key) == Selected(c, {e \in ToSet(c) : e.key # key})

Reusable(reading) == reading.evidence \in RootOnly
Bytes(c) ==
    LET sum[n \in 0..Len(c)] == IF n = 0 THEN 0 ELSE sum[n - 1] + Size[c[n].read.evidence]
    IN  sum[Len(c)]
RoomFor_OffByOne(c, size) ==                \* mutant: one too many
    Len(c) <= CacheEntries /\ Bytes(c) + size <= CacheBytes
RoomFor(c, size) == Len(c) < CacheEntries /\ Bytes(c) + size <= CacheBytes

\* The least recently used entries go until there is room.
Evicted(c, size) ==
    LET from(n) == SubSeq(c, n, Len(c))
        n == CHOOSE n \in 1..(Len(c) + 1) :
               /\ n = Len(c) + 1 \/ RoomFor(from(n), size)
               /\ \A m \in 1..(n - 1) : ~ RoomFor(from(m), size)
    IN  from(n)

\* _ResultCache.put
AfterPut(c, key, reading) ==
    LET rest == Others(c, key)
    IN  IF Reusable(reading) /\ Size[reading.evidence] <= CacheBytes
        THEN Append(Evicted(rest, Size[reading.evidence]),
                    [key |-> key, read |-> reading, created |-> clock])
        ELSE rest

-----------------------------------------------------------------------------

Init ==
    /\ vault = <<>> /\ issued = {} /\ cache = <<>>
    /\ access \in SUBSET (Tokens \X Places)
    /\ root \in [Places -> Roots]
    /\ evidence \in [Places -> Evidence]
    /\ queue = <<>>
    /\ pc = [r \in Requests |-> "new"]
    /\ ask = [r \in Requests |-> None]
    /\ todo = [r \in Requests |-> <<>>]
    /\ seen = [r \in Requests |-> None]
    /\ result = [r \in Requests |-> None]
    /\ clock = 0 /\ reads = 0 /\ changes = 0 /\ forgets = 0

Goto(r, place) == pc' = [pc EXCEPT ![r] = place]

OutOfSlot_Leaky == {"new", "waiting", "answered"}     \* mutant: an error keeps its slot
OutOfSlot == {"new", "waiting", "answered", "failed"}

Arrive(r) ==
    /\ pc[r] = "new"
    /\ \E a \in Asks : ask' = [ask EXCEPT ![r] = a]
    /\ queue' = Append(queue, r)
    /\ Goto(r, "waiting")
    /\ UNCHANGED <<vault, issued, cache, gitlab, todo, seen, result, clock, reads, changes, forgets>>

\* The semaphore is first come, first served. Without a candidate, or if the
\* vault cannot be read, the request fails at once.
Enter(r) ==
    /\ queue # <<>> /\ Head(queue) = r
    /\ Cardinality({s \in Requests : pc[s] \notin OutOfSlot}) < Slots
    /\ queue' = Tail(queue)
    /\ \/ /\ Available(ask[r]) # <<>>
          /\ todo' = [todo EXCEPT ![r] = Available(ask[r])]
          /\ Goto(r, "verify")
       \/ /\ \/ Available(ask[r]) = <<>>
             \/ ask[r].token = None /\ ask[r].connection = "auto"
          /\ Goto(r, "failed")
          /\ UNCHANGED todo
    /\ UNCHANGED <<vault, issued, cache, gitlab, ask, seen, result, clock, reads, changes, forgets>>

\* verify_resource, as GitLab answers it.
Verify(r) ==
    /\ pc[r] = "verify"
    /\ seen' = [seen EXCEPT ![r] = IF <<Current(r).token, Place(r)>> \in access
                                   THEN root[Place(r)] ELSE "denied"]
    /\ Goto(r, "verified")
    /\ UNCHANGED <<vault, issued, cache, gitlab, ask, todo, result, queue, clock, reads, changes, forgets>>

\* 401, 403 and 404 lead to the next candidate.
Denied(r) ==
    /\ pc[r] = "verified" /\ seen[r] = "denied"
    /\ todo' = [todo EXCEPT ![r] = Tail(todo[r])]
    /\ Goto(r, IF Len(todo[r]) > 1 THEN "verify" ELSE "failed")
    /\ UNCHANGED <<vault, issued, cache, gitlab, ask, seen, result, queue, clock, reads, changes, forgets>>

Verified_Unchecked(r) == pc[r] = "verified"     \* mutant: a denial is not looked at
Verified(r) == pc[r] = "verified" /\ seen[r] # "denied"

\* cache.get drops what is too old, and makes a hit the most recently used.
Hit(r) ==
    /\ Verified(r) /\ ~ ask[r].refresh
    /\ \E i \in DOMAIN Live(cache) :
         LET e == Live(cache)[i]
         IN  /\ e.key = Key(r)
             /\ cache' = Append(Others(Live(cache), e.key), e)
             /\ result' = [result EXCEPT ![r] = e.read]
    /\ Goto(r, "remediate")
    /\ UNCHANGED <<vault, issued, gitlab, ask, todo, seen, queue, clock, reads, changes, forgets>>

Miss(r) ==
    /\ Verified(r)
    /\ \/ ask[r].refresh /\ UNCHANGED cache
       \/ /\ ~ ask[r].refresh
          /\ \A i \in DOMAIN Live(cache) : Live(cache)[i].key # Key(r)
          /\ cache' = Live(cache)
    /\ Goto(r, "inspect")
    /\ UNCHANGED <<vault, issued, gitlab, ask, todo, seen, result, queue, clock, reads, changes, forgets>>

\* inspect_gitlab, as GitLab answers it: what it is not allowed to read is noted.
Inspect(r) ==
    /\ pc[r] = "inspect"
    /\ reads' = reads + 1
    /\ result' = [result EXCEPT ![r] =
         [evidence |-> IF <<Current(r).token, Place(r)>> \in access
                       THEN evidence[Place(r)] ELSE Partial,
          host |-> ask[r].host, project |-> ask[r].project, token |-> Current(r).token,
          root |-> seen[r], nr |-> reads']]
    /\ Goto(r, "inspected")
    /\ UNCHANGED <<vault, issued, cache, gitlab, ask, todo, seen, queue, clock, changes, forgets>>

Put(r) ==
    /\ pc[r] = "inspected"
    /\ cache' = AfterPut(cache, Key(r), result[r])
    /\ Goto(r, "remediate")
    /\ UNCHANGED <<vault, issued, gitlab, ask, todo, seen, result, queue, clock, reads, changes, forgets>>

\* The call of the vault that a verified candidate leads to, if any.
Association_Upsert(r) ==        \* mutant: a saved connection is saved again, not marked
    IF Current(r).id # None \/ ask[r].remember
    THEN {[op |-> "save", host |-> ask[r].host, project |-> ask[r].project,
           token |-> Current(r).token]}
    ELSE {}
Association(r) ==
    IF Current(r).id # None
    THEN {[op |-> "mark_verified", id |-> Current(r).id, host |-> ask[r].host,
           project |-> ask[r].project]}
    ELSE IF ask[r].remember
    THEN {[op |-> "save", host |-> ask[r].host, project |-> ask[r].project,
           token |-> Current(r).token]}
    ELSE {}

\* The source reads for proposals are answered or time out; then the association
\* is recorded, unless the vault refuses or fails: the request goes on.
Remediate(r) ==
    /\ pc[r] = "remediate"
    /\ \E id \in Ids \ issued :
       \E after \in {vault} \cup UNION {Outcomes(vault, c, id) : c \in Association(r)} :
         /\ vault' = after
         /\ issued' = issued \cup {after[i].id : i \in DOMAIN after}
    /\ Goto(r, "enrich")
    /\ UNCHANGED <<cache, gitlab, ask, todo, seen, result, queue, clock, reads, changes, forgets>>

\* The corpus, the model clients and the agent are bounded and fail softly.
Answer(r) ==
    /\ pc[r] = "enrich"
    /\ Goto(r, "answered")
    /\ UNCHANGED <<vault, issued, cache, gitlab, ask, todo, seen, result, queue, clock, reads,
                   changes, forgets>>

\* Any other error of GitLab, or the timeout of the inspection.
Fail(r) ==
    /\ pc[r] \in {"verify", "inspect", "remediate"}
    /\ Goto(r, "failed")
    /\ UNCHANGED <<vault, issued, cache, gitlab, ask, todo, seen, result, queue, clock, reads,
                   changes, forgets>>

\* The forget route: the vault first, then the whole cache.
Forget(id) ==
    /\ id \in issued /\ forgets < MaxForgets
    /\ forgets' = forgets + 1
    /\ LET after == Outcomes(vault, [op |-> "forget", id |-> id], id)
       IN  vault' \in IF after = {} THEN {vault} ELSE after
    /\ cache' = <<>>
    /\ UNCHANGED <<issued, gitlab, locals, clock, reads, changes>>

GitLabChanges ==
    /\ changes < MaxChanges
    /\ changes' = changes + 1
    /\ \/ /\ \E pair \in Tokens \X Places :
               access' = (access \ {pair}) \cup ({pair} \ access)
          /\ UNCHANGED <<root, evidence>>
       \/ /\ \E p \in Places, v \in Roots : root' = [root EXCEPT ![p] = v]
          /\ UNCHANGED <<access, evidence>>
       \/ /\ \E p \in Places, v \in Evidence : evidence' = [evidence EXCEPT ![p] = v]
          /\ UNCHANGED <<access, root>>
    /\ UNCHANGED <<vault, issued, cache, locals, clock, reads, forgets>>

Tick ==
    /\ clock < MaxTime
    /\ clock' = clock + 1
    /\ UNCHANGED <<vault, issued, cache, gitlab, locals, reads, changes, forgets>>

Step(r) == \/ Enter(r) \/ Verify(r) \/ Denied(r) \/ Hit(r) \/ Miss(r) \/ Inspect(r) \/ Put(r)
           \/ Remediate(r) \/ Answer(r)

Next ==
    \/ \E r \in Requests : Arrive(r) \/ Step(r) \/ Fail(r)
    \/ \E id \in Ids : Forget(id)
    \/ GitLabChanges
    \/ Tick

Spec == Init /\ [][Next]_vars

\* Every await of a request has a timeout, and the event loop runs what is ready.
FairSpec == Spec /\ \A r \in Requests : WF_vars(Step(r))

-----------------------------------------------------------------------------
(* Properties. *)

CacheRecord == [key : [host : Hosts, project : Projects, token : Tokens, root : Roots],
                read : Reading, created : 0..MaxTime]

TypeOK ==
    /\ vault \in Seq(Entry) /\ issued \in SUBSET Ids
    /\ cache \in Seq(CacheRecord)
    /\ access \in SUBSET (Tokens \X Places)
    /\ root \in [Places -> Roots] /\ evidence \in [Places -> Evidence]
    /\ queue \in Seq(Requests)
    /\ pc \in [Requests -> {"new", "waiting", "verify", "verified", "inspect", "inspected",
                            "remediate", "enrich", "answered", "failed"}]
    /\ ask \in [Requests -> Asks \cup {None}]
    /\ todo \in [Requests -> Seq(Candidate)]
    /\ seen \in [Requests -> Roots \cup {None, "denied"}]
    /\ result \in [Requests -> Reading \cup {None}]
    /\ clock \in 0..MaxTime /\ reads \in Nat
    /\ changes \in 0..MaxChanges /\ forgets \in 0..MaxForgets

\* Whatever inspections end in whatever order, the cache keeps its two limits,
\* has one entry for a key, and holds only what needs no access beyond the root.
CacheSound ==
    /\ Len(cache) <= CacheEntries /\ Bytes(cache) <= CacheBytes
    /\ \A i, j \in DOMAIN cache : i # j => cache[i].key # cache[j].key
    /\ \A i \in DOMAIN cache : Reusable(cache[i].read)

\* An answer from the cache was read with the very token that GitLab has just
\* accepted for this request, for this project and the root metadata it has just
\* reported, and less than the lifetime ago ("Token-isolated root-only snapshots").
CachedAnswersAreOwn ==
    [][\A r \in Requests : pc[r] = "verified" /\ pc'[r] = "remediate" =>
         /\ result'[r].token = Current(r).token /\ result'[r].host = ask[r].host
         /\ result'[r].project = ask[r].project /\ result'[r].root = seen[r]
         /\ \E i \in DOMAIN cache :
              cache[i].read = result'[r] /\ clock - cache[i].created < Ttl]_vars

\* A token is associated with a project only if GitLab granted that token that
\* project to some request ("Associate ONLY after fresh API success").
AssociationsVerified ==
    \A i \in DOMAIN vault : \A p \in vault[i].projects :
        \E r \in Requests :
            /\ pc[r] \in {"enrich", "answered"} /\ seen[r] \in Roots
            /\ ask[r].project = p /\ ask[r].host = vault[i].host
            /\ Current(r).token = vault[i].token

\* A forgotten connection does not come back by a request that was using it: its
\* token is only ever saved by a request that asks for that.
SavedOnlyOnRequest ==
    [][\A i \in DOMAIN vault' :
         \/ \E j \in DOMAIN vault : vault[j].id = vault'[i].id
         \/ \E r \in Requests : /\ pc[r] = "remediate" /\ pc'[r] = "enrich"
                                /\ ask[r].remember /\ Current(r).id = None]_vault

\* Every request that arrives gets an answer or an error.
EveryRequestAnswered ==
    \A r \in Requests : pc[r] = "waiting" ~> pc[r] \in {"answered", "failed"}

\* The comment in put: "An uncached refresh must not leave an older, now-ineligible
\* result reusable."
RefreshLeavesNothingOlder ==
    \A r \in Requests : ask[r] # None /\ pc[r] \in {"remediate", "enrich", "answered"} =>
        (ask[r].refresh /\ ~ Reusable(result[r]) =>
            \A i \in DOMAIN cache : cache[i].key = Key(r) => cache[i].read.nr > result[r].nr)

=============================================================================
