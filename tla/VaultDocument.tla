--------------------------- MODULE VaultDocument ---------------------------
(***************************************************************************)
(* The document of the credential vault (services/credentials.py): what a  *)
(* well-formed one is, and what each operation makes of it. Encryption and *)
(* the syntax of hosts, project paths, tokens and ids are left out.        *)
(***************************************************************************)
EXTENDS Naturals, FiniteSets, Selection

CONSTANTS
    Ids,            \* credential ids (uuid4); bound: enough for a new one each time
    Hosts, Tokens, Projects,
    MaxEntries,     \* _MAX_ENTRIES
    MaxProjects     \* _MAX_PROJECTS

ASSUME VaultAssumption == MaxEntries \in Nat /\ MaxProjects \in Nat \ {0}

Entry == [id : Ids, host : Hosts, token : Tokens, projects : SUBSET Projects]

\* _decode_document: what every reader demands of the decrypted document.
Decodes(doc) ==
    /\ doc \in Seq(Entry)
    /\ Len(doc) <= MaxEntries
    /\ \A i \in DOMAIN doc :
         doc[i].projects # {} /\ IsFiniteSet(doc[i].projects)
           /\ Cardinality(doc[i].projects) <= MaxProjects
    /\ \A i, j \in DOMAIN doc : i # j =>
         doc[i].id # doc[j].id /\ <<doc[i].host, doc[i].token>> # <<doc[j].host, doc[j].token>>

\* The three calls that may write. A call is the arguments of save,
\* mark_verified or forget.
Calls == [op : {"save"}, host : Hosts, project : Projects, token : Tokens]
           \cup [op : {"mark_verified"}, id : Ids, host : Hosts, project : Projects]
           \cup [op : {"forget"}, id : Ids]

\* The places of the entries a call speaks of; in a document that decodes there
\* is at most one.
Meant(doc, call) == {i \in DOMAIN doc :
    \/ call.op = "save" /\ doc[i].host = call.host /\ doc[i].token = call.token
    \/ call.op = "mark_verified" /\ doc[i].id = call.id /\ doc[i].host = call.host
    \/ call.op = "forget" /\ doc[i].id = call.id}

\* _associate
HasRoomFor(e, project) == project \in e.projects \/ Cardinality(e.projects) < MaxProjects
Associate(doc, i, project) == [doc EXCEPT ![i].projects = doc[i].projects \cup {project}]

NewEntry(call, id) ==
    [id |-> id, host |-> call.host, token |-> call.token, projects |-> {call.project}]

Without(doc, i) == SubSeq(doc, 1, i - 1) \o SubSeq(doc, i + 1, Len(doc))

\* What a call that succeeds makes of the document; id is for a new entry. An
\* unknown id, or a full vault or entry, is refused, and nothing is evicted.
AddsEntry_Twice(doc, call) == call.op = "save" /\ Len(doc) < MaxEntries   \* mutant: no lookup
AddsEntry(doc, call) == call.op = "save" /\ Meant(doc, call) = {} /\ Len(doc) < MaxEntries

Outcomes(doc, call, id) ==
    IF call.op = "forget"
    THEN {Without(doc, i) : i \in Meant(doc, call)}
    ELSE IF AddsEntry(doc, call)
    THEN {Append(doc, NewEntry(call, id))}
    ELSE {Associate(doc, i, call.project) :
            i \in {i \in Meant(doc, call) : HasRoomFor(doc[i], call.project)}}

\* candidates(): the host's entries, those of the project first, the newest
\* first among equals.
Candidates(doc, host, project) ==
    LET newest == [i \in DOMAIN doc |-> doc[Len(doc) + 1 - i]]
        known == {doc[i] : i \in {i \in DOMAIN doc : doc[i].host = host}}
        exact == {e \in known : project \in e.projects}
    IN  Selected(newest, exact) \o Selected(newest, known \ exact)

=============================================================================
