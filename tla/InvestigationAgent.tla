--------------------------- MODULE InvestigationAgent ---------------------------
(*****************************************************************************)
(* The opt-in investigation agent (services/agent.py): a loop of requests to *)
(* a model that may answer with tool calls or with a final answer, under     *)
(* budgets of turns, tool calls, characters and source reads.                *)
(*                                                                           *)
(* The model is not trusted: a reply is any of those the code tells apart.   *)
(* Files are sequences of lines, a patch is the sequence of its hunks; texts *)
(* are otherwise only known by the evidence id they were issued under.       *)
(*****************************************************************************)
EXTENDS Integers, FiniteSets, Sequences

CONSTANTS
    MaxTurns, MaxToolCalls, MaxSourceReads, MaxContextChars,   \* AgentLimits
    CallsPerReply,     \* bound: tool calls in one reply
    MaxCited,          \* bound: ids cited in one answer
    Paths,             \* files of the repository
    KnownPaths,        \* those the tree, the CI bundle or the changes list
    BundledPaths,      \* those whose bundled copy is of the failed commit
    ModifiedPaths,     \* those that needed redaction
    Content,           \* path -> its lines
    Patches,           \* what a model may propose: [path, hunks]
    ToolEvidence,      \* ids the tools other than read_source may issue
    NoPatch

SourceId(path) == <<"src", path>>
FindingId == <<"finding">>
EvidenceIds == {FindingId} \cup ToolEvidence \cup { SourceId(path) : path \in Paths }
Budgets == {MaxTurns, MaxToolCalls, MaxSourceReads, MaxContextChars, CallsPerReply, MaxCited}

ASSUME AgentAssumption ==
    /\ Budgets \subseteq Nat /\ MaxTurns > 0 /\ CallsPerReply > 0
    /\ KnownPaths \subseteq Paths /\ BundledPaths \subseteq KnownPaths
    /\ ModifiedPaths \subseteq Paths
    /\ \A path \in Paths : SourceId(path) \notin ToolEvidence
    /\ \A path \in Paths : Content[path] \in Seq(Nat)
    /\ \A patch \in Patches : /\ patch.path \in Paths
                              /\ patch.hunks \in Seq([start : Nat, old : Seq(Nat), new : Seq(Nat)])

VARIABLE agent

-----------------------------------------------------------------------------
(* verify_patch.  A hunk is [start, old, new]; line 0 is the blank line.      *)

\* Python's slices count from the end when both of their ends are negative.
Index(lines, at, n) == IF at + n < 0 THEN Len(lines) + at ELSE at

Occurs(lines, at, old) ==    \* old is found after the first at lines
    LET i == Index(lines, at, Len(old))
    IN i >= 0 /\ i + Len(old) <= Len(lines) /\ SubSeq(lines, i + 1, i + Len(old)) = old

Replaced(lines, at, old, new) ==
    LET i == Index(lines, at, Len(old))
    IN SubSeq(lines, 1, i) \o new \o SubSeq(lines, i + Len(old) + 1, Len(lines))

\* The blank lines that splitting the diff leaves at the end of a hunk.
Trimmed(hunk) ==
    LET old == hunk.old
        new == hunk.new
        cuts == { k \in 0..Len(old) : /\ k <= Len(new)
                                      /\ \A i \in 0..(k - 1) : old[Len(old) - i] = 0 /\ new[Len(new) - i] = 0 }
        cut == CHOOSE k \in cuts : \A j \in cuts : j <= k
    IN [old |-> SubSeq(old, 1, Len(old) - cut), new |-> SubSeq(new, 1, Len(new) - cut)]

\* A hunk is applied where its header says, or else at the only place below
\* the hunk before it where its lines are found.
ApplyHunk_First(state, hunk) ==
    LET old == Trimmed(hunk).old
        new == Trimmed(hunk).new
        found == { i \in state.floor..(Len(state.lines) - Len(old)) : Occurs(state.lines, i, old) }
        at == CHOOSE i \in found : \A j \in found : i <= j
    IN IF ~state.ok \/ old = <<>> \/ found = {} THEN [state EXCEPT !.ok = FALSE]
       ELSE [ok |-> TRUE, lines |-> Replaced(state.lines, at, old, new),
             offset |-> state.offset + Len(new) - Len(old), floor |-> at + Len(new)]

ApplyHunk(state, hunk) ==
    LET old == Trimmed(hunk).old
        new == Trimmed(hunk).new
        expected == hunk.start - 1 + state.offset
        found == { i \in state.floor..(Len(state.lines) - Len(old)) : Occurs(state.lines, i, old) }
        at == IF Occurs(state.lines, expected, old) THEN expected ELSE CHOOSE i \in found : TRUE
    IN IF \/ ~state.ok
          \/ old = <<>>
          \/ ~Occurs(state.lines, expected, old) /\ Cardinality(found) # 1
         THEN [state EXCEPT !.ok = FALSE]
         ELSE [ok |-> TRUE, lines |-> Replaced(state.lines, at, old, new),
               offset |-> state.offset + Len(new) - Len(old), floor |-> at + Len(new)]

Applied(hunks, lines) ==
    LET after[n \in 0..Len(hunks)] ==
          IF n = 0 THEN [ok |-> TRUE, lines |-> lines, offset |-> 0, floor |-> 0]
                   ELSE ApplyHunk(after[n - 1], hunks[n])
    IN after[Len(hunks)]

\* The patch is kept only for a file that was read at the commit and whose
\* text redaction left alone, when every hunk applies and something changes.
Verifies(patch, sources) ==
    LET result == Applied(patch.hunks, Content[patch.path])
    IN /\ patch.path \in sources \ ModifiedPaths
       /\ patch.hunks # <<>>
       /\ result.ok /\ result.lines # Content[patch.path]

-----------------------------------------------------------------------------
(* _Loop.run and _Toolbox.call.                                              *)

Agent == [pc : {"off", "chat", "reply", "tools", "answered", "none"}, turns : 0..MaxTurns,
          calls : 0..(MaxToolCalls + CallsPerReply), chars : Nat, reads : 0..MaxSourceReads,
          pending : 0..CallsPerReply, repaired : BOOLEAN, tools : BOOLEAN,
          evidence : SUBSET EvidenceIds, sources : SUBSET Paths,
          cited : SUBSET EvidenceIds, patch : Patches \cup {NoPatch}]

NotAsked == [pc |-> "off", turns |-> 0, calls |-> 0, chars |-> 0, reads |-> 0, pending |-> 0,
             repaired |-> FALSE, tools |-> FALSE, evidence |-> {}, sources |-> {},
             cited |-> {}, patch |-> NoPatch]

\* investigate issues the finding itself first and tells the model of it.
AgentInit == agent = [NotAsked EXCEPT !.pc = "chat", !.evidence = {FindingId}]

\* Any failure ends in no investigation: the answer's fields are never used.
Fails == agent' = [agent EXCEPT !.pc = "none"]

LastTurn == agent.turns >= MaxTurns - 1
OutOfBudget == agent.calls >= MaxToolCalls \/ agent.chars >= MaxContextChars

OffersTools_TurnsOnly == ~LastTurn

OffersTools == ~(LastTurn \/ OutOfBudget)

\* One request to the model; tools are offered while there is budget left.
Chat == /\ agent.pc = "chat"
        /\ agent' = [agent EXCEPT !.pc = "reply", !.turns = @ + 1, !.tools = OffersTools]

\* The reply asks for tools.  The budget is looked at between replies only.
ReplyWithCalls ==
    /\ agent.pc = "reply" /\ agent.tools
    /\ \E n \in 1..CallsPerReply : agent' = [agent EXCEPT !.pc = "tools", !.pending = n]

\* One call has been answered under an id or as an error, with a text of some length:
\* 0 or 1 of MaxContextChars.
CallDone(id, changes) ==
    \E length \in 0..1 :
      agent' = [changes EXCEPT !.pc = IF agent.pending = 1 THEN "chat" ELSE "tools",
                               !.pending = @ - 1, !.calls = @ + 1, !.chars = @ + length,
                               !.evidence = @ \cup id]

\* The tools that read what the inspection holds, and errors of any tool.
ReadEvidence ==
    /\ agent.pc = "tools"
    /\ \E id \in ToolEvidence : CallDone({id}, agent)

ToolError == agent.pc = "tools" /\ CallDone({}, agent)

Shown(path, shown) == IF shown THEN {SourceId(path)} ELSE {}

\* read_source of a file that was read before or is bundled at the commit. The window
\* is looked at when the file is kept already: an error then issues no id for it.
ReadKnownSource ==
    /\ agent.pc = "tools"
    /\ \E path \in KnownPaths \cap (agent.sources \cup BundledPaths), shown \in BOOLEAN :
         CallDone(Shown(path, shown), [agent EXCEPT !.sources = @ \cup {path}])

\* Any other listed file is fetched, which counts whether it succeeds or not.
MayFetch(path) == /\ path \in KnownPaths \ (agent.sources \cup BundledPaths)
                  /\ agent.reads < MaxSourceReads

FetchSource ==
    /\ agent.pc = "tools"
    /\ \E path \in Paths, shown \in BOOLEAN :
         /\ MayFetch(path)
         /\ CallDone(Shown(path, shown), [agent EXCEPT !.sources = @ \cup {path}, !.reads = @ + 1])

FetchNothing ==
    /\ agent.pc = "tools"
    /\ \E path \in Paths : MayFetch(path)
    /\ CallDone({}, [agent EXCEPT !.reads = @ + 1])

\* An answer that is no answer, or that cites what was never issued, may be
\* repaired once, unless the turns are used up.
Acceptable_Any(cited) == cited # {}

Acceptable(cited) == cited # {} /\ cited \subseteq agent.evidence

Repair_Uncounted == IF agent.turns >= MaxTurns THEN Fails
                    ELSE agent' = [agent EXCEPT !.pc = "chat", !.turns = @ - 1]

Repair == IF agent.repaired \/ agent.turns >= MaxTurns THEN Fails
          ELSE agent' = [agent EXCEPT !.pc = "chat", !.repaired = TRUE]

ReplyMalformed == agent.pc = "reply" /\ Repair

ReplyEmpty == agent.pc = "reply" /\ Fails

ReplyWithAnswer ==
    /\ agent.pc = "reply"
    /\ \E cited \in { ids \in SUBSET EvidenceIds : Cardinality(ids) <= MaxCited }, patch \in Patches \cup {NoPatch} :
         IF ~Acceptable(cited) THEN Repair
         ELSE agent' = [agent EXCEPT !.pc = "answered", !.cited = cited,
                          !.patch = IF patch # NoPatch /\ Verifies(patch, agent.sources)
                                      THEN patch ELSE NoPatch]

\* The endpoint fails, or the caller's timeout cancels whatever is awaited.
AgentStops == agent.pc \in {"reply", "tools"} /\ Fails

AgentNext == \/ Chat \/ ReplyWithCalls \/ ReadEvidence \/ ToolError \/ ReadKnownSource
             \/ FetchSource \/ FetchNothing
             \/ ReplyMalformed \/ ReplyEmpty \/ ReplyWithAnswer \/ AgentStops

AgentSpec == AgentInit /\ [][AgentNext]_agent

\* Every request to the model and every read has a timeout.
AgentFairness == WF_agent(AgentNext)

-----------------------------------------------------------------------------
(* Properties.                                                               *)

\* Types and budgets: turns and source reads are never exceeded, tool calls by
\* less than the calls of one reply, since the budget is looked at in between; only
\* listed files are sources, and those not of the bundle were paid for.
AgentTypeOK == /\ agent \in Agent
               /\ agent.calls + agent.pending < MaxToolCalls + CallsPerReply + 1
               /\ agent.sources \subseteq KnownPaths
               /\ Cardinality(agent.sources \ BundledPaths) <= agent.reads

\* "The final answer must cite at least one id, and only ids actually issued in
\* this run": a cited window of a file is of a file that was read, also after a
\* repair, a failed read, or a budget that ran out within a turn.
CitesOnlyIssued ==
    agent.pc = "answered" =>
      /\ agent.cited # {}
      /\ \A path \in Paths : SourceId(path) \in agent.cited => path \in agent.sources

Count(lines, line) == Cardinality({ i \in DOMAIN lines : lines[i] = line })
LinesOf(hunks, side, line) ==
    LET upTo[n \in 0..Len(hunks)] == IF n = 0 THEN 0
                                     ELSE upTo[n - 1] + Count(hunks[n][side], line)
    IN upTo[Len(hunks)]

\* A patch that is kept is for a file read at the commit that redaction left
\* alone, changes it, and exchanges exactly the lines it says it does; with one
\* hunk, these are the lines its header names or the only ones like them.
KeptPatchIsExact ==
    agent.patch # NoPatch =>
      LET lines == Content[agent.patch.path]
          hunks == agent.patch.hunks
          after == Applied(hunks, lines).lines
      IN /\ agent.patch.path \in agent.sources \ ModifiedPaths
         /\ after # lines
         /\ \A line \in { lines[i] : i \in DOMAIN lines } \cup { after[i] : i \in DOMAIN after } :
              Count(after, line) = Count(lines, line) + LinesOf(hunks, "new", line)
                                                      - LinesOf(hunks, "old", line)
         /\ Len(hunks) = 1 =>
              LET hunk == Trimmed(hunks[1])
                  at == { i \in 0..Len(lines) : Occurs(lines, i, hunk.old) }
                  there == { i \in at : i = hunks[1].start - 1 }
              IN \E i \in at : /\ after = Replaced(lines, i, hunk.old, hunk.new)
                              /\ (there = {i} \/ at = {i})

\* Whatever the model replies, the loop comes to an answer or to none.
AgentEnded == agent.pc \in {"off", "answered", "none"}
=============================================================================
