----------------------------- MODULE DatasetCorpus -----------------------------
(*****************************************************************************)
(* The local store of rows imported from log datasets                        *)
(* (services/dataset_corpus.py): imports and reevaluations, each statement a *)
(* transaction of its own, by processes that may run at once.  A row is      *)
(* known by its source and the hash of its text; of its content the model    *)
(* keeps what it was last classified from, the whole text or the excerpt.    *)
(*****************************************************************************)
EXTENDS Integers, FiniteSets, Sequences

CONSTANTS
    DatasetProcesses,    \* runs of the command that may be alive at once
    Sources,             \* source labels
    Texts,               \* distinct texts
    Blank,               \* a CSV row without text in its column
    CsvOf,               \* the rows of the CSV file imported under a label
    RowLimit,            \* --limit
    MaxStoreRows,        \* rows after which the file exceeds MAX_STORE_BYTES
    DatasetStarts        \* bound: commands started in all

ASSUME DatasetAssumption ==
    /\ Blank \notin Texts /\ Sources # {} /\ IsFiniteSet(DatasetProcesses)
    /\ CsvOf \in [Sources -> Seq(Texts \cup {Blank})]
    /\ RowLimit \in Nat \ {0} /\ MaxStoreRows \in Nat /\ DatasetStarts \in Nat

VARIABLES
    datasetRows,     \* the table rows: (source, text) -> what classified it
    datasetCounts,   \* the table sources: source -> row_count
    importer,        \* the processes
    datasetStarted,  \* commands started so far
    uncounted        \* imports that ended between their two statements, by source

datasetVars == <<datasetRows, datasetCounts, importer, datasetStarted, uncounted>>

RowKeys == Sources \X Texts
Finished(result) ==
    [pc |-> "ended", source |-> CHOOSE s \in Sources : TRUE, read |-> 0, text |-> Blank,
     new |-> 0, already |-> 0, missing |-> 0, todo |-> {}, result |-> result]

DatasetInit == /\ datasetRows = [key \in {} |-> "text"]
               /\ datasetCounts = [s \in {} |-> 0]
               /\ importer = [p \in DatasetProcesses |-> Finished("not started")]
               /\ datasetStarted = 0
               /\ uncounted = [s \in Sources |-> 0]

RowsOf(s) == { key \in DOMAIN datasetRows : key[1] = s }

\* _connection yields nothing when the file has outgrown its limit.
Oversized == Cardinality(DOMAIN datasetRows) > MaxStoreRows

\* The tables are made by every connection if they are not there; a plan
\* names a validated source and a readable file.
BeginDataset(p, pc, s) ==
    /\ importer[p].pc = "ended" /\ datasetStarted < DatasetStarts
    /\ datasetStarted' = datasetStarted + 1
    /\ importer' = [importer EXCEPT ![p] = [Finished("running") EXCEPT !.pc = pc, !.source = s]]
    /\ UNCHANGED <<datasetRows, datasetCounts, uncounted>>

StartImport(p, s) == BeginDataset(p, "row", s)

HasRow_AnySource(key) == ~Oversized /\ \E k \in DOMAIN datasetRows : k[2] = key[2]

HasRow(key) == ~Oversized /\ key \in DOMAIN datasetRows

\* The loop of import_dataset up to has_row; the classification that follows
\* touches nothing.
ReadRow(p) ==
    LET i == importer[p]
        csv == CsvOf[i.source]
        text == csv[i.read + 1]
    IN /\ i.pc = "row" /\ i.read < RowLimit /\ i.read < Len(csv)
       /\ importer' = [importer EXCEPT ![p] =
            IF text = Blank THEN [i EXCEPT !.read = @ + 1, !.missing = @ + 1]
            ELSE IF HasRow(<<i.source, text>>) THEN [i EXCEPT !.read = @ + 1, !.already = @ + 1]
            ELSE [i EXCEPT !.read = @ + 1, !.text = text, !.pc = "insert"]]
       /\ UNCHANGED <<datasetRows, datasetCounts, datasetStarted, uncounted>>

\* record_row, first statement: INSERT OR REPLACE.
InsertRow(p) ==
    LET key == <<importer[p].source, importer[p].text>> IN
    /\ importer[p].pc = "insert" /\ ~Oversized
    /\ datasetRows' = [k \in DOMAIN datasetRows \cup {key} |->
                         IF k = key THEN "text" ELSE datasetRows[k]]
    /\ importer' = [importer EXCEPT ![p].pc = "count"]
    /\ UNCHANGED <<datasetCounts, datasetStarted, uncounted>>

Counted_Once(counts, s) ==
    [k \in DOMAIN counts \cup {s} |-> IF k \in DOMAIN counts THEN counts[k] ELSE 1]

\* record_row, second statement: the count of the source.
Counted(counts, s) ==
    [k \in DOMAIN counts \cup {s} |->
       IF k # s THEN counts[k] ELSE IF s \in DOMAIN counts THEN counts[s] + 1 ELSE 1]

CountRow(p) ==
    /\ importer[p].pc = "count"
    /\ datasetCounts' = Counted(datasetCounts, importer[p].source)
    /\ importer' = [importer EXCEPT ![p].pc = "row", ![p].text = Blank, ![p].new = @ + 1]
    /\ UNCHANGED <<datasetRows, datasetStarted, uncounted>>

ImportState(i) == IF i.new = 0 /\ i.already = 0 THEN "empty"
                  ELSE IF i.missing > 0 THEN "shortfall" ELSE "complete"

EndImport(p) ==
    LET i == importer[p] IN
    /\ i.pc = "row" /\ (i.read = RowLimit \/ i.read = Len(CsvOf[i.source]))
    /\ importer' = [importer EXCEPT ![p].pc = "ended", ![p].result = ImportState(i)]
    /\ UNCHANGED <<datasetRows, datasetCounts, datasetStarted, uncounted>>

\* reevaluate_dataset_corpus lists the rows once and updates them one by one;
\* an update of a row that is gone, or of an oversized file, does nothing.
StartDatasetReevaluation(p) == BeginDataset(p, "list", Finished("running").source)

ListRows(p) ==
    /\ importer[p].pc = "list"
    /\ importer' = [importer EXCEPT ![p].pc = "update",
                      ![p].todo = IF Oversized THEN {} ELSE DOMAIN datasetRows]
    /\ UNCHANGED <<datasetRows, datasetCounts, datasetStarted, uncounted>>

UpdateRow(p) ==
    /\ importer[p].pc = "update"
    /\ \E key \in importer[p].todo :
         /\ importer' = [importer EXCEPT ![p].todo = @ \ {key}]
         /\ datasetRows' = IF Oversized \/ key \notin DOMAIN datasetRows THEN datasetRows
                           ELSE [datasetRows EXCEPT ![key] = "excerpt"]
    /\ UNCHANGED <<datasetCounts, datasetStarted, uncounted>>

EndReevaluation(p) ==
    /\ importer[p].pc = "update" /\ importer[p].todo = {}
    /\ importer' = [importer EXCEPT ![p] = Finished("reevaluated")]
    /\ UNCHANGED <<datasetRows, datasetCounts, datasetStarted, uncounted>>

\* A statement fails (locked, disk full, the file has outgrown its limit) or
\* the process is killed: what was committed stays.
StopDataset(p) ==
    LET i == importer[p] IN
    /\ i.pc # "ended"
    /\ importer' = [importer EXCEPT ![p] = Finished("error")]
    /\ uncounted' = IF i.pc = "count" THEN [uncounted EXCEPT ![i.source] = @ + 1] ELSE uncounted
    /\ UNCHANGED <<datasetRows, datasetCounts, datasetStarted>>

DatasetStep(p) ==
    \/ \E s \in Sources : StartImport(p, s)
    \/ ReadRow(p) \/ InsertRow(p) \/ CountRow(p) \/ EndImport(p)
    \/ StartDatasetReevaluation(p) \/ ListRows(p) \/ UpdateRow(p) \/ EndReevaluation(p)
    \/ StopDataset(p)

DatasetNext == \E p \in DatasetProcesses : DatasetStep(p)

DatasetSpec == DatasetInit /\ [][DatasetNext]_datasetVars

-----------------------------------------------------------------------------
(* Properties.                                                               *)

\* An import that ends has accounted for every row it read, and retains every
\* text among them, although other imports and reevaluations write the same
\* rows and the file may outgrow its limit meanwhile.
ImportAccountsForRows ==
    \A p \in DatasetProcesses :
      LET i == importer[p] IN
      i.result \in {"complete", "shortfall", "empty"} =>
        /\ i.new + i.already + i.missing = i.read
        /\ \A n \in 1..i.read :
             CsvOf[i.source][n] # Blank => <<i.source, CsvOf[i.source][n]>> \in DOMAIN datasetRows

\* A row and the count of its source are two transactions: the count falls
\* behind by the imports that are, or ended, between the two, and by no more.
CountsKeepUp ==
    \A s \in Sources :
      LET counted == IF s \in DOMAIN datasetCounts THEN datasetCounts[s] ELSE 0
          between == { p \in DatasetProcesses : importer[p].pc = "count" /\ importer[p].source = s }
      IN Cardinality(RowsOf(s)) <= counted + Cardinality(between) + uncounted[s]
=============================================================================
