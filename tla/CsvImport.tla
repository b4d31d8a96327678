-------------------------------- MODULE CsvImport --------------------------------
(***************************************************************************)
(* Importing a file: CsvUpload in the import dialogs of the DID page and of  *)
(* the blacklist, and the handlers their requests reach.  Files are parsed   *)
(* in the background and rows are sent over many turns of the event loop,    *)
(* while the dialog can be closed, which unmounts CsvUpload, and opened      *)
(* again.  Requests fail, and answers to requests that succeeded get lost.   *)
(***************************************************************************)
EXTENDS Integers, FiniteSets, FiniteSetsExt

CONSTANTS
    Files,       \* files the user may choose
    BadFiles,    \* the ones that are empty or lack a column
    NoFile,
    RowsPerFile, \* bound: rows of every other file
    MaxTasks     \* bound: files being parsed and imports, together

ASSUME FilesAssumption ==
    BadFiles \subseteq Files /\ NoFile \notin Files
ASSUME RowsPerFileAssumption == RowsPerFile \in Nat \ {0}
ASSUME MaxTasksAssumption == MaxTasks \in Nat \ {0}

VARIABLES
    importer,  \* whose dialog this is, and the rows of its files without a number
    box,       \* the dialog and the CsvUpload in it
    parsing,   \* files being parsed; live: for the CsvUpload that is mounted
    imports,   \* onImport calls that have not returned
    onServer,    \* the numbers the server has, each named by its file and row
    report     \* the import of the last toast that told how many rows were imported

csvVars == <<importer, box, parsing, imports, onServer, report>>

FileRows == 1 .. RowsPerFile
\* Only the DID page looks for rows without a number.
Importers == [page : {"did"}, blank : SUBSET FileRows] \cup [page : {"blacklist"}, blank : {{}}]
Empty == [name |-> NoFile, data |-> NoFile, errors |-> FALSE]
Fresh == [shown |-> FALSE, file |-> Empty, importing |-> FALSE]

\* An import: the rows still to be answered for (todo), its request (at) with the
\* number of rows the server added for it, and what the page has counted.  The
\* rows it added, those whose request was refused, and how many were added in
\* requests whose answer was lost, are the truth its toast is held against.
Requests == {"none", "sent", "taken", "refused"}
Imports == [id : 1 .. MaxTasks, file : Files, live : BOOLEAN, todo : SUBSET FileRows,
            at : Requests, added : Nat, success : Nat,
            took : SUBSET FileRows, failed : SUBSET FileRows, lost : Nat]
Import(id, file, rows) ==
    [id |-> id, file |-> file, live |-> TRUE, todo |-> rows, at |-> "none", added |-> 0,
     success |-> 0, took |-> {}, failed |-> {}, lost |-> 0]

\* The numbers of some rows of a file
NumbersOf(file, rows) == {file} \X rows
\* What the server may have to begin with
Stocks == SUBSET ((Files \ BadFiles) \X FileRows)

CsvTypeOK ==
    /\ importer \in Importers
    /\ box \in [shown : BOOLEAN, importing : BOOLEAN,
                file : [name : Files \cup {NoFile}, data : Files \cup {NoFile}, errors : BOOLEAN]]
    /\ parsing \subseteq [file : Files, live : BOOLEAN]
    /\ imports \subseteq Imports
    /\ onServer \subseteq Files \X FileRows
    /\ report \subseteq Imports

CsvInit(importers, stocks) ==
    /\ importer \in importers
    /\ box = Fresh
    /\ parsing = {}
    /\ imports = {}
    /\ onServer \in stocks
    /\ report = {}

--------------------------------------------------------------------------------
(* The dialog around CsvUpload *)

OpenImport ==
    /\ ~box.shown
    /\ box' = [Fresh EXCEPT !.shown = TRUE]
    /\ UNCHANGED <<importer, parsing, imports, onServer, report>>

\* What is under way goes on, for nobody.
Unmounted(tasks) == {[t EXCEPT !.live = FALSE] : t \in tasks}

CloseImport ==
    /\ box.shown
    /\ box' = Fresh
    /\ parsing' = Unmounted(parsing)
    /\ imports' = Unmounted(imports)
    /\ UNCHANGED <<importer, onServer, report>>

--------------------------------------------------------------------------------
(* CsvUpload *)

\* The name is shown at once, next to the rows of the file before.
HandleFile(f) ==
    /\ box.shown
    /\ Cardinality(parsing) + Cardinality(imports) < MaxTasks
    /\ box' = [box EXCEPT !.file.name = f]
    /\ parsing' = parsing \cup {[file |-> f, live |-> TRUE]}
    /\ UNCHANGED <<importer, imports, onServer, report>>

Validate(f) == f \in BadFiles

Parsed(p) ==
    /\ parsing' = parsing \ {p}
    /\ box' = IF p.live THEN [box EXCEPT !.file.data = p.file, !.file.errors = Validate(p.file)]
              ELSE box
    /\ UNCHANGED <<importer, imports, onServer, report>>

ResetFile ==
    /\ box.shown
    /\ box.file.name # NoFile
    /\ box' = [box EXCEPT !.file = Empty]
    /\ UNCHANGED <<importer, parsing, imports, onServer, report>>

HandleImport ==
    /\ box.shown
    /\ box.file.data # NoFile /\ ~box.file.errors
    /\ ~box.importing
    /\ Cardinality(parsing) + Cardinality(imports) < MaxTasks
    /\ \E id \in 1 .. MaxTasks :
          /\ \A i \in imports : i.id # id
          /\ imports' = imports \cup {Import(id, box.file.data, FileRows \ importer.blank)}
    /\ box' = [box EXCEPT !.importing = TRUE]
    /\ UNCHANGED <<importer, parsing, onServer, report>>

\* onImport has returned: reset() and, finally, setImporting(false), on the
\* CsvUpload that made the call.
Returned(i) == IF i.live THEN [box EXCEPT !.file = Empty, !.importing = FALSE] ELSE box

\* The page has closed its dialog, whichever CsvUpload is in it, and returns.
ClosedAndReturned(i) ==
    /\ box' = Fresh
    /\ parsing' = Unmounted(parsing)
    /\ imports' = Unmounted(imports \ {i})

--------------------------------------------------------------------------------
(* The requests, and the handlers they reach *)

Becomes(i, j) == imports' = (imports \ {i}) \cup {j}

\* What the request asks for: all numbers of the file at once, or one row.
Asking(i) == IF importer.page = "did" THEN i.todo ELSE {Min(i.todo)}

SendRequest(i) ==
    /\ i.at = "none" /\ i.todo # {}
    /\ Becomes(i, [i EXCEPT !.at = "sent"])
    /\ UNCHANGED <<importer, box, parsing, onServer, report>>

\* The handler's INSERT: the answer tells how many rows it added.
Inserts(i, rows) ==
    /\ onServer' = onServer \cup NumbersOf(i.file, rows)
    /\ Becomes(i, [i EXCEPT !.at = "taken", !.added = Cardinality(rows), !.took = @ \cup rows])
    /\ UNCHANGED <<importer, box, parsing, report>>

\* ON CONFLICT (number) DO NOTHING: numbers that are there are skipped.
ImportDIDs(i) ==
    /\ importer.page = "did" /\ i.at = "sent"
    /\ Inserts(i, {k \in i.todo : <<i.file, k>> \notin onServer})

\* A number that is there violates the unique key, and the request fails.
AddBlacklist(i) ==
    /\ importer.page = "blacklist" /\ i.at = "sent"
    /\ NumbersOf(i.file, Asking(i)) \cap onServer = {}
    /\ Inserts(i, Asking(i))

\* It can fail for other reasons, or not reach the server at all.
RequestFails(i) ==
    /\ i.at = "sent"
    /\ Becomes(i, [i EXCEPT !.at = "refused", !.failed = @ \cup Asking(i)])
    /\ UNCHANGED <<importer, box, parsing, onServer, report>>

--------------------------------------------------------------------------------
(* The two importers *)

\* The answer of a request that was carried out is counted, or lost on its way.
Counted(i) == [i EXCEPT !.success = @ + i.added, !.added = 0]
Uncounted(i) == [i EXCEPT !.lost = @ + i.added, !.added = 0]

\* handleImport of the DID page: one request for all numbers, whose answer the
\* toast repeats.  An error is caught, and without a number there is no request:
\* the dialog stays open, but the file has to be chosen again.
DidImported(i) ==
    /\ importer.page = "did"
    /\ \/ /\ i.at = "taken"
          /\ report' = {[Counted(i) EXCEPT !.todo = {}]}
          /\ ClosedAndReturned(i)
       \/ /\ i.at \in {"taken", "refused"} \/ i.todo = {}
          /\ imports' = imports \ {i}
          /\ box' = Returned(i)
          /\ UNCHANGED <<parsing, report>>
    /\ UNCHANGED <<importer, onServer>>

\* The loop goes on to the next row.
NextRow(i) == [i EXCEPT !.todo = @ \ Asking(i), !.at = "none"]

\* Mutant: the first row that fails ends the loop.
BulkImportStops(i) ==
    /\ importer.page = "blacklist"
    /\ \/ /\ \/ i.at = "taken" /\ Becomes(i, NextRow(Counted(i)))
             \/ i.at = "taken" /\ Becomes(i, [Uncounted(i) EXCEPT !.todo = {}, !.at = "none"])
             \/ i.at = "refused" /\ Becomes(i, [i EXCEPT !.todo = {}, !.at = "none"])
          /\ UNCHANGED <<box, parsing, report>>
       \/ /\ i.at = "none" /\ i.todo = {}
          /\ report' = {i}
          /\ ClosedAndReturned(i)
    /\ UNCHANGED <<importer, onServer>>

\* handleBulkImport of the blacklist: one request after the other, counting
\* those that are answered with success, whatever becomes of the dialog.
BulkImport(i) ==
    /\ importer.page = "blacklist"
    /\ \/ /\ \/ i.at = "taken" /\ Becomes(i, NextRow(Counted(i)))
             \/ i.at = "taken" /\ Becomes(i, NextRow(Uncounted(i)))
             \/ i.at = "refused" /\ Becomes(i, NextRow(i))
          /\ UNCHANGED <<box, parsing, report>>
       \/ /\ i.at = "none" /\ i.todo = {}
          /\ report' = {i}
          /\ ClosedAndReturned(i)
    /\ UNCHANGED <<importer, onServer>>

ImportStep(i) ==
    \/ SendRequest(i)
    \/ ImportDIDs(i) \/ AddBlacklist(i) \/ RequestFails(i)
    \/ DidImported(i) \/ BulkImport(i)

CsvNext ==
    \/ OpenImport \/ CloseImport \/ ResetFile \/ HandleImport
    \/ \E f \in Files : HandleFile(f)
    \/ \E p \in parsing : Parsed(p)
    \/ \E i \in imports : ImportStep(i)

\* Every request is answered in the end, or fails.
CsvFairness == \A n \in 1 .. MaxTasks : WF_csvVars(\E i \in imports : i.id = n /\ ImportStep(i))

--------------------------------------------------------------------------------
(* Properties *)

\* The toast does not lie: its number is that of the rows this import added to
\* the server, short of those whose answer was lost, and every row of the file
\* is on the server, or its own request failed, or it has no number.
ReportTrue ==
    \A i \in report :
        /\ i.success + i.lost = Cardinality(i.took)
        /\ \A k \in FileRows \ importer.blank : <<i.file, k>> \in onServer \/ k \in i.failed

Apart(i, j) == NumbersOf(i.file, i.took) \cap NumbersOf(j.file, j.took) = {}

\* No number is counted in two imports, whichever files and dialogs they are of
\* and however their requests interleave.
CountedOnce ==
    /\ \A i, j \in imports : i = j \/ Apart(i, j)
    /\ \A i \in imports, j \in report : Apart(i, j)

\* A CsvUpload has one import at a time, and says so while it has.
OneImport ==
    /\ \A i, j \in imports : i.live /\ j.live => i = j
    /\ \A i \in imports : i.live => box.importing

\* Importing ends, and its button is usable again.
ImportEnds == box.importing ~> ~box.importing
\* An import is accounted for: one at a time, to its end, with a true report.
ImportSound == [](ReportTrue /\ CountedOnce /\ OneImport) /\ ImportEnds
================================================================================
