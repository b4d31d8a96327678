--------------------------------- MODULE Console ---------------------------------
(***************************************************************************)
(* The pages under Layout, put together from their parts: a query with its   *)
(* mutations, a dialog, a table, an import, a local form and the frame.      *)
(* The parts of a page share no state beyond the cache entry of PageQuery,   *)
(* so the tab is followed with one part at work at a time; the others rest   *)
(* in a state they start in.                                                 *)
(***************************************************************************)
EXTENDS PageQuery, Dialogs, PagedTable, CsvImport, LocalForms, Chrome

CONSTANT Parts  \* the parts that are followed

PartNames == {"query", "dialog", "table", "import", "local", "frame"}
ASSUME PartsAssumption == Parts \subseteq PartNames

VARIABLE part  \* the part that is at work

consoleVars == <<part, pageQueryVars, dialogVars, tableVars, csvVars, localVars, chromeVars>>

\* The part at work starts in any of the ways it can, another one in one way.
Starts(p, ways) == IF part = p THEN ways ELSE {CHOOSE w \in ways : TRUE}

ConsoleInit ==
    /\ part \in Parts
    /\ PageQueryInit(Starts("query", Rows))
    /\ DialogInit(Starts("dialog", AllDialogs))
    /\ TableInit(Starts("table", Tables), Starts("table", RowCounts))
    /\ CsvInit(Starts("import", Importers), Starts("import", Stocks))
    /\ LocalInit(Starts("local", Types))
    /\ ChromeInit(Starts("frame", Visits))

PageQueryPart ==
    /\ part = "query" /\ PageQueryNext
    /\ UNCHANGED <<part, dialogVars, tableVars, csvVars, localVars, chromeVars>>
DialogPart ==
    /\ part = "dialog" /\ DialogNext
    /\ UNCHANGED <<part, pageQueryVars, tableVars, csvVars, localVars, chromeVars>>
TablePart ==
    /\ part = "table" /\ TableNext
    /\ UNCHANGED <<part, pageQueryVars, dialogVars, csvVars, localVars, chromeVars>>
CsvPart ==
    /\ part = "import" /\ CsvNext
    /\ UNCHANGED <<part, pageQueryVars, dialogVars, tableVars, localVars, chromeVars>>
LocalPart ==
    /\ part = "local" /\ LocalNext
    /\ UNCHANGED <<part, pageQueryVars, dialogVars, tableVars, csvVars, chromeVars>>
ChromePart ==
    /\ part = "frame" /\ ChromeNext
    /\ UNCHANGED <<part, pageQueryVars, dialogVars, tableVars, csvVars, localVars>>

ConsoleNext == PageQueryPart \/ DialogPart \/ TablePart \/ CsvPart \/ LocalPart \/ ChromePart

ConsoleSpec == ConsoleInit /\ [][ConsoleNext]_consoleVars

FairConsoleSpec == ConsoleSpec /\ PageQueryFairness /\ CsvFairness

--------------------------------------------------------------------------------

\* Every part's state has its type: a page's index is never negative, a
\* configuration item keeps a usable value, an address is listed once.
ConsoleTypeOK ==
    part \in PartNames /\ PageQueryTypeOK /\ DialogTypeOK /\ TableTypeOK /\ CsvTypeOK
        /\ LocalTypeOK /\ ChromeTypeOK
================================================================================
