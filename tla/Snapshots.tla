------------------------------ MODULE Snapshots ------------------------------
(***************************************************************************)
(* export-public: _cmd_export_public in src/app/cli/__init__.py and        *)
(* write_atomic in src/app/services/public_snapshot.py.  Exports run at    *)
(* once, from the timer and by hand; a process may die between any two     *)
(* steps, and a power loss takes with it what was not flushed: content of  *)
(* files, and replacements of names in the directory.                      *)
(***************************************************************************)
EXTENDS Naturals, Sequences

CONSTANTS
    Exporters,
    Jobs,           \* the files an export writes, in their order
    Documents,      \* what can be built from the database
    MaxReplaced     \* bound: how often a name is replaced

ASSUME SnapAssumption ==
    /\ MaxReplaced \in Nat
    /\ \A job \in Jobs : Len(job) > 0 /\ job \in Seq({job[i] : i \in DOMAIN job})

VARIABLES
    files,          \* for each name the contents it was given; the last one is seen
    durable,        \* how many of them the directory on the disk has
    exporter,       \* where each export is
    reported        \* history: how many of them were reported as written

snapVars == <<files, durable, exporter, reported>>

Names == UNION {{job[i] : i \in DOMAIN job} : job \in Jobs}
NoExport == [pc |-> "idle", todo |-> <<>>, doc |-> "", flushed |-> FALSE, place |-> 0]

SnapInit ==
    /\ files = [n \in Names |-> <<>>]
    /\ durable = [n \in Names |-> 0]
    /\ exporter = [e \in Exporters |-> NoExport]
    /\ reported = [n \in Names |-> 0]

ExportAt(e, pc) == exporter[e].pc = pc
Name(e) == Head(exporter[e].todo)

-----------------------------------------------------------------------------
(* Every document is built before any file is touched; when one cannot be built the
   command ends here and the files stay. *)
BuildDocuments(e) ==
    /\ ExportAt(e, "idle")
    /\ \E job \in Jobs :
         exporter' = [exporter EXCEPT ![e] = [NoExport EXCEPT !.pc = "compare", !.todo = job]]
    /\ UNCHANGED <<files, durable, reported>>

NextFile(e) == IF Len(exporter[e].todo) = 1 THEN NoExport
               ELSE [NoExport EXCEPT !.pc = "compare", !.todo = Tail(exporter[e].todo)]

Seen(n) == IF files[n] = <<>> THEN "" ELSE files[n][Len(files[n])].doc

(* A file that has the content already is left alone; else a temporary file is written
   beside it. *)
CompareFile(e) ==
    /\ ExportAt(e, "compare")
    /\ \E doc \in Documents :
         exporter' = [exporter EXCEPT ![e] =
            IF Seen(Name(e)) = doc THEN NextFile(e)
            ELSE [@ EXCEPT !.pc = "written", !.doc = doc]]
    /\ UNCHANGED <<files, durable, reported>>

FlushedNever == FALSE

(* os.fsync of the temporary file. *)
Flushed == TRUE

FlushFile(e) ==
    /\ ExportAt(e, "written")
    /\ exporter' = [exporter EXCEPT ![e].pc = "flushed", ![e].flushed = Flushed]
    /\ UNCHANGED <<files, durable, reported>>

(* os.replace. *)
ReplaceFile(e) ==
    LET n == Name(e) IN
    /\ ExportAt(e, "flushed") /\ Len(files[n]) < MaxReplaced
    /\ files' = [files EXCEPT ![n] =
         Append(@, [doc |-> exporter[e].doc, flushed |-> exporter[e].flushed])]
    /\ exporter' = [exporter EXCEPT ![e].pc = "replaced", ![e].place = Len(files'[n])]
    /\ UNCHANGED <<durable, reported>>

(* os.fsync of the directory, for every name in it; then the file is reported written. *)
FlushDirectory(e) ==
    /\ ExportAt(e, "replaced")
    /\ durable' = [n \in Names |-> Len(files[n])]
    /\ reported' = [reported EXCEPT ![Name(e)] =
         IF @ < exporter[e].place THEN exporter[e].place ELSE @]
    /\ exporter' = [exporter EXCEPT ![e] = NextFile(e)]
    /\ UNCHANGED files

-----------------------------------------------------------------------------
(* A full disk, or a process that is killed: the temporary file is removed or stays
   under its own name. *)
ExportDies(e) ==
    /\ ~ ExportAt(e, "idle")
    /\ exporter' = [exporter EXCEPT ![e] = NoExport]
    /\ UNCHANGED <<files, durable, reported>>

(* Of what was not flushed, the disk has any part. *)
PowerLoss ==
    /\ exporter' = [e \in Exporters |-> NoExport]
    /\ \E kept \in [Names -> 0..MaxReplaced] :
         /\ \A n \in Names : durable[n] <= kept[n] /\ kept[n] <= Len(files[n])
         /\ durable' = kept
         /\ files' = [n \in Names |-> [i \in 1..kept[n] |->
              IF files[n][i].flushed THEN files[n][i]
              ELSE [doc |-> "torn", flushed |-> TRUE]]]
    /\ UNCHANGED reported

SnapNext ==
    \/ \E e \in Exporters :
          \/ BuildDocuments(e) \/ CompareFile(e) \/ FlushFile(e) \/ ReplaceFile(e)
          \/ FlushDirectory(e) \/ ExportDies(e)
    \/ PowerLoss

SnapSpec == SnapInit /\ [][SnapNext]_snapVars

-----------------------------------------------------------------------------
(* write_atomic: a published name is absent or shows a whole document that an export has
   built, also after a power loss; and a file that was reported as written is not lost
   again, though a later export may have replaced it. *)
SnapshotsAreWhole ==
    \A n \in Names :
        /\ files[n] # <<>> => Seen(n) \in Documents
        /\ reported[n] <= Len(files[n])
=============================================================================
