---- MODULE Delivery ----
(***************************************************************************)
(* From source files to a directory of corrected ones: the parsers' stamp, *)
(* core/preflight.py, formats/_snapshot.py, core/rendering.py,             *)
(* core/provenance.py and CorrectionResult.write of core/result.py.        *)
(*                                                                         *)
(* The files belong to others: their content may change, or go, between    *)
(* any two steps.  The process may die at any step, and a write may fail   *)
(* half way and be tried again.  A content is a version; the texts decided *)
(* and how they are rewritten are left out, but for a rewrite that does    *)
(* not say what was decided, which may happen to any file.                 *)
(***************************************************************************)
EXTENDS Integers, FiniteSets

CONSTANTS
  Files,      \* the source files of the document
  Versions,   \* the contents a file may have
  MaxRuns     \* bound: the runs of the model

ASSUME BoundsAssumption == MaxRuns \in Nat
ASSUME GoneAssumption == "gone" \notin Versions

VARIABLES
  src,        \* src[f]: the content of f now, "gone" when it cannot be read
  pc,         \* "idle", "parse", "loaded", "capture", "render", "reread", "recheck",
              \* "result", or a stage of a write: "xmls", "report", "sidecar", "written"
  left,       \* the files the present loop has still to treat
  doc,        \* doc[f]: the content the manifest was built from
  stamped,    \* the manifest carries the parser's digests
  given,      \* the files of source_files: all of them, or none in a dry run
  custom,     \* the host's own adapter, which reads the path itself
  run,        \* the number of the run
  snap,       \* snap[f]: the bytes captured at preflight
  over,       \* over[f]: the content the output of f was rendered from
  withheld,   \* undeliverable_files
  refused,    \* the run has sidecar entries
  xml,        \* xml[f]: the output of f in the directory, or Nothing
  report,     \* report.json, or Nothing
  sidecar     \* the run whose sidecar.json is in the directory, or 0

Nothing   == [run |-> 0]
Empty     == [f \in {} |-> f]

document  == <<doc, stamped>>
settings  == <<given, custom, run, refused>>
rendering == <<snap, over, withheld>>
Forgotten == given' = {} /\ custom' = FALSE /\ refused' = FALSE /\ snap' = Empty
               /\ over' = Empty /\ withheld' = {} /\ left' = {}
directory == <<xml, report, sidecar>>
vars == <<src, pc, left, document, settings, rendering, directory>>

Delivered == given \ withheld

Init ==
  /\ src \in [Files -> Versions]
  /\ pc = "idle" /\ left = {}
  /\ doc = Empty /\ stamped = FALSE
  /\ given = {} /\ custom = FALSE /\ run = 0 /\ refused = FALSE
  /\ snap = Empty /\ over = Empty /\ withheld = {}
  /\ xml = [f \in Files |-> Nothing] /\ report = Nothing /\ sidecar = 0

\* Somebody replaces, removes or restores a source file.  While a result is written
\* nothing reads it, and a change then is one that comes right after.
Edit ==
  /\ pc \in {"idle", "parse", "loaded", "capture", "render", "reread", "recheck"}
  /\ \E f \in Files, v \in Versions \cup {"gone"} : src' = [src EXCEPT ![f] = v]
  /\ UNCHANGED <<pc, left, document, settings, rendering, directory>>

----
\* build_document_manifest: each file is read once, parsed and stamped from the same
\* bytes.  A manifest built by hand from those bytes has no stamp.
Load ==
  /\ pc = "idle"
  /\ pc' = "parse" /\ left' = Files
  /\ doc' = Empty /\ stamped' \in BOOLEAN
  /\ UNCHANGED <<src, settings, rendering, directory>>

ParseFile ==
  /\ pc = "parse"
  /\ \E f \in left :
       /\ src[f] # "gone"
       /\ doc' = [g \in DOMAIN doc \cup {f} |-> IF g = f THEN src[f] ELSE doc[g]]
       /\ left' = left \ {f}
       /\ pc' = IF left' = {} THEN "loaded" ELSE "parse"
  /\ UNCHANGED <<src, stamped, settings, rendering, directory>>

\* _require_every_source: a run over the loaded document, with all its files or none.
StartRun ==
  /\ pc = "loaded" /\ run < MaxRuns
  /\ given' \in {{}, Files} /\ custom' \in BOOLEAN
  /\ run' = run + 1
  /\ pc' = "capture" /\ left' = given'
  /\ refused' \in BOOLEAN
  /\ UNCHANGED <<src, document, rendering, directory>>

\* _snapshot_sources: read every file again, and keep the bytes.
Capture ==
  /\ pc = "capture"
  /\ \E f \in left :
       /\ src[f] # "gone"
       /\ snap' = [g \in DOMAIN snap \cup {f} |-> IF g = f THEN src[f] ELSE snap[g]]
       /\ left' = left \ {f}
  /\ UNCHANGED <<src, pc, document, settings, over, withheld, directory>>

\* The file a host's adapter is at work on.
Pending == left \cap DOMAIN over

\* A file that cannot be read: no manifest, or no run (ParseError at preflight, the
\* adapter's own error later).
Unreadable ==
  /\ pc \in {"parse", "capture", "reread"}
  /\ \E f \in (IF pc = "reread" THEN Pending ELSE left) : src[f] = "gone"
  /\ pc' = IF pc = "parse" THEN "idle" ELSE "loaded"
  /\ Forgotten
  /\ UNCHANGED <<src, document, run, directory>>

Changed == {f \in given : stamped /\ snap[f] # doc[f]}

\* The bytes are the ones decided on: the run may call its producer, decide and go on
\* to render.
Preflight ==
  /\ pc = "capture" /\ left = {} /\ Changed = {}
  /\ left' = given
  /\ pc' = "render"
  /\ UNCHANGED <<src, document, settings, rendering, directory>>

\* A file no longer holds the bytes it was parsed from: ConfigurationError.
RefuseChanged ==
  /\ pc = "capture" /\ left = {} /\ Changed # {}
  /\ pc' = "loaded"
  /\ Forgotten
  /\ UNCHANGED <<src, document, run, directory>>

----
\* Mutated form: the adapter opens the source again.
BytesOnDisk(f) == src[f]

\* SnapshotAdapter.rewrite_file: what a built-in adapter renders from.
BytesOf(f) == snap[f]

\* The loop of _render_outputs goes on to the next file: a file whose rewrite is
\* refused is withheld and the others go on.
Rendered(f, bytes) ==
  /\ over' = [g \in DOMAIN over \cup {f} |-> IF g = f THEN bytes ELSE over[g]]
  /\ UNCHANGED withheld
Withhold(f) == withheld' = withheld \cup {f} /\ UNCHANGED over

\* Rewritten by a built-in adapter; _verify_serialized and _verify_projection accept
\* the output or raise ProjectionError.
Render ==
  /\ pc = "render" /\ ~custom
  /\ \E f \in left :
       /\ Rendered(f, BytesOf(f)) \/ Withhold(f)
       /\ left' = left \ {f}
  /\ UNCHANGED <<src, pc, document, settings, snap, directory>>

\* Any other adapter reads the path itself: _require_unchanged before and after it.
OwnRead ==
  /\ pc = "render" /\ custom
  /\ \E f \in left : /\ src[f] = snap[f]
                     /\ over' = [g \in DOMAIN over \cup {f} |-> IF g = f THEN "gone" ELSE over[g]]
  /\ pc' = "reread"
  /\ UNCHANGED <<src, left, document, settings, snap, withheld, directory>>

\* The adapter's own read, of a file that may have changed since.
OwnRewrite ==
  /\ pc = "reread"
  /\ \E f \in Pending :
       /\ src[f] # "gone"
       /\ over' = [over EXCEPT ![f] = src[f]]
  /\ pc' = "recheck"
  /\ UNCHANGED <<src, left, document, settings, snap, withheld, directory>>

OwnChecked ==
  /\ pc = "recheck"
  /\ \E f \in Pending :
       /\ src[f] = snap[f] /\ UNCHANGED <<over, withheld>>
       /\ left' = left \ {f}
  /\ pc' = "render"
  /\ UNCHANGED <<src, document, settings, snap, directory>>

\* The file changed before or after the adapter's read, or its output is refused.
OwnWithheld ==
  /\ custom /\ pc \in {"render", "recheck"}
  /\ \E f \in (IF pc = "recheck" THEN Pending ELSE left) :
       /\ pc = "recheck" \/ src[f] # snap[f]
       /\ over' = [g \in DOMAIN over \ {f} |-> over[g]]
       /\ withheld' = withheld \cup {f}
       /\ left' = left \ {f}
  /\ pc' = "render"
  /\ UNCHANGED <<src, document, settings, snap, directory>>

\* The report attests the captured bytes (digests_of_the_bytes_decided_on).
Finish ==
  /\ pc = "render" /\ left = {}
  /\ pc' = "result"
  /\ UNCHANGED <<src, left, document, settings, rendering, directory>>

----
\* Mutated form: only the outputs of this run are looked at.
InTheWayOfOutputs(f) == f \in Delivered

\* A file of the directory has the name of a source the run withholds.
InTheWay(f) == xml[f] # Nothing

\* Mutated form: the report goes out first.
ReportFirst(stage) == CASE stage = "begin" -> "report" [] stage = "report" -> "xmls"
                        [] stage = "xmls" -> "sidecar" [] stage = "sidecar" -> "written"

\* The order in which write() replaces the outputs.
NextStage(stage) == CASE stage = "begin" -> "xmls" [] stage = "xmls" -> "report"
                      [] stage = "report" -> "sidecar" [] stage = "sidecar" -> "written"

\* write(), which the caller lets deliver a part (allow_partial) or does not call:
\* what it refuses, it refuses before the first file.
Write ==
  /\ pc = "result"
  /\ ~\E f \in withheld : InTheWay(f)
  /\ pc' = NextStage("begin") /\ left' = Delivered
  /\ UNCHANGED <<src, document, settings, rendering, directory>>

\* _replace_output, one file at a time, in the order of source_files.
WriteXml ==
  /\ pc = "xmls"
  /\ \E f \in left : /\ xml' = [xml EXCEPT ![f] = [run |-> run, over |-> over[f]]]
                     /\ left' = left \ {f}
  /\ UNCHANGED <<src, pc, document, settings, rendering, report, sidecar>>

XmlsWritten ==
  /\ pc = "xmls" /\ left = {}
  /\ pc' = NextStage(pc)
  /\ UNCHANGED <<src, left, document, settings, rendering, directory>>

WriteReport ==
  /\ pc = "report"
  /\ report' = [run |-> run, delivered |-> Delivered, withheld |-> withheld,
                digests |-> snap, custom |-> custom]
  /\ pc' = NextStage(pc)
  /\ UNCHANGED <<src, left, document, settings, rendering, xml, sidecar>>

\* Mutated form: an obsolete sidecar stays.
SidecarKept == IF refused THEN run ELSE sidecar

\* Written with the run's entries, or the obsolete one unlinked.
SidecarOf == IF refused THEN run ELSE 0

WriteSidecar ==
  /\ pc = "sidecar"
  /\ sidecar' = SidecarOf
  /\ pc' = NextStage(pc)
  /\ UNCHANGED <<src, left, document, settings, rendering, xml, report>>

\* A replacement raises; the caller keeps the result and may write it again.
WriteFails ==
  /\ pc \in {"xmls", "report", "sidecar"}
  /\ pc' = "result" /\ left' = {}
  /\ UNCHANGED <<src, document, settings, rendering, directory>>

\* The host is done with the result: written, or not.
NextRun ==
  /\ pc \in {"result", "written"}
  /\ pc' = "loaded"
  /\ Forgotten
  /\ UNCHANGED <<src, document, run, directory>>

\* The process dies; what is on disk stays.
Crash ==
  /\ pc # "idle"
  /\ pc' = "idle" /\ doc' = Empty /\ stamped' = FALSE
  /\ Forgotten
  /\ UNCHANGED <<src, run, directory>>

\* The host turns to an empty directory.
NewDirectory ==
  /\ pc \in {"loaded", "result"}
  /\ xml' = [f \in Files |-> Nothing] /\ report' = Nothing /\ sidecar' = 0
  /\ UNCHANGED <<src, pc, left, document, settings, rendering>>

Next ==
  \/ Edit \/ Load \/ ParseFile \/ StartRun \/ Capture \/ Unreadable
  \/ Preflight \/ RefuseChanged
  \/ Render \/ OwnRead \/ OwnRewrite \/ OwnChecked \/ OwnWithheld \/ Finish
  \/ Write \/ WriteXml \/ XmlsWritten \/ WriteReport \/ WriteSidecar \/ WriteFails
  \/ NextRun \/ Crash \/ NewDirectory

Spec == Init /\ [][Next]_vars

----
HasResult == pc \in {"result", "xmls", "report", "sidecar", "written"}

\* Decisions made on one document are not delivered inside another one's markup: what
\* a built-in adapter rendered is what the run decided on, however the file changed
\* since it was parsed, and what the report will attest.
MarkupAsDecided ==
  HasResult /\ ~custom =>
    \A f \in Delivered : over[f] = snap[f] /\ (stamped => over[f] = doc[f])

\* The report is written after the files it describes: whenever one is on disk, after
\* a crash or a failed write too, each file it delivers is there, from that run or a
\* later one, and rendered from the bytes whose digest the report gives.
ReportLast ==
  report # Nothing => \A f \in report.delivered :
    /\ xml[f].run >= report.run
    /\ xml[f].run = report.run /\ ~report.custom => xml[f].over = report.digests[f]

\* An old output is not mistaken for a result: beside a report that withholds a file
\* no output of that file is as old as the report.
NoStaleOutput ==
  report # Nothing => \A f \in report.withheld :
    xml[f] = Nothing \/ xml[f].run > report.run

\* A completed write leaves the directory to this run: its report, its files, no file
\* it withheld, and its sidecar or none; whatever earlier writes left there half done.
WrittenWhole ==
  pc = "written" =>
    /\ report.run = run
    /\ \A f \in Delivered : xml[f].run = run
    /\ \A f \in withheld : xml[f] = Nothing
    /\ sidecar = (IF refused THEN run ELSE 0)

====
