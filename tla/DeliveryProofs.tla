---- MODULE DeliveryProofs ----
(***************************************************************************)
(* What a directory of outputs can be trusted for, proved for any files,   *)
(* contents and number of runs: the four properties of Delivery.           *)
(*                                                                         *)
(* They are not inductive.  The strengthening says where each output on    *)
(* disk came from: which part of the present write is done, that a report  *)
(* of the present run is the one this result would write again, and that   *)
(* before a result exists every report is of an earlier run.               *)
(***************************************************************************)
EXTENDS Delivery, TLAPS

Running == {"capture", "render", "reread", "recheck"}
Writing == {"xmls", "report", "sidecar", "written"}
Stages  == {"idle", "parse", "loaded", "result"} \cup Running \cup Writing

\* What WriteReport writes, now.
TheReport == [run |-> run, delivered |-> Delivered, withheld |-> withheld,
              digests |-> snap, custom |-> custom]

Shapes ==
  /\ pc \in Stages /\ run \in Nat
  /\ given \subseteq Files
  /\ pc \in Running => left \subseteq given
  /\ DOMAIN xml = Files
  /\ report # Nothing => report.run \in Nat

\* The bytes captured are the ones the manifest was built from.
Attested ==
  pc \in {"render", "reread", "recheck"} \cup {"result"} \cup Writing =>
    (stamped => \A f \in given : snap[f] = doc[f])

\* A built-in adapter has rendered what it is done with from the captured bytes.
RenderedSoFar ==
  /\ pc \in {"reread", "recheck"} => custom
  /\ pc = "render" /\ ~custom =>
       \A f \in given \ left : f \in withheld \/ (f \in DOMAIN over /\ over[f] = snap[f])
  /\ HasResult /\ ~custom => \A f \in Delivered : over[f] = snap[f]

\* A report is not of a later run; before a result exists, not of this one either;
\* and one of this run says what this result says.
ReportsAge ==
  report # Nothing =>
    /\ report.run <= run
    /\ pc \in Running => report.run < run
    /\ HasResult /\ report.run = run => report = TheReport

\* How far the write has come.
WrittenSoFar ==
  /\ pc = "xmls" => left \subseteq Delivered
  /\ pc \in Writing => \A f \in withheld : xml[f] = Nothing
  /\ pc \in Writing =>
       \A f \in Delivered :
         (pc = "xmls" /\ f \in left) \/ xml[f] = [run |-> run, over |-> over[f]]
  /\ pc \in {"sidecar", "written"} => report = TheReport
  /\ pc = "written" => sidecar = SidecarOf

DeliveryInv ==
  /\ Shapes /\ Attested /\ RenderedSoFar /\ ReportsAge /\ WrittenSoFar
  /\ ReportLast /\ NoStaleOutput

----
LEMMA InitHolds == Init => DeliveryInv
  BY BoundsAssumption
  DEF Init, DeliveryInv, Shapes, Attested, RenderedSoFar, ReportsAge, WrittenSoFar,
      ReportLast, NoStaleOutput, HasResult, Stages, Running, Writing, Nothing, Empty

\* Steps before a result: what is on disk stays, and is older than this run.
LEMMA BeforeResult ==
  ASSUME DeliveryInv,
         Edit \/ Load \/ ParseFile \/ StartRun \/ Capture \/ Unreadable
           \/ Preflight \/ RefuseChanged \/ NextRun \/ Crash
  PROVE  DeliveryInv'
<1> USE DEF DeliveryInv, Shapes, Attested, RenderedSoFar, ReportsAge, WrittenSoFar,
            ReportLast, NoStaleOutput, HasResult, Stages, Running, Writing, TheReport,
            Delivered, SidecarOf, document, settings, rendering, directory
<1>1. CASE Edit          BY <1>1 DEF Edit
<1>2. CASE Load          BY <1>2 DEF Load
<1>3. CASE ParseFile     BY <1>3 DEF ParseFile
<1>4. CASE StartRun      BY <1>4 DEF StartRun
<1>5. CASE Capture       BY <1>5 DEF Capture
<1>6. CASE Unreadable    BY <1>6 DEF Unreadable, Forgotten
<1>7. CASE Preflight     BY <1>7 DEF Preflight, Changed
<1>8. CASE RefuseChanged BY <1>8 DEF RefuseChanged, Forgotten
<1>9. CASE NextRun       BY <1>9 DEF NextRun, Forgotten
<1>10. CASE Crash        BY <1>10 DEF Crash, Forgotten
<1> QED BY <1>1, <1>2, <1>3, <1>4, <1>5, <1>6, <1>7, <1>8, <1>9, <1>10

\* Steps of the rendering: the same, and each file is done with as it should be.
LEMMA RenderSteps ==
  ASSUME DeliveryInv,
         Render \/ OwnRead \/ OwnRewrite \/ OwnChecked \/ OwnWithheld \/ Finish
  PROVE  DeliveryInv'
<1> USE DEF DeliveryInv, Shapes, Attested, RenderedSoFar, ReportsAge, WrittenSoFar,
            ReportLast, NoStaleOutput, HasResult, Stages, Running, Writing, TheReport,
            Delivered, SidecarOf, document, settings, rendering, directory
<1>1. CASE Render      BY <1>1 DEF Render, Rendered, Withhold, BytesOf
<1>2. CASE OwnRead     BY <1>2 DEF OwnRead
<1>3. CASE OwnRewrite  BY <1>3 DEF OwnRewrite, Pending
<1>4. CASE OwnChecked  BY <1>4 DEF OwnChecked, Pending
<1>5. CASE OwnWithheld BY <1>5 DEF OwnWithheld, Pending
<1>6. CASE Finish      BY <1>6 DEF Finish
<1> QED BY <1>1, <1>2, <1>3, <1>4, <1>5, <1>6

\* Steps of a write, whole or broken off, and a new directory.
LEMMA WriteSteps ==
  ASSUME DeliveryInv,
         Write \/ WriteXml \/ XmlsWritten \/ WriteReport \/ WriteSidecar \/ WriteFails
           \/ NewDirectory
  PROVE  DeliveryInv'
<1> USE DEF DeliveryInv, Shapes, Attested, RenderedSoFar, ReportsAge, WrittenSoFar,
            ReportLast, NoStaleOutput, HasResult, Stages, Running, Writing, TheReport,
            Delivered, SidecarOf, NextStage, document, settings, rendering, directory
<1>1. CASE Write        BY <1>1 DEF Write, InTheWay
<1>2. CASE WriteXml     BY <1>2 DEF WriteXml
<1>3. CASE XmlsWritten  BY <1>3 DEF XmlsWritten
<1>4. CASE WriteReport
  <2>1. /\ pc = "report" /\ pc' = "sidecar" /\ report' = TheReport
        /\ UNCHANGED <<src, left, document, settings, rendering, xml, sidecar>>
    BY <1>4 DEF WriteReport
  <2>2. report'.run = run /\ report'.withheld = withheld
        /\ report'.delivered = Delivered /\ report'.digests = snap /\ report'.custom = custom
    BY <2>1
  <2>3. \A f \in Delivered : xml[f].run = run /\ xml[f].over = over[f]
    <3> TAKE f \in Delivered
    <3>1. xml[f] = [run |-> run, over |-> over[f]]
      BY <2>1
    <3> QED BY <3>1
  <2>4. ReportLast' /\ NoStaleOutput'
    BY <2>1, <2>2, <2>3
  <2>5. TheReport' = TheReport
    BY <2>1
  <2>6. Shapes' /\ ReportsAge'
    BY <2>1, <2>2, <2>5
  <2>7. Attested' /\ RenderedSoFar' /\ WrittenSoFar'
    BY <2>1, <2>5
  <2> QED BY <2>4, <2>6, <2>7
<1>5. CASE WriteSidecar BY <1>5 DEF WriteSidecar
<1>6. CASE WriteFails   BY <1>6 DEF WriteFails
<1>7. CASE NewDirectory BY <1>7 DEF NewDirectory, Nothing
<1> QED BY <1>1, <1>2, <1>3, <1>4, <1>5, <1>6, <1>7

LEMMA Stutter == DeliveryInv /\ UNCHANGED vars => DeliveryInv'
  BY DEF DeliveryInv, Shapes, Attested, RenderedSoFar, ReportsAge, WrittenSoFar,
         ReportLast, NoStaleOutput, HasResult, TheReport, Delivered, SidecarOf,
         vars, document, settings, rendering, directory

LEMMA InvHolds == Spec => []DeliveryInv
<1>1. DeliveryInv /\ [Next]_vars => DeliveryInv'
  BY BeforeResult, RenderSteps, WriteSteps, Stutter DEF Next
<1> QED BY InitHolds, <1>1, PTL DEF Spec

----
\* What a built-in adapter rendered is what the run decided on (core/preflight.py and
\* formats/_snapshot.py), however the files change between any two steps.
THEOREM RenderedAsDecided == Spec => []MarkupAsDecided
<1>1. DeliveryInv => MarkupAsDecided
  BY DEF DeliveryInv, Shapes, Attested, RenderedSoFar, MarkupAsDecided, HasResult, Writing,
         Delivered
<1> QED BY <1>1, InvHolds, PTL

\* CorrectionResult.write, through crashes and failed writes of any number of runs: a
\* report on disk describes files that are there.
THEOREM ReportDescribes == Spec => []ReportLast
<1>1. DeliveryInv => ReportLast
  BY DEF DeliveryInv
<1> QED BY <1>1, InvHolds, PTL

\* No report ever lies beside an output, as old as itself, of a file it withholds.
THEOREM WithheldAbsent == Spec => []NoStaleOutput
<1>1. DeliveryInv => NoStaleOutput
  BY DEF DeliveryInv
<1> QED BY <1>1, InvHolds, PTL

\* A write that completes leaves nothing of an earlier one in its place.
THEOREM WriteLeavesOne == Spec => []WrittenWhole
<1>1. DeliveryInv => WrittenWhole
  <2> SUFFICES ASSUME DeliveryInv, pc = "written" PROVE WrittenWhole
    BY DEF WrittenWhole
  <2>1. report = TheReport /\ sidecar = SidecarOf
    BY DEF DeliveryInv, WrittenSoFar
  <2>2. \A f \in withheld : xml[f] = Nothing
    BY DEF DeliveryInv, WrittenSoFar, Writing
  <2>3. \A f \in Delivered : xml[f].run = run
    <3> TAKE f \in Delivered
    <3>1. xml[f] = [run |-> run, over |-> over[f]]
      BY DEF DeliveryInv, WrittenSoFar, Writing
    <3> QED BY <3>1
  <2> QED BY <2>1, <2>2, <2>3 DEF WrittenWhole, TheReport, SidecarOf
<1> QED BY <1>1, InvHolds, PTL

====
