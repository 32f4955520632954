-------------------------- MODULE AvailmentReport --------------------------
(***************************************************************************)
(* The report of a day's availments.  A request of the endpoint is         *)
(* answered at once; a goroutine reads the availments of the day in        *)
(* chunks, writes them to a local file and uploads it to a bucket.  The    *)
(* day is one of Manila, the file is named after a day of UTC and from the *)
(* time it is written, and all goroutines use one directory.  Time is      *)
(* counted in hours, or in larger units that divide a day.                 *)
(***************************************************************************)
EXTENDS Integers

CONSTANTS
    Reports,        \* runs of the report
    Nobody,         \* no run: what a file holds that was written in part
    Day, Offset,    \* length of a day; Manila is ahead of UTC by this
    Every, Chunks,  \* REPORT_EVERY_X_HOURS and REPORT_CHUNKS
    MaxRetries,     \* attempts after the first
    Empty,          \* hours without an availment
    Asked,          \* days a request may ask for
    MaxNow,         \* bound: the clock stops here
    ReportTroubles  \* mongo, gcs: a call fails; disk: the file cannot be
                    \* written; context: it is that of another request by now;
                    \* crash: the instance dies

ASSUME ReportAssumption ==
    /\ Nobody \notin Reports
    /\ Day \in Nat \ {0} /\ Offset \in 0 .. (Day - 1)
    /\ Every \in 1 .. Day /\ Asked \subseteq Nat /\ Chunks \in 1 .. Day
    /\ MaxRetries \in Nat /\ MaxNow \in Nat /\ MaxNow >= 2 * Day
    /\ ReportTroubles \subseteq {"mongo", "gcs", "disk", "context", "crash"}

VARIABLES
    clock,    \* hours of UTC
    report, \* the runs
    file,   \* the local files: the run whose rows are in it, or Nobody
    bucket, \* the objects, likewise
    shared, \* runs that had a file of another run in hand at some time
    failing \* a write failed

reportVars == <<clock, report, file, bucket, shared, failing>>

Days  == 0 .. (MaxNow \div Day + 1)
Hours == 0 .. (Every - 1)
NoDay == -1

\* asked: dynamicStartDay; day: the day that is reported; over: it was over when the
\* run began; early: that was before eight in the morning; began, created: the days of
\* UTC when it began and when it created its file; next, size, tries: of the chunks;
\* rows: how often each hour is there; name: of the file; linked: the file it has in
\* hand is still there; copy: what it found in it.
NewReport == [at |-> "new", asked |-> NoDay, day |-> 0, over |-> FALSE, early |-> FALSE,
              began |-> 0, created |-> 0, next |-> 0, size |-> 0, tries |-> 0,
              rows |-> [h \in Hours |-> 0], name |-> NoDay, linked |-> FALSE, copy |-> {}]
ReportPcs == {"new", "read", "create", "write", "open", "copy", "remove", "done", "failed"}
Contents  == {{}} \cup {{k} : k \in Reports \cup {Nobody}}

ReportTypeOK ==
    /\ clock \in Nat
    /\ \A k \in Reports :
          /\ report[k].at \in ReportPcs
          /\ report[k].next \in 0 .. Every /\ report[k].tries \in 0 .. (MaxRetries + 1)
          /\ report[k].at = "read" => report[k].next < Every /\ report[k].tries <= MaxRetries
          /\ report[k].at \in {"write", "open", "copy", "remove"} => report[k].name \in Days
    /\ file \in [Days -> Contents] /\ bucket \in [Days -> Contents]
    /\ shared \subseteq Reports /\ failing \in BOOLEAN

ReportInit ==
    /\ clock \in (2 * Day) .. MaxNow
    /\ \E asked \in [Reports -> Asked \cup {NoDay}] :
          report = [k \in Reports |-> [NewReport EXCEPT !.asked = asked[k]]]
    /\ file = [d \in Days |-> {}] /\ bucket = [d \in Days |-> {}]
    /\ shared = {} /\ failing = FALSE

Upset(t) == t \in ReportTroubles

-----------------------------------------------------------------------------
(* The rows.                                                               *)

\* The first hour of a day of Manila.
Start(day) == day * Day - Offset

\* getMidnightYesterdayUTC.
Yesterday == (clock + Offset) \div Day - 1

\* dynamicStartDay, unless it is to come.
Chosen(asked) == IF asked # NoDay /\ asked * Day < clock THEN asked ELSE Yesterday

\* The goroutine reads the day from the context of the request, which the server
\* may have given to the next one by then.
Begin(k) ==
    /\ report[k].at = "new"
    /\ \E j \in IF Upset("context") THEN Reports ELSE {k} :
       LET day == Chosen(report[j].asked) IN
       report' = [report EXCEPT ![k] =
                     [@ EXCEPT !.at = "read", !.asked = report[j].asked, !.day = day,
                               !.over  = Start(day) + Every <= clock,
                               !.early = (clock + Offset) % Day < Offset,
                               !.began = clock \div Day, !.size = Day \div Chunks]]
    /\ UNCHANGED <<clock, file, bucket, shared, failing>>

Least(s, t) == IF s < t THEN s ELSE t

Present(hour) == hour \notin Empty /\ hour < clock

\* What a query for a part of the day finds.
Found(day, from, to) ==
    [h \in Hours |-> IF h >= from /\ h < to /\ Present(Start(day) + h) THEN 1 ELSE 0]

\* The last chunk may be shorter.
ChunkEnd(r) == Least(r.next + r.size, Every)

\* The chunks of AvailmentReports.
ReadChunk(k) ==
    /\ report[k].at = "read"
    /\ LET r     == report[k]
           to    == ChunkEnd(r)
           found == Found(r.day, r.next, to)
       IN report' = [report EXCEPT ![k] =
                        [@ EXCEPT !.next = to,
                                  !.rows = [h \in Hours |-> r.rows[h] + found[h]],
                                  !.at   = IF to = Every THEN "create" ELSE "read"]]
    /\ UNCHANGED <<clock, file, bucket, shared, failing>>

\* Mutant: the rows found so far are kept.
RetryWithRows(k) ==
    /\ Upset("mongo") /\ report[k].at = "read"
    /\ report' = [report EXCEPT ![k] =
                     [report[k] EXCEPT !.size = @ + 1, !.tries = @ + 1, !.next = 0,
                               !.at = IF report[k].tries = MaxRetries THEN "failed" ELSE @]]
    /\ UNCHANGED <<clock, file, bucket, shared, failing>>

\* All of it is read again, in larger chunks.
Retry(k) ==
    /\ Upset("mongo") /\ report[k].at = "read"
    /\ report' = [report EXCEPT ![k] =
                     [report[k] EXCEPT !.size = @ + 1, !.tries = @ + 1, !.next = 0,
                               !.rows = NewReport.rows,
                               !.at = IF report[k].tries = MaxRetries THEN "failed" ELSE @]]
    /\ UNCHANGED <<clock, file, bucket, shared, failing>>

-----------------------------------------------------------------------------
(* The file.                                                               *)

\* The day of UTC that began this long ago.
Name == (clock - Every) \div Day

\* Runs with a file of that name in hand.
Holders(name) ==
    {k \in Reports : report[k].at \in {"write", "open", "copy", "remove"}
                     /\ report[k].name = name}

Proceed(k, at)  == report' = [report EXCEPT ![k].at = at]
GivesUp(k) == Proceed(k, "failed")

\* os.Create empties a file that is there, also under those who write or read it.
CreateFile(k) ==
    /\ report[k].at = "create"
    /\ \/ /\ report' = [report EXCEPT ![k] =
                          [@ EXCEPT !.at = "write", !.name = Name, !.linked = TRUE,
                                    !.created = clock \div Day]]
          /\ file' = [file EXCEPT ![Name] = {Nobody}]
          /\ shared' = IF Holders(Name) = {} THEN shared
                       ELSE shared \cup Holders(Name) \cup {k}
       \/ Upset("disk") /\ GivesUp(k) /\ UNCHANGED <<file, shared>>
    /\ UNCHANGED <<clock, bucket, failing>>

\* What is written to a file that was removed is gone with it.
Puts(k, content) ==
    file' = IF report[k].linked THEN [file EXCEPT ![report[k].name] = content] ELSE file

\* WriteAvailmentReportsToTxtFile; the error of the last flush is not looked at.
\* Two that write one file may spoil it.
Write(k) ==
    /\ report[k].at = "write"
    /\ \/ Proceed(k, "open") /\ Puts(k, {k}) /\ UNCHANGED failing
       \/ /\ Holders(report[k].name) # {k}
          /\ Proceed(k, "open") /\ Puts(k, {Nobody}) /\ UNCHANGED failing
       \/ /\ Upset("disk") /\ failing' = TRUE
          /\ Proceed(k, "open") \/ GivesUp(k)
          /\ Puts(k, {Nobody})
    /\ UNCHANGED <<clock, bucket, shared>>

\* The file that has the name by now.
Open(k) ==
    /\ report[k].at = "open"
    /\ LET content == file[report[k].name] IN
       IF content = {} THEN GivesUp(k)
       ELSE report' = [report EXCEPT ![k] =
                          [@ EXCEPT !.at = "copy", !.linked = TRUE, !.copy = content]]
    /\ UNCHANGED <<clock, file, bucket, shared, failing>>

\* A file that was written to since it was opened is read as it was, as it is, or in
\* part; one that was removed, as it was.
Readings(k) ==
    LET found   == report[k].copy
        current == file[report[k].name]
    IN IF report[k].linked /\ current # found THEN {found, current, {Nobody}} ELSE {found}

\* UploadAvailmentReportsTxtFileToGCS: the object is there when its writer is closed.
Copy(k) ==
    /\ report[k].at = "copy"
    /\ \/ /\ Proceed(k, "remove")
          /\ \E content \in Readings(k) :
                bucket' = [bucket EXCEPT ![report[k].name] = content]
       \/ Upset("gcs") /\ GivesUp(k) /\ UNCHANGED bucket
    /\ UNCHANGED <<clock, file, shared, failing>>

\* Another run may have removed it.
RemoveFile(k) ==
    /\ report[k].at = "remove"
    /\ LET name == report[k].name
           at   == IF file[name] = {} THEN "failed" ELSE "done"
       IN /\ report' = [j \in Reports |->
                            IF j = k THEN [report[k] EXCEPT !.at = at]
                            ELSE IF report[j].name = name THEN [report[j] EXCEPT !.linked = FALSE]
                            ELSE report[j]]
          /\ file' = [file EXCEPT ![name] = {}]
    /\ UNCHANGED <<clock, bucket, shared, failing>>

-----------------------------------------------------------------------------

Underway(k) == report[k].at \notin {"new", "done", "failed"}

ReporterDies ==
    /\ Upset("crash") /\ \E k \in Reports : Underway(k)
    /\ report' = [k \in Reports |->
                     IF Underway(k) THEN [report[k] EXCEPT !.at = "failed"] ELSE report[k]]
    /\ file' = [d \in Days |-> {}]
    /\ UNCHANGED <<clock, bucket, shared, failing>>

Hour ==
    /\ clock < MaxNow /\ clock' = clock + 1
    /\ UNCHANGED <<report, file, bucket, shared, failing>>

\* What AvailmentReports reads, AvailmentDetailsReports writes and uploads.
AvailmentReports(k) == ReadChunk(k) \/ Retry(k)
AvailmentDetailsReports(k) ==
    \/ AvailmentReports(k) \/ CreateFile(k) \/ Write(k)
    \/ Open(k) \/ Copy(k) \/ RemoveFile(k)

ReportNext ==
    \/ \E k \in Reports : Begin(k) \/ AvailmentDetailsReports(k)
    \/ ReporterDies \/ Hour

ReportSpec == ReportInit /\ [][ReportNext]_reportVars

\* Queries and uploads end.
ReportFairness == \A k \in Reports : WF_reportVars(AvailmentDetailsReports(k))

-----------------------------------------------------------------------------
(* Properties.                                                             *)

HasRows(k) == report[k].at \in {"create", "write", "open", "copy", "remove", "done"}

\* A report of a day that was over has every availment of it, once: whichever
\* queries failed, and although the chunks grow until they no longer divide the day.
RowsExact ==
    \A k \in Reports : HasRows(k) /\ report[k].over =>
        \A h \in Hours :
            report[k].rows[h] = (IF Start(report[k].day) + h \in Empty THEN 0 ELSE 1)

\* No object holds a part of a report, unless runs had the same file in hand, or a
\* write failed.
ReportsWhole ==
    (\E d \in Days : bucket[d] = {Nobody}) => shared # {} \/ failing

\* What reaches the bucket is exact: the rows of a run, and the file they are
\* written to (AvailmentReports, WriteAvailmentReportsToTxtFile).
BucketExact == RowsExact /\ ReportsWhole

\* A report is stored under the day it is about, unless another day was asked for, or
\* it began before eight in the morning of Manila, or the day of UTC ended before the
\* file was created.  (In these cases it replaces the report of the day before or
\* after.)
NamedByDay ==
    \A k \in Reports :
        report[k].name # NoDay =>
            \/ report[k].name = report[k].day
            \/ report[k].asked # NoDay \/ report[k].early
            \/ report[k].created # report[k].began

\* A run ends, in a report or an error.
ReportEnds == \A k \in Reports : Underway(k) ~> ~Underway(k)
=============================================================================
