-------------------------- MODULE AvailmentJobs_proofs --------------------------
(***************************************************************************)
(* Proofs about the two jobs of loan-availment that run beside its         *)
(* requests: the report of a day (AvailmentReport) and the import of lists *)
(* (SubscriberLists), for any number of runs, files, subscribers and       *)
(* requests, and any lengths of a day and of its chunks.                   *)
(***************************************************************************)
EXTENDS AvailmentReport, SubscriberLists, TLAPS

(***************************************************************************)
(* Reports.  What is said of a run is said of its record and the clock     *)
(* (Sound), so that a run is not disturbed by others; what is said of the  *)
(* files (FilesInv) holds until two runs have one in hand.                 *)
(***************************************************************************)

InHand == {"write", "open", "copy", "remove"}

Records == [at : ReportPcs, asked : Int, day : Int, over : BOOLEAN, early : BOOLEAN,
            began : Int, created : Int, next : 0 .. Every, size : Nat,
            tries : 0 .. (MaxRetries + 1), rows : [Hours -> Nat], name : Days \cup {NoDay},
            linked : BOOLEAN, copy : Contents]

\* The rows of the hours before next.
RowsTo(r, next) ==
    \A h \in Hours : r.rows[h] = IF h < next /\ Start(r.day) + h \notin Empty THEN 1 ELSE 0

Sound(r, time) ==
    /\ r.at = "new" => /\ r.next = 0 /\ r.tries = 0 /\ r.name = NoDay /\ r.over = FALSE
                       /\ \A h \in Hours : r.rows[h] = 0
    /\ r.at = "read" => r.next < Every /\ r.tries <= MaxRetries
    /\ r.at \in InHand => r.name \in Days
    /\ r.over => Start(r.day) + Every <= time
    /\ r.over /\ r.at = "read" => RowsTo(r, r.next)
    /\ r.over /\ r.at \in InHand \cup {"create", "done"} => RowsTo(r, Every)
    /\ r.at # "new" /\ r.asked = NoDay /\ ~r.early => r.day = r.began - 1
    /\ r.name # NoDay /\ Every = Day => r.name = r.created - 1

RunsInv ==
    /\ clock \in Nat /\ 2 * Day <= clock /\ clock <= MaxNow
    /\ report \in [Reports -> Records]
    /\ file \in [Days -> Contents] /\ bucket \in [Days -> Contents]
    /\ shared \subseteq Reports /\ failing \in BOOLEAN
    /\ \A k \in Reports : Sound(report[k], clock)

\* As long as no file was in two hands and no write failed.
FilesInv ==
    shared = {} /\ failing = FALSE =>
        /\ \A j, k \in Reports :
              j # k /\ report[j].at \in InHand /\ report[k].at \in InHand
                  => report[j].name # report[k].name
        /\ \A k \in Reports :
              /\ report[k].at = "write" => report[k].linked
              /\ report[k].at \in {"open", "copy"} => file[report[k].name] = {k}
              /\ report[k].at = "copy" => report[k].copy = {k}
        /\ \A d \in Days : bucket[d] # {Nobody}

ReportInv == RunsInv /\ FilesInv

-----------------------------------------------------------------------------
(* Arithmetic.                                                             *)

LEMMA Lengths ==
    /\ Day \in Nat /\ Day >= 1 /\ Offset \in Nat /\ Every \in Nat /\ Every >= 1 /\ Every <= Day
    /\ Chunks \in Nat /\ Chunks >= 1 /\ Chunks <= Day /\ MaxRetries \in Nat /\ MaxNow \in Nat
    /\ 2 * Day <= MaxNow /\ Asked \subseteq Nat /\ Nobody \notin Reports
  BY ReportAssumption

LEMMA Division ==
    ASSUME NEW x \in Int, NEW d \in Nat \ {0}
    PROVE  /\ x \div d \in Int /\ d * (x \div d) \in Int
           /\ d * (x \div d) <= x /\ x < d * (x \div d) + d
  OBVIOUS

LEMMA Quotients ==
    ASSUME NEW p \in Int, NEW q \in Int, NEW d \in Nat \ {0}, d * p < d * q + d
    PROVE  p <= q
  OBVIOUS

LEMMA DivisionGrows ==
    ASSUME NEW x \in Int, NEW y \in Int, NEW d \in Nat \ {0}, x <= y
    PROVE  x \div d <= y \div d
<1>1. d * (x \div d) < d * (y \div d) + d
  BY Division
<1> QED BY <1>1, Division, Quotients

\* Quotient and remainder belong together.
LEMMA QuotientIs ==
    ASSUME NEW x \in Int, NEW q \in Int, NEW d \in Nat \ {0}, d * q <= x, x < d * q + d
    PROVE  x \div d = q
<1>1. x \div d \in Int /\ d * (x \div d) <= x /\ x < d * (x \div d) + d
      /\ d * (x \div d) \in Int /\ d * q \in Int
  BY Division
<1>2. d * q < d * (x \div d) + d /\ d * (x \div d) < d * q + d
  BY <1>1
<1>3. q <= x \div d /\ x \div d <= q
  BY <1>1, <1>2, Quotients
<1> QED BY <1>1, <1>3

\* The name of a file is a day, the one before when the report covers a day.
LEMMA NameIsADay ==
    ASSUME RunsInv
    PROVE  /\ Name \in Days /\ clock \div Day \in Int /\ Name # NoDay
           /\ Every = Day => Name = (clock \div Day) - 1
<1>1. clock \in Int /\ clock - Every \in Int /\ Day \in Nat \ {0} /\ MaxNow \in Int
  BY Lengths DEF RunsInv
<1>2. 0 <= clock - Every /\ clock - Every <= MaxNow
  BY Lengths DEF RunsInv
<1>3. 0 \div Day = 0
  BY <1>1, QuotientIs
<1>4. Name \in Int /\ 0 <= Name /\ Name <= MaxNow \div Day /\ MaxNow \div Day \in Int
  BY <1>1, <1>2, <1>3, Division, DivisionGrows DEF Name
<1>5. Every = Day => Name = (clock \div Day) - 1
  <2> SUFFICES ASSUME Every = Day PROVE (clock - Day) \div Day = (clock \div Day) - 1
    BY DEF Name
  <2> DEFINE q == clock \div Day
  <2>1. q \in Int /\ Day * q \in Int /\ Day * q <= clock /\ clock < Day * q + Day
    BY <1>1, Division
  <2>2. Day * (q - 1) = Day * q - Day
    BY <1>1, <2>1
  <2> HIDE DEF q
  <2>3. Day * (q - 1) <= clock - Day /\ clock - Day < Day * (q - 1) + Day
    BY <1>1, <2>1, <2>2
  <2>4. (clock - Day) \div Day = q - 1
    BY <1>1, <2>1, <2>3, QuotientIs
  <2> QED BY <2>4 DEF q
<1> QED BY <1>1, <1>4, <1>5, Division DEF Days, NoDay

\* Past the first hours of a day in Manila it is the same day in UTC.
LEMMA SameDay ==
    ASSUME NEW t \in Nat, ~((t + Offset) % Day < Offset)
    PROVE  (t + Offset) \div Day = t \div Day
<1> DEFINE q == (t + Offset) \div Day
<1>1. /\ t + Offset \in Int /\ Day \in Nat \ {0} /\ Offset \in Nat
      /\ q \in Int /\ Day * q \in Int /\ Day * q <= t + Offset /\ t + Offset < Day * q + Day
  BY Lengths, Division
<1>2. (t + Offset) % Day = (t + Offset) - Day * q
  BY <1>1
<1> HIDE DEF q
<1>3. Day * q <= t /\ t < Day * q + Day
  BY <1>1, <1>2
<1>4. t \div Day = q
  BY <1>1, <1>3, QuotientIs
<1> QED BY <1>4 DEF q

-----------------------------------------------------------------------------
(* Steps of one run.                                                       *)

LEMMA ReportInitially == ReportInit => ReportInv
<1> SUFFICES ASSUME ReportInit PROVE ReportInv
  OBVIOUS
<1>1. PICK asked \in [Reports -> Asked \cup {NoDay}] :
         report = [k \in Reports |-> [NewReport EXCEPT !.asked = asked[k]]]
  BY DEF ReportInit
<1>2. NewReport \in Records /\ NewReport.at = "new" /\ NewReport.over = FALSE
      /\ NewReport.name = NoDay /\ NewReport.next = 0 /\ NewReport.tries = 0
      /\ \A h \in Hours : NewReport.rows[h] = 0
  BY Lengths DEF NewReport, Records, ReportPcs, Contents, Hours, NoDay
<1>3. ASSUME NEW k \in Reports
      PROVE  /\ report[k] \in Records /\ report[k].at = "new" /\ report[k].over = FALSE
             /\ report[k].name = NoDay /\ report[k].next = 0 /\ report[k].tries = 0
             /\ \A h \in Hours : report[k].rows[h] = 0
  <2>1. Asked \cup {NoDay} \subseteq Int
    BY Lengths DEF NoDay
  <2> QED BY <1>1, <1>2, <2>1 DEF Records
<1>4. \A k \in Reports : Sound(report[k], clock)
  BY <1>3 DEF Sound, InHand
<1>5. RunsInv
  <2>1. clock \in Nat /\ 2 * Day <= clock /\ clock <= MaxNow
    BY Lengths DEF ReportInit
  <2>2. report \in [Reports -> Records]
    BY <1>1, <1>3
  <2>3. {} \in Contents
    BY DEF Contents
  <2> QED BY <1>4, <2>1, <2>2, <2>3 DEF ReportInit, RunsInv
<1>6. FilesInv
  BY <1>3 DEF FilesInv, InHand, ReportInit
<1> QED BY <1>5, <1>6 DEF ReportInv

\* A run that goes from one sound record to another leaves the others alone.
LEMMA OneRun ==
    ASSUME RunsInv, NEW k \in Reports, NEW r \in Records, Sound(r, clock),
           report' = [report EXCEPT ![k] = r],
           file' \in [Days -> Contents], bucket' \in [Days -> Contents],
           shared' \subseteq Reports, failing' \in BOOLEAN, clock' = clock
    PROVE  /\ RunsInv'
           /\ report'[k] = r /\ \A j \in Reports \ {k} : report'[j] = report[j]
<1>1. report' \in [Reports -> Records] /\ report'[k] = r
      /\ \A j \in Reports \ {k} : report'[j] = report[j]
  BY DEF RunsInv
<1>2. \A j \in Reports : Sound(report'[j], clock')
  BY <1>1 DEF RunsInv
<1> QED BY <1>1, <1>2 DEF RunsInv

\* Nothing is said of the files of a run that has none in hand.
LEMMA OutOfHand ==
    ASSUME FilesInv, NEW k \in Reports, report'[k].at \notin InHand,
           \A j \in Reports \ {k} : report'[j] = report[j],
           UNCHANGED <<file, bucket, shared, failing>>
    PROVE  FilesInv'
<1> SUFFICES ASSUME shared = {}, failing = FALSE PROVE FilesInv'
  BY DEF FilesInv
<1> QED BY DEF FilesInv, InHand

LEMMA BeginKeeps == ASSUME ReportInv, NEW k \in Reports, Begin(k) PROVE ReportInv'
<1>1. report[k].at = "new" /\ UNCHANGED <<clock, file, bucket, shared, failing>>
  BY DEF Begin
<1>2. PICK j \in Reports :
         LET day == Chosen(report[j].asked) IN
         report' = [report EXCEPT ![k] =
                      [report[k] EXCEPT
                               !.at = "read", !.asked = report[j].asked, !.day = day,
                               !.over  = Start(day) + Every <= clock,
                               !.early = (clock + Offset) % Day < Offset,
                               !.began = clock \div Day, !.size = Day \div Chunks]]
  BY Zenon DEF Begin
<1> DEFINE day == Chosen(report[j].asked)
           over == Start(day) + Every <= clock
           early == (clock + Offset) % Day < Offset
           began == clock \div Day
           size == Day \div Chunks
           r == [report[k] EXCEPT !.at = "read", !.asked = report[j].asked, !.day = day,
                    !.over = over, !.early = early, !.began = began, !.size = size]
<1>3. report' = [report EXCEPT ![k] = r]
  BY <1>2
<1>4. /\ RunsInv /\ FilesInv /\ report \in [Reports -> Records] /\ Sound(report[k], clock)
      /\ clock \in Nat /\ report[k] \in Records /\ report[j].asked \in Int
  BY DEF ReportInv, RunsInv, Records
<1>5. /\ Yesterday \in Int /\ day \in Int /\ began \in Int /\ Start(day) \in Int
      /\ over \in BOOLEAN /\ early \in BOOLEAN
  <2>1. /\ (clock + Offset) \div Day \in Int /\ began \in Int
    BY <1>4, Lengths, Division
  <2>2. day \in Int
    BY <1>4, <2>1 DEF Chosen, Yesterday
  <2> QED BY <2>1, <2>2, Lengths DEF Yesterday, Start
<1>6. size \in Nat /\ size >= 1
  <2>1. /\ Chunks \in Nat \ {0} /\ Day \in Int /\ size \in Int
        /\ Chunks * size \in Int /\ Day < Chunks * size + Chunks
    BY Lengths, Division
  <2> HIDE DEF size
  <2>2. Chunks * 1 < Chunks * size + Chunks
    BY <2>1, Lengths
  <2>3. 1 <= size
    BY <2>1, <2>2, Quotients
  <2> QED BY <2>1, <2>3
<1>7. report[j].asked = NoDay /\ ~early => day = began - 1
  <2> SUFFICES ASSUME report[j].asked = NoDay, ~early PROVE day = began - 1
    OBVIOUS
  <2>1. day = (clock + Offset) \div Day - 1
    BY DEF Chosen, Yesterday
  <2>2. (clock + Offset) \div Day = clock \div Day
    BY <1>4, SameDay
  <2> QED BY <2>1, <2>2
<1> HIDE DEF day, over, early, began, size
<1>8. /\ r \in Records /\ r.at = "read" /\ r.asked = report[j].asked /\ r.day = day
      /\ r.over = over /\ r.early = early /\ r.began = began
      /\ r.name = report[k].name /\ r.next = report[k].next /\ r.tries = report[k].tries
      /\ r.rows = report[k].rows /\ r.created = report[k].created
  BY <1>4, <1>5, <1>6 DEF Records, ReportPcs
<1>9. report[k].next = 0 /\ report[k].tries = 0 /\ report[k].name = NoDay
      /\ \A h \in Hours : report[k].rows[h] = 0
  BY <1>1, <1>4 DEF Sound
<1> HIDE DEF r
<1>10. Sound(r, clock)
  <2>1. over => Start(day) + Every <= clock
    BY DEF over
  <2>2. RowsTo(r, 0)
    BY <1>8, <1>9 DEF RowsTo, Hours
  <2> QED BY <1>7, <1>8, <1>9, <2>1, <2>2, Lengths DEF Sound, InHand
<1>11. RunsInv' /\ report'[k] = r /\ \A i \in Reports \ {k} : report'[i] = report[i]
  BY <1>1, <1>3, <1>4, <1>8, <1>10, OneRun DEF RunsInv
<1>12. FilesInv'
  BY <1>1, <1>4, <1>8, <1>11, OutOfHand DEF InHand
<1> QED BY <1>11, <1>12 DEF ReportInv

LEMMA ReadChunkKeeps == ASSUME ReportInv, NEW k \in Reports, ReadChunk(k) PROVE ReportInv'
<1> DEFINE to == ChunkEnd(report[k])
           found == Found(report[k].day, report[k].next, to)
           rows == [h \in Hours |-> report[k].rows[h] + found[h]]
           at == IF to = Every THEN "create" ELSE "read"
           r == [report[k] EXCEPT !.next = to, !.rows = rows, !.at = at]
<1>1. /\ report[k].at = "read" /\ UNCHANGED <<clock, file, bucket, shared, failing>>
      /\ report' = [report EXCEPT ![k] = r]
  BY DEF ReadChunk
<1>2. /\ RunsInv /\ FilesInv /\ report \in [Reports -> Records] /\ Sound(report[k], clock)
      /\ clock \in Nat /\ report[k] \in Records /\ report[k].next \in Nat
      /\ report[k].next < Every /\ report[k].size \in Nat /\ report[k].day \in Int
      /\ report[k].rows \in [Hours -> Nat]
  BY <1>1, Lengths DEF ReportInv, RunsInv, Records, Sound
<1>3. to \in 0 .. Every /\ report[k].next <= to
  BY <1>2, Lengths DEF ChunkEnd, Least
<1>4. rows \in [Hours -> Nat] /\ at \in {"create", "read"} /\ (at = "read" => to < Every)
  <2>1. \A h \in Hours : found[h] \in {0, 1}
    BY DEF Found
  <2> HIDE DEF found
  <2> QED BY <1>2, <1>3, <2>1, Lengths
<1>5. Start(report[k].day) \in Int
  BY <1>2, Lengths DEF Start
<1>6. report[k].over => \A h \in Hours :
         rows[h] = IF h < to /\ Start(report[k].day) + h \notin Empty THEN 1 ELSE 0
  <2> SUFFICES ASSUME report[k].over, NEW h \in Hours
               PROVE  rows[h] = IF h < to /\ Start(report[k].day) + h \notin Empty THEN 1 ELSE 0
    OBVIOUS
  <2>1. h \in Nat /\ h < Every
    BY Lengths DEF Hours
  <2>2. Start(report[k].day) + Every <= clock
    BY <1>2 DEF Sound
  <2>3. Start(report[k].day) + h < clock
    BY <1>2, <1>5, <2>1, <2>2, Lengths
  <2>4. found[h] = IF h >= report[k].next /\ h < to /\ Start(report[k].day) + h \notin Empty
                   THEN 1 ELSE 0
    BY <2>3 DEF Found, Present
  <2>5. report[k].rows[h] =
           IF h < report[k].next /\ Start(report[k].day) + h \notin Empty THEN 1 ELSE 0
    BY <1>1, <1>2 DEF Sound, RowsTo
  <2>6. rows[h] = report[k].rows[h] + found[h]
    OBVIOUS
  <2> HIDE DEF rows, found, to
  <2> QED BY <1>2, <1>3, <2>1, <2>4, <2>5, <2>6, Lengths
<1> HIDE DEF to, found, rows, at
<1>7. /\ r \in Records /\ r.at = at /\ r.next = to /\ r.rows = rows
      /\ r.asked = report[k].asked /\ r.day = report[k].day /\ r.over = report[k].over
      /\ r.early = report[k].early /\ r.began = report[k].began /\ r.tries = report[k].tries
      /\ r.name = report[k].name /\ r.created = report[k].created
  BY <1>2, <1>3, <1>4 DEF Records, ReportPcs
<1>8. at = "create" => to = Every
  BY DEF at
<1> HIDE DEF r
<1>9. Sound(r, clock)
  BY <1>1, <1>2, <1>4, <1>6, <1>7, <1>8 DEF Sound, RowsTo, InHand
<1>10. RunsInv' /\ report'[k] = r /\ \A i \in Reports \ {k} : report'[i] = report[i]
  BY <1>1, <1>2, <1>7, <1>9, OneRun DEF RunsInv
<1>11. FilesInv'
  BY <1>1, <1>2, <1>4, <1>7, <1>10, OutOfHand DEF InHand
<1> QED BY <1>10, <1>11 DEF ReportInv

LEMMA RetryKeeps == ASSUME ReportInv, NEW k \in Reports, Retry(k) PROVE ReportInv'
<1> DEFINE at == IF report[k].tries = MaxRetries THEN "failed" ELSE report[k].at
           size == report[k].size + 1
           tries == report[k].tries + 1
           rows == NewReport.rows
           r == [report[k] EXCEPT !.size = size, !.tries = tries, !.next = 0,
                                  !.rows = rows, !.at = at]
<1>1. /\ report[k].at = "read" /\ UNCHANGED <<clock, file, bucket, shared, failing>>
      /\ report' = [report EXCEPT ![k] = r]
  BY DEF Retry
<1>2. /\ RunsInv /\ FilesInv /\ report \in [Reports -> Records] /\ Sound(report[k], clock)
      /\ report[k] \in Records /\ report[k].size \in Nat /\ report[k].tries \in Nat
      /\ report[k].tries <= MaxRetries
  BY <1>1, Lengths DEF ReportInv, RunsInv, Records, Sound
<1>3. /\ size \in Nat /\ tries \in 0 .. (MaxRetries + 1) /\ at \in {"read", "failed"}
      /\ at = "read" => tries <= MaxRetries
      /\ rows \in [Hours -> Nat] /\ \A h \in Hours : rows[h] = 0
  BY <1>1, <1>2, Lengths DEF NewReport
<1> HIDE DEF at, size, tries, rows
<1>4. /\ r \in Records /\ r.at = at /\ r.next = 0 /\ r.rows = rows /\ r.tries = tries
      /\ r.asked = report[k].asked /\ r.day = report[k].day /\ r.over = report[k].over
      /\ r.early = report[k].early /\ r.began = report[k].began
      /\ r.name = report[k].name /\ r.created = report[k].created
  <2>1. 0 \in 0 .. Every /\ at \in ReportPcs
    BY <1>3, Lengths DEF ReportPcs
  <2> QED BY <1>2, <1>3, <2>1 DEF Records
<1> HIDE DEF r
<1>5. RowsTo(r, 0)
  BY <1>3, <1>4 DEF RowsTo, Hours
<1>6. Sound(r, clock)
  BY <1>1, <1>2, <1>3, <1>4, <1>5, Lengths DEF Sound, InHand
<1>7. RunsInv' /\ report'[k] = r /\ \A i \in Reports \ {k} : report'[i] = report[i]
  BY <1>1, <1>2, <1>4, <1>6, OneRun DEF RunsInv
<1>8. FilesInv'
  BY <1>1, <1>2, <1>3, <1>4, <1>7, OutOfHand DEF InHand
<1> QED BY <1>7, <1>8 DEF ReportInv
-----------------------------------------------------------------------------
(* Steps on the files.                                                     *)

\* A run that has its rows goes on, or gives up.
LEMMA Proceeding ==
    ASSUME RunsInv, NEW k \in Reports, NEW at \in {"open", "remove", "failed"}, Proceed(k, at),
           report[k].at \in InHand \/ (report[k].at = "create" /\ at = "failed"),
           file' \in [Days -> Contents], bucket' \in [Days -> Contents],
           UNCHANGED <<clock, shared>>, failing' \in BOOLEAN
    PROVE  /\ RunsInv'
           /\ report'[k] = [report[k] EXCEPT !.at = at]
           /\ report'[k].at = at /\ report'[k].name = report[k].name
           /\ report'[k].linked = report[k].linked /\ report'[k].copy = report[k].copy
           /\ \A i \in Reports \ {k} : report'[i] = report[i]
<1> DEFINE r == [report[k] EXCEPT !.at = at]
<1>1. report' = [report EXCEPT ![k] = r] /\ clock' = clock /\ shared' = shared
  BY DEF Proceed
<1>2. report[k] \in Records /\ Sound(report[k], clock) /\ shared \subseteq Reports
  BY DEF RunsInv
<1>3. /\ r \in Records /\ r.at = at /\ r.next = report[k].next /\ r.rows = report[k].rows
      /\ r.asked = report[k].asked /\ r.day = report[k].day /\ r.over = report[k].over
      /\ r.early = report[k].early /\ r.began = report[k].began /\ r.tries = report[k].tries
      /\ r.name = report[k].name /\ r.created = report[k].created
      /\ r.linked = report[k].linked /\ r.copy = report[k].copy
  BY <1>2 DEF Records, ReportPcs
<1>4. Sound(r, clock)
  BY <1>2, <1>3 DEF Sound, RowsTo, InHand
<1>5. RunsInv' /\ report'[k] = r /\ \A i \in Reports \ {k} : report'[i] = report[i]
  BY <1>1, <1>2, <1>3, <1>4, OneRun
<1> QED BY <1>3, <1>5

LEMMA CreateFileKeeps == ASSUME ReportInv, NEW k \in Reports, CreateFile(k) PROVE ReportInv'
<1>1. RunsInv /\ FilesInv /\ report[k].at = "create" /\ UNCHANGED <<clock, bucket, failing>>
  BY DEF CreateFile, ReportInv
<1>2. file \in [Days -> Contents] /\ bucket \in [Days -> Contents] /\ failing \in BOOLEAN
      /\ shared \subseteq Reports /\ report[k] \in Records /\ Sound(report[k], clock)
      /\ report \in [Reports -> Records]
  BY <1>1 DEF RunsInv
<1>3. CASE GivesUp(k) /\ UNCHANGED <<file, shared>>
  <2>1. /\ RunsInv' /\ report'[k].at = "failed"
        /\ \A i \in Reports \ {k} : report'[i] = report[i]
    BY <1>1, <1>2, <1>3, Proceeding DEF GivesUp
  <2> QED BY <1>1, <1>3, <2>1, OutOfHand DEF InHand, ReportInv
<1>4. CASE /\ report' = [report EXCEPT ![k] =
                           [report[k] EXCEPT !.at = "write", !.name = Name, !.linked = TRUE,
                                             !.created = clock \div Day]]
           /\ file' = [file EXCEPT ![Name] = {Nobody}]
           /\ shared' = IF Holders(Name) = {} THEN shared
                        ELSE shared \cup Holders(Name) \cup {k}
  <2> DEFINE n == Name
             created == clock \div Day
             r == [report[k] EXCEPT !.at = "write", !.name = n, !.linked = TRUE,
                                    !.created = created]
  <2>1. /\ n \in Days /\ created \in Int /\ n # NoDay /\ (Every = Day => n = created - 1)
        /\ {Nobody} \in Contents /\ Holders(n) \subseteq Reports
    BY <1>1, NameIsADay DEF Contents, Holders
  <2>2. /\ report' = [report EXCEPT ![k] = r] /\ file' = [file EXCEPT ![n] = {Nobody}]
        /\ shared' = IF Holders(n) = {} THEN shared ELSE shared \cup Holders(n) \cup {k}
    BY <1>4
  <2> HIDE DEF n, created
  <2>3. /\ r \in Records /\ r.at = "write" /\ r.next = report[k].next /\ r.rows = report[k].rows
        /\ r.asked = report[k].asked /\ r.day = report[k].day /\ r.over = report[k].over
        /\ r.early = report[k].early /\ r.began = report[k].began /\ r.tries = report[k].tries
        /\ r.name = n /\ r.created = created /\ r.linked = TRUE
    BY <1>2, <2>1 DEF Records, ReportPcs
  <2> HIDE DEF r
  <2>4. Sound(r, clock)
    BY <1>1, <1>2, <2>1, <2>3 DEF Sound, RowsTo, InHand
  <2>5. file' \in [Days -> Contents] /\ shared' \subseteq Reports
    BY <1>2, <2>1, <2>2
  <2>6. RunsInv' /\ report'[k] = r /\ \A i \in Reports \ {k} : report'[i] = report[i]
    BY <1>1, <1>2, <2>2, <2>3, <2>4, <2>5, OneRun, ZenonT(60)
  <2>7. FilesInv'
    <3> SUFFICES ASSUME shared' = {}, failing' = FALSE PROVE FilesInv'
      BY DEF FilesInv
    <3>1. Holders(n) = {} /\ shared = {} /\ failing = FALSE
      BY <1>1, <2>2
    <3>2. \A i \in Reports : report[i].at \in InHand => report[i].name # n
      BY <3>1 DEF Holders, InHand
    <3>3. \A i \in Reports : report[i].at \in InHand => report[i].name \in Days
      BY <1>1 DEF RunsInv, Sound
    <3>4. \A d \in Days : d # n => file'[d] = file[d]
      BY <1>2, <2>1, <2>2
    <3> QED BY <1>1, <2>3, <2>6, <3>1, <3>2, <3>3, <3>4 DEF FilesInv, InHand
  <2> QED BY <2>6, <2>7 DEF ReportInv
<1> QED BY <1>3, <1>4, Zenon DEF CreateFile

LEMMA WriteKeeps == ASSUME ReportInv, NEW k \in Reports, Write(k) PROVE ReportInv'
<1>1. RunsInv /\ FilesInv /\ report[k].at = "write" /\ UNCHANGED <<clock, bucket, shared>>
  BY DEF Write, ReportInv
<1>2. file \in [Days -> Contents] /\ bucket \in [Days -> Contents] /\ failing \in BOOLEAN
      /\ report[k].name \in Days /\ {k} \in Contents /\ {Nobody} \in Contents
  BY <1>1 DEF RunsInv, Sound, InHand, Contents
<1>3. /\ \E at \in {"open", "failed"} : Proceed(k, at)
      /\ Puts(k, {k}) \/ Puts(k, {Nobody})
      /\ failing' \in BOOLEAN /\ (failing' = FALSE => failing = FALSE)
  BY <1>2 DEF Write, GivesUp
<1>4. file' \in [Days -> Contents]
  BY <1>2, <1>3 DEF Puts
<1>5. PICK at \in {"open", "failed"} : Proceed(k, at)
  BY <1>3
<1>6. /\ RunsInv'
      /\ report'[k].at = at /\ report'[k].name = report[k].name
      /\ \A i \in Reports \ {k} : report'[i] = report[i]
  BY <1>1, <1>2, <1>3, <1>4, <1>5, Proceeding DEF InHand
<1>7. FilesInv'
  <2> SUFFICES ASSUME shared' = {}, failing' = FALSE PROVE FilesInv'
    BY DEF FilesInv
  <2>1. shared = {} /\ failing = FALSE
    BY <1>1, <1>3
  <2>2. \A i \in Reports \ {k} : report[i].at \in InHand => report[i].name # report[k].name
    BY <1>1, <2>1 DEF FilesInv, InHand
  <2>3. Holders(report[k].name) = {k}
    BY <1>1, <2>2 DEF Holders, InHand
  <2>4. file' = [file EXCEPT ![report[k].name] = {k}]
    BY <1>1, <2>1, <2>3 DEF Write, Puts, FilesInv
  <2>5. \A d \in Days : d # report[k].name => file'[d] = file[d]
    BY <1>2, <2>4
  <2>6. file'[report[k].name] = {k}
    BY <1>2, <2>4
  <2>7. \A i \in Reports : report[i].at \in InHand => report[i].name \in Days
    BY <1>1 DEF RunsInv, Sound
  <2> QED BY <1>1, <1>6, <2>1, <2>2, <2>5, <2>6, <2>7 DEF FilesInv, InHand
<1> QED BY <1>6, <1>7 DEF ReportInv

LEMMA OpenKeeps == ASSUME ReportInv, NEW k \in Reports, Open(k) PROVE ReportInv'
<1> DEFINE content == file[report[k].name]
<1>1. /\ RunsInv /\ FilesInv /\ report[k].at = "open"
      /\ UNCHANGED <<clock, file, bucket, shared, failing>>
  BY DEF Open, ReportInv
<1>2. file \in [Days -> Contents] /\ bucket \in [Days -> Contents] /\ failing \in BOOLEAN
      /\ report[k].name \in Days /\ content \in Contents /\ report[k] \in Records
      /\ Sound(report[k], clock) /\ shared \subseteq Reports
  BY <1>1 DEF RunsInv, Sound, InHand
<1> HIDE DEF content
<1>3. CASE GivesUp(k)
  <2>1. /\ RunsInv' /\ report'[k].at = "failed"
        /\ \A i \in Reports \ {k} : report'[i] = report[i]
    BY <1>1, <1>2, <1>3, Proceeding DEF GivesUp, InHand
  <2> QED BY <1>1, <2>1, OutOfHand DEF InHand, ReportInv
<1>4. CASE report' = [report EXCEPT ![k] =
                        [report[k] EXCEPT !.at = "copy", !.linked = TRUE, !.copy = content]]
  <2> DEFINE r == [report[k] EXCEPT !.at = "copy", !.linked = TRUE, !.copy = content]
  <2>1. /\ r \in Records /\ r.at = "copy" /\ r.next = report[k].next /\ r.rows = report[k].rows
        /\ r.asked = report[k].asked /\ r.day = report[k].day /\ r.over = report[k].over
        /\ r.early = report[k].early /\ r.began = report[k].began /\ r.tries = report[k].tries
        /\ r.name = report[k].name /\ r.created = report[k].created /\ r.linked = TRUE
        /\ r.copy = content
    BY <1>2 DEF Records, ReportPcs
  <2>2. report' = [report EXCEPT ![k] = r]
    BY <1>4
  <2> HIDE DEF r
  <2>3. Sound(r, clock)
    BY <1>1, <1>2, <2>1 DEF Sound, RowsTo, InHand
  <2>4. RunsInv' /\ report'[k] = r /\ \A i \in Reports \ {k} : report'[i] = report[i]
    BY <1>1, <1>2, <2>1, <2>2, <2>3, OneRun
  <2>5. FilesInv'
    <3> SUFFICES ASSUME shared' = {}, failing' = FALSE PROVE FilesInv'
      BY DEF FilesInv
    <3>1. shared = {} /\ failing = FALSE
      BY <1>1
    <3>2. content = {k}
      BY <1>1, <3>1 DEF FilesInv, content
    <3> QED BY <1>1, <2>1, <2>4, <3>1, <3>2 DEF FilesInv, InHand, content
  <2> QED BY <2>4, <2>5 DEF ReportInv
<1> QED BY <1>3, <1>4, Zenon DEF Open, content

LEMMA CopyKeeps == ASSUME ReportInv, NEW k \in Reports, Copy(k) PROVE ReportInv'
<1>1. RunsInv /\ FilesInv /\ report[k].at = "copy" /\ UNCHANGED <<clock, file, shared, failing>>
  BY DEF Copy, ReportInv
<1>2. file \in [Days -> Contents] /\ bucket \in [Days -> Contents] /\ failing \in BOOLEAN
      /\ report[k].name \in Days /\ report[k] \in Records /\ {Nobody} \in Contents
  BY <1>1 DEF RunsInv, Sound, InHand, Contents
<1>3. CASE GivesUp(k) /\ UNCHANGED bucket
  <2>1. /\ RunsInv' /\ report'[k].at = "failed"
        /\ \A i \in Reports \ {k} : report'[i] = report[i]
    BY <1>1, <1>2, <1>3, Proceeding DEF GivesUp, InHand
  <2> QED BY <1>1, <1>3, <2>1, OutOfHand DEF InHand, ReportInv
<1>4. CASE /\ Proceed(k, "remove")
           /\ \E content \in Readings(k) :
                 bucket' = [bucket EXCEPT ![report[k].name] = content]
  <2>1. PICK content \in Readings(k) : bucket' = [bucket EXCEPT ![report[k].name] = content]
    BY <1>4
  <2>2. content \in Contents
    <3>1. report[k].copy \in Contents /\ file[report[k].name] \in Contents
      BY <1>2 DEF Records
    <3>2. content \in {report[k].copy, file[report[k].name], {Nobody}}
      BY <2>1 DEF Readings
    <3> QED BY <1>2, <3>1, <3>2
  <2>3. bucket' \in [Days -> Contents]
    BY <1>2, <2>1, <2>2
  <2>4. /\ RunsInv'
        /\ report'[k].at = "remove" /\ report'[k].name = report[k].name
        /\ \A i \in Reports \ {k} : report'[i] = report[i]
    BY <1>1, <1>2, <1>4, <2>3, Proceeding DEF InHand
  <2>5. FilesInv'
    <3> SUFFICES ASSUME shared' = {}, failing' = FALSE PROVE FilesInv'
      BY DEF FilesInv
    <3>1. shared = {} /\ failing = FALSE
      BY <1>1
    <3>2. content = {k}
      BY <1>1, <2>1, <3>1 DEF FilesInv, Readings
    <3>3. {k} # {Nobody}
      BY Lengths
    <3>4. \A d \in Days : bucket'[d] # {Nobody}
      BY <1>1, <1>2, <2>1, <3>1, <3>2, <3>3 DEF FilesInv
    <3> QED BY <1>1, <2>4, <3>1, <3>4 DEF FilesInv, InHand
  <2> QED BY <2>4, <2>5 DEF ReportInv
<1> QED BY <1>3, <1>4 DEF Copy

LEMMA RemoveFileKeeps == ASSUME ReportInv, NEW k \in Reports, RemoveFile(k) PROVE ReportInv'
<1> DEFINE name == report[k].name
           at   == IF file[name] = {} THEN "failed" ELSE "done"
<1>1. /\ RunsInv /\ FilesInv /\ report[k].at = "remove"
      /\ UNCHANGED <<clock, bucket, shared, failing>>
      /\ file' = [file EXCEPT ![name] = {}]
      /\ report' = [j \in Reports |->
                       IF j = k THEN [report[k] EXCEPT !.at = at]
                       ELSE IF report[j].name = name THEN [report[j] EXCEPT !.linked = FALSE]
                       ELSE report[j]]
  BY DEF RemoveFile, ReportInv
<1>2. file \in [Days -> Contents] /\ bucket \in [Days -> Contents] /\ failing \in BOOLEAN
      /\ name \in Days /\ {} \in Contents /\ at \in {"failed", "done"} /\ clock \in Nat
      /\ 2 * Day <= clock /\ clock <= MaxNow /\ shared \subseteq Reports
      /\ \A j \in Reports : report[j] \in Records /\ Sound(report[j], clock)
  BY <1>1 DEF RunsInv, Sound, InHand, Contents
<1> HIDE DEF name, at
<1>3. ASSUME NEW j \in Reports
      PROVE  /\ report'[j] \in Records
             /\ report'[j].at = IF j = k THEN at ELSE report[j].at
             /\ report'[j].next = report[j].next /\ report'[j].rows = report[j].rows
             /\ report'[j].asked = report[j].asked /\ report'[j].day = report[j].day
             /\ report'[j].over = report[j].over /\ report'[j].early = report[j].early
             /\ report'[j].began = report[j].began /\ report'[j].tries = report[j].tries
             /\ report'[j].name = report[j].name /\ report'[j].created = report[j].created
             /\ report'[j].copy = report[j].copy
             /\ j # k /\ report[j].name # name => report'[j].linked = report[j].linked
  <2>1. CASE j = k
    BY <1>1, <1>2, <2>1 DEF Records, ReportPcs
  <2>2. CASE j # k /\ report[j].name = name
    BY <1>1, <1>2, <2>2 DEF Records
  <2>3. CASE j # k /\ report[j].name # name
    BY <1>1, <1>2, <2>3
  <2> QED BY <2>1, <2>2, <2>3
<1>4. ASSUME NEW j \in Reports PROVE Sound(report'[j], clock)
  <2>1. CASE j = k
    <3>1. /\ Sound(report[k], clock) /\ report[k].at = "remove"
          /\ report'[k].at \in {"failed", "done"}
          /\ report'[k].rows = report[k].rows /\ report'[k].day = report[k].day
          /\ report'[k].over = report[k].over /\ report'[k].asked = report[k].asked
          /\ report'[k].early = report[k].early /\ report'[k].began = report[k].began
          /\ report'[k].name = report[k].name /\ report'[k].created = report[k].created
      BY <1>1, <1>2, <1>3
    <3>2. Sound(report'[k], clock)
      BY <3>1 DEF Sound, RowsTo, InHand
    <3> QED BY <2>1, <3>2
  <2>2. CASE j # k
    BY <1>2, <1>3, <2>2 DEF Sound, RowsTo
  <2> QED BY <2>1, <2>2
<1>5. RunsInv'
  <2>1. report' \in [Reports -> Records]
    BY <1>1, <1>3
  <2>2. file' \in [Days -> Contents]
    BY <1>1, <1>2
  <2> QED BY <1>1, <1>2, <1>4, <2>1, <2>2 DEF RunsInv
<1>6. FilesInv'
  <2> SUFFICES ASSUME shared' = {}, failing' = FALSE PROVE FilesInv'
    BY DEF FilesInv
  <2>1. shared = {} /\ failing = FALSE
    BY <1>1
  <2>2. \A i \in Reports \ {k} : report[i].at \in InHand => report[i].name # name
    BY <1>1, <2>1 DEF FilesInv, InHand, name
  <2>3. \A d \in Days : d # name => file'[d] = file[d]
    BY <1>1, <1>2
  <2>4. \A i \in Reports : report[i].at \in InHand => report[i].name \in Days
    BY <1>2 DEF Sound
  <2>5. report'[k].at \notin InHand
    BY <1>2, <1>3 DEF InHand
  <2>6. ASSUME NEW i \in Reports, report'[i].at \in InHand
        PROVE  /\ i # k /\ report'[i].at = report[i].at /\ report'[i].name = report[i].name
               /\ report'[i].copy = report[i].copy /\ report'[i].linked = report[i].linked
               /\ file'[report'[i].name] = file[report[i].name]
    <3>1. i # k /\ report'[i].at = report[i].at
      BY <1>3, <2>5, <2>6
    <3> QED BY <1>3, <2>2, <2>3, <2>4, <2>6, <3>1
  <2>7. FilesInv /\ bucket' = bucket
    BY <1>1
  <2>8. \A i \in Reports :
           /\ report'[i].at = "write" => report'[i].linked
           /\ report'[i].at \in {"open", "copy"} => file'[report'[i].name] = {i}
           /\ report'[i].at = "copy" => report'[i].copy = {i}
    BY <2>1, <2>6, <2>7 DEF FilesInv, InHand
  <2>9. \A i, j \in Reports :
           i # j /\ report'[i].at \in InHand /\ report'[j].at \in InHand
               => report'[i].name # report'[j].name
    BY <2>1, <2>6, <2>7 DEF FilesInv
  <2> QED BY <2>1, <2>7, <2>8, <2>9 DEF FilesInv
<1> QED BY <1>5, <1>6 DEF ReportInv

LEMMA ReporterDiesKeeps == ReportInv /\ ReporterDies => ReportInv'
<1> SUFFICES ASSUME ReportInv, ReporterDies PROVE ReportInv'
  OBVIOUS
<1>1. /\ RunsInv /\ FilesInv /\ UNCHANGED <<clock, bucket, shared, failing>>
      /\ file' = [d \in Days |-> {}]
      /\ report' = [k \in Reports |->
                       IF Underway(k) THEN [report[k] EXCEPT !.at = "failed"] ELSE report[k]]
  BY DEF ReporterDies, ReportInv
<1>2. bucket \in [Days -> Contents] /\ failing \in BOOLEAN /\ {} \in Contents /\ clock \in Nat
      /\ 2 * Day <= clock /\ clock <= MaxNow /\ shared \subseteq Reports
      /\ \A j \in Reports : report[j] \in Records /\ Sound(report[j], clock)
  BY <1>1 DEF RunsInv, Contents
<1>3. ASSUME NEW j \in Reports
      PROVE  /\ report'[j] \in Records /\ Sound(report'[j], clock)
             /\ report'[j].at \in {"new", "done", "failed"}
  <2>1. CASE Underway(j)
    <3> DEFINE r == [report[j] EXCEPT !.at = "failed"]
    <3>1. /\ r \in Records /\ r.at = "failed" /\ r.day = report[j].day /\ r.over = report[j].over
          /\ r.asked = report[j].asked /\ r.early = report[j].early
          /\ r.began = report[j].began /\ r.name = report[j].name /\ r.created = report[j].created
      BY <1>2 DEF Records, ReportPcs
    <3>2. report[j].at # "new" /\ report'[j] = r
      BY <1>1, <2>1 DEF Underway
    <3> HIDE DEF r
    <3> QED BY <1>2, <3>1, <3>2 DEF Sound, InHand
  <2>2. CASE ~Underway(j)
    BY <1>1, <1>2, <2>2 DEF Underway
  <2> QED BY <2>1, <2>2
<1>4. RunsInv'
  <2>1. report' \in [Reports -> Records] /\ file' \in [Days -> Contents]
    BY <1>1, <1>2, <1>3
  <2> QED BY <1>1, <1>2, <1>3, <2>1 DEF RunsInv
<1>5. FilesInv'
  BY <1>1, <1>3 DEF FilesInv, InHand
<1> QED BY <1>4, <1>5 DEF ReportInv

LEMMA HourKeeps == ReportInv /\ Hour => ReportInv'
<1> SUFFICES ASSUME ReportInv, Hour PROVE ReportInv'
  OBVIOUS
<1>1. /\ RunsInv /\ FilesInv /\ UNCHANGED <<report, file, bucket, shared, failing>>
      /\ clock < MaxNow /\ clock' = clock + 1 /\ clock \in Nat /\ 2 * Day <= clock
  BY DEF Hour, ReportInv, RunsInv
<1>2. ASSUME NEW k \in Reports PROVE Sound(report[k], clock + 1)
  <2>1. Sound(report[k], clock) /\ report[k].day \in Int
    BY <1>1 DEF RunsInv, Records
  <2>2. Start(report[k].day) + Every \in Int
    BY <2>1, Lengths DEF Start
  <2> HIDE DEF Start
  <2> QED BY <1>1, <2>1, <2>2 DEF Sound
<1>3. RunsInv'
  BY <1>1, <1>2, Lengths DEF RunsInv
<1>4. FilesInv'
  BY <1>1 DEF FilesInv
<1> QED BY <1>3, <1>4 DEF ReportInv

LEMMA ReportSteps == ReportInv /\ [ReportNext]_reportVars => ReportInv'
<1> SUFFICES ASSUME ReportInv, [ReportNext]_reportVars PROVE ReportInv'
  OBVIOUS
<1>1. ASSUME NEW k \in Reports, Begin(k) \/ AvailmentDetailsReports(k) PROVE ReportInv'
  BY <1>1, BeginKeeps, ReadChunkKeeps, RetryKeeps, CreateFileKeeps, WriteKeeps, OpenKeeps,
     CopyKeeps, RemoveFileKeeps DEF AvailmentDetailsReports, AvailmentReports
<1>2. CASE ReporterDies \/ Hour
  BY <1>2, ReporterDiesKeeps, HourKeeps
<1>3. CASE UNCHANGED reportVars
  BY <1>3 DEF reportVars, ReportInv, RunsInv, FilesInv
<1> QED BY <1>1, <1>2, <1>3 DEF ReportNext

LEMMA ReportInvariant == ReportSpec => []ReportInv
  BY ReportInitially, ReportSteps, PTL DEF ReportSpec

\* Every variable of the report keeps its type, a run that reads has a part of the day
\* left to read and an attempt left, and a run with a file in hand has named it.
THEOREM ReportTypeCorrect == ReportSpec => []ReportTypeOK
<1>1. ReportInv => ReportTypeOK
  BY DEF ReportInv, RunsInv, ReportTypeOK, Records, Sound, InHand
<1> QED BY <1>1, ReportInvariant, PTL

\* The rows of a report of a day that was over are every availment of it, once, for any
\* number and size of chunks and whichever queries fail (AvailmentReports).
THEOREM RowsAreExact == ReportSpec => []RowsExact
<1>1. ReportInv => RowsExact
  <2> SUFFICES ASSUME ReportInv, NEW k \in Reports, HasRows(k), report[k].over, NEW h \in Hours
               PROVE  report[k].rows[h] = (IF Start(report[k].day) + h \in Empty THEN 0 ELSE 1)
    BY DEF RowsExact
  <2>1. RowsTo(report[k], Every)
    BY DEF ReportInv, RunsInv, Sound, HasRows, InHand
  <2>2. h < Every
    BY Lengths DEF Hours
  <2> QED BY <2>1, <2>2 DEF RowsTo
<1> QED BY <1>1, ReportInvariant, PTL

\* No object in the bucket holds a part of a report, unless two runs had its local file
\* in hand or a write failed, however many runs there are
\* (WriteAvailmentReportsToTxtFile, UploadAvailmentReportsTxtFileToGCS).
THEOREM ReportsAreWhole == ReportSpec => []ReportsWhole
<1>1. ReportInv => ReportsWhole
  BY DEF ReportInv, RunsInv, FilesInv, ReportsWhole
<1> QED BY <1>1, ReportInvariant, PTL

\* So what reaches the bucket is exact, unless runs shared a file or a write failed.
THEOREM BucketIsExact == ReportSpec => []BucketExact
<1>1. RowsExact /\ ReportsWhole => BucketExact
  BY DEF BucketExact
<1> QED BY <1>1, RowsAreExact, ReportsAreWhole, PTL

\* When a report covers a whole day, it is named after the day it is about, with the
\* three exceptions of NamedByDay, whatever Manila is ahead of UTC.
THEOREM NamesAreDays == Every = Day => (ReportSpec => []NamedByDay)
<1> SUFFICES ASSUME Every = Day PROVE ReportSpec => []NamedByDay
  OBVIOUS
<1>1. ReportInv => NamedByDay
  <2> SUFFICES ASSUME ReportInv, NEW k \in Reports, report[k].name # NoDay,
                      report[k].asked = NoDay, ~report[k].early,
                      report[k].created = report[k].began
               PROVE  report[k].name = report[k].day
    BY DEF NamedByDay
  <2> QED BY DEF ReportInv, RunsInv, Sound
<1> QED BY <1>1, ReportInvariant, PTL
-----------------------------------------------------------------------------
(***************************************************************************)
(* Lists.  A subscriber known from the start has one document, which       *)
(* imports and requests find and do not add to (DocumentInv).  An import   *)
(* has written the keys it has no longer left (WrittenInv), and from the   *)
(* first blacklist on everybody who is on all of them is marked, also      *)
(* while another is written (RefusedInv).                                  *)
(***************************************************************************)

KnownDoc(n) == <<Stored(n), Nil>>
Listing == {"list", "find", "insert"}

\* On every blacklist, in the form that is looked for.
OnAll(n) == \A f \in Blacklists : Stored(n) \in Rows[f]

ImportInv ==
    /\ imp.at \in Listing => imp.file \in Blacklists
    /\ imp.at = "allow" => imp.file \in Whitelists
    /\ imp.at # "idle" => imp.left \subseteq KeysIn(imp.file)
    /\ imp.at \in {"find", "insert"} => imp.key \in Keys

DocumentInv ==
    /\ \A n \in Known : KnownDoc(n) \in records
    /\ \A n \in Known : \A d \in records : d[1] = Stored(n) => d = KnownDoc(n)
    /\ imp.at = "insert" => \A n \in Known : imp.key # Stored(n)
    /\ \A a \in Applicants : request[a] = "create" => NumberOf[a] \notin Known

WrittenInv ==
    /\ imp.at \in Listing =>
          \A n \in Known : Stored(n) \in KeysIn(imp.file) \ imp.left => KnownDoc(n) \in blacklisted
    /\ imp.at \in {"find", "insert"} =>
          \A n \in Known : Stored(n) = imp.key => KnownDoc(n) \in blacklisted
    /\ imp.at = "allow" => KeysIn(imp.file) \ imp.left \subseteq whitelist

RefusedInv ==
    /\ applied \cap Blacklists # {} => \A n \in Known : OnAll(n) => KnownDoc(n) \in blacklisted
    /\ warned # {} => applied \cap Blacklists # {}
    /\ \A a \in Applicants :
          /\ request[a] \in {"product", "whitelist", "mappings", "granted"}
          /\ NumberOf[a] \in Known /\ OnAll(NumberOf[a])
          => a \notin warned

ListInv ==
    ListTypeOK /\ ImportInv /\ DocumentInv /\ WrittenInv /\ RefusedInv /\ RemovedWhenApplied

\* When no file is replaced while it is imported: there is one file of a name, and what
\* is removed was applied.
LostInv ==
    /\ NothingLost
    /\ \A f, g \in inbox : NameOf[f] = NameOf[g] => f = g
    /\ imp.at # "idle" => \A g \in inbox : NameOf[g] = NameOf[imp.file] => g = imp.file
    /\ imp.at \in {"remove", "upload"} => imp.file \in applied

-----------------------------------------------------------------------------
(* Facts about files and documents.                                        *)

LEMMA FileFacts ==
    /\ Known \subseteq Numbers /\ Nil \notin Files /\ Nil \notin Applicants /\ Nil \notin Keys
    /\ \A f \in Files : /\ f \in Blacklists \/ f \in Whitelists
                        /\ ~(f \in Blacklists /\ f \in Whitelists)
                        /\ KeysIn(f) \subseteq Keys
    /\ Blacklists \subseteq Files /\ Whitelists \subseteq Files
    /\ \A a \in Applicants : NumberOf[a] \in Numbers
<1>1. Keys \subseteq Numbers \X Forms
  BY DEF Keys, Forms
<1> QED BY <1>1, ListAssumption DEF Blacklists, Whitelists, KeysIn

LEMMA KeyFacts ==
    /\ \A n \in Numbers : Stored(n) \in Keys
    /\ \A m, n \in Numbers : Stored(m) = Stored(n) => m = n
    /\ \A n \in Known : KnownDoc(n) \in Documents /\ KnownDoc(n)[1] = Stored(n)
<1>1. \A n \in Numbers : Stored(n) \in Keys
  BY DEF Stored, Keys
<1>2. \A m, n \in Numbers : Stored(m) = Stored(n) => m = n
  BY DEF Stored
<1>3. \A n \in Known : KnownDoc(n) \in Documents /\ KnownDoc(n)[1] = Stored(n)
  BY <1>1, FileFacts DEF KnownDoc, Documents, Creators
<1> QED BY <1>1, <1>2, <1>3

\* Who is on all blacklists is on the one that is imported.
LEMMA OnAllKeys ==
    ASSUME NEW n \in Known, OnAll(n), NEW f \in Blacklists
    PROVE  Stored(n) \in KeysIn(f)
  BY FileFacts, KeyFacts DEF OnAll, KeysIn

LEMMA KnownDocuments ==
    ASSUME DocumentInv, NEW n \in Known
    PROVE  DocumentsOf(Stored(n)) = {KnownDoc(n)}
  BY KeyFacts DEF DocumentInv, DocumentsOf

LEMMA ListInitially == ListInit => ListInv
<1> SUFFICES ASSUME ListInit PROVE ListInv
  OBVIOUS
<1>1. /\ imp.at = "idle" /\ imp.file = Nil /\ imp.left = {} /\ imp.key = Nil
      /\ fresh = Files /\ inbox = {} /\ processed = {} /\ applied = {} /\ replaced = {}
      /\ records = {KnownDoc(n) : n \in Known} /\ blacklisted = {} /\ whitelist = {}
      /\ request = [a \in Applicants |-> "new"] /\ warned = {}
  BY DEF ListInit, Idle, KnownDoc
<1>2. ListTypeOK
  <2>1. records \subseteq Documents
    BY <1>1, KeyFacts
  <2>2. request \in [Applicants -> Places]
    BY <1>1 DEF Places
  <2> QED BY <1>1, <2>1, <2>2 DEF ListTypeOK
<1>3. DocumentInv
  <2>1. \A m \in Known, n \in Known : KnownDoc(m)[1] = Stored(n) => m = n
    BY KeyFacts, FileFacts
  <2> QED BY <1>1, <2>1 DEF DocumentInv
<1>4. ImportInv /\ WrittenInv /\ RefusedInv /\ RemovedWhenApplied
  BY <1>1 DEF ImportInv, WrittenInv, RefusedInv, RemovedWhenApplied, Listing
<1> QED BY <1>2, <1>3, <1>4 DEF ListInv

-----------------------------------------------------------------------------
(* The import.                                                             *)

\* An import that stops, or is not yet there, is spoken of by nothing.
LEMMA IdleKeeps ==
    ASSUME ListInv, imp' = Idle, UNCHANGED <<database, requests, applied>>,
           fresh' \subseteq Files, inbox' \subseteq Files, processed' \subseteq Files,
           replaced' \subseteq Files
    PROVE  ListInv'
<1>1. imp'.at = "idle" /\ imp'.file = Nil /\ imp'.left = {} /\ imp'.key = Nil
  BY DEF Idle
<1>2. UNCHANGED <<records, blacklisted, whitelist, request, warned, applied>>
  BY DEF database, requests
<1>3. ListTypeOK'
  BY <1>1, <1>2 DEF ListInv, ListTypeOK
<1>4. ImportInv' /\ WrittenInv' /\ RemovedWhenApplied'
  BY <1>1 DEF ImportInv, WrittenInv, RemovedWhenApplied, Listing
<1>5. DocumentInv' /\ RefusedInv'
  BY <1>1, <1>2 DEF ListInv, DocumentInv, RefusedInv
<1> QED BY <1>3, <1>4, <1>5 DEF ListInv

LEMMA DepositKeeps == ASSUME ListInv, NEW f \in Files, Deposit(f) PROVE ListInv'
<1>1. /\ UNCHANGED <<processed, imp, records, blacklisted, whitelist, request, warned, applied>>
      /\ fresh' \subseteq fresh /\ inbox' \subseteq inbox \cup {f}
      /\ replaced' \subseteq replaced \cup inbox
  BY DEF Deposit, database, requests
<1>2. ListTypeOK'
  BY <1>1 DEF ListInv, ListTypeOK
<1>3. ImportInv' /\ DocumentInv' /\ WrittenInv' /\ RefusedInv' /\ RemovedWhenApplied'
  BY <1>1 DEF ListInv, ImportInv, DocumentInv, WrittenInv, RefusedInv, RemovedWhenApplied
<1> QED BY <1>2, <1>3 DEF ListInv

LEMMA PullKeeps ==
    ASSUME ListInv, NEW kind \in {"black", "white"}, Pull(kind) PROVE ListInv'
<1>1. PICK f \in inbox : KindOf[f] = kind /\ imp' = Picked(f)
  BY DEF Pull
<1>2. /\ imp.at = "idle" /\ f \in Files
      /\ UNCHANGED <<fresh, inbox, processed, replaced, records, blacklisted, whitelist,
                     request, warned, applied>>
  BY DEF Pull, files, database, requests, ListInv, ListTypeOK
<1>3. /\ imp'.at \in {"list", "allow"} /\ imp'.file = f /\ imp'.left = KeysIn(f) /\ imp'.key = Nil
      /\ imp'.at = "list" <=> f \in Blacklists
  BY <1>1, <1>2 DEF Picked, FirstCall, Idle, Blacklists
<1>4. ListTypeOK'
  BY <1>2, <1>3, FileFacts DEF ListInv, ListTypeOK
<1>5. ImportInv' /\ WrittenInv' /\ RemovedWhenApplied'
  BY <1>2, <1>3, FileFacts DEF ImportInv, WrittenInv, RemovedWhenApplied, Listing
<1>6. DocumentInv' /\ RefusedInv'
  BY <1>2, <1>3 DEF ListInv, DocumentInv, RefusedInv
<1> QED BY <1>4, <1>5, <1>6 DEF ListInv

LEMMA StopKeeps ==
    ASSUME ListInv, Stop, UNCHANGED <<files, database, requests, applied>> PROVE ListInv'
  BY IdleKeeps DEF Stop, files, ListInv, ListTypeOK

LEMMA ListStepKeeps == ListInv /\ List => ListInv'
<1> SUFFICES ASSUME ListInv, List PROVE ListInv'
  OBVIOUS
<1>1. imp.at = "list" /\ UNCHANGED <<files, records, whitelist, requests, applied>>
  BY DEF List
<1>2. CASE Stop /\ UNCHANGED blacklisted
  BY <1>1, <1>2, StopKeeps DEF database
<1>3. ASSUME NEW k \in imp.left, imp' = [imp EXCEPT !.at = "find", !.key = k],
             IF DocumentsOf(k) = {} THEN UNCHANGED blacklisted
             ELSE \E d \in DocumentsOf(k) : blacklisted' = blacklisted \cup {d}
      PROVE  ListInv'
  <2>1. /\ blacklisted \subseteq blacklisted' /\ blacklisted' \subseteq records
        /\ \A n \in Known : Stored(n) = k => KnownDoc(n) \in blacklisted'
    <3>1. \A n \in Known : Stored(n) = k => DocumentsOf(k) = {KnownDoc(n)}
      BY KnownDocuments DEF ListInv
    <3> QED BY <1>3, <3>1 DEF DocumentsOf, ListInv, ListTypeOK
  <2>2. /\ imp'.at = "find" /\ imp'.key = k /\ imp'.file = imp.file /\ imp'.left = imp.left
        /\ k \in Keys /\ imp.file \in Blacklists
    BY <1>1, <1>3 DEF ListInv, ListTypeOK, ImportInv, Listing
  <2>3. UNCHANGED <<fresh, inbox, processed, replaced, records, whitelist, request, warned, applied>>
    BY <1>1 DEF files, requests
  <2>4. ListTypeOK'
    BY <1>1, <2>1, <2>2, <2>3 DEF ListInv, ListTypeOK
  <2>5. ImportInv' /\ DocumentInv' /\ WrittenInv' /\ RemovedWhenApplied'
    BY <1>1, <2>1, <2>2, <2>3
       DEF ListInv, ImportInv, DocumentInv, WrittenInv, RemovedWhenApplied, Listing
  <2>6. RefusedInv'
    BY <2>1, <2>3 DEF ListInv, RefusedInv
  <2> QED BY <2>4, <2>5, <2>6 DEF ListInv
<1> QED BY <1>2, <1>3 DEF List

LEMMA FindKeeps == ListInv /\ Find => ListInv'
<1> SUFFICES ASSUME ListInv, Find PROVE ListInv'
  OBVIOUS
<1>1. imp.at = "find" /\ UNCHANGED <<files, database, requests, applied>>
  BY DEF Find
<1>2. CASE Stop
  BY <1>1, <1>2, StopKeeps
<1>3. CASE DocumentsOf(imp.key) = {} /\ At("insert")
  <2>1. /\ imp'.at = "insert" /\ imp'.key = imp.key /\ imp'.file = imp.file /\ imp'.left = imp.left
        /\ \A n \in Known : imp.key # Stored(n)
    BY <1>1, <1>3, KnownDocuments DEF At, ListInv, ListTypeOK
  <2>2. UNCHANGED <<fresh, inbox, processed, replaced, records, blacklisted, whitelist, request,
                    warned, applied>>
    BY <1>1 DEF files, database, requests
  <2>3. ListTypeOK'
    BY <1>1, <2>1, <2>2 DEF ListInv, ListTypeOK
  <2>4. ImportInv' /\ DocumentInv' /\ WrittenInv' /\ RefusedInv' /\ RemovedWhenApplied'
    BY <1>1, <2>1, <2>2 DEF ListInv, ImportInv, DocumentInv, WrittenInv, RefusedInv,
       RemovedWhenApplied, Listing
  <2> QED BY <2>3, <2>4 DEF ListInv
<1>4. CASE Written("list")
  <2>1. /\ imp'.at = "list" /\ imp'.key = Nil /\ imp'.file = imp.file
        /\ imp'.left = imp.left \ {imp.key}
    BY <1>1, <1>4 DEF Written, ListInv, ListTypeOK
  <2>2. UNCHANGED <<fresh, inbox, processed, replaced, records, blacklisted, whitelist, request,
                    warned, applied>>
    BY <1>1 DEF files, database, requests
  <2>3. ListTypeOK'
    BY <1>1, <2>1, <2>2 DEF ListInv, ListTypeOK
  <2>4. ImportInv' /\ DocumentInv' /\ WrittenInv' /\ RefusedInv' /\ RemovedWhenApplied'
    BY <1>1, <2>1, <2>2 DEF ListInv, ImportInv, DocumentInv, WrittenInv, RefusedInv,
       RemovedWhenApplied, Listing
  <2> QED BY <2>3, <2>4 DEF ListInv
<1> QED BY <1>2, <1>3, <1>4 DEF Find

LEMMA InsertKeeps == ListInv /\ Insert => ListInv'
<1> SUFFICES ASSUME ListInv, Insert PROVE ListInv'
  OBVIOUS
<1>1. imp.at = "insert" /\ UNCHANGED <<files, whitelist, requests, applied>>
  BY DEF Insert
<1>2. CASE Stop /\ UNCHANGED <<records, blacklisted>>
  BY <1>1, <1>2, StopKeeps DEF database
<1>3. CASE /\ Written("list")
           /\ records' = records \cup {<<imp.key, imp.file>>}
           /\ blacklisted' = blacklisted \cup {<<imp.key, imp.file>>}
  <2>1. /\ imp'.at = "list" /\ imp'.key = Nil /\ imp'.file = imp.file
        /\ imp'.left = imp.left \ {imp.key} /\ imp.key \in Keys /\ imp.file \in Files
        /\ \A n \in Known : imp.key # Stored(n)
    BY <1>1, <1>3 DEF Written, ListInv, ListTypeOK, ImportInv, DocumentInv
  <2>2. /\ UNCHANGED <<fresh, inbox, processed, replaced, whitelist, request, warned, applied>>
        /\ <<imp.key, imp.file>> \in Documents
        /\ <<imp.key, imp.file>>[1] = imp.key
    BY <1>1, <2>1 DEF files, requests, Documents, Creators
  <2>3. ListTypeOK'
    BY <1>1, <1>3, <2>1, <2>2 DEF ListInv, ListTypeOK
  <2>4. DocumentInv'
    BY <1>3, <2>1, <2>2 DEF ListInv, DocumentInv
  <2>5. ImportInv' /\ WrittenInv' /\ RefusedInv' /\ RemovedWhenApplied'
    BY <1>1, <1>3, <2>1, <2>2 DEF ListInv, ImportInv, WrittenInv, RefusedInv,
       RemovedWhenApplied, Listing
  <2> QED BY <2>3, <2>4, <2>5 DEF ListInv
<1> QED BY <1>2, <1>3 DEF Insert

LEMMA UnlistKeeps == ListInv /\ Unlist => ListInv'
<1> SUFFICES ASSUME ListInv, Unlist PROVE ListInv'
  OBVIOUS
<1>1. imp.at = "list" /\ imp.left = {} /\ UNCHANGED <<files, records, whitelist, requests>>
  BY DEF Unlist
<1>2. CASE Stop /\ UNCHANGED <<blacklisted, applied>>
  BY <1>1, <1>2, StopKeeps DEF database
<1>3. CASE /\ At("remove")
           /\ blacklisted' = {d \in blacklisted : d[1] \in KeysIn(imp.file)}
           /\ applied' = applied \cup {imp.file}
  <2>1. /\ imp'.at = "remove" /\ imp'.file = imp.file /\ imp'.left = {} /\ imp'.key = imp.key
        /\ imp.file \in Blacklists /\ imp.file \in Files
        /\ UNCHANGED <<fresh, inbox, processed, replaced, records, whitelist, request, warned>>
    BY <1>1, <1>3 DEF At, ListInv, ListTypeOK, ImportInv, Listing, files, requests
  <2>2. ListTypeOK'
    BY <1>1, <1>3, <2>1 DEF ListInv, ListTypeOK
  <2>3. ImportInv' /\ DocumentInv' /\ WrittenInv'
    BY <1>1, <2>1 DEF ListInv, ImportInv, DocumentInv, WrittenInv, Listing
  <2>4. \A n \in Known : (KnownDoc(n) \in blacklisted') <=> (Stored(n) \in KeysIn(imp.file))
    BY <1>1, <1>3, KeyFacts DEF ListInv, WrittenInv, Listing
  <2>5. RemovedWhenApplied'
    BY <2>1, <2>4 DEF RemovedWhenApplied, KnownDoc
  <2>6. RefusedInv'
    <3>1. \A n \in Known : OnAll(n) => KnownDoc(n) \in blacklisted'
      BY <2>1, <2>4, OnAllKeys
    <3> QED BY <1>3, <2>1, <3>1 DEF ListInv, RefusedInv
  <2> QED BY <2>2, <2>3, <2>5, <2>6 DEF ListInv
<1> QED BY <1>2, <1>3 DEF Unlist

LEMMA AllowKeeps == ListInv /\ Allow => ListInv'
<1> SUFFICES ASSUME ListInv, Allow PROVE ListInv'
  OBVIOUS
<1>1. imp.at = "allow" /\ UNCHANGED <<files, records, blacklisted, requests, applied>>
  BY DEF Allow
<1>2. CASE Stop /\ UNCHANGED whitelist
  BY <1>1, <1>2, StopKeeps DEF database
<1>3. ASSUME NEW k \in imp.left, imp' = [imp EXCEPT !.left = imp.left \ {k}],
             whitelist' = whitelist \cup {k}
      PROVE  ListInv'
  <2>1. /\ imp'.at = "allow" /\ imp'.file = imp.file /\ imp'.left = imp.left \ {k}
        /\ imp'.key = imp.key /\ k \in Keys
        /\ UNCHANGED <<fresh, inbox, processed, replaced, records, blacklisted, request, warned,
                       applied>>
    BY <1>1, <1>3 DEF ListInv, ListTypeOK, files, requests
  <2>2. ListTypeOK'
    BY <1>1, <1>3, <2>1 DEF ListInv, ListTypeOK
  <2>3. ImportInv' /\ DocumentInv' /\ WrittenInv' /\ RefusedInv' /\ RemovedWhenApplied'
    BY <1>1, <1>3, <2>1 DEF ListInv, ImportInv, DocumentInv, WrittenInv, RefusedInv,
       RemovedWhenApplied, Listing
  <2> QED BY <2>2, <2>3 DEF ListInv
<1> QED BY <1>2, <1>3 DEF Allow

LEMMA DisallowKeeps == ListInv /\ Disallow => ListInv'
<1> SUFFICES ASSUME ListInv, Disallow PROVE ListInv'
  OBVIOUS
<1>1. imp.at = "allow" /\ imp.left = {} /\ UNCHANGED <<files, records, blacklisted, requests>>
  BY DEF Disallow
<1>2. CASE Stop /\ UNCHANGED <<whitelist, applied>>
  BY <1>1, <1>2, StopKeeps DEF database
<1>3. CASE /\ At("remove")
           /\ whitelist' = whitelist \cap KeysIn(imp.file)
           /\ applied' = applied \cup {imp.file}
  <2>1. /\ imp'.at = "remove" /\ imp'.file = imp.file /\ imp'.left = {} /\ imp'.key = imp.key
        /\ imp.file \in Whitelists /\ imp.file \in Files /\ imp.file \notin Blacklists
        /\ UNCHANGED <<fresh, inbox, processed, replaced, records, blacklisted, request, warned>>
    BY <1>1, <1>3, FileFacts DEF At, ListInv, ListTypeOK, ImportInv, files, requests
  <2>2. whitelist' = KeysIn(imp.file)
    BY <1>1, <1>3 DEF ListInv, WrittenInv
  <2>3. ListTypeOK'
    BY <1>1, <1>3, <2>1 DEF ListInv, ListTypeOK
  <2>4. ImportInv' /\ DocumentInv' /\ WrittenInv' /\ RemovedWhenApplied'
    BY <1>1, <2>1, <2>2
       DEF ListInv, ImportInv, DocumentInv, WrittenInv, RemovedWhenApplied, Listing
  <2>5. RefusedInv'
    BY <1>3, <2>1 DEF ListInv, RefusedInv
  <2> QED BY <2>3, <2>4, <2>5 DEF ListInv
<1> QED BY <1>2, <1>3 DEF Disallow

LEMMA RemoveKeeps == ListInv /\ Remove => ListInv'
<1> SUFFICES ASSUME ListInv, Remove PROVE ListInv'
  OBVIOUS
<1>1. imp.at = "remove"
      /\ UNCHANGED <<fresh, processed, replaced, database, requests, applied>>
  BY DEF Remove
<1>2. CASE Stop /\ UNCHANGED inbox
  BY <1>1, <1>2, StopKeeps DEF files
<1>3. CASE At("upload") /\ inbox' = {g \in inbox : NameOf[g] # NameOf[imp.file]}
  <2>1. /\ imp'.at = "upload" /\ imp'.file = imp.file /\ imp'.left = imp.left /\ imp'.key = imp.key
        /\ UNCHANGED <<fresh, processed, replaced, records, blacklisted, whitelist, request,
                       warned, applied>>
        /\ inbox' \subseteq inbox
    BY <1>1, <1>3 DEF At, ListInv, ListTypeOK, database, requests
  <2>2. ListTypeOK'
    BY <1>1, <2>1 DEF ListInv, ListTypeOK
  <2>3. ImportInv' /\ DocumentInv' /\ WrittenInv' /\ RefusedInv' /\ RemovedWhenApplied'
    BY <1>1, <2>1 DEF ListInv, ImportInv, DocumentInv, WrittenInv, RefusedInv,
       RemovedWhenApplied, Listing
  <2> QED BY <2>2, <2>3 DEF ListInv
<1> QED BY <1>2, <1>3 DEF Remove

LEMMA UploadKeeps == ListInv /\ Upload => ListInv'
<1> SUFFICES ASSUME ListInv, Upload PROVE ListInv'
  OBVIOUS
<1>1. /\ imp' = Idle /\ UNCHANGED <<fresh, inbox, replaced, database, requests, applied>>
      /\ imp.file \in Files /\ processed' \in {processed, processed \cup {imp.file}}
  BY DEF Upload, Stop, ListInv, ListTypeOK
<1> QED BY <1>1, IdleKeeps DEF ListInv, ListTypeOK

-----------------------------------------------------------------------------
(* The requests.                                                           *)

\* A request that goes on, and writes nothing.
LEMMA RequestKeeps ==
    ASSUME ListInv, NEW a \in Applicants, NEW at \in Places, Steps(a, at), OnlyRequest,
           at # "create",
           at \in {"product", "whitelist", "mappings", "granted"} =>
               \/ request[a] \in {"product", "whitelist", "mappings", "granted"}
               \/ ~(NumberOf[a] \in Known /\ OnAll(NumberOf[a]) /\ a \in warned)
    PROVE  ListInv'
<1>1. /\ UNCHANGED <<fresh, inbox, processed, replaced, imp, records, blacklisted, whitelist,
                     warned, applied>>
      /\ request' = [request EXCEPT ![a] = at]
  BY DEF OnlyRequest, Steps, files, database
<1>2. request' \in [Applicants -> Places] /\ request'[a] = at
      /\ \A b \in Applicants : b # a => request'[b] = request[b]
  BY <1>1 DEF ListInv, ListTypeOK
<1>3. ListTypeOK'
  BY <1>1, <1>2 DEF ListInv, ListTypeOK
<1>4. ImportInv' /\ WrittenInv' /\ RemovedWhenApplied'
  BY <1>1 DEF ListInv, ImportInv, WrittenInv, RemovedWhenApplied
<1>5. DocumentInv' /\ RefusedInv'
  BY <1>1, <1>2 DEF ListInv, DocumentInv, RefusedInv
<1> QED BY <1>3, <1>4, <1>5 DEF ListInv

LEMMA ArriveKeeps == ASSUME ListInv, NEW a \in Applicants, Arrive(a) PROVE ListInv'
<1>1. /\ UNCHANGED <<fresh, inbox, processed, replaced, imp, records, blacklisted, whitelist,
                     applied>>
      /\ warned' = IF applied \cap Blacklists = {} THEN warned ELSE warned \cup {a}
  BY DEF Arrive, files, database
<1>2. PICK at \in {"create", "keyword"} :
         /\ request' = [request EXCEPT ![a] = at]
         /\ at = "create" => DocumentsOf(Stored(NumberOf[a])) = {}
  BY DEF Arrive, Steps
<1>3. at \in Places
  BY DEF Places
<1>4. request' \in [Applicants -> Places] /\ request'[a] = at
      /\ \A b \in Applicants : b # a => request'[b] = request[b]
  BY <1>2, <1>3 DEF ListInv, ListTypeOK
<1>5. at = "create" => NumberOf[a] \notin Known
  BY <1>2, KnownDocuments DEF ListInv
<1>6. ListTypeOK'
  BY <1>1, <1>4 DEF ListInv, ListTypeOK
<1>7. ImportInv' /\ WrittenInv' /\ RemovedWhenApplied'
  BY <1>1 DEF ListInv, ImportInv, WrittenInv, RemovedWhenApplied
<1>8. DocumentInv' /\ RefusedInv'
  BY <1>1, <1>4, <1>5 DEF ListInv, DocumentInv, RefusedInv
<1> QED BY <1>6, <1>7, <1>8 DEF ListInv

LEMMA CreateKeeps == ASSUME ListInv, NEW a \in Applicants, Create(a) PROVE ListInv'
<1> DEFINE d == <<Stored(NumberOf[a]), a>>
<1>1. /\ UNCHANGED <<fresh, inbox, processed, replaced, imp, blacklisted, whitelist, warned,
                     applied>>
      /\ request[a] = "create" /\ request' = [request EXCEPT ![a] = "keyword"]
      /\ records' \in {records, records \cup {d}}
  BY DEF Create, Steps, files
<1>2. request' \in [Applicants -> Places] /\ request'[a] = "keyword"
      /\ \A b \in Applicants : b # a => request'[b] = request[b]
  BY <1>1 DEF ListInv, ListTypeOK, Places
<1>3. NumberOf[a] \in Numbers /\ NumberOf[a] \notin Known /\ Known \subseteq Numbers
  BY <1>1, FileFacts DEF ListInv, DocumentInv
<1>4. d \in Documents /\ d[1] = Stored(NumberOf[a])
  BY <1>3, KeyFacts DEF Documents, Creators
<1>5. \A n \in Known : d[1] # Stored(n)
  BY <1>3, <1>4, KeyFacts
<1> HIDE DEF d
<1>6. ListTypeOK'
  BY <1>1, <1>2, <1>4 DEF ListInv, ListTypeOK
<1>7. ImportInv' /\ WrittenInv' /\ RemovedWhenApplied'
  BY <1>1 DEF ListInv, ImportInv, WrittenInv, RemovedWhenApplied
<1>8. DocumentInv' /\ RefusedInv'
  BY <1>1, <1>2, <1>5 DEF ListInv, DocumentInv, RefusedInv
<1> QED BY <1>6, <1>7, <1>8 DEF ListInv

LEMMA CheckEligibilityKeeps ==
    ASSUME ListInv, NEW a \in Applicants, CheckEligibility(a) PROVE ListInv'
<1>1. CASE CheckKeyword(a) \/ CheckLoanProduct(a) \/ CheckMappings(a)
  BY <1>1, RequestKeeps DEF CheckKeyword, CheckLoanProduct, CheckMappings, Rule, Places
<1>2. CASE CheckWhitelist(a)
  BY <1>2, RequestKeeps DEF CheckWhitelist, Places
<1>3. CASE CheckBlacklist(a)
  <2>1. PICK at \in {"refused", "product"} : Steps(a, at)
    BY <1>3 DEF CheckBlacklist
  <2>2. OnlyRequest /\ at \in Places
    BY <1>3 DEF CheckBlacklist, Places
  <2>3. CASE at = "refused"
    BY <2>1, <2>2, <2>3, RequestKeeps
  <2>4. CASE Steps(a, "product") /\ ~(NumberOf[a] \in Known /\ OnAll(NumberOf[a]) /\ a \in warned)
    BY <2>2, <2>4, RequestKeeps DEF Places
  <2>5. CASE NumberOf[a] \in Known /\ OnAll(NumberOf[a]) /\ a \in warned
    <3>1. KnownDoc(NumberOf[a]) \in blacklisted
      BY <2>5 DEF ListInv, RefusedInv
    <3>2. DocumentsOf(Stored(NumberOf[a])) = {KnownDoc(NumberOf[a])}
      BY <2>5, KnownDocuments DEF ListInv
    <3>3. Steps(a, "refused")
      BY <1>3, <3>1, <3>2 DEF CheckBlacklist
    <3> QED BY <2>2, <3>3, RequestKeeps DEF Places
  <2> QED BY <2>1, <2>3, <2>4, <2>5
<1> QED BY <1>1, <1>2, <1>3 DEF CheckEligibility

LEMMA InstanceDiesKeeps == ListInv /\ InstanceDies => ListInv'
<1> SUFFICES ASSUME ListInv, InstanceDies PROVE ListInv'
  OBVIOUS
<1>1. /\ imp'.at = "idle" /\ imp'.file = Nil /\ imp'.left = {} /\ imp'.key = Nil
      /\ UNCHANGED <<fresh, inbox, processed, replaced, records, blacklisted, whitelist,
                     warned, applied>>
      /\ request' = [a \in Applicants |-> IF Busy(a) THEN "refused" ELSE request[a]]
  BY DEF InstanceDies, Idle, files, database
<1>2. /\ request' \in [Applicants -> Places]
      /\ \A a \in Applicants : request'[a] \in {"refused", request[a]}
  BY <1>1 DEF ListInv, ListTypeOK, Places
<1>3. ListTypeOK'
  BY <1>1, <1>2 DEF ListInv, ListTypeOK
<1>4. ImportInv' /\ WrittenInv' /\ RemovedWhenApplied'
  BY <1>1 DEF ImportInv, WrittenInv, RemovedWhenApplied, Listing
<1>5. DocumentInv' /\ RefusedInv'
  BY <1>1, <1>2 DEF ListInv, DocumentInv, RefusedInv
<1> QED BY <1>3, <1>4, <1>5 DEF ListInv

LEMMA ListSteps == ListInv /\ [ListNext]_listVars => ListInv'
<1> SUFFICES ASSUME ListInv, [ListNext]_listVars PROVE ListInv'
  OBVIOUS
<1>1. ASSUME NEW f \in Files, Deposit(f) PROVE ListInv'
  BY <1>1, DepositKeeps
<1>2. CASE ImportStep
  BY <1>2, PullKeeps, ListStepKeeps, FindKeeps, InsertKeeps, UnlistKeeps, AllowKeeps,
     DisallowKeeps, RemoveKeeps, UploadKeeps
     DEF ImportStep, BlacklistSubs, WhitelistSubsForProductId
<1>3. ASSUME NEW a \in Applicants, RequestStep(a) PROVE ListInv'
  BY <1>3, ArriveKeeps, CreateKeeps, CheckEligibilityKeeps DEF RequestStep
<1>4. CASE UNCHANGED listVars
  BY <1>4 DEF listVars, ListInv, ListTypeOK, ImportInv, DocumentInv, WrittenInv, RefusedInv,
     RemovedWhenApplied
<1> QED BY <1>1, <1>2, <1>3, <1>4, InstanceDiesKeeps DEF ListNext

LEMMA ListInvariant == ListSpec => []ListInv
  BY ListInitially, ListSteps, PTL DEF ListSpec

\* Every variable of the lists keeps its type, and an import removes a file only with no
\* number left to write.
THEOREM ListTypeCorrect == ListSpec => []ListTypeOK
  BY ListInvariant, PTL DEF ListInv

\* Whoever has a document and is on every blacklist is refused from the first blacklist
\* on, for any files, requests and failures (CheckSubscriberBlacklisitng beside
\* BlacklistSubs).
THEOREM ListedAreRefused == ListSpec => []ListedIsRefused
<1>1. ListInv => ListedIsRefused
  BY DEF ListInv, RefusedInv, ListedIsRefused, OnAll
<1> QED BY <1>1, ListInvariant, PTL

\* A file is removed from the input directory only when the database agrees with it about
\* everybody known and the whole product.
THEOREM RemovedAreApplied == ListSpec => []RemovedWhenApplied
  BY ListInvariant, PTL DEF ListInv

\* Whoever is on every list of the product and on it stays on it, whatever is imported
\* or fails (WhitelistSubsForProductId).
THEOREM AllowedStay == ListSpec => AllowedStays
<1> DEFINE Keeps == \A k \in whitelist : (\A f \in Whitelists : k \in KeysIn(f)) => k \in whitelist'
<1>1. ListInv /\ [ListNext]_listVars => [Keeps]_listVars
  <2> SUFFICES ASSUME ListInv, ListNext PROVE Keeps
    OBVIOUS
  <2>1. CASE Disallow
    BY <2>1 DEF Disallow, ListInv, ImportInv
  <2>2. CASE Allow
    BY <2>2 DEF Allow
  <2>3. CASE ~Disallow /\ ~Allow
    <3>1. whitelist' = whitelist
      BY <2>3 DEF ListNext, Deposit, ImportStep, InstanceDies, RequestStep, BlacklistSubs,
         WhitelistSubsForProductId, Pull, List, Find, Insert, Unlist, Remove, Upload, Arrive,
         Create, CheckEligibility, CheckKeyword, CheckBlacklist, CheckLoanProduct,
         CheckWhitelist, CheckMappings, Rule, OnlyRequest, database
    <3> QED BY <3>1
  <2> QED BY <2>1, <2>2, <2>3
<1> QED BY <1>1, ListInvariant, PTL DEF ListSpec, AllowedStays

-----------------------------------------------------------------------------
(* Files that are not replaced while they are imported.                    *)

LEMMA LostSteps ==
    ASSUME ~Fails("replace"), ListInv, LostInv, [ListNext]_listVars
    PROVE  LostInv'
<1>1. ASSUME NEW f \in Files, Deposit(f) PROVE LostInv'
  <2>1. /\ ~Importing(NameOf[f]) /\ fresh' = fresh \ {f}
        /\ inbox' = {g \in inbox : NameOf[g] # NameOf[f]} \cup {f}
        /\ replaced' = replaced \cup (inbox \ inbox')
        /\ UNCHANGED <<imp, applied>>
    BY <1>1 DEF Deposit
  <2> QED BY <2>1 DEF LostInv, NothingLost, Importing
<1>2. ASSUME NEW kind \in {"black", "white"}, Pull(kind) PROVE LostInv'
  <2>1. PICK f \in inbox : imp' = Picked(f)
    BY <1>2 DEF Pull
  <2>2. imp'.file = f /\ imp'.at \in {"list", "allow"} /\ UNCHANGED <<fresh, inbox, replaced, applied>>
    BY <1>2, <2>1 DEF Picked, FirstCall, Idle, Pull, files
  <2> QED BY <2>2 DEF LostInv, NothingLost
<1>3. CASE Remove
  <2>1. CASE Stop /\ UNCHANGED inbox
    BY <1>3, <2>1 DEF Remove, Stop, Idle, LostInv, NothingLost
  <2>2. CASE At("upload") /\ inbox' = {g \in inbox : NameOf[g] # NameOf[imp.file]}
    <3>1. imp'.at = "upload" /\ imp'.file = imp.file /\ imp.at = "remove"
          /\ UNCHANGED <<fresh, replaced, applied>>
      BY <1>3, <2>2 DEF Remove, At, ListInv, ListTypeOK
    <3> QED BY <2>2, <3>1 DEF LostInv, NothingLost
  <2> QED BY <1>3, <2>1, <2>2 DEF Remove
<1>4. CASE Unlist \/ Disallow
  <2>1. CASE Stop /\ UNCHANGED applied
    BY <1>4, <2>1 DEF Unlist, Disallow, Stop, Idle, files, LostInv, NothingLost
  <2>2. CASE At("remove") /\ applied' = applied \cup {imp.file}
    <3>1. imp'.at = "remove" /\ imp'.file = imp.file /\ imp.at # "idle"
          /\ UNCHANGED <<fresh, inbox, replaced>>
      BY <1>4, <2>2 DEF Unlist, Disallow, At, ListInv, ListTypeOK, files
    <3> QED BY <2>2, <3>1 DEF LostInv, NothingLost
  <2> QED BY <1>4, <2>1, <2>2 DEF Unlist, Disallow
<1>5. CASE List \/ Find \/ Insert \/ Allow \/ Upload
  <2>1. UNCHANGED <<fresh, inbox, replaced, applied>>
    BY <1>5 DEF List, Find, Insert, Allow, Upload, files
  <2>2. \/ imp'.at = "idle"
        \/ imp'.at \in {"list", "find", "insert", "allow"} /\ imp'.file = imp.file /\ imp.at # "idle"
    <3>1. CASE Stop
      BY <3>1 DEF Stop, Idle
    <3>2. CASE List /\ ~Stop
      <4>1. PICK k \in imp.left : imp' = [imp EXCEPT !.at = "find", !.key = k]
        BY <3>2 DEF List
      <4>2. imp.at = "list"
        BY <3>2 DEF List
      <4>3. imp'.at = "find" /\ imp'.file = imp.file
        BY <4>1, <4>2 DEF ListInv, ListTypeOK
      <4> QED BY <4>2, <4>3
    <3>3. CASE Find /\ ~Stop
      <4>1. At("insert") \/ Written("list")
        BY <3>3 DEF Find
      <4>2. imp.at = "find"
        BY <3>3 DEF Find
      <4>3. CASE At("insert")
        <5>1. imp'.at = "insert" /\ imp'.file = imp.file
          BY <4>2, <4>3 DEF At, ListInv, ListTypeOK
        <5> QED BY <4>2, <5>1
      <4>4. CASE Written("list")
        <5>1. imp'.at = "list" /\ imp'.file = imp.file
          BY <4>2, <4>4 DEF Written, ListInv, ListTypeOK
        <5> QED BY <4>2, <5>1
      <4> QED BY <4>1, <4>3, <4>4
    <3>4. CASE Insert /\ ~Stop
      <4>1. imp' = [imp EXCEPT !.at = "list", !.left = imp.left \ {imp.key}, !.key = Nil]
        BY <3>4 DEF Insert, Written
      <4> QED BY <3>4, <4>1 DEF Insert, ListInv, ListTypeOK
    <3>5. CASE Allow /\ ~Stop
      <4>1. PICK k \in imp.left : imp' = [imp EXCEPT !.left = imp.left \ {k}]
        BY <3>5 DEF Allow
      <4> QED BY <3>5, <4>1 DEF Allow, ListInv, ListTypeOK
    <3> QED BY <1>5, <3>1, <3>2, <3>3, <3>4, <3>5 DEF Upload
  <2> QED BY <2>1, <2>2 DEF LostInv, NothingLost
<1>6. CASE InstanceDies
  BY <1>6 DEF InstanceDies, Idle, files, LostInv, NothingLost
<1>7. ASSUME NEW a \in Applicants, RequestStep(a) PROVE LostInv'
  <2>1. UNCHANGED <<fresh, inbox, replaced, applied, imp>>
    BY <1>7 DEF RequestStep, Arrive, Create, CheckEligibility, CheckKeyword, CheckBlacklist,
       CheckLoanProduct, CheckWhitelist, CheckMappings, Rule, OnlyRequest, files
  <2> QED BY <2>1 DEF LostInv, NothingLost
<1>8. CASE UNCHANGED listVars
  BY <1>8 DEF listVars, LostInv, NothingLost
<1> QED BY <1>1, <1>2, <1>3, <1>4, <1>5, <1>6, <1>7, <1>8
       DEF ListNext, ImportStep, BlacklistSubs, WhitelistSubsForProductId

\* No file leaves the input directory that was not applied or made way for a newer one,
\* whatever calls fail and whenever the instance dies, as long as files are not replaced
\* while they are imported.
THEOREM NoFileIsLost == ~Fails("replace") => (ListSpec => []NothingLost)
<1> SUFFICES ASSUME ~Fails("replace") PROVE ListSpec => []NothingLost
  OBVIOUS
<1>1. ListInit => LostInv
  BY DEF ListInit, LostInv, NothingLost, Idle
<1>2. ListInv /\ LostInv /\ [ListNext]_listVars => LostInv'
  BY LostSteps
<1>3. LostInv => NothingLost
  BY DEF LostInv
<1> QED BY <1>1, <1>2, <1>3, ListInvariant, PTL DEF ListSpec
=============================================================================
