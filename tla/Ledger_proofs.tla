---------------------------- MODULE Ledger_proofs ----------------------------
(***************************************************************************)
(* What single flight buys, for every value of the constants: the history  *)
(* of unpaid documents, records for acknowledged messages, and books that  *)
(* balance, so that the pipeline implements LoanLedger; and an owner for   *)
(* every entry.                                                            *)
(***************************************************************************)
EXTENDS SingleFlight_proofs, WellFoundedInduction

-----------------------------------------------------------------------------
(* Induction and sums. *)

\* A set of naturals that holds 0 and every successor of a member is all of
\* them: the form of induction that takes no operator.
LEMMA SetInduction ==
    ASSUME NEW S \in SUBSET Nat, 0 \in S, \A n \in S : n + 1 \in S
    PROVE  S = Nat
<1> DEFINE T == Nat \ S
           R == {ss \in Nat \X Nat : ss[1] < ss[2]}
<1> SUFFICES ASSUME T # {} PROVE FALSE
  OBVIOUS
<1>1. IsWellFoundedOn(R, Nat)
  BY NatLessThanWellFounded DEF OpToRel
<1>2. T \subseteq Nat
  OBVIOUS
<1> HIDE DEF R
<1>3. PICK x \in T : \A y \in T : ~(<<y, x>> \in R)
  <2> HIDE DEF T
  <2> QED
    BY <1>1, <1>2, WFMin
<1>4. x # 0 /\ x - 1 \in Nat /\ x - 1 \in T
  OBVIOUS
<1>5. <<x - 1, x>> \in R
  BY <1>4 DEF R
<1> QED
  BY <1>3, <1>4, <1>5

\* The running totals behind PesosCollected, for any list of collections.
Share(e, l) == IF e.loan = l THEN e.pesos ELSE 0
Running(cs, l) ==
    CHOOSE t : t = [n \in 0..Len(cs) |->
                       IF n = 0 THEN 0
                       ELSE t[n - 1] + IF cs[n].loan = l THEN cs[n].pesos ELSE 0]
Total(cs, l) == Running(cs, l)[Len(cs)]

LEMMA PesosAreTotal ==
    ASSUME NEW l
    PROVE  PesosCollected(l) = Total(collections, l)
  BY Zenon DEF PesosCollected, Total, Running

LEMMA PesosAreTotalNext ==
    ASSUME NEW l
    PROVE  PesosCollected(l)' = Total(collections', l)
  BY Zenon DEF PesosCollected, Total, Running

\* The recursion of the running totals has a solution.
LEMMA RunningDef ==
    ASSUME NEW cs \in Seq(Collection), NEW l
    PROVE  Running(cs, l) = [n \in 0..Len(cs) |->
                               IF n = 0 THEN 0
                               ELSE Running(cs, l)[n - 1] + Share(cs[n], l)]
<1> DEFINE S == {k \in Nat : \E t : t = [n \in 0..k |->
                    IF n = 0 THEN 0 ELSE t[n - 1] + Share(cs[n], l)]}
<1>1. 0 \in S
  <2> DEFINE t == [n \in 0..0 |-> 0]
  <2>1. t = [n \in 0..0 |-> IF n = 0 THEN 0 ELSE t[n - 1] + Share(cs[n], l)]
    OBVIOUS
  <2> QED
    BY <2>1
<1>2. ASSUME NEW k \in S PROVE k + 1 \in S
  <2>1. PICK t : t = [n \in 0..k |-> IF n = 0 THEN 0 ELSE t[n - 1] + Share(cs[n], l)]
    OBVIOUS
  <2> DEFINE u == [n \in 0..k + 1 |-> IF n = k + 1 THEN t[k] + Share(cs[k + 1], l) ELSE t[n]]
  <2>2. \A n \in 0..k + 1 : u[n] = IF n = 0 THEN 0 ELSE u[n - 1] + Share(cs[n], l)
    <3> SUFFICES ASSUME NEW n \in 0..k + 1
                 PROVE  u[n] = IF n = 0 THEN 0 ELSE u[n - 1] + Share(cs[n], l)
      OBVIOUS
    <3>1. CASE n = k + 1
      BY <3>1
    <3>2. CASE n # k + 1
      <4>1. n \in 0..k /\ u[n] = t[n]
        BY <3>2
      <4>2. n # 0 => n - 1 \in 0..k /\ u[n - 1] = t[n - 1]
        BY <4>1
      <4>3. t[n] = IF n = 0 THEN 0 ELSE t[n - 1] + Share(cs[n], l)
        BY <2>1, <4>1
      <4> QED
        BY <4>1, <4>2, <4>3
    <3> QED
      BY <3>1, <3>2
  <2>3. u = [n \in 0..k + 1 |-> IF n = 0 THEN 0 ELSE u[n - 1] + Share(cs[n], l)]
    <3>1. u = [n \in 0..k + 1 |-> u[n]]
      OBVIOUS
    <3> HIDE DEF u
    <3> QED
      BY <2>2, <3>1
  <2> HIDE DEF u
  <2> QED
    BY <2>3
<1>3. S = Nat
  <2>1. S \in SUBSET Nat
    OBVIOUS
  <2> HIDE DEF S
  <2> QED
    BY <1>1, <1>2, <2>1, SetInduction
<1>4. Len(cs) \in S
  BY <1>3
<1> QED
  BY <1>4, Zenon DEF Running, Share

\* The share of a collection in a loan's total is a number of pesos.
LEMMA ShareType ==
    ASSUME NEW cs \in Seq(Collection), NEW l, NEW n \in 1..Len(cs)
    PROVE  Share(cs[n], l) \in Nat
<1>1. cs[n] \in Collection
  OBVIOUS
<1> QED
  BY <1>1 DEF Share, Collection

\* The totals of two lists agree as far as the shares do.
LEMMA RunningAgree ==
    ASSUME NEW cs \in Seq(Collection), NEW ds \in Seq(Collection), NEW l,
           NEW k \in Nat, k <= Len(cs), k <= Len(ds),
           \A i \in 1..k : Share(cs[i], l) = Share(ds[i], l)
    PROVE  Running(cs, l)[k] = Running(ds, l)[k] /\ Running(cs, l)[k] \in Nat
<1> DEFINE t == Running(cs, l)
           u == Running(ds, l)
           S == {n \in Nat : n <= k => t[n] = u[n] /\ t[n] \in Nat}
<1>0. /\ t = [n \in 0..Len(cs) |-> IF n = 0 THEN 0 ELSE t[n - 1] + Share(cs[n], l)]
      /\ u = [n \in 0..Len(ds) |-> IF n = 0 THEN 0 ELSE u[n - 1] + Share(ds[n], l)]
  <2>1. t = [n \in 0..Len(cs) |-> IF n = 0 THEN 0 ELSE t[n - 1] + Share(cs[n], l)]
    BY RunningDef, Zenon
  <2>2. u = [n \in 0..Len(ds) |-> IF n = 0 THEN 0 ELSE u[n - 1] + Share(ds[n], l)]
    BY RunningDef, Zenon
  <2> QED
    BY <2>1, <2>2
<1> HIDE DEF t, u
<1>a. /\ \A n \in 0..Len(cs) : t[n] = IF n = 0 THEN 0 ELSE t[n - 1] + Share(cs[n], l)
      /\ \A n \in 0..Len(ds) : u[n] = IF n = 0 THEN 0 ELSE u[n - 1] + Share(ds[n], l)
  BY <1>0
<1>b. Len(cs) \in Nat /\ Len(ds) \in Nat
  OBVIOUS
<1>1. 0 \in S
  BY <1>a, <1>b
<1>2. ASSUME NEW n \in S PROVE n + 1 \in S
  <2> SUFFICES ASSUME n + 1 <= k PROVE t[n + 1] = u[n + 1] /\ t[n + 1] \in Nat
    OBVIOUS
  <2>1. t[n] = u[n] /\ t[n] \in Nat /\ n + 1 \in 1..k /\ n \in Nat
    OBVIOUS
  <2>2. Share(cs[n + 1], l) = Share(ds[n + 1], l) /\ Share(cs[n + 1], l) \in Nat
    <3>1. Share(cs[n + 1], l) = Share(ds[n + 1], l)
      BY <2>1
    <3>2. n + 1 \in 1..Len(cs)
      BY <1>b, <2>1
    <3> QED
      BY <3>1, <3>2, ShareType
  <2>3. n + 1 \in 0..Len(cs) /\ n + 1 \in 0..Len(ds) /\ n + 1 # 0 /\ (n + 1) - 1 = n
    BY <1>b, <2>1
  <2>4. t[n + 1] = t[n] + Share(cs[n + 1], l) /\ u[n + 1] = u[n] + Share(ds[n + 1], l)
    BY <1>a, <2>3
  <2> QED
    BY <2>1, <2>2, <2>4
<1>3. S = Nat
  <2>1. S \in SUBSET Nat
    OBVIOUS
  <2> HIDE DEF S
  <2> QED
    BY <1>1, <1>2, <2>1, SetInduction
<1>4. k \in S
  BY <1>3
<1> QED
  BY <1>4 DEF t, u

\* A total is a number of pesos; without collections it is 0.
LEMMA TotalType ==
    ASSUME NEW cs \in Seq(Collection), NEW l
    PROVE  Total(cs, l) \in Nat /\ (cs = <<>> => Total(cs, l) = 0)
<1>1. Len(cs) \in Nat
  OBVIOUS
<1>2. Total(cs, l) \in Nat
  BY <1>1, RunningAgree DEF Total
<1>3. ASSUME cs = <<>> PROVE Total(cs, l) = 0
  <2> DEFINE t == Running(cs, l)
  <2>1. Len(cs) = 0
    BY <1>3
  <2>2. t = [n \in 0..Len(cs) |-> IF n = 0 THEN 0 ELSE t[n - 1] + Share(cs[n], l)]
    BY RunningDef, Zenon
  <2> HIDE DEF t
  <2>3. t[0] = 0
    BY <2>1, <2>2
  <2> QED
    BY <2>1, <2>3 DEF Total, t
<1> QED
  BY <1>2, <1>3

\* One more collection adds its share.
LEMMA TotalAppend ==
    ASSUME NEW cs \in Seq(Collection), NEW e \in Collection, NEW l
    PROVE  Total(Append(cs, e), l) = Total(cs, l) + Share(e, l)
<1> DEFINE ds == Append(cs, e)
           n  == Len(cs)
           u  == Running(ds, l)
<1>1. /\ ds \in Seq(Collection) /\ n \in Nat /\ Len(ds) = n + 1 /\ ds[n + 1] = e
      /\ \A i \in 1..n : ds[i] = cs[i]
  OBVIOUS
<1> HIDE DEF ds, n
<1>2. u[n] = Running(cs, l)[n]
  <2>1. \A i \in 1..n : Share(ds[i], l) = Share(cs[i], l)
    BY <1>1
  <2>2. n <= Len(cs) /\ n <= Len(ds)
    BY <1>1 DEF n
  <2> QED
    BY <1>1, <2>1, <2>2, RunningAgree
<1>3. u = [i \in 0..Len(ds) |-> IF i = 0 THEN 0 ELSE u[i - 1] + Share(ds[i], l)]
  BY <1>1, RunningDef, Zenon
<1> HIDE DEF u
<1>4. u[n + 1] = u[n] + Share(e, l)
  <2>1. n + 1 \in 0..Len(ds) /\ n + 1 # 0 /\ (n + 1) - 1 = n
    BY <1>1
  <2> QED
    BY <1>1, <1>3, <2>1
<1> QED
  BY <1>1, <1>2, <1>4 DEF Total, ds, n, u

\* Setting the flag changes no total.
LEMMA TotalFlag ==
    ASSUME NEW cs \in Seq(Collection), NEW i \in 1..Len(cs), NEW l
    PROVE  Total([cs EXCEPT ![i].flagged = TRUE], l) = Total(cs, l)
<1> DEFINE e  == [cs[i] EXCEPT !.flagged = TRUE]
           ds == [cs EXCEPT ![i] = e]
<1>1. [cs EXCEPT ![i].flagged = TRUE] = ds
  BY Zenon
<1>2. e \in Collection /\ e.loan = cs[i].loan /\ e.pesos = cs[i].pesos
  <2>1. cs[i] \in Collection
    OBVIOUS
  <2> QED
    BY <2>1 DEF Collection
<1> HIDE DEF e
<1>3. ds \in Seq(Collection) /\ Len(ds) = Len(cs) /\ Len(cs) \in Nat
  BY <1>2
<1>4. \A k \in 1..Len(cs) : Share(ds[k], l) = Share(cs[k], l)
  BY <1>2 DEF Share
<1> HIDE DEF ds
<1>5. Running(ds, l)[Len(cs)] = Running(cs, l)[Len(cs)]
  <2>1. PICK n \in Nat : n = Len(cs)
    BY <1>3
  <2>2. n <= Len(ds) /\ n <= Len(cs) /\ \A k \in 1..n : Share(ds[k], l) = Share(cs[k], l)
    BY <1>3, <1>4, <2>1
  <2>3. Running(ds, l)[n] = Running(cs, l)[n]
    BY <1>3, <2>2, RunningAgree, SMTT(30)
  <2> QED
    BY <2>1, <2>3
<1> QED
  BY <1>1, <1>3, <1>5 DEF Total

-----------------------------------------------------------------------------
(* A loan stays where it was read. *)

\* The failed collection of a handler, and the three ways a handler leaves the
\* loans alone.
Failed(w) == [msg |-> work[w].msg, loan |-> Msg(w).loan, pesos |-> 0, ok |-> FALSE,
              flagged |-> FALSE]
CollectionsOnly(w) ==
    /\ UNCHANGED <<active, balance, unpaidDocs, closedDocs>>
    /\ \/ collections' = collections
       \/ work[w].pc = "record" /\ collections' = Append(collections, Failed(w))
       \/ /\ work[w].coll \in 1..Len(collections)
          /\ collections' = [collections EXCEPT ![work[w].coll].flagged = TRUE]

\* Only the transaction of a commit touches the loans.
LEMMA StoreMoves ==
    ASSUME TypeOK, NEW w \in Workers, WorkerStep(w)
    PROVE  /\ UNCHANGED <<loanCount, topic>>
           /\ CollectionsOnly(w) \/ (work[w].pc = "commit" /\ Transaction(w))
<1>1. UNCHANGED <<loanCount, topic>>
  BY WorkerFrame
<1>2. CASE Commit(w)
  BY <1>1, <1>2 DEF Commit, Doing, CollectionsOnly
<1>3. CASE RecordFailure(w)
  BY <1>1, <1>3 DEF RecordFailure, Doing, CollectionsOnly, Failed
<1>4. CASE FlagReported(w)
  <2>1. work[w].coll \in 0..Len(collections) /\ Len(collections) \in Nat
    BY DEF TypeOK, StoreTypeOK, WorkerTypeOK
  <2>2. \/ collections' = collections
        \/ /\ work[w].coll # NoCollection
           /\ collections' = [collections EXCEPT ![work[w].coll].flagged = TRUE]
    BY <1>4 DEF FlagReported
  <2> QED
    BY <1>1, <1>4, <2>1, <2>2 DEF FlagReported, CollectionsOnly, NoCollection
<1>5. CASE ~Commit(w) /\ ~RecordFailure(w) /\ ~FlagReported(w)
  BY <1>1, <1>5 DEF WorkerStep, Handle, Deliver, Decrement, CheckUsage, FetchLoan,
     ReportOutcome, ReleaseEntry, Acknowledge, Leave, WorkerCrash, storeVars, CollectionsOnly
<1> QED
  BY <1>2, <1>3, <1>4, <1>5

\* A consumer that has read the loan it will publish; a message whose
\* transaction is behind it; one that may still be collected.
Reading(c)   == cons[c].pc \in {"old", "unpaid", "backfill", "publish", "skip"}
Committed(m) == \E w \in Workers : /\ work[w].msg = m /\ work[w].mode = "success"
                                    /\ work[w].pc \notin {"fetch", "commit"}
Due(m)       == /\ m \in DOMAIN topic /\ ~Committed(m)
                /\ Live(m, topic[m].sub)

\* The loan a consumer has read, and the loan of a message that may still be
\* collected, are the subscriber's active loan; the loan a handler read is the
\* message's.
StableInv ==
    /\ \A c \in Consumers : Reading(c) => active[cons[c].sub] = cons[c].loan
    /\ \A m \in MsgIds : Due(m) => active[topic[m].sub] = topic[m].loan
    /\ \A w \in Workers : work[w].pc = "commit" => work[w].loan = Msg(w).loan

\* A handler about to commit holds a message that is due.
LEMMA CommitIsDue ==
    ASSUME TypeOK, HandlerInv, NEW w \in Workers, work[w].pc \in {"fetch", "commit"}
    PROVE  work[w].msg \in MsgIds /\ Due(work[w].msg) /\ Msg(w) \in Message
<1>1. Busy(w) /\ ~Finishing(w) /\ work[w].mode = "success"
  BY DEF Busy, Finishing, HandlerInv, PlaceOK
<1>2. work[w].msg \in MsgIds /\ Live(work[w].msg, Msg(w).sub)
  BY <1>1, BusyIsLive
<1>3. ~Committed(work[w].msg)
  BY <1>1 DEF Committed, HandlerInv
<1>4. work[w].msg \in DOMAIN topic /\ topic \in Seq(Message)
  BY <1>1 DEF TypeOK, StoreTypeOK, WorkerTypeOK
<1> QED
  BY <1>2, <1>3, <1>4 DEF Due, Msg

\* On the success path nothing leads back to the transaction.
LEMMA SuccessFollows ==
    ASSUME NEW p, NEW q, NEW n, NextPlace(p, "success", q, n), PlaceOK(p, "success"),
           p \notin {"fetch", "commit"}
    PROVE  n = "success" /\ q \notin {"fetch", "commit"}
<1>1. CASE p = "report"
  BY <1>1 DEF NextPlace, AfterReport
<1>2. CASE p = "release"
  BY <1>2 DEF NextPlace, AfterRelease
<1>3. CASE p = "flag"
  BY <1>3 DEF NextPlace, AfterFlag
<1>4. p \in {"report", "release", "flag"}
  BY DEF NextPlace, PlaceOK
<1> QED
  BY <1>1, <1>2, <1>3, <1>4

\* A handler makes no message due, and its commit makes one not due any more.
LEMMA DueShrinks ==
    ASSUME UndisturbedHandlers, TypeOK, HandlerInv, NEW w \in Workers, WorkerStep(w),
           NEW n \in MsgIds, Due(n)'
    PROVE  Due(n) /\ ~(work[w].pc = "commit" /\ work[w].msg = n)
<1>0. topic' = topic /\ \A v \in Workers \ {w} : work'[v] = work[v]
  BY WorkerFrame, HandlerMoves
<1>1. Live(n, topic[n].sub)
  <2>1. \A s : Live(n, s)' => Live(n, s)
    BY LiveShrinks
  <2> QED
    BY <1>0, <2>1 DEF Due
<1>2. ~Committed(n)
  <2> SUFFICES ASSUME NEW v \in Workers, work[v].msg = n, work[v].mode = "success",
                      work[v].pc \notin {"fetch", "commit"}
               PROVE  FALSE
    BY DEF Committed
  <2>0. ~Committed(n)'
    BY DEF Due
  <2>1. v = w
    <3>1. v # w => work'[v] = work[v]
      BY <1>0
    <3> QED
      BY <2>0, <3>1 DEF Committed
  <2>2. CASE \E m \in MsgIds : Starts(w, m)
    BY <2>1, <2>2 DEF Starts, HandlerInv, NoMsg, MsgIds
  <2>3. CASE Advances(w)
    <3>1. work'[w].mode = "success" /\ work'[w].pc \notin {"fetch", "commit"}
      BY <2>1, <2>3, SuccessFollows DEF Advances, HandlerInv
    <3> QED
      BY <2>1, <2>3, <3>1 DEF Due, Committed, Advances
  <2>4. CASE Ends(w)
    <3>1. work[w].pc = "ack"
      BY <2>1, <2>4 DEF Ends, HandlerInv, PlaceOK
    <3> QED
      BY <2>1, <2>4, <3>1 DEF Ends, Due, Live
  <2> QED
    BY <2>2, <2>3, <2>4, HandlerMoves
<1>3. ASSUME work[w].pc = "commit", work[w].msg = n PROVE FALSE
  <2>1. Advances(w)
    BY <1>3, HandlerMoves DEF Starts, Ends, Busy
  <2>2. work'[w].mode = "success" /\ work'[w].pc \notin {"fetch", "commit"}
    BY <1>3, <2>1 DEF Advances, NextPlace, HandlerInv, PlaceOK
  <2> QED
    BY <1>3, <2>1, <2>2 DEF Due, Committed, Advances
<1> QED
  BY <1>0, <1>1, <1>2, <1>3 DEF Due

\* How a handler comes to commit: by the loan it fetched, or by a full message.
LEMMA CommitLoan ==
    ASSUME UndisturbedHandlers, TypeOK, TypeOK', HandlerInv, StableInv,
           NEW w \in Workers, WorkerStep(w), work'[w].pc = "commit"
    PROVE  work'[w].loan = Msg(w).loan /\ work'[w].msg = work[w].msg
<1>0. WorkerTypeOK /\ work'[w].loan # NoLoan
  BY StoreAssumption DEF TypeOK, WorkerTypeOK, LoanIds, NoLoan
<1>1. Advances(w)
  BY HandlerMoves DEF Starts, Ends, IdleWorker
<1>2. work'[w].msg = work[w].msg
  BY <1>1 DEF Advances
<1>3. work[w].pc \in {"decrement", "usage", "fetch"}
  BY <1>1 DEF Advances, NextPlace, HandlerInv, PlaceOK, AfterRecord, AfterReport,
     AfterRelease, AfterFlag
<1>4. CASE work[w].pc = "fetch"
  <2>1. FetchLoan(w)
    BY <1>0, <1>4, IdleFacts DEF WorkerStep, Handle, Deliver, Decrement, CheckUsage, Commit,
       RecordFailure, ReportOutcome, ReleaseEntry, FlagReported, Acknowledge, Leave, Doing,
       WorkerCrash, UndisturbedHandlers
  <2>2. work'[w].loan = active[Msg(w).sub]
    BY <1>0, <2>1, FetchFacts
  <2>3. Due(work[w].msg) /\ work[w].msg \in MsgIds
    BY <1>4, CommitIsDue
  <2> QED
    BY <1>2, <2>2, <2>3 DEF StableInv, Msg
<1>5. CASE work[w].pc \in {"decrement", "usage"}
  <2>1. Decrement(w) \/ CheckUsage(w)
    BY <1>5 DEF WorkerStep, Handle, Deliver, FetchLoan, Commit,
       RecordFailure, ReportOutcome, ReleaseEntry, FlagReported, Acknowledge, Leave, Doing,
       WorkerCrash, UndisturbedHandlers
  <2>2. Succeed(w)
    <3>1. \/ Succeed(w) \/ \E n : Fail(w, n)
          \/ \E pc \in {"usage", "ack", "leave"} : Continue(w, pc)
      BY <2>1 DEF Decrement, CheckUsage
    <3> QED
      BY <1>0, <3>1, FailFacts, ContinueFacts
  <2>3. work'[w].loan = Msg(w).loan
    BY <1>0, <2>2, SucceedFacts
  <2> QED
    BY <1>2, <2>3
<1> QED
  BY <1>2, <1>3, <1>4, <1>5

\* A handler's step leaves the loans that others have read in place: a full
\* collection takes away only the loan of its own message.
LEMMA StableWorkerStep ==
    ASSUME UndisturbedHandlers, TypeOK, TypeOK', HandlerInv, FlightInv, LoanInv, StableInv,
           NEW w \in Workers, WorkerStep(w), cons' = cons
    PROVE  StableInv'
<1>0. topic' = topic /\ \A v \in Workers \ {w} : work'[v] = work[v]
  BY WorkerFrame, HandlerMoves
<1>1. \A v \in Workers : work'[v].pc = "commit" => work'[v].loan = Msg(v)'.loan
  <2> SUFFICES ASSUME NEW v \in Workers, work'[v].pc = "commit"
               PROVE  work'[v].loan = topic[work'[v].msg].loan
    BY <1>0 DEF Msg
  <2>1. CASE v = w
    BY <2>1, CommitLoan DEF Msg
  <2>2. CASE v # w
    BY <1>0, <2>2 DEF StableInv, Msg
  <2> QED
    BY <2>1, <2>2
<1>2. CASE active' = active
  <2>1. \A n \in MsgIds : Due(n)' => Due(n)
    BY DueShrinks
  <2> QED
    BY <1>0, <1>1, <1>2, <2>1 DEF StableInv, Reading
<1>3. CASE work[w].pc = "commit" /\ FullTransaction(w)
  <2>1. PICK m \in MsgIds : m = work[w].msg /\ Due(m) /\ topic[m] \in Message
    BY <1>3, CommitIsDue DEF Msg
  <2>2. PICK t \in Subscribers, l \in LoanIds : t = topic[m].sub /\ l = topic[m].loan
    BY <2>1 DEF Message
  <2>3. active[t] = l /\ Live(m, t)
    BY <2>1, <2>2 DEF StableInv, Due
  <2>4. l \in Granted
    <3>1. l <= loanCount
      BY <2>1, <2>2 DEF LoanInv, Due
    <3> QED
      BY <3>1, StoreAssumption DEF TypeOK, StoreTypeOK, LoanIds, Granted
  <2>5. \A s \in Subscribers : s # t => active'[s] = active[s]
    <3>1. active' = [s \in Subscribers |-> IF active[s] = l THEN NoLoan ELSE active[s]]
      BY <1>3, <2>1, <2>2 DEF FullTransaction, Msg
    <3>2. \A s \in Subscribers : s # t => active[s] # l
      BY <2>3, <2>4 DEF LoanInv, LoanAccounted
    <3> QED
      BY <3>1, <3>2
  <2>6. ASSUME NEW c \in Consumers, Reading(c) PROVE active'[cons[c].sub] = cons[c].loan
    <3>1. cons[c].sub \in Subscribers /\ Holds(c, cons[c].sub)
      BY <2>6 DEF Reading, Holds, TypeOK, ConsumerTypeOK
    <3>2. cons[c].sub # t
      BY <2>3, <3>1 DEF FlightInv, SingleFlight
    <3> QED
      BY <2>5, <2>6, <3>1, <3>2 DEF StableInv
  <2>7. ASSUME NEW n \in MsgIds, Due(n)' PROVE active'[topic[n].sub] = topic[n].loan
    <3>1. Due(n) /\ n # m
      BY <1>3, <2>1, <2>7, DueShrinks
    <3>2. n \in DOMAIN topic /\ Live(n, topic[n].sub) /\ active[topic[n].sub] = topic[n].loan
      BY <3>1 DEF Due, StableInv
    <3>3. topic[n].sub \in Subscribers
      <4>1. topic[n] \in Message
        BY <3>2 DEF TypeOK, StoreTypeOK
      <4> QED
        BY <4>1 DEF Message
    <3>4. topic[n].sub # t
      BY <2>3, <3>1, <3>2 DEF FlightInv, SingleFlight
    <3> QED
      BY <2>5, <3>2, <3>3, <3>4
  <2> QED
    BY <1>0, <1>1, <2>6, <2>7 DEF StableInv, Reading
<1> QED
  BY <1>2, <1>3, StoreMoves DEF CollectionsOnly, Transaction, PartialTransaction

\* A consumer holds the loan it has just read, or still holds the one it had.
LEMMA ReadingFollows ==
    ASSUME ConsumerTypeOK, NEW c \in Consumers, ConsumerStep(c), Reading(c)'
    PROVE  /\ cons'[c].sub = cons[c].sub
           /\ \/ cons'[c].loan = active[cons[c].sub]
              \/ Reading(c) /\ cons'[c].loan = cons[c].loan
<1>0. cons[c] \in ConsumerState /\ cons \in [Consumers -> ConsumerState]
  BY DEF ConsumerTypeOK
<1>1. ASSUME NEW pc, Goto(c, pc)
      PROVE  /\ cons'[c].pc = pc /\ cons'[c].sub = cons[c].sub
             /\ cons'[c].loan = cons[c].loan
  <2>1. cons'[c] = [cons[c] EXCEPT !.pc = pc]
    BY <1>1, ConsumerMoveFacts
  <2> QED
    BY <1>0, <2>1 DEF ConsumerState
<1>2. ~Finish(c) /\ ~ConsumerCrash(c)
  BY <1>0 DEF Finish, ConsumerCrash, IdleConsumer, Reading
<1>3. CASE TakeEvent(c)
  <2>1. PICK s \in Subscribers, a \in Allowances :
           cons' = [cons EXCEPT ![c] =
                       [cons[c] EXCEPT !.pc = "check", !.sub = s, !.allowance = a]]
    BY <1>3, Zenon DEF TakeEvent
  <2>2. cons'[c].pc = "check"
    BY <1>0, <2>1 DEF ConsumerState
  <2> QED
    BY <2>2 DEF Reading
<1>4. CASE EvaluateRules(c) \/ ReadLoan(c)
  <2> DEFINE l == active[cons[c].sub]
             Hold(pc) == cons' = [cons EXCEPT ![c] =
                [cons[c] EXCEPT !.pc = pc, !.loan = l, !.unpaid = balance[l]]]
  <2>1. Goto(c, "cleanup") \/ Goto(c, "loan") \/ Hold("old") \/ Hold("unpaid")
    BY <1>4, Zenon DEF EvaluateRules, ReadLoan
  <2>2. ASSUME NEW pc, Hold(pc) PROVE cons'[c].sub = cons[c].sub /\ cons'[c].loan = l
    <3>1. PICK k, u : k = l /\ u = balance[k]
      OBVIOUS
    <3>2. cons' = [cons EXCEPT ![c] = [cons[c] EXCEPT !.pc = pc, !.loan = k, !.unpaid = u]]
      BY <2>2, <3>1
    <3> HIDE DEF Hold, l
    <3>3. cons'[c].sub = cons[c].sub /\ cons'[c].loan = k
      BY <1>0, <3>2 DEF ConsumerState
    <3> QED
      BY <3>1, <3>3
  <2> HIDE DEF Hold
  <2>3. ~Goto(c, "cleanup") /\ ~Goto(c, "loan")
    BY <1>1 DEF Reading
  <2> QED
    BY <2>1, <2>2, <2>3
<1>5. CASE ReadUnpaid(c) \/ BackfillUnpaid(c)
  <2>1. Reading(c) /\ (Goto(c, "cleanup") \/ \E u, v : Decide(c, u, v))
    BY <1>5 DEF ReadUnpaid, BackfillUnpaid, At, Reading
  <2> QED
    BY <1>1, <2>1, DecideFacts
<1>6. CASE FindUnpaid(c)
  <2>1. \/ Goto(c, "cleanup")
        \/ \E x \in OpenDocs(cons[c].loan) : cons' = [cons EXCEPT ![c] =
              [cons[c] EXCEPT !.pc = "backfill", !.unpaid = x.amount, !.version = x.version]]
    BY <1>6, Zenon DEF FindUnpaid
  <2>2. ASSUME NEW u, NEW v, cons' = [cons EXCEPT ![c] =
                  [cons[c] EXCEPT !.pc = "backfill", !.unpaid = u, !.version = v]]
        PROVE  cons'[c].sub = cons[c].sub /\ cons'[c].loan = cons[c].loan
    <3> DEFINE k == [cons[c] EXCEPT !.pc = "backfill", !.unpaid = u, !.version = v]
    <3>1. cons' = [cons EXCEPT ![c] = k]
      BY <2>2, Zenon
    <3>2. cons[c] \in ConsumerState /\ cons \in [Consumers -> ConsumerState]
      BY DEF ConsumerTypeOK
    <3>3. k.sub = cons[c].sub /\ k.loan = cons[c].loan
      BY <3>2 DEF ConsumerState
    <3> HIDE DEF k
    <3>4. cons'[c] = k
      BY <3>1, <3>2
    <3> QED
      BY <3>3, <3>4
  <2>3. Reading(c)
    BY <1>6 DEF FindUnpaid, At, Reading
  <2>4. CASE Goto(c, "cleanup")
    BY <1>1, <2>3, <2>4
  <2> QED
    BY <2>1, <2>2, <2>3, <2>4
<1>7. CASE \/ SkipEvent(c) \/ CheckEntry(c) \/ CreateEntry(c) \/ UpdateOldLoan(c)
          \/ SkipCollection(c) \/ PublishMessage(c) \/ Cleanup(c)
  <2>1. Finish(c) \/ \E pc \in {"create", "rules", "loan", "cleanup"} : Goto(c, pc)
    BY <1>7 DEF SkipEvent, CheckEntry, CreateEntry, UpdateOldLoan,
       SkipCollection, PublishMessage, Cleanup
  <2>2. PICK pc \in {"create", "rules", "loan", "cleanup"} : Goto(c, pc)
    BY <1>2, <2>1
  <2>3. cons'[c].pc = pc
    BY <1>1, <2>2
  <2> QED
    BY <2>3 DEF Reading
<1> QED
  BY <1>2, <1>3, <1>4, <1>5, <1>6, <1>7 DEF ConsumerStep, Proceed

\* A consumer's step moves no loan, and its message is about the loan it read.
LEMMA StableConsumerStep ==
    ASSUME SingleConsumer, ReliablePublisher, TypeOK, StableInv,
           UNCHANGED <<acked, work>>, NEW c \in Consumers, ConsumerStep(c)
    PROVE  StableInv'
<1>0. active' = active /\ (topic' = topic \/ topic' = Append(topic, Snapshot(c)))
  BY ConsumerFrame
<1>1. ASSUME NEW d \in Consumers, Reading(d)' PROVE active[cons'[d].sub] = cons'[d].loan
  <2>1. d = c
    BY DEF SingleConsumer
  <2> QED
    BY <1>1, <2>1, ReadingFollows DEF StableInv, TypeOK
<1>2. \A i \in DOMAIN topic : i \in DOMAIN topic' /\ topic'[i] = topic[i]
  <2> DEFINE e == Snapshot(c)
  <2> HIDE DEF e
  <2>1. topic \in Seq(Message) /\ (topic' = topic \/ topic' = Append(topic, e))
    BY <1>0 DEF TypeOK, StoreTypeOK, e
  <2> QED
    BY <2>1
<1>3. ASSUME NEW n \in MsgIds, Due(n)' PROVE active[topic'[n].sub] = topic'[n].loan
  <2>1. PICK s : s = topic'[n].sub
    OBVIOUS
  <2>2. n \in DOMAIN topic' /\ ~Committed(n) /\ Live(n, s)'
    BY <1>3, <2>1 DEF Due, Committed, Live, Finishing
  <2>3. CASE Live(n, s)
    <3>1. n \in DOMAIN topic /\ topic'[n] = topic[n]
      BY <1>2, <2>3 DEF Live
    <3> QED
      BY <2>1, <2>2, <2>3, <3>1 DEF Due, StableInv
  <2>4. CASE ~Live(n, s)
    <3>1. topic' # topic /\ n = Len(topic) + 1
      BY <1>0, <2>2, <2>4, LiveFollows
    <3>2. cons[c].pc = "publish" /\ topic' = Append(topic, Snapshot(c))
      BY <3>1, ConsumerFrame DEF At
    <3>3. topic'[n].sub = cons[c].sub /\ topic'[n].loan = cons[c].loan
      <4> DEFINE e == Snapshot(c)
      <4>1. e.sub = cons[c].sub /\ e.loan = cons[c].loan
        BY DEF Snapshot
      <4> HIDE DEF e
      <4>2. topic'[n] = e
        <5>1. topic \in Seq(Message) /\ topic' = Append(topic, e)
          BY <3>2 DEF TypeOK, StoreTypeOK, e
        <5> QED
          BY <3>1, <5>1
      <4> QED
        BY <4>1, <4>2
    <3> QED
      BY <3>2, <3>3 DEF StableInv, Reading
  <2> QED
    BY <2>3, <2>4
<1>4. ASSUME NEW v \in Workers, work[v].pc = "commit" PROVE work[v].loan = topic'[work[v].msg].loan
  <2>1. work[v].msg \in 1..Len(topic) /\ topic \in Seq(Message)
    <3>1. Busy(v)
      BY <1>4 DEF Busy
    <3> QED
      BY <3>1 DEF TypeOK, StoreTypeOK, WorkerTypeOK
  <2> QED
    BY <1>2, <1>4, <2>1 DEF StableInv, Msg
<1> QED
  BY <1>0, <1>1, <1>3, <1>4 DEF StableInv, Msg

\* A new loan goes to a subscriber without one, whom nobody works on.
LEMMA StableGrant ==
    ASSUME TypeOK, StableInv, Grant
    PROVE  StableInv'
<1>1. PICK s \in Subscribers : AvailLoan(s) /\ UNCHANGED <<consumerVars, workerVars>>
  BY DEF Grant
<1>2. /\ active[s] = NoLoan /\ UNCHANGED <<topic, cons, acked, work>>
      /\ \A t \in Subscribers : t # s => active'[t] = active[t]
  BY <1>1 DEF AvailLoan, consumerVars, workerVars, TypeOK, StoreTypeOK
<1>3. NoLoan \notin LoanIds
  BY StoreAssumption DEF NoLoan, LoanIds
<1>4. ASSUME NEW c \in Consumers, Reading(c) PROVE active'[cons[c].sub] = cons[c].loan
  <2>1. cons[c].sub \in Subscribers /\ cons[c].loan \in LoanIds
    BY <1>4 DEF Reading, TypeOK, ConsumerTypeOK
  <2> QED
    BY <1>2, <1>3, <1>4, <2>1 DEF StableInv
<1>5. ASSUME NEW n \in MsgIds, Due(n) PROVE active'[topic[n].sub] = topic[n].loan
  <2>1. topic[n] \in Message
    BY <1>5 DEF Due, TypeOK, StoreTypeOK
  <2>2. topic[n].sub \in Subscribers /\ topic[n].loan \in LoanIds
    BY <2>1 DEF Message
  <2> QED
    BY <1>2, <1>3, <1>5, <2>2 DEF StableInv
<1>6. \A n \in MsgIds : Due(n)' => Due(n)
  BY <1>2 DEF Due, Committed, Live, Finishing
<1> QED
  BY <1>2, <1>4, <1>5, <1>6 DEF StableInv, Reading, Msg

\* Everything single flight rests on, and what it protects.
CoreInv == TypeOK /\ HandlerInv /\ FlightInv /\ LoanInv /\ StableInv

\* With one consumer, a truthful publisher and undisturbed handlers, the loans
\* that were read stay where they are.
LEMMA CoreIsInvariant ==
    ASSUME SingleConsumer, ReliablePublisher, UndisturbedHandlers
    PROVE  Spec => []CoreInv
<1>1. Init => StableInv
  BY DEF Init, StoreInit, ConsumerInit, WorkerInit, StableInv, Reading, Due, IdleConsumer,
     IdleWorker
<1>2. /\ TypeOK /\ TypeOK' /\ HandlerInv /\ FlightInv /\ LoanInv /\ StableInv
      /\ [Next]_vars
      => StableInv'
  <2> SUFFICES ASSUME TypeOK, TypeOK', HandlerInv, FlightInv, LoanInv, StableInv, [Next]_vars
               PROVE  StableInv'
    OBVIOUS
  <2>1. CASE Grant
    BY <2>1, StableGrant
  <2>2. CASE Consumer
    BY <2>2, StableConsumerStep DEF Consumer, ConsumerNext, ConsumerStep, workerVars
  <2>3. CASE Worker
    BY <2>3, StableWorkerStep DEF Worker, WorkerNext, WorkerStep, consumerVars
  <2>4. CASE UNCHANGED vars
    BY <2>4 DEF vars, storeVars, consumerVars, workerVars, StableInv, Reading, Due, Committed,
       Live, Finishing, Msg
  <2> QED
    BY <2>1, <2>2, <2>3, <2>4 DEF Next
<1>3. Spec => []StableInv
  BY <1>1, <1>2, TypeCorrect, OneHandler, FlightIsInvariant, LoanIsInvariant, PTL DEF Spec
<1>4. TypeOK /\ HandlerInv /\ FlightInv /\ LoanInv /\ StableInv => CoreInv
  BY DEF CoreInv
<1> QED
  BY <1>3, <1>4, TypeCorrect, OneHandler, FlightIsInvariant, LoanIsInvariant, PTL

-----------------------------------------------------------------------------
(* UnpaidHistory. *)

\* Closing the newest document touches nothing but its validity.
LEMMA CloseLatestFacts ==
    ASSUME NEW docs \in Seq(UnpaidDoc), NEW i \in 1..Len(docs)
    PROVE  /\ CloseLatest(docs)[i].amount = docs[i].amount
           /\ CloseLatest(docs)[i].version = docs[i].version
           /\ CloseLatest(docs)[i].open <=> docs[i].open /\ i # Len(docs)
<1> DEFINE n    == Len(docs)
           last == [docs[n] EXCEPT !.open = FALSE]
<1>1. CloseLatest(docs) = [docs EXCEPT ![n] = last]
  BY Zenon DEF CloseLatest
<1>2. n \in 1..Len(docs) /\ docs[n] \in UnpaidDoc /\ docs[i] \in UnpaidDoc
  OBVIOUS
<1>3. last.amount = docs[n].amount /\ last.version = docs[n].version /\ last.open = FALSE
  BY <1>2 DEF UnpaidDoc
<1> HIDE DEF last
<1> QED
  BY <1>1, <1>2, <1>3

\* The document a collection adds.
NextDoc(w) == [amount  |-> IF Msg(w).kind = "Partial" THEN Remaining(w) ELSE 0,
               open    |-> Msg(w).kind = "Partial",
               version |-> Msg(w).version + 1]

\* What a transaction does, given that the message's loan is the active one.
LEMMA TransactionFacts ==
    ASSUME CoreInv, NEW w \in Workers, work[w].pc = "commit", Transaction(w),
           NEW l, l = Msg(w).loan
    PROVE  /\ Msg(w) \in Message /\ l \in LoanIds /\ l \in Granted /\ closedDocs[l] = 0
           /\ active[Msg(w).sub] = l /\ work[w].loan = l
           /\ unpaidDocs' = [unpaidDocs EXCEPT ![l] = Append(CloseLatest(unpaidDocs[l]), NextDoc(w))]
           /\ collections' = Append(collections, Collected(w))
           /\ IF Msg(w).kind = "Partial"
              THEN UNCHANGED <<active, closedDocs>>
              ELSE closedDocs' = [closedDocs EXCEPT ![l] = 1]
           /\ balance' = [balance EXCEPT ![l] = NextDoc(w).amount]
<1>1. TypeOK /\ HandlerInv /\ StableInv /\ LoanInv /\ StoreTypeOK
  BY DEF CoreInv, TypeOK
<1>2. work[w].msg \in MsgIds /\ Due(work[w].msg) /\ Msg(w) \in Message
  BY <1>1, CommitIsDue
<1>3. active[Msg(w).sub] = l /\ work[w].loan = l
  BY <1>1, <1>2 DEF StableInv, Msg
<1>4. l \in LoanIds /\ Msg(w).sub \in Subscribers /\ Msg(w).kind \in {"Partial", "Full"}
  BY <1>2 DEF Message
<1>5. l \in Granted
  <2>1. l <= loanCount
    BY <1>1, <1>2 DEF LoanInv, Due, Msg
  <2> QED
    BY <1>1, <1>4, <2>1, StoreAssumption DEF StoreTypeOK, LoanIds, Granted
<1>6. closedDocs[l] = 0
  BY <1>1, <1>3, <1>4, <1>5 DEF LoanInv, LoanAccounted
<1>7. unpaidDocs \in [LoanIds -> Seq(UnpaidDoc)] /\ closedDocs \in [LoanIds -> Nat]
  BY <1>1 DEF StoreTypeOK
<1>8. CASE Msg(w).kind = "Partial"
  <2>1. PartialTransaction(w)
    BY <1>8 DEF Transaction
  <2>2. balance' = [balance EXCEPT ![l] = Remaining(w)]
    BY <1>3, <1>4, <2>1 DEF PartialTransaction
  <2>3. NextDoc(w) = [amount |-> Remaining(w), open |-> TRUE, version |-> Msg(w).version + 1]
    BY <1>8 DEF NextDoc
  <2>4. NextDoc(w).amount = Remaining(w)
    BY <2>3
  <2>5. unpaidDocs' = [unpaidDocs EXCEPT ![l] = Append(CloseLatest(unpaidDocs[l]), NextDoc(w))]
    <3> DEFINE closed == [unpaidDocs EXCEPT ![l] = CloseLatest(unpaidDocs[l])]
               e      == [amount |-> Remaining(w), open |-> TRUE, version |-> Msg(w).version + 1]
    <3>1. unpaidDocs' = [closed EXCEPT ![l] = Append(closed[l], e)]
      BY <1>3, <2>1, Zenon DEF PartialTransaction
    <3>2. closed[l] = CloseLatest(unpaidDocs[l])
      BY <1>4, <1>7
    <3> HIDE DEF e
    <3>3. [closed EXCEPT ![l] = Append(CloseLatest(unpaidDocs[l]), e)]
             = [unpaidDocs EXCEPT ![l] = Append(CloseLatest(unpaidDocs[l]), e)]
      BY <1>4, <1>7
    <3> QED
      BY <2>3, <3>1, <3>2, <3>3 DEF e
  <2>6. UNCHANGED <<active, closedDocs>> /\ collections' = Append(collections, Collected(w))
    BY <2>1 DEF PartialTransaction
  <2> QED
    BY <1>2, <1>3, <1>4, <1>5, <1>6, <1>8, <2>2, <2>4, <2>5, <2>6
<1>9. CASE Msg(w).kind = "Full"
  <2>1. FullTransaction(w)
    BY <1>9 DEF Transaction
  <2>2. NextDoc(w) = [amount |-> 0, open |-> FALSE, version |-> Msg(w).version + 1]
    BY <1>9 DEF NextDoc
  <2>3. NextDoc(w).amount = 0
    BY <2>2
  <2>4. /\ balance' = [balance EXCEPT ![l] = 0]
        /\ collections' = Append(collections, Collected(w))
        /\ unpaidDocs' = [unpaidDocs EXCEPT ![l] = Append(CloseLatest(unpaidDocs[l]),
                 [amount |-> 0, open |-> FALSE, version |-> Msg(w).version + 1])]
        /\ closedDocs' = [closedDocs EXCEPT ![l] = closedDocs[l] + 1]
    BY <2>1, Zenon DEF FullTransaction
  <2>5. closedDocs' = [closedDocs EXCEPT ![l] = 1]
    BY <1>6, <2>4
  <2> QED
    BY <1>2, <1>3, <1>4, <1>5, <1>6, <1>9, <2>2, <2>3, <2>4, <2>5
<1> QED
  BY <1>4, <1>8, <1>9

\* The documents of a loan after a collection: the old ones, the newest closed,
\* and one more.
LEMMA NextDocs ==
    ASSUME NEW docs \in Seq(UnpaidDoc), NEW d, NEW next, next = Append(CloseLatest(docs), d)
    PROVE  /\ DOMAIN next = 1..Len(docs) + 1 /\ Len(next) = Len(docs) + 1 /\ Len(docs) \in Nat
           /\ next[Len(docs) + 1] = d
           /\ \A i \in 1..Len(docs) :
                 /\ next[i].amount = docs[i].amount /\ next[i].version = docs[i].version
                 /\ next[i].open <=> docs[i].open /\ i # Len(docs)
<1> DEFINE closed == CloseLatest(docs)
<1>1. closed \in Seq(UnpaidDoc) /\ Len(closed) = Len(docs)
  BY CloseLatestType
<1>2. \A i \in 1..Len(docs) :
         /\ closed[i].amount = docs[i].amount /\ closed[i].version = docs[i].version
         /\ closed[i].open <=> docs[i].open /\ i # Len(docs)
  BY CloseLatestFacts
<1> HIDE DEF closed
<1>3. /\ Len(docs) \in Nat /\ DOMAIN next = 1..Len(docs) + 1 /\ Len(next) = Len(docs) + 1
      /\ next[Len(docs) + 1] = d
      /\ \A i \in 1..Len(docs) : next[i] = closed[i]
  BY <1>1 DEF closed
<1> QED
  BY <1>2, <1>3

\* A transaction leaves at most its own document valid.
LEMMA HistoryStep ==
    ASSUME CoreInv, UnpaidHistory, NEW w \in Workers, work[w].pc = "commit", Transaction(w),
           loanCount' = loanCount
    PROVE  UnpaidHistory'
<1>1. PICK l : l = Msg(w).loan
  OBVIOUS
<1> DEFINE docs == unpaidDocs[l]
           next == Append(CloseLatest(docs), NextDoc(w))
<1>2. /\ l \in LoanIds /\ l \in Granted /\ closedDocs[l] = 0
      /\ unpaidDocs' = [unpaidDocs EXCEPT ![l] = next]
      /\ IF Msg(w).kind = "Partial" THEN closedDocs' = closedDocs
         ELSE closedDocs' = [closedDocs EXCEPT ![l] = 1]
  BY <1>1, TransactionFacts
<1>3. unpaidDocs \in [LoanIds -> Seq(UnpaidDoc)] /\ closedDocs \in [LoanIds -> Nat]
  BY DEF CoreInv, TypeOK, StoreTypeOK
<1>4. docs \in Seq(UnpaidDoc)
  BY <1>2, <1>3
<1>5. /\ unpaidDocs'[l] = next /\ (closedDocs'[l] = 0 <=> Msg(w).kind = "Partial")
      /\ \A k \in LoanIds : k # l => unpaidDocs'[k] = unpaidDocs[k] /\ closedDocs'[k] = closedDocs[k]
  BY <1>2, <1>3
<1>6. Granted' = Granted /\ Granted \subseteq LoanIds
  BY StoreAssumption DEF Granted, LoanIds, CoreInv, TypeOK, StoreTypeOK
<1>7. ASSUME NEW k \in Granted, k # l, NEW i \in DOMAIN unpaidDocs'[k]
      PROVE  unpaidDocs'[k][i].open <=> i = Len(unpaidDocs'[k]) /\ closedDocs'[k] = 0
  BY <1>5, <1>6, <1>7 DEF UnpaidHistory
<1>8. ASSUME NEW i \in DOMAIN next
      PROVE  next[i].open <=> i = Len(next) /\ closedDocs'[l] = 0
  <2>1. /\ DOMAIN next = 1..Len(docs) + 1 /\ Len(next) = Len(docs) + 1 /\ Len(docs) \in Nat
        /\ next[Len(docs) + 1] = NextDoc(w)
        /\ \A j \in 1..Len(docs) : next[j].open <=> docs[j].open /\ j # Len(docs)
    <3>1. next = Append(CloseLatest(docs), NextDoc(w))
      OBVIOUS
    <3> HIDE DEF next, docs
    <3> QED
      BY <1>4, <3>1, NextDocs
  <2>2. \A j \in 1..Len(docs) : docs[j].open <=> j = Len(docs) /\ closedDocs[l] = 0
    <3>1. DOMAIN docs = 1..Len(docs)
      BY <1>4
    <3> QED
      BY <1>2, <3>1 DEF UnpaidHistory
  <2>3. NextDoc(w).open <=> Msg(w).kind = "Partial"
    BY DEF NextDoc
  <2> HIDE DEF next, docs
  <2>4. CASE i = Len(docs) + 1
    BY <1>5, <2>1, <2>3, <2>4
  <2>5. CASE i \in 1..Len(docs)
    BY <2>1, <2>2, <2>5
  <2> QED
    BY <2>1, <2>4, <2>5
<1> HIDE DEF next, docs
<1> QED
  BY <1>5, <1>6, <1>7, <1>8 DEF UnpaidHistory

\* The grant adds the first document, which is valid.
LEMMA HistoryGrant ==
    ASSUME TypeOK, LoanInv, UnpaidHistory, Grant
    PROVE  UnpaidHistory'
<1>1. PICK s \in Subscribers, p \in Principals :
         /\ loanCount < MaxLoans /\ loanCount' = loanCount + 1 /\ closedDocs' = closedDocs
         /\ unpaidDocs' = [unpaidDocs EXCEPT ![loanCount + 1] =
                <<[amount |-> p, open |-> TRUE, version |-> 1]>>]
  BY DEF Grant, AvailLoan
<1>2. /\ loanCount \in Nat /\ MaxLoans \in Nat
      /\ unpaidDocs \in [LoanIds -> Seq(UnpaidDoc)]
  BY StoreAssumption DEF TypeOK, StoreTypeOK
<1>3. loanCount + 1 \in LoanIds /\ closedDocs[loanCount + 1] = 0
  BY <1>1, <1>2 DEF LoanIds, LoanInv
<1>4. Granted' = Granted \cup {loanCount + 1} /\ \A k \in Granted : k # loanCount + 1
  BY <1>1, <1>2 DEF Granted
<1> DEFINE e == [amount |-> p, open |-> TRUE, version |-> 1]
<1>5. unpaidDocs'[loanCount + 1] = <<e>> /\ e.open = TRUE
  BY <1>1, <1>2, <1>3
<1> HIDE DEF e
<1>6. DOMAIN <<e>> = 1..1 /\ Len(<<e>>) = 1 /\ <<e>>[1] = e
  OBVIOUS
<1>7. \A k \in Granted : unpaidDocs'[k] = unpaidDocs[k]
  <2>1. Granted \subseteq LoanIds
    BY <1>1, <1>2 DEF Granted, LoanIds
  <2> QED
    BY <1>1, <1>2, <1>4, <2>1
<1>8. ASSUME NEW k \in Granted'
      PROVE  \A i \in DOMAIN unpaidDocs'[k] :
                unpaidDocs'[k][i].open <=> i = Len(unpaidDocs'[k]) /\ closedDocs'[k] = 0
  <2>1. CASE k = loanCount + 1
    <3>1. unpaidDocs'[k] = <<e>> /\ closedDocs'[k] = 0
      BY <1>1, <1>3, <1>5, <2>1
    <3>2. \A i \in DOMAIN <<e>> : <<e>>[i].open <=> i = Len(<<e>>)
      BY <1>5, <1>6
    <3> QED
      BY <3>1, <3>2
  <2>2. CASE k \in Granted
    BY <1>1, <1>7, <2>2 DEF UnpaidHistory
  <2> QED
    BY <1>4, <2>1, <2>2
<1> QED
  BY <1>8 DEF UnpaidHistory

\* UnpaidHistory is an invariant whenever the lock works.
THEOREM HistoryIsKept ==
    ASSUME SingleConsumer, ReliablePublisher, UndisturbedHandlers
    PROVE  Spec => []UnpaidHistory
<1>1. Init => UnpaidHistory
  BY DEF Init, StoreInit, UnpaidHistory, Granted
<1>2. CoreInv /\ UnpaidHistory /\ [Next]_vars => UnpaidHistory'
  <2> SUFFICES ASSUME CoreInv, UnpaidHistory, [Next]_vars PROVE UnpaidHistory'
    OBVIOUS
  <2>1. CASE Grant
    BY <2>1, HistoryGrant DEF CoreInv
  <2>2. CASE Consumer
    <3>1. UNCHANGED <<unpaidDocs, closedDocs, loanCount>>
      BY <2>2, ConsumerFrame DEF Consumer, ConsumerNext, ConsumerStep
    <3> QED
      BY <3>1 DEF UnpaidHistory, Granted
  <2>3. CASE Worker
    <3>1. PICK w \in Workers : WorkerStep(w)
      BY <2>3 DEF Worker, WorkerNext, WorkerStep
    <3>2. /\ loanCount' = loanCount
          /\ UNCHANGED <<unpaidDocs, closedDocs>> \/ (work[w].pc = "commit" /\ Transaction(w))
      BY <3>1, StoreMoves DEF CollectionsOnly, CoreInv
    <3> QED
      BY <3>2, HistoryStep DEF UnpaidHistory, Granted
  <2>4. CASE UNCHANGED vars
    BY <2>4 DEF vars, storeVars, UnpaidHistory, Granted
  <2> QED
    BY <2>1, <2>2, <2>3, <2>4 DEF Next
<1> QED
  BY <1>1, <1>2, CoreIsInvariant, PTL DEF Spec

-----------------------------------------------------------------------------
(* AckedIsRecorded. *)

\* A handler that has only to finish has left a collection or a file.
Recorded(m) == m \in archived \/ \E i \in DOMAIN collections : collections[i].msg = m
RecordedInv ==
    /\ AckedIsRecorded
    /\ \A w \in Workers :
          work[w].pc \in {"report", "release", "flag", "ack"} => Recorded(work[w].msg)

\* What was recorded stays recorded; an added collection records its message.
LEMMA RecordedStays ==
    ASSUME TypeOK, NEW w \in Workers, WorkerStep(w)
    PROVE  /\ \A m : Recorded(m) => Recorded(m)'
           /\ \A e : collections' = Append(collections, e) => Recorded(e.msg)'
<1>1. collections \in Seq(Collection) /\ archived \subseteq archived'
  <2>1. archived \subseteq archived'
    BY DEF WorkerStep, Handle, Deliver, Decrement, CheckUsage, FetchLoan, Commit, RecordFailure,
       ReportOutcome, ReleaseEntry, FlagReported, Acknowledge, Leave, WorkerCrash
  <2> QED
    BY <2>1 DEF TypeOK, StoreTypeOK
<1>2. ASSUME NEW e, collections' = Append(collections, e)
      PROVE  /\ \A i \in DOMAIN collections : i \in DOMAIN collections' /\ collections'[i] = collections[i]
             /\ Len(collections) + 1 \in DOMAIN collections'
             /\ collections'[Len(collections) + 1] = e
  BY <1>1, <1>2
<1>3. ASSUME NEW m, Recorded(m) PROVE Recorded(m)'
  <2>1. CASE \E e : collections' = Append(collections, e)
    BY <1>1, <1>2, <1>3, <2>1 DEF Recorded
  <2>2. CASE collections' = collections
    BY <1>1, <1>3, <2>2 DEF Recorded
  <2>3. CASE /\ work[w].coll \in 1..Len(collections)
             /\ collections' = [collections EXCEPT ![work[w].coll].flagged = TRUE]
    <3>1. PICK k : k = work[w].coll
      OBVIOUS
    <3> DEFINE e == [collections[k] EXCEPT !.flagged = TRUE]
    <3>2. collections' = [collections EXCEPT ![k] = e]
      BY <2>3, <3>1, Zenon
    <3>3. collections[k] \in Collection /\ k \in 1..Len(collections)
      BY <1>1, <2>3, <3>1
    <3>4. e.msg = collections[k].msg
      BY <3>3 DEF Collection
    <3> HIDE DEF e
    <3>5. \A i \in DOMAIN collections : i \in DOMAIN collections' /\ collections'[i].msg = collections[i].msg
      BY <1>1, <3>2, <3>3, <3>4
    <3> QED
      BY <1>1, <1>3, <3>5 DEF Recorded
  <2> QED
    BY <2>1, <2>2, <2>3, StoreMoves
    DEF CollectionsOnly, Transaction, PartialTransaction, FullTransaction
<1> QED
  BY <1>2, <1>3 DEF Recorded

\* Every step that takes a handler past its work has recorded the message.
LEMMA RecordedStep ==
    ASSUME ~MayFail("mongo"), ~MayFail("gcs"), UndisturbedHandlers, CoreInv, RecordedInv,
           NEW w \in Workers, WorkerStep(w)
    PROVE  RecordedInv'
<1>0. TypeOK /\ HandlerInv /\ WorkerTypeOK /\ \A v \in Workers \ {w} : work'[v] = work[v]
  BY HandlerMoves DEF CoreInv, TypeOK
<1>1. \A m : Recorded(m) => Recorded(m)'
  BY <1>0, RecordedStays
<1>2. AckedIsRecorded'
  <2>1. \A m \in acked : Recorded(m)
    BY DEF RecordedInv, AckedIsRecorded, Recorded
  <2>2. acked' = acked \/ (acked' = acked \cup {work[w].msg} /\ work[w].pc = "ack")
    BY <1>0, HandlerMoves DEF Starts, Advances, Ends
  <2>3. \A m \in acked' : Recorded(m)'
    BY <1>1, <2>1, <2>2 DEF RecordedInv
  <2> QED
    BY <2>3 DEF AckedIsRecorded, Recorded
<1>3. ASSUME work'[w].pc \in {"report", "release", "flag", "ack"} PROVE Recorded(work[w].msg)'
  <2>1. Advances(w) /\ work'[w].msg = work[w].msg
    BY <1>0, <1>3, HandlerMoves DEF Starts, Ends, IdleWorker, Advances
  <2>2. PICK m : m = work[w].msg
    OBVIOUS
  <2>3. CASE work[w].pc \in {"report", "release", "flag"}
    BY <1>1, <2>1, <2>3 DEF RecordedInv
  <2>4. CASE Decrement(w)
    <3>1. Succeed(w) \/ Continue(w, "usage") \/ \E n : Fail(w, n)
      BY <2>4 DEF Decrement
    <3> QED
      BY <1>0, <1>3, <3>1, SucceedFacts, ContinueFacts, FailFacts
  <2>5. CASE CheckUsage(w)
    <3>1. \/ Succeed(w) \/ Continue(w, "leave") \/ Fail(w, "bucket")
          \/ archived' = archived \cup {m}
      BY <2>2, <2>5 DEF CheckUsage
    <3>2. archived' = archived \cup {m}
      BY <1>0, <1>3, <3>1, SucceedFacts, ContinueFacts, FailFacts
    <3> QED
      BY <2>1, <2>2, <3>2 DEF Recorded
  <2>6. CASE FetchLoan(w)
    <3>1. work[w].msg \in MsgIds /\ Due(work[w].msg) /\ Msg(w) \in Message
      BY <1>0, <2>6, CommitIsDue DEF FetchLoan, Doing
    <3>2. active[Msg(w).sub] # NoLoan
      BY <3>1, StoreAssumption DEF CoreInv, StableInv, Msg, Message, LoanIds, NoLoan
    <3>3. work' = [work EXCEPT ![w] = [work[w] EXCEPT !.pc = "commit", !.loan = active[Msg(w).sub]]]
      BY <2>6, <3>2, Zenon DEF FetchLoan
    <3>4. work'[w].pc = "commit"
      BY <1>0, <3>3 DEF WorkerTypeOK, WorkerState
    <3> QED
      BY <1>3, <3>4
  <2>7. CASE Commit(w)
    <3>1. collections' = Append(collections, Collected(w))
      BY <2>7 DEF Commit, Transaction, PartialTransaction, FullTransaction
    <3>2. Collected(w).msg = work[w].msg
      BY DEF Collected
    <3> QED
      BY <1>0, <2>1, <2>2, <3>1, <3>2, RecordedStays DEF Recorded
  <2>8. CASE RecordFailure(w)
    <3>1. collections' = Append(collections, Failed(w))
      BY <2>8 DEF RecordFailure, Failed
    <3>2. Failed(w).msg = work[w].msg
      BY DEF Failed
    <3> QED
      BY <1>0, <2>1, <2>2, <3>1, <3>2, RecordedStays DEF Recorded
  <2>9. \/ work[w].pc \in {"report", "release", "flag"} \/ Decrement(w) \/ CheckUsage(w)
        \/ FetchLoan(w) \/ Commit(w) \/ RecordFailure(w)
    <3>1. work[w].pc \notin {"idle", "ack", "leave"}
      BY <2>1 DEF Advances, Busy, NextPlace
    <3> QED
      BY <3>1 DEF WorkerStep, Handle, Deliver, ReportOutcome, ReleaseEntry, FlagReported,
         Acknowledge, Leave, Doing, WorkerCrash, UndisturbedHandlers
  <2> QED
    BY <2>3, <2>4, <2>5, <2>6, <2>7, <2>8, <2>9
<1>4. ASSUME NEW v \in Workers, v # w, work'[v].pc \in {"report", "release", "flag", "ack"}
      PROVE  Recorded(work[v].msg)'
  BY <1>0, <1>1, <1>4 DEF RecordedInv
<1> QED
  BY <1>2, <1>3, <1>4 DEF RecordedInv

\* "Since we've recorded the error": where the lock works and neither MongoDB
\* nor the bucket fails, every acknowledged message has left a collection or a
\* file, whatever the wallet, the balance check and Kafka answered.
THEOREM AcksAreRecorded ==
    ASSUME SingleConsumer, ReliablePublisher, UndisturbedHandlers,
           ~MayFail("mongo"), ~MayFail("gcs")
    PROVE  Spec => []AckedIsRecorded
<1>1. Init => RecordedInv
  BY DEF Init, WorkerInit, RecordedInv, AckedIsRecorded, IdleWorker
<1>2. CoreInv /\ RecordedInv /\ [Next]_vars => RecordedInv'
  <2> SUFFICES ASSUME CoreInv, RecordedInv, [Next]_vars PROVE RecordedInv'
    OBVIOUS
  <2>1. CASE Worker
    BY <2>1, RecordedStep DEF Worker, WorkerNext, WorkerStep
  <2>2. CASE Grant \/ Consumer \/ UNCHANGED vars
    <3>1. UNCHANGED <<acked, archived, work, collections>>
      BY <2>2, ConsumerFrame DEF Grant, AvailLoan, Consumer, ConsumerNext, ConsumerStep,
         vars, storeVars, workerVars
    <3> QED
      BY <3>1 DEF RecordedInv, AckedIsRecorded, Recorded
  <2> QED
    BY <2>1, <2>2 DEF Next
<1>3. RecordedInv => AckedIsRecorded
  BY DEF RecordedInv
<1> QED
  BY <1>1, <1>2, <1>3, CoreIsInvariant, PTL DEF Spec

-----------------------------------------------------------------------------
(* EntryOwned. *)

\* Who inserted an entry, or has the message it was handed on with, is there
\* to delete it: an entry is never left behind for the subscriber's next
\* events to run into.
EntryOwned ==
    \A s \in Subscribers : inProgress[s] > 0 =>
       \/ \E c \in Consumers : Holds(c, s)
       \/ \E m \in MsgIds : Live(m, s)

\* No call fails that would make a consumer or a handler give up the entry.
EntryKeepers ==
    /\ ~MayFail("consumerCrash") /\ ~MayFail("mongo") /\ ~MayFail("kafka")
    /\ "error" \notin UsageReplies

\* A handler acknowledges a message, or comes to where it will only finish,
\* after it has released the entry.
LEMMA EntryIsReleased ==
    ASSUME UndisturbedHandlers, EntryKeepers, CoreInv, NEW w \in Workers, WorkerStep(w),
           Advances(w), ~Finishing(w), Finishing(w)'
    PROVE  RemoveEntry(Msg(w).sub)
<1>0. TypeOK /\ WorkerTypeOK /\ HandlerInv /\ PlaceOK(work[w].pc, work[w].mode)
  BY DEF CoreInv, TypeOK, HandlerInv
<1>1. work[w].pc \notin {"idle", "ack", "leave"} /\ work'[w].pc \in {"ack", "flag", "report"}
  BY DEF Advances, Busy, NextPlace, Finishing
<1>2. CASE Decrement(w)
  <2>1. Succeed(w) \/ Continue(w, "usage") \/ \E n : Fail(w, n)
    BY <1>2 DEF Decrement
  <2> QED
    BY <1>0, <1>1, <2>1, SucceedFacts, ContinueFacts, FailFacts
<1>3. CASE CheckUsage(w)
  <2>1. Succeed(w) \/ Continue(w, "leave") \/ Fail(w, "bucket")
    BY <1>3 DEF CheckUsage, EntryKeepers
  <2> QED
    BY <1>0, <1>1, <2>1, SucceedFacts, ContinueFacts, FailFacts
<1>4. CASE FetchLoan(w)
  <2>1. work[w].msg \in MsgIds /\ Due(work[w].msg) /\ Msg(w) \in Message
    BY <1>0, <1>4, CommitIsDue DEF FetchLoan, Doing
  <2>2. active[Msg(w).sub] # NoLoan
    BY <2>1, StoreAssumption DEF CoreInv, StableInv, Msg, Message, LoanIds, NoLoan
  <2>3. work' = [work EXCEPT ![w] = [work[w] EXCEPT !.pc = "commit", !.loan = active[Msg(w).sub]]]
    BY <1>4, <2>2, Zenon DEF FetchLoan, EntryKeepers
  <2>4. work'[w].pc = "commit"
    BY <1>0, <2>3 DEF WorkerTypeOK, WorkerState
  <2> QED
    BY <1>1, <2>4
<1>5. CASE Commit(w)
  <2>1. work' = [work EXCEPT ![w] = [work[w] EXCEPT !.pc = "report", !.coll = Len(collections) + 1]]
    BY <1>5, Zenon DEF Commit, EntryKeepers
  <2>2. work'[w].pc = "report" /\ work'[w].mode = work[w].mode
    BY <1>0, <2>1 DEF WorkerTypeOK, WorkerState
  <2>3. work[w].mode = "success"
    BY <1>0, <1>5 DEF Commit, Doing, PlaceOK
  <2> QED
    BY <2>2, <2>3 DEF Finishing
<1>6. CASE RecordFailure(w)
  <2>1. work'[w].pc = AfterRecord(work[w].mode) /\ work'[w].mode = work[w].mode
    BY <1>0, <1>6, RecordFacts
  <2> QED
    BY <2>1 DEF AfterRecord, Finishing
<1>7. CASE ReportOutcome(w)
  <2>1. Continue(w, AfterReport(work[w].mode, TRUE))
    BY <1>7 DEF ReportOutcome, EntryKeepers
  <2>2. work'[w].pc = AfterReport(work[w].mode, TRUE) /\ work'[w].mode = work[w].mode
    BY <1>0, <2>1, ContinueFacts
  <2>3. work[w].mode \in Modes \ {"none", "unknown", "bucket"}
    BY <1>0, <1>7 DEF ReportOutcome, Doing, PlaceOK, Finishing
  <2> QED
    BY <2>2, <2>3 DEF AfterReport, Finishing, Modes
<1>8. CASE ReleaseEntry(w)
  BY <1>8 DEF ReleaseEntry, EntryKeepers
<1>9. CASE FlagReported(w)
  <2>1. work'[w].pc = AfterFlag(work[w].mode) /\ work'[w].mode = work[w].mode
    BY <1>0, <1>9, ContinueFacts DEF FlagReported
  <2>2. work[w].mode \in {"api", "ignored"}
    BY <1>0, <1>9 DEF FlagReported, Doing, PlaceOK, Finishing
  <2> QED
    BY <2>1, <2>2 DEF AfterFlag, Finishing
<1> QED
  BY <1>1, <1>2, <1>3, <1>4, <1>5, <1>6, <1>7, <1>8, <1>9
  DEF WorkerStep, Handle, Deliver, Acknowledge, Leave, Doing, WorkerCrash, UndisturbedHandlers

\* A message stays live until its handler releases the entry.
LEMMA LiveUntilReleased ==
    ASSUME UndisturbedHandlers, EntryKeepers, CoreInv, NEW w \in Workers, WorkerStep(w),
           NEW m \in MsgIds, NEW s \in Subscribers, Live(m, s), ~Live(m, s)'
    PROVE  RemoveEntry(s)
<1>0. TypeOK /\ HandlerInv /\ topic' = topic /\ \A v \in Workers \ {w} : work'[v] = work[v]
  BY WorkerFrame, HandlerMoves DEF CoreInv
<1>1. \A v \in Workers : work[v].msg = m => ~Finishing(v)
  BY DEF Live
<1>2. ~\E k \in MsgIds : Starts(w, k)
  <2> SUFFICES ASSUME NEW k \in MsgIds, Starts(w, k) PROVE FALSE
    OBVIOUS
  <2>1. acked' = acked /\ ~Finishing(w)'
    BY DEF Starts, Finishing
  <2> QED
    BY <1>0, <1>1, <2>1 DEF Live, Finishing
<1>3. ~Ends(w)
  <2> SUFFICES ASSUME Ends(w) PROVE FALSE
    OBVIOUS
  <2>1. ~Finishing(w)' /\ (acked' = acked \/ (work[w].pc = "ack" /\ acked' = acked \cup {work[w].msg}))
    BY DEF Ends, Finishing, IdleWorker
  <2>2. m \notin acked'
    BY <1>1, <2>1 DEF Live, Finishing
  <2> QED
    BY <1>0, <1>1, <2>1, <2>2 DEF Live, Finishing
<1>4. Advances(w)
  BY <1>0, <1>2, <1>3, HandlerMoves
<1>5. work[w].msg = m /\ Finishing(w)'
  <2>1. work'[w].msg = work[w].msg /\ acked' = acked
    BY <1>4 DEF Advances
  <2> QED
    BY <1>0, <1>1, <2>1 DEF Live, Finishing
<1>6. RemoveEntry(Msg(w).sub)
  BY <1>1, <1>4, <1>5, EntryIsReleased
<1> QED
  BY <1>5, <1>6 DEF Live, Msg

\* A handler's step leaves no entry without an owner.
LEMMA OwnedWorkerStep ==
    ASSUME UndisturbedHandlers, EntryKeepers, CoreInv, EntryOwned,
           NEW w \in Workers, WorkerStep(w), cons' = cons
    PROVE  EntryOwned'
<1>0. TypeOK /\ inProgress \in [Subscribers -> Nat]
  BY DEF CoreInv, TypeOK, StoreTypeOK
<1>1. \/ inProgress' = inProgress
      \/ \E t \in Subscribers : RemoveEntry(t)
  <2>1. CASE inProgress' # inProgress
    <3>1. Advances(w) /\ work[w].pc = "release" /\ RemoveEntry(Msg(w).sub)
      BY <1>0, <2>1, HandlerMoves DEF Starts, Advances, Ends
    <3>2. Busy(w) /\ ~Finishing(w)
      BY <3>1 DEF Busy, Finishing
    <3>3. Msg(w).sub \in Subscribers
      BY <1>0, <3>2, BusyIsLive DEF CoreInv
    <3> QED
      BY <3>1, <3>3
  <2> QED
    BY <2>1
<1>2. ASSUME NEW s \in Subscribers, inProgress'[s] > 0 PROVE inProgress[s] > 0
  BY <1>0, <1>1, <1>2 DEF RemoveEntry
<1>3. ASSUME NEW s \in Subscribers, inProgress'[s] > 0,
             NEW m \in MsgIds, Live(m, s)
      PROVE  Live(m, s)'
  <2> SUFFICES ASSUME ~Live(m, s)' PROVE FALSE
    OBVIOUS
  <2>1. RemoveEntry(s)
    BY <1>3, LiveUntilReleased
  <2>2. inProgress[s] = 1
    BY <1>3 DEF CoreInv, FlightInv, SingleFlight
  <2> QED
    BY <1>0, <1>3, <2>1, <2>2 DEF RemoveEntry
<1> QED
  BY <1>2, <1>3 DEF EntryOwned, Holds

\* Nor does a consumer's: it passes its own on with the message, or deletes it.
LEMMA OwnedConsumerStep ==
    ASSUME SingleConsumer, ReliablePublisher, EntryKeepers, CoreInv, TypeOK', EntryOwned,
           UNCHANGED <<acked, work>>, NEW c \in Consumers, ConsumerStep(c)
    PROVE  EntryOwned'
<1>0. /\ TypeOK /\ inProgress \in [Subscribers -> Nat] /\ topic \in Seq(Message)
      /\ cons[c].pc # "idle" => cons[c].sub \in Subscribers
      /\ \A s \in Subscribers : inProgress[s] <= 1
      /\ \A d \in Consumers : d = c
  BY DEF CoreInv, TypeOK, StoreTypeOK, ConsumerTypeOK, FlightInv, SingleFlight, SingleConsumer
<1>1. \A s : Holds(c, s) <=> cons[c].sub = s /\ cons[c].pc \in HoldingPcs
  BY DEF Holds, HoldingPcs
<1>2. \A s : Holds(c, s)' <=> cons'[c].sub = s /\ cons'[c].pc \in HoldingPcs
  BY DEF Holds, HoldingPcs
<1>3. ASSUME NEW m, NEW s, Live(m, s) PROVE Live(m, s)'
  <2> DEFINE e == Snapshot(c)
  <2>1. topic' = topic \/ topic' = Append(topic, e)
    BY ConsumerFrame
  <2> HIDE DEF e
  <2>2. m \in DOMAIN topic' /\ topic'[m] = topic[m]
    BY <1>0, <1>3, <2>1 DEF Live
  <2> QED
    BY <1>3, <2>2 DEF Live, Finishing
<1>4. ASSUME NEW s \in Subscribers, inProgress'[s] > 0
      PROVE  (\E d \in Consumers : Holds(d, s)') \/ (\E m \in MsgIds : Live(m, s)')
  <2>a. ASSUME inProgress[s] > 0, ~Holds(c, s) PROVE \E m \in MsgIds : Live(m, s)'
    BY <1>0, <1>3, <2>a DEF EntryOwned
  <2>1. CASE Rests(c) \/ Finds(c)
    <3>1. cons[c].pc \notin HoldingPcs /\ inProgress' = inProgress
      BY <2>1 DEF Rests, Finds, HoldingPcs, EntryKeepers
    <3> QED
      BY <1>1, <1>4, <2>a, <3>1
  <2>2. CASE Inserts(c)
    <3>1. cons[c].pc = "create" /\ cons'[c].pc = "rules" /\ cons'[c].sub = cons[c].sub
          /\ AddEntry(cons[c].sub)
      BY <2>2 DEF Inserts, EntryKeepers
    <3>2. CASE s = cons[c].sub
      BY <1>2, <3>1, <3>2 DEF HoldingPcs
    <3>3. CASE s # cons[c].sub
      <4>1. inProgress[s] > 0
        BY <1>0, <1>4, <3>1, <3>3 DEF AddEntry
      <4> QED
        BY <1>1, <2>a, <3>3, <4>1
    <3> QED
      BY <3>2, <3>3
  <2>3. CASE Proceeds(c)
    <3>1. inProgress' = inProgress /\ (Holds(c, s) => Holds(c, s)')
      BY <1>1, <1>2, <2>3 DEF Proceeds
    <3> QED
      BY <1>4, <2>a, <3>1
  <2>4. CASE Deletes(c)
    <3>1. PICK t \in Subscribers : t = cons[c].sub /\ RemoveEntry(t)
      BY <1>0, <2>4 DEF Deletes
    <3>2. s # t /\ inProgress[s] > 0
      BY <1>0, <1>4, <3>1 DEF RemoveEntry
    <3> QED
      BY <1>1, <2>a, <3>1, <3>2
  <2>5. CASE Sends(c)
    <3> DEFINE e == Snapshot(c)
               n == Len(topic) + 1
    <3>0. e.sub = cons[c].sub
      BY DEF Snapshot
    <3>1. inProgress' = inProgress /\ topic' = Append(topic, e)
      BY <2>5 DEF Sends
    <3> HIDE DEF e
    <3>2. n \in DOMAIN topic' /\ topic'[n] = e /\ n \in Nat
      BY <1>0, <3>1
    <3>3. n \in MsgIds
      <4>1. Len(topic') = n /\ Len(topic') <= MaxEvents
        BY <1>0, <3>1 DEF TypeOK, StoreTypeOK
      <4> QED
        BY <1>0, <4>1, StoreAssumption DEF MsgIds
    <3>4. n \notin acked /\ \A w \in Workers : work[w].msg # n
      <4>1. \A w \in Workers : work[w].msg \in 1..Len(topic) \/ work[w].msg = NoMsg
        BY DEF CoreInv, HandlerInv, TypeOK, WorkerTypeOK
      <4>2. acked \subseteq 1..Len(topic)
        BY <1>0 DEF TypeOK, WorkerTypeOK
      <4> QED
        BY <1>0, <4>1, <4>2 DEF NoMsg
    <3>5. CASE Holds(c, s)
      BY <1>1, <3>0, <3>2, <3>3, <3>4, <3>5 DEF Live, Finishing
    <3> QED
      BY <1>4, <2>a, <3>1, <3>5
  <2> QED
    BY <1>0, <2>1, <2>2, <2>3, <2>4, <2>5, ConsumerMoves
<1> QED
  BY <1>4 DEF EntryOwned

\* No entry is left behind: with one consumer that does not stop, handlers that
\* run to their end, and neither MongoDB, the topics nor the balance check
\* returning an error, whoever an entry stands for is still there to delete it,
\* whatever wallet and balance check answer.  It is what EntryReleased needs of
\* the states; that the owner gets to its deletion is a matter of fairness.
THEOREM EntriesAreOwned ==
    ASSUME SingleConsumer, ReliablePublisher, UndisturbedHandlers, EntryKeepers
    PROVE  Spec => []EntryOwned
<1>1. Init => EntryOwned
  BY DEF Init, StoreInit, EntryOwned
<1>2. CoreInv /\ TypeOK' /\ EntryOwned /\ [Next]_vars => EntryOwned'
  <2> SUFFICES ASSUME CoreInv, TypeOK', EntryOwned, [Next]_vars PROVE EntryOwned'
    OBVIOUS
  <2>1. CASE Worker
    BY <2>1, OwnedWorkerStep DEF Worker, WorkerNext, WorkerStep, consumerVars
  <2>2. CASE Consumer
    BY <2>2, OwnedConsumerStep DEF Consumer, ConsumerNext, ConsumerStep, workerVars
  <2>3. CASE Grant \/ UNCHANGED vars
    <3>1. UNCHANGED <<inProgress, cons, topic, acked, work>>
      BY <2>3 DEF Grant, AvailLoan, vars, storeVars, consumerVars, workerVars
    <3> QED
      BY <3>1 DEF EntryOwned, Holds, Live, Finishing
  <2> QED
    BY <2>1, <2>2, <2>3 DEF Next
<1> QED
  BY <1>1, <1>2, CoreIsInvariant, TypeCorrect, PTL DEF Spec

-----------------------------------------------------------------------------
(* LedgerBalanced. *)

\* What a consumer has read, and what a message that is due carries, is what
\* the loan's newest document says; its version only as long as MongoDB answers.
Numbered == ~MayFail("mongo")
ReadInv(c) ==
    LET l == cons[c].loan IN
    /\ cons[c].pc \in {"old", "unpaid"} => cons[c].unpaid \in {0, Owed(l)}
    /\ cons[c].pc \in {"backfill", "publish"} =>
          /\ cons[c].unpaid = Owed(l) /\ cons[c].unpaid > 0
          /\ Numbered => cons[c].version = Len(unpaidDocs[l])
    /\ cons[c].pc = "publish" => (cons[c].kind = "Full" <=> cons[c].pesos = cons[c].unpaid)
DueInv(m) ==
    LET l == topic[m].loan IN
    /\ topic[m].unpaid = Owed(l)
    /\ Numbered => topic[m].version = Len(unpaidDocs[l])
    /\ topic[m].kind = "Full" <=> topic[m].pesos = topic[m].unpaid

\* The books of one loan, and of one that was not granted.
LoanBooks(l) ==
    /\ unpaidDocs[l] # <<>>
    /\ unpaidDocs[l][1].amount = Owed(l) + PesosCollected(l)
    /\ balance[l] \in {0, Owed(l)}
    /\ closedDocs[l] <= 1
    /\ closedDocs[l] = 1 <=> Owed(l) = 0
    /\ Numbered => \A i \in DOMAIN unpaidDocs[l] : unpaidDocs[l][i].version = i
NoBooks(l) == unpaidDocs[l] = <<>> /\ PesosCollected(l) = 0

BooksInv ==
    /\ \A l \in Granted : LoanBooks(l)
    /\ \A l \in LoanIds \ Granted : NoBooks(l)
    /\ \A c \in Consumers : ReadInv(c)
    /\ \A m \in MsgIds : Due(m) => DueInv(m)

\* The pesos collected of a loan are changed by its collections only.
LEMMA PesosStep ==
    ASSUME CoreInv, NEW w \in Workers, WorkerStep(w), NEW l \in LoanIds
    PROVE  /\ CollectionsOnly(w) => PesosCollected(l)' = PesosCollected(l)
           /\ work[w].pc = "commit" /\ Transaction(w) =>
                 PesosCollected(l)' = PesosCollected(l)
                                          + IF l = Msg(w).loan THEN Msg(w).pesos ELSE 0
<1>1. collections \in Seq(Collection) /\ topic \in Seq(Message) /\ TypeOK
  BY DEF CoreInv, TypeOK, StoreTypeOK
<1>2. PesosCollected(l) = Total(collections, l) /\ PesosCollected(l)' = Total(collections', l)
  BY PesosAreTotal, PesosAreTotalNext
<1>3. ASSUME work[w].pc \in {"record", "commit"}
      PROVE  work[w].msg \in MsgIds /\ Msg(w) \in Message
  <2>1. work[w].msg \in 1..Len(topic)
    <3>1. Busy(w)
      BY <1>3 DEF Busy
    <3> QED
      BY <1>1, <3>1 DEF TypeOK, WorkerTypeOK
  <2> QED
    BY <1>1, <2>1, StoreAssumption DEF TypeOK, StoreTypeOK, MsgIds, Msg
<1>4. ASSUME CollectionsOnly(w) PROVE PesosCollected(l)' = PesosCollected(l)
  <2>1. CASE collections' = collections
    BY <1>2, <2>1
  <2>2. CASE work[w].pc = "record" /\ collections' = Append(collections, Failed(w))
    <3>1. PICK e : e = Failed(w)
      OBVIOUS
    <3>2. e \in Collection /\ e.pesos = 0
      BY <1>3, <2>2, <3>1 DEF Failed, Collection, Message
    <3>3. Share(e, l) = 0
      BY <3>2 DEF Share
    <3>4. Total(Append(collections, e), l) = Total(collections, l) + Share(e, l)
      BY <1>1, <3>2, TotalAppend
    <3>5. Total(collections, l) \in Nat
      BY <1>1, TotalType
    <3> QED
      BY <1>2, <2>2, <3>1, <3>3, <3>4, <3>5
  <2>3. CASE /\ work[w].coll \in 1..Len(collections)
             /\ collections' = [collections EXCEPT ![work[w].coll].flagged = TRUE]
    <3>1. PICK k \in 1..Len(collections) : k = work[w].coll
      BY <2>3
    <3>2. Total([collections EXCEPT ![k].flagged = TRUE], l) = Total(collections, l)
      BY <1>1, TotalFlag
    <3> QED
      BY <1>2, <2>3, <3>1, <3>2
  <2> QED
    BY <1>4, <2>1, <2>2, <2>3 DEF CollectionsOnly
<1>5. ASSUME work[w].pc = "commit", Transaction(w)
      PROVE  PesosCollected(l)' = PesosCollected(l)
                                      + IF l = Msg(w).loan THEN Msg(w).pesos ELSE 0
  <2>1. PICK e : e = Collected(w)
    OBVIOUS
  <2>2. e \in Collection /\ e.loan = Msg(w).loan /\ e.pesos = Msg(w).pesos
    BY <1>3, <1>5, <2>1 DEF Collected, Collection, Message
  <2>3. collections' = Append(collections, e)
    BY <1>5, <2>1 DEF Transaction, PartialTransaction, FullTransaction
  <2>4. Total(Append(collections, e), l) = Total(collections, l) + Share(e, l)
    BY <1>1, <2>2, TotalAppend
  <2> QED
    BY <1>2, <2>2, <2>3, <2>4 DEF Share
<1> QED
  BY <1>4, <1>5

\* Nobody else has read the loan a handler is about to change.
LEMMA LoanIsAlone ==
    ASSUME CoreInv, NEW w \in Workers, work[w].pc = "commit"
    PROVE  /\ \A c \in Consumers : Reading(c) => cons[c].loan # Msg(w).loan
           /\ \A n \in MsgIds : Due(n) /\ n # work[w].msg => topic[n].loan # Msg(w).loan
<1>0. TypeOK /\ HandlerInv /\ FlightInv /\ LoanInv /\ StableInv
  BY DEF CoreInv
<1>1. PICK m \in MsgIds : m = work[w].msg /\ Due(m) /\ topic[m] \in Message
  BY <1>0, CommitIsDue DEF Msg
<1>2. PICK t \in Subscribers, l \in LoanIds : t = topic[m].sub /\ l = topic[m].loan
  BY <1>1 DEF Message
<1>3. active[t] = l /\ Live(m, t) /\ l = Msg(w).loan
  BY <1>0, <1>1, <1>2 DEF StableInv, Due, Msg
<1>4. l \in Granted
  <2>1. l <= loanCount
    BY <1>0, <1>1, <1>2 DEF LoanInv, Due
  <2> QED
    BY <1>0, <2>1, StoreAssumption DEF TypeOK, StoreTypeOK, LoanIds, Granted
<1>5. \A s \in Subscribers : active[s] = l => s = t
  BY <1>0, <1>3, <1>4 DEF LoanInv, LoanAccounted
<1>6. ASSUME NEW c \in Consumers, Reading(c) PROVE cons[c].loan # l
  <2>1. cons[c].sub \in Subscribers /\ Holds(c, cons[c].sub)
    BY <1>0, <1>6 DEF Reading, Holds, TypeOK, ConsumerTypeOK
  <2>2. cons[c].sub # t
    BY <1>0, <1>3, <2>1 DEF FlightInv, SingleFlight
  <2> QED
    BY <1>0, <1>5, <1>6, <2>1, <2>2 DEF StableInv
<1>7. ASSUME NEW n \in MsgIds, Due(n), n # m PROVE topic[n].loan # l
  <2>1. topic[n].sub \in Subscribers
    <3>1. topic[n] \in Message
      BY <1>0, <1>7 DEF Due, TypeOK, StoreTypeOK
    <3> QED
      BY <3>1 DEF Message
  <2>2. topic[n].sub # t
    BY <1>0, <1>3, <1>7, <2>1 DEF FlightInv, SingleFlight, Due
  <2> QED
    BY <1>0, <1>5, <1>7, <2>1, <2>2 DEF StableInv
<1> QED
  BY <1>1, <1>3, <1>6, <1>7

\* The collections of a consumer are full exactly when they take everything.
LEMMA FullIsAll ==
    ASSUME NEW a \in Nat, NEW u \in Nat
    PROVE  IsFull(a, u) <=> PesosOf(a, u) = u
<1> DEFINE d == Deductible(a, u)
<1>1. ConversionRate \in Nat \ {0}
  BY ConsumerAssumption
<1>2. u * ConversionRate \in Nat
  BY <1>1
<1>3. d \in Nat /\ d <= u * ConversionRate
  BY <1>2 DEF Deductible
<1> HIDE DEF d
<1>4. d = u * ConversionRate => d \div ConversionRate = u
  BY <1>1, Z3
<1>5. d \div ConversionRate = u => d = u * ConversionRate
  <2>1. (d \div ConversionRate) * ConversionRate <= d
    BY <1>1, <1>3, Z3
  <2> QED
    BY <1>1, <1>2, <1>3, <2>1
<1> QED
  BY <1>4, <1>5 DEF IsFull, PesosOf, d

\* What a list of documents says is owed.
OwedIn(docs) == IF docs = <<>> THEN 0 ELSE docs[Len(docs)].amount

LEMMA OwedIsIn == \A l : Owed(l) = OwedIn(unpaidDocs[l]) /\ Owed(l)' = OwedIn(unpaidDocs'[l])
  BY DEF Owed, OwedIn

\* The amounts and versions of a loan's documents after a collection.
LEMMA NextBooks ==
    ASSUME NEW docs \in Seq(UnpaidDoc), docs # <<>>, NEW d,
           NEW next, next = Append(CloseLatest(docs), d)
    PROVE  /\ next # <<>> /\ next[1].amount = docs[1].amount /\ OwedIn(next) = d.amount
           /\ d.version = Len(docs) + 1 /\ (\A i \in DOMAIN docs : docs[i].version = i)
              => \A i \in DOMAIN next : next[i].version = i
<1> DEFINE n == Len(docs)
<1>1. n \in Nat /\ n # 0 /\ DOMAIN docs = 1..n
  OBVIOUS
<1>2. /\ DOMAIN next = 1..n + 1 /\ Len(next) = n + 1 /\ next[n + 1] = d
      /\ \A i \in 1..n : next[i].amount = docs[i].amount /\ next[i].version = docs[i].version
  BY NextDocs
<1>3. next # <<>>
  <2>1. CloseLatest(docs) \in Seq(UnpaidDoc)
    BY CloseLatestType
  <2> QED
    BY <2>1
<1> HIDE DEF n
<1>4. next[1].amount = docs[1].amount /\ OwedIn(next) = d.amount
  BY <1>1, <1>2, <1>3 DEF OwedIn
<1>5. ASSUME d.version = n + 1, \A i \in DOMAIN docs : docs[i].version = i,
             NEW i \in DOMAIN next
      PROVE  next[i].version = i
  <2>1. CASE i = n + 1
    BY <1>2, <1>5, <2>1
  <2>2. CASE i \in 1..n
    BY <1>1, <1>2, <1>5, <2>2
  <2> QED
    BY <1>1, <1>2, <2>1, <2>2
<1> QED
  BY <1>3, <1>4, <1>5 DEF n

\* The transaction of a message that is due books its pesos.
LEMMA BooksCommit ==
    ASSUME UndisturbedHandlers, CoreInv, BooksInv, cons' = cons,
           NEW w \in Workers, WorkerStep(w), work[w].pc = "commit", Transaction(w)
    PROVE  BooksInv'
<1>0. /\ TypeOK /\ HandlerInv /\ UNCHANGED <<loanCount, topic>>
      /\ unpaidDocs \in [LoanIds -> Seq(UnpaidDoc)] /\ closedDocs \in [LoanIds -> Nat]
      /\ balance \in [LoanIds -> Nat] /\ Granted' = Granted /\ Granted \subseteq LoanIds
  <2>1. TypeOK /\ HandlerInv /\ StoreTypeOK
    BY DEF CoreInv, TypeOK
  <2>2. UNCHANGED <<loanCount, topic>>
    BY <2>1, WorkerFrame
  <2>3. /\ unpaidDocs \in [LoanIds -> Seq(UnpaidDoc)] /\ closedDocs \in [LoanIds -> Nat]
        /\ balance \in [LoanIds -> Nat] /\ loanCount \in 0..MaxLoans
    BY <2>1 DEF StoreTypeOK
  <2>4. Granted' = Granted /\ Granted \subseteq LoanIds
    BY <2>2, <2>3, StoreAssumption DEF Granted, LoanIds
  <2> QED
    BY <2>1, <2>2, <2>3, <2>4
<1>1. PICK m \in MsgIds : m = work[w].msg /\ Due(m) /\ Msg(w) = topic[m] /\ topic[m] \in Message
  BY <1>0, CommitIsDue DEF Msg
<1>2. PICK l, p, u, d : l = Msg(w).loan /\ p = Msg(w).pesos /\ u = Msg(w).unpaid /\ d = NextDoc(w)
  OBVIOUS
<1>3. /\ l \in LoanIds /\ l \in Granted /\ closedDocs[l] = 0
      /\ unpaidDocs' = [unpaidDocs EXCEPT ![l] = Append(CloseLatest(unpaidDocs[l]), d)]
      /\ IF Msg(w).kind = "Partial" THEN closedDocs' = closedDocs
         ELSE closedDocs' = [closedDocs EXCEPT ![l] = 1]
      /\ balance' = [balance EXCEPT ![l] = d.amount]
  <2>1. l = Msg(w).loan
    BY <1>2
  <2>2. /\ l \in LoanIds /\ l \in Granted /\ closedDocs[l] = 0
        /\ unpaidDocs' = [unpaidDocs EXCEPT ![l] = Append(CloseLatest(unpaidDocs[l]), NextDoc(w))]
        /\ balance' = [balance EXCEPT ![l] = NextDoc(w).amount]
    BY <2>1, TransactionFacts, ZenonT(30)
  <2>3. IF Msg(w).kind = "Partial" THEN UNCHANGED <<active, closedDocs>>
        ELSE closedDocs' = [closedDocs EXCEPT ![l] = 1]
    BY <2>1, TransactionFacts, ZenonT(30)
  <2> QED
    BY <1>2, <2>2, <2>3
<1>4. /\ u = Owed(l) /\ (Msg(w).kind = "Full" <=> p = u)
      /\ Numbered => Msg(w).version = Len(unpaidDocs[l])
  BY <1>1, <1>2 DEF BooksInv, DueInv
<1>5. p \in Nat /\ u \in Nat /\ p <= u /\ Msg(w).kind \in {"Partial", "Full"}
  <2>1. m \in 1..Len(topic)
    BY <1>0, <1>1 DEF Due, TypeOK, StoreTypeOK
  <2> QED
    BY <1>0, <1>1, <1>2, <2>1 DEF Message, TypeOK, StoreTypeOK
<1>6. d.amount = u - p /\ (Numbered => d.version = Len(unpaidDocs[l]) + 1)
  <2>1. NextDoc(w).amount = (IF Msg(w).kind = "Partial" THEN Remaining(w) ELSE 0)
        /\ NextDoc(w).version = Msg(w).version + 1
    BY DEF NextDoc
  <2>2. Remaining(w) = u - p
    BY <1>2 DEF Remaining
  <2>3. Msg(w).kind # "Partial" => u - p = 0
    BY <1>4, <1>5
  <2> QED
    BY <1>2, <1>4, <2>1, <2>2, <2>3
<1>7. \A k \in LoanIds : PesosCollected(k)' = PesosCollected(k) + IF k = l THEN p ELSE 0
  BY <1>2, PesosStep
<1>8. \A k \in LoanIds : PesosCollected(k) \in Nat
  BY <1>0, PesosAreTotal, TotalType DEF TypeOK, StoreTypeOK
<1>9. \A k \in LoanIds : k # l =>
         /\ unpaidDocs'[k] = unpaidDocs[k] /\ closedDocs'[k] = closedDocs[k]
         /\ balance'[k] = balance[k] /\ Owed(k)' = Owed(k)
         /\ PesosCollected(k)' = PesosCollected(k)
  BY <1>0, <1>3, <1>7, <1>8, OwedIsIn
<1>10. LoanBooks(l)'
  <2>1. LoanBooks(l)
    BY <1>3 DEF BooksInv
  <2> DEFINE next == unpaidDocs'[l]
  <2>2. next = Append(CloseLatest(unpaidDocs[l]), d) /\ unpaidDocs[l] \in Seq(UnpaidDoc)
    BY <1>0, <1>3
  <2> HIDE DEF next
  <2>3. /\ next # <<>> /\ next[1].amount = unpaidDocs[l][1].amount /\ OwedIn(next) = d.amount
        /\ Numbered => \A i \in DOMAIN next : next[i].version = i
    BY <1>6, <2>1, <2>2, NextBooks DEF LoanBooks
  <2>4. Owed(l)' = u - p
    BY <1>6, <2>3, OwedIsIn DEF next
  <2>5. next[1].amount = Owed(l)' + PesosCollected(l)'
    BY <1>3, <1>4, <1>5, <1>7, <1>8, <2>1, <2>3, <2>4 DEF LoanBooks
  <2>6. balance'[l] = Owed(l)'
    BY <1>0, <1>3, <1>6, <2>4
  <2>7. closedDocs'[l] = IF p = u THEN 1 ELSE 0
    BY <1>0, <1>3, <1>4, <1>5
  <2> QED
    BY <1>5, <2>3, <2>4, <2>5, <2>6, <2>7 DEF LoanBooks, next
<1>11. \A k \in Granted' : LoanBooks(k)'
  <2> SUFFICES ASSUME NEW k \in Granted, k # l PROVE LoanBooks(k)'
    BY <1>0, <1>10
  <2>1. LoanBooks(k) /\ k \in LoanIds
    BY <1>0 DEF BooksInv
  <2> QED
    BY <1>9, <2>1 DEF LoanBooks
<1>12. \A k \in LoanIds \ Granted' : NoBooks(k)'
  BY <1>0, <1>3, <1>9 DEF BooksInv, NoBooks
<1>13. \A c \in Consumers : ReadInv(c)'
  <2> SUFFICES ASSUME NEW c \in Consumers PROVE ReadInv(c)'
    OBVIOUS
  <2>1. PICK k : k = cons[c].loan
    OBVIOUS
  <2>2. CASE Reading(c)
    <3>1. k # l /\ k \in LoanIds
      BY <1>0, <1>2, <2>1, <2>2, LoanIsAlone DEF Reading, TypeOK, ConsumerTypeOK
    <3>2. Owed(k)' = Owed(k) /\ unpaidDocs'[k] = unpaidDocs[k]
      BY <1>9, <3>1
    <3> QED
      BY <2>1, <3>2 DEF BooksInv, ReadInv
  <2>3. CASE ~Reading(c)
    BY <2>3 DEF Reading, ReadInv
  <2> QED
    BY <2>2, <2>3
<1>14. \A n \in MsgIds : Due(n)' => DueInv(n)'
  <2> SUFFICES ASSUME NEW n \in MsgIds, Due(n)' PROVE DueInv(n)'
    OBVIOUS
  <2>1. PICK k : k = topic[n].loan
    OBVIOUS
  <2>2. Due(n) /\ n # m
    BY <1>0, <1>1, DueShrinks
  <2>3. k # l /\ k \in LoanIds
    <3>1. topic[n] \in Message
      BY <1>0, <2>2 DEF Due, TypeOK, StoreTypeOK
    <3> QED
      BY <1>1, <1>2, <2>1, <2>2, <3>1, LoanIsAlone DEF Message
  <2>4. Owed(k)' = Owed(k) /\ unpaidDocs'[k] = unpaidDocs[k]
    BY <1>9, <2>3
  <2> QED
    BY <1>0, <2>1, <2>2, <2>4 DEF BooksInv, DueInv
<1> QED
  BY <1>11, <1>12, <1>13, <1>14 DEF BooksInv

\* The other steps of a handler change none of the books.
LEMMA BooksWorkerStep ==
    ASSUME UndisturbedHandlers, CoreInv, BooksInv, cons' = cons,
           NEW w \in Workers, WorkerStep(w)
    PROVE  BooksInv'
<1>0. TypeOK /\ HandlerInv /\ UNCHANGED <<loanCount, topic>> /\ Granted' = Granted
  BY WorkerFrame DEF CoreInv, Granted
<1>1. CASE CollectionsOnly(w)
  <2>1. UNCHANGED <<balance, unpaidDocs, closedDocs>>
    BY <1>1 DEF CollectionsOnly
  <2>2. \A k \in LoanIds : PesosCollected(k)' = PesosCollected(k)
    BY <1>1, PesosStep
  <2>3. Granted \subseteq LoanIds
    BY <1>0, StoreAssumption DEF Granted, LoanIds, TypeOK, StoreTypeOK
  <2>4. (\A k \in Granted' : LoanBooks(k)') /\ (\A k \in LoanIds \ Granted' : NoBooks(k)')
    BY <1>0, <2>1, <2>2, <2>3 DEF BooksInv, LoanBooks, NoBooks, Owed
  <2>5. \A c \in Consumers : ReadInv(c)'
    BY <2>1 DEF BooksInv, ReadInv, Owed
  <2>6. \A n \in MsgIds : Due(n)' => DueInv(n)'
    <3>1. \A n \in MsgIds : Due(n)' => Due(n)
      BY <1>0, DueShrinks
    <3> QED
      BY <1>0, <2>1, <3>1 DEF BooksInv, DueInv, Owed
  <2> QED
    BY <2>4, <2>5, <2>6 DEF BooksInv
<1> QED
  BY <1>0, <1>1, StoreMoves, BooksCommit

\* The one valid document of an active loan is its newest.
LEMMA OpenIsNewest ==
    ASSUME CoreInv, UnpaidHistory, BooksInv, NEW s \in Subscribers, NEW l \in LoanIds,
           active[s] = l
    PROVE  /\ l \in Granted /\ LoanBooks(l) /\ OpenDocs(l) # {}
           /\ \A d \in OpenDocs(l) :
                 d.amount = Owed(l) /\ (Numbered => d.version = Len(unpaidDocs[l]))
<1>1. l \in Granted
  BY StoreAssumption DEF CoreInv, LoanInv, Granted, LoanIds, TypeOK, StoreTypeOK
<1>2. closedDocs[l] = 0 /\ LoanBooks(l)
  BY <1>1 DEF CoreInv, LoanInv, LoanAccounted, BooksInv
<1> DEFINE docs == unpaidDocs[l]
           n    == Len(docs)
<1>3. docs \in Seq(UnpaidDoc) /\ docs # <<>>
  BY <1>2 DEF CoreInv, TypeOK, StoreTypeOK, LoanBooks
<1>4. n \in DOMAIN docs
  BY <1>3
<1>5. \A i \in DOMAIN docs : docs[i].open <=> i = n
  BY <1>1, <1>2 DEF UnpaidHistory
<1>6. Numbered => \A i \in DOMAIN docs : docs[i].version = i
  BY <1>2 DEF LoanBooks
<1>7. Owed(l) = docs[n].amount
  BY <1>3 DEF Owed
<1>8. OpenDocs(l) = {e \in {docs[i] : i \in DOMAIN docs} : e.open}
  BY DEF OpenDocs
<1> HIDE DEF docs, n
<1>9. /\ OpenDocs(l) # {}
      /\ \A d \in OpenDocs(l) : d.amount = Owed(l) /\ (Numbered => d.version = n)
  BY <1>4, <1>5, <1>6, <1>7, <1>8
<1> QED
  BY <1>1, <1>2, <1>9 DEF docs, n

\* What a consumer reads is what the books say.
LEMMA ReadFollows ==
    ASSUME CoreInv, UnpaidHistory, BooksInv,
           NEW c \in Consumers, ConsumerStep(c)
    PROVE  ReadInv(c)'
<1>0. /\ TypeOK /\ ConsumerTypeOK /\ cons[c] \in ConsumerState
      /\ cons \in [Consumers -> ConsumerState] /\ unpaidDocs' = unpaidDocs
      /\ \A l : Owed(l)' = Owed(l)
  BY ConsumerFrame, OwedIsIn DEF CoreInv, TypeOK, ConsumerTypeOK
<1>1. ASSUME NEW pc, pc \notin {"old", "unpaid", "backfill", "publish"}, cons'[c].pc = pc
      PROVE  ReadInv(c)'
  BY <1>1 DEF ReadInv
<1>2. ASSUME NEW pc, Goto(c, pc) PROVE cons'[c].pc = pc
  BY <1>0, <1>2, ConsumerMoveFacts
<1>3. PICK s : s = cons[c].sub
  OBVIOUS
<1>4. ASSUME Reading(c)
      PROVE  /\ s \in Subscribers /\ cons[c].loan \in LoanIds /\ active[s] = cons[c].loan
             /\ LoanBooks(cons[c].loan) /\ OpenDocs(cons[c].loan) # {}
             /\ \A d \in OpenDocs(cons[c].loan) :
                   /\ d.amount = Owed(cons[c].loan)
                   /\ Numbered => d.version = Len(unpaidDocs[cons[c].loan])
  <2>1. s \in Subscribers /\ cons[c].loan \in LoanIds /\ active[s] = cons[c].loan
    BY <1>0, <1>3, <1>4 DEF Reading, ConsumerTypeOK, CoreInv, StableInv
  <2> QED
    BY <2>1, OpenIsNewest
<1>5. ASSUME NEW u, NEW v, Decide(c, u, v), Reading(c), u > 0, u = Owed(cons[c].loan),
             u \in Nat, Numbered => v = Len(unpaidDocs[cons[c].loan])
      PROVE  ReadInv(c)'
  <2>1. PICK l, a : l = cons[c].loan /\ a = cons[c].allowance /\ a \in Nat
    BY <1>0 DEF ConsumerState
  <2>2. /\ cons'[c].pc \in {"publish", "skip"} /\ cons'[c].loan = l
        /\ cons'[c].unpaid = u /\ cons'[c].version = v /\ cons'[c].pesos = PesosOf(a, u)
        /\ cons'[c].kind = IF IsFull(a, u) THEN "Full" ELSE "Partial"
    BY <1>0, <1>5, <2>1, DecideFacts
  <2>3. cons'[c].kind = "Full" <=> cons'[c].pesos = cons'[c].unpaid
    <3>1. u \in Nat /\ a \in Nat
      BY <1>5, <2>1
    <3>2. IsFull(a, u) <=> PesosOf(a, u) = u
      BY <3>1, FullIsAll
    <3> QED
      BY <2>2, <3>2
  <2> QED
    <3>1. PICK k, x : /\ k = Owed(l) /\ x = Len(unpaidDocs[l]) /\ u = k /\ k \in Nat
                      /\ Numbered => v = x
      BY <1>5, <2>1
    <3>2. Owed(l)' = k /\ Len(unpaidDocs'[l]) = x /\ cons'[c].pc \notin {"old", "unpaid", "backfill"}
      BY <1>0, <2>2, <3>1
    <3> QED
      BY <1>5, <2>2, <2>3, <3>1, <3>2 DEF ReadInv
<1>6. CASE TakeEvent(c)
  <2>1. PICK t \in Subscribers, a \in Allowances :
           cons' = [cons EXCEPT ![c] =
                       [cons[c] EXCEPT !.pc = "check", !.sub = t, !.allowance = a]]
    BY <1>6, Zenon DEF TakeEvent
  <2>2. cons'[c].pc = "check"
    BY <1>0, <2>1 DEF ConsumerState
  <2> QED
    BY <1>1, <2>2
<1>7. CASE EvaluateRules(c) \/ ReadLoan(c)
  <2>1. PICK l, b : l = active[s] /\ b = balance[l]
    OBVIOUS
  <2>2. \/ \E pc \in {"cleanup", "loan"} : Goto(c, pc)
        \/ /\ l # NoLoan
           /\ \E pc \in {"old", "unpaid"} : cons' = [cons EXCEPT ![c] =
                 [cons[c] EXCEPT !.pc = pc, !.loan = l, !.unpaid = b]]
    BY <1>3, <1>7, <2>1, Zenon DEF EvaluateRules, ReadLoan
  <2>3. CASE \E pc \in {"cleanup", "loan"} : Goto(c, pc)
    <3>1. PICK pc \in {"cleanup", "loan"} : cons'[c].pc = pc
      BY <1>2, <2>3
    <3> QED
      BY <1>1, <3>1
  <2>4. ASSUME l # NoLoan, NEW pc \in {"old", "unpaid"}, cons' = [cons EXCEPT ![c] =
                 [cons[c] EXCEPT !.pc = pc, !.loan = l, !.unpaid = b]]
        PROVE  ReadInv(c)'
    <3>1. cons'[c].pc = pc /\ cons'[c].loan = l /\ cons'[c].unpaid = b
      <4> DEFINE k == [cons[c] EXCEPT !.pc = pc, !.loan = l, !.unpaid = b]
      <4>1. cons' = [cons EXCEPT ![c] = k]
        BY <2>4, Zenon
      <4>2. k.pc = pc /\ k.loan = l /\ k.unpaid = b
        BY <1>0 DEF ConsumerState
      <4> HIDE DEF k
      <4>3. cons'[c] = k
        BY <1>0, <4>1
      <4> QED
        BY <4>2, <4>3
    <3>2. s \in Subscribers /\ l \in LoanIds
      <4>1. ~At(c, "idle")
        BY <1>7 DEF EvaluateRules, ReadLoan, At
      <4> QED
        BY <1>0, <1>3, <2>1, <2>4, <4>1 DEF ConsumerTypeOK, At, TypeOK, StoreTypeOK
    <3>3. b \in {0, Owed(l)}
      BY <2>1, <3>2, OpenIsNewest DEF LoanBooks
    <3> QED
      BY <1>0, <3>1, <3>3 DEF ReadInv
  <2> QED
    BY <2>2, <2>3, <2>4
<1>8. CASE ReadUnpaid(c)
  <2>1. /\ Reading(c) /\ ReadInv(c) /\ cons[c].pc = "unpaid"
        /\ cons[c].unpaid > 0 /\ cons[c].unpaid \in Nat
    BY <1>0, <1>8 DEF ReadUnpaid, At, Reading, BooksInv, ConsumerState
  <2>2. cons[c].unpaid = Owed(cons[c].loan)
    BY <2>1 DEF ReadInv
  <2>3. CASE Goto(c, "cleanup")
    BY <1>1, <1>2, <2>3
  <2>4. CASE \E d \in OpenDocs(cons[c].loan) : Decide(c, cons[c].unpaid, d.version)
    BY <1>4, <1>5, <2>1, <2>2, <2>4
  <2>5. CASE ~Numbered /\ Decide(c, cons[c].unpaid, 0)
    BY <1>5, <2>1, <2>2, <2>5
  <2> QED
    BY <1>4, <1>8, <2>1, <2>3, <2>4, <2>5 DEF ReadUnpaid, Numbered
<1>9. CASE FindUnpaid(c)
  <2>1. Reading(c)
    BY <1>9 DEF FindUnpaid, At, Reading
  <2>2. \/ Goto(c, "cleanup")
        \/ \E d \in OpenDocs(cons[c].loan) : d.amount > 0 /\ cons' = [cons EXCEPT ![c] =
              [cons[c] EXCEPT !.pc = "backfill", !.unpaid = d.amount, !.version = d.version]]
    BY <1>9, Zenon DEF FindUnpaid
  <2>3. CASE Goto(c, "cleanup")
    BY <1>1, <1>2, <2>3
  <2>4. ASSUME NEW d \in OpenDocs(cons[c].loan), d.amount > 0, cons' = [cons EXCEPT ![c] =
              [cons[c] EXCEPT !.pc = "backfill", !.unpaid = d.amount, !.version = d.version]]
        PROVE  ReadInv(c)'
    <3>1. PICK u, v : u = d.amount /\ v = d.version
      OBVIOUS
    <3>2. /\ cons'[c].pc = "backfill" /\ cons'[c].loan = cons[c].loan
          /\ cons'[c].unpaid = u /\ cons'[c].version = v
      <4> DEFINE k == [cons[c] EXCEPT !.pc = "backfill", !.unpaid = u, !.version = v]
      <4>1. cons' = [cons EXCEPT ![c] = k]
        BY <2>4, <3>1, Zenon
      <4>2. k.pc = "backfill" /\ k.loan = cons[c].loan /\ k.unpaid = u /\ k.version = v
        BY <1>0 DEF ConsumerState
      <4> HIDE DEF k
      <4>3. cons'[c] = k
        BY <1>0, <4>1
      <4> QED
        BY <4>2, <4>3
    <3>3. /\ u = Owed(cons[c].loan) /\ u > 0
          /\ Numbered => v = Len(unpaidDocs[cons[c].loan])
      BY <1>4, <2>1, <2>4, <3>1
    <3> QED
      BY <1>0, <3>2, <3>3 DEF ReadInv
  <2> QED
    BY <2>2, <2>3, <2>4
<1>10. CASE BackfillUnpaid(c)
  <2>1. Reading(c) /\ ReadInv(c) /\ cons[c].pc = "backfill" /\ cons[c].unpaid \in Nat
    BY <1>0, <1>10 DEF BackfillUnpaid, At, Reading, BooksInv, ConsumerState
  <2>2. /\ cons[c].unpaid = Owed(cons[c].loan) /\ cons[c].unpaid > 0
        /\ Numbered => cons[c].version = Len(unpaidDocs[cons[c].loan])
    BY <2>1 DEF ReadInv
  <2> QED
    <3>1. CASE Goto(c, "cleanup")
      BY <1>1, <1>2, <3>1
    <3>2. CASE Decide(c, cons[c].unpaid, cons[c].version)
      <4>1. PICK u, v : u = cons[c].unpaid /\ v = cons[c].version /\ u \in Nat
        BY <2>1
      <4> QED
        BY <1>5, <2>1, <2>2, <3>2, <4>1
    <3> QED
      BY <1>10, <3>1, <3>2 DEF BackfillUnpaid
<1>11. CASE \/ SkipEvent(c) \/ CheckEntry(c) \/ CreateEntry(c) \/ UpdateOldLoan(c)
           \/ SkipCollection(c) \/ PublishMessage(c) \/ Cleanup(c) \/ ConsumerCrash(c)
  <2>1. Finish(c) \/ \E pc \in {"create", "rules", "loan", "cleanup"} : Goto(c, pc)
    BY <1>11 DEF SkipEvent, CheckEntry, CreateEntry, UpdateOldLoan,
       SkipCollection, PublishMessage, Cleanup, ConsumerCrash
  <2>2. PICK pc \in {"idle", "create", "rules", "loan", "cleanup"} : cons'[c].pc = pc
    BY <1>0, <1>2, <2>1, ConsumerMoveFacts
  <2> QED
    BY <1>1, <2>2
<1> QED
  BY <1>6, <1>7, <1>8, <1>9, <1>10, <1>11 DEF ConsumerStep, Proceed

\* A consumer writes back to a loan what the books say of it, or 0.
LEMMA WriteBackFacts ==
    ASSUME NEW c \in Consumers, ConsumerStep(c)
    PROVE  \/ balance' = balance
           \/ cons[c].pc \in {"old", "backfill"} /\ balance' = [balance EXCEPT ![cons[c].loan] = cons[c].unpaid]
<1>1. CASE TakeEvent(c)
  BY <1>1, Zenon DEF TakeEvent, storeVars
<1>2. CASE ConsumerCrash(c)
  BY <1>2, Zenon DEF ConsumerCrash, storeVars
<1>3. CASE SkipEvent(c) \/ CheckEntry(c) \/ CreateEntry(c)
  BY <1>3, Zenon DEF SkipEvent, CheckEntry, CreateEntry, storeVars
<1>4. CASE EvaluateRules(c) \/ ReadLoan(c)
  BY <1>4, Zenon DEF EvaluateRules, ReadLoan, storeVars
<1>5. CASE ReadUnpaid(c) \/ FindUnpaid(c)
  BY <1>5, Zenon DEF ReadUnpaid, FindUnpaid, storeVars
<1>6. CASE SkipCollection(c) \/ PublishMessage(c) \/ Cleanup(c)
  BY <1>6, Zenon DEF SkipCollection, PublishMessage, Cleanup
<1>7. CASE UpdateOldLoan(c)
  <2>1. cons[c].pc = "old" /\ (WriteBack(c) \/ balance' = balance)
    BY <1>7, Zenon DEF UpdateOldLoan, At
  <2> QED
    BY <2>1 DEF WriteBack
<1>8. CASE BackfillUnpaid(c)
  <2>1. cons[c].pc = "backfill" /\ (WriteBack(c) \/ balance' = balance)
    BY <1>8, Zenon DEF BackfillUnpaid, At
  <2> QED
    BY <2>1 DEF WriteBack
<1> QED
  BY <1>1, <1>2, <1>3, <1>4, <1>5, <1>6, <1>7, <1>8, Zenon DEF ConsumerStep, Proceed

\* A consumer's step keeps the books, and its message says what they say.
LEMMA BooksConsumerStep ==
    ASSUME SingleConsumer, ReliablePublisher, CoreInv, UnpaidHistory,
           BooksInv, UNCHANGED <<acked, work>>, NEW c \in Consumers, ConsumerStep(c)
    PROVE  BooksInv'
<1>0. /\ TypeOK /\ UNCHANGED <<unpaidDocs, closedDocs, loanCount, collections>>
      /\ Granted' = Granted /\ balance \in [LoanIds -> Nat] /\ Granted \subseteq LoanIds
  <2>1. TypeOK /\ StoreTypeOK
    BY DEF CoreInv, TypeOK
  <2>2. UNCHANGED <<unpaidDocs, closedDocs, loanCount, collections>>
    BY <2>1, ConsumerFrame
  <2>3. balance \in [LoanIds -> Nat] /\ loanCount \in 0..MaxLoans
    BY <2>1 DEF StoreTypeOK
  <2>4. Granted' = Granted /\ Granted \subseteq LoanIds
    BY <2>2, <2>3, StoreAssumption DEF Granted, LoanIds
  <2> QED
    BY <2>1, <2>2, <2>3, <2>4
<1>1. /\ \A k : Owed(k)' = Owed(k)
      /\ \A k \in LoanIds : PesosCollected(k)' = PesosCollected(k)
  BY <1>0, OwedIsIn, PesosAreTotal, PesosAreTotalNext
<1>2. \A k \in Granted : balance'[k] \in {0, Owed(k)}
  <2>1. \A k \in Granted : balance[k] \in {0, Owed(k)}
    BY DEF BooksInv, LoanBooks
  <2>2. ASSUME cons[c].pc \in {"old", "backfill"} PROVE cons[c].unpaid \in {0, Owed(cons[c].loan)}
    BY <2>2 DEF BooksInv, ReadInv
  <2>3. PICK l, u : l = cons[c].loan /\ u = cons[c].unpaid
    OBVIOUS
  <2>4. balance' = balance \/ (u \in {0, Owed(l)} /\ balance' = [balance EXCEPT ![l] = u])
    BY <2>2, <2>3, WriteBackFacts
  <2> QED
    BY <1>0, <2>1, <2>4
<1>3. (\A k \in Granted' : LoanBooks(k)') /\ (\A k \in LoanIds \ Granted' : NoBooks(k)')
  BY <1>0, <1>1, <1>2 DEF BooksInv, LoanBooks, NoBooks
<1>4. ASSUME NEW d \in Consumers PROVE ReadInv(d)'
  <2>1. d = c
    BY DEF SingleConsumer
  <2> QED
    BY <2>1, ReadFollows
<1>5. topic \in Seq(Message)
  BY <1>0 DEF TypeOK, StoreTypeOK
<1> DEFINE e == Snapshot(c)
<1>6. topic' = topic \/ (At(c, "publish") /\ topic' = Append(topic, e))
  BY ConsumerFrame
<1>7. /\ e.loan = cons[c].loan /\ e.kind = cons[c].kind /\ e.pesos = cons[c].pesos
      /\ e.unpaid = cons[c].unpaid /\ e.version = cons[c].version
  BY DEF Snapshot
<1> HIDE DEF e
<1>8. \A i \in DOMAIN topic : i \in DOMAIN topic' /\ topic'[i] = topic[i]
  BY <1>5, <1>6
<1>9. ASSUME NEW n \in MsgIds, Due(n)' PROVE DueInv(n)'
  <2>1. PICK s, m, l : s = topic'[n].sub /\ m = topic'[n] /\ l = topic'[n].loan
    OBVIOUS
  <2>2. n \in DOMAIN topic' /\ ~Committed(n) /\ Live(n, s)'
    BY <1>9, <2>1 DEF Due, Committed, Live, Finishing
  <2>3. /\ m.unpaid = Owed(l) /\ (Numbered => m.version = Len(unpaidDocs[l]))
        /\ m.kind = "Full" <=> m.pesos = m.unpaid
    <3>1. CASE Live(n, s)
      <4>1. n \in DOMAIN topic /\ topic'[n] = topic[n]
        BY <1>8, <3>1 DEF Live
      <4>2. DueInv(n)
        BY <2>1, <2>2, <3>1, <4>1 DEF Due, BooksInv
      <4> QED
        BY <2>1, <4>1, <4>2 DEF DueInv
    <3>2. CASE ~Live(n, s)
      <4>1. topic' # topic /\ n = Len(topic) + 1
        <5>1. topic' = topic \/ topic' = Append(topic, Snapshot(c))
          BY <1>6 DEF e
        <5> QED
          BY <1>0, <2>2, <3>2, <5>1, LiveFollows
      <4>2. cons[c].pc = "publish" /\ m = e
        BY <1>5, <1>6, <2>1, <4>1 DEF At
      <4>3. ReadInv(c)
        BY DEF BooksInv
      <4>4. l = cons[c].loan
        BY <1>7, <2>1, <4>2
      <4> QED
        BY <1>7, <4>2, <4>3, <4>4 DEF ReadInv
    <3> QED
      BY <3>1, <3>2
  <2>4. Owed(l)' = Owed(l) /\ Len(unpaidDocs'[l]) = Len(unpaidDocs[l])
    BY <1>0, <1>1
  <2> QED
    BY <2>1, <2>3, <2>4 DEF DueInv
<1> QED
  BY <1>3, <1>4, <1>9 DEF BooksInv

\* A grant opens the books of the next loan.
LEMMA BooksGrant ==
    ASSUME CoreInv, BooksInv, Grant
    PROVE  BooksInv'
<1>0. /\ TypeOK /\ loanCount \in Nat /\ MaxLoans \in Nat /\ LoanIds = 1..MaxLoans
      /\ unpaidDocs \in [LoanIds -> Seq(UnpaidDoc)] /\ balance \in [LoanIds -> Nat]
      /\ collections \in Seq(Collection)
  BY StoreAssumption DEF CoreInv, TypeOK, StoreTypeOK, LoanIds
<1> DEFINE Granting(p, b, l) ==
              /\ l = loanCount + 1 /\ loanCount < MaxLoans /\ loanCount' = l
              /\ balance' = [balance EXCEPT ![l] = b * p]
              /\ unpaidDocs' =
                    [unpaidDocs EXCEPT ![l] = <<[amount |-> p, open |-> TRUE, version |-> 1]>>]
              /\ UNCHANGED <<closedDocs, collections, topic, cons, acked, work>>
<1>0a. \E p \in Principals, b \in {0, 1} : Granting(p, b, loanCount + 1)
  BY DEF Grant, AvailLoan, consumerVars, workerVars
<1>0b. PICK l : l = loanCount + 1
  OBVIOUS
<1>1. PICK p \in Principals, b \in {0, 1} : Granting(p, b, l)
  BY <1>0a, <1>0b
<1>2. p \in Nat /\ p > 0 /\ b * p \in {0, p}
  BY StoreAssumption
<1>3. /\ l \in LoanIds /\ l \notin Granted /\ Granted' = Granted \cup {l} /\ Granted \subseteq LoanIds
      /\ \A k \in Granted : k # l
  BY <1>0, <1>1 DEF Granted
<1> DEFINE e == [amount |-> p, open |-> TRUE, version |-> 1]
<1>4. e.amount = p /\ e.version = 1 /\ unpaidDocs' = [unpaidDocs EXCEPT ![l] = <<e>>]
  BY <1>1
<1> HIDE DEF e
<1>5. unpaidDocs'[l] = <<e>> /\ balance'[l] \in {0, p}
  BY <1>0, <1>1, <1>2, <1>3, <1>4
<1>6. /\ <<e>> # <<>> /\ <<e>>[1].amount = p /\ OwedIn(<<e>>) = p
      /\ \A i \in DOMAIN <<e>> : <<e>>[i].version = i
  BY <1>4 DEF OwedIn
<1>7. \A k \in LoanIds : k # l =>
         unpaidDocs'[k] = unpaidDocs[k] /\ balance'[k] = balance[k] /\ Owed(k)' = Owed(k)
  BY <1>0, <1>1, OwedIsIn
<1>8. \A k : PesosCollected(k)' = PesosCollected(k)
  BY <1>1, PesosAreTotal, PesosAreTotalNext
<1>9. LoanBooks(l)'
  <2>1. Owed(l)' = p
    BY <1>5, <1>6, OwedIsIn
  <2>2. PesosCollected(l)' = 0
    BY <1>3, <1>8 DEF BooksInv, NoBooks
  <2>3. closedDocs'[l] = 0
    BY <1>0, <1>1, <1>3 DEF CoreInv, LoanInv
  <2> QED
    BY <1>2, <1>5, <1>6, <2>1, <2>2, <2>3 DEF LoanBooks
<1>10. \A k \in Granted' : LoanBooks(k)'
  <2> SUFFICES ASSUME NEW k \in Granted PROVE LoanBooks(k)'
    BY <1>3, <1>9
  <2>1. LoanBooks(k) /\ k \in LoanIds /\ k # l
    BY <1>3 DEF BooksInv
  <2> QED
    BY <1>1, <1>7, <1>8, <2>1 DEF LoanBooks
<1>11. \A k \in LoanIds \ Granted' : NoBooks(k)'
  BY <1>3, <1>7, <1>8 DEF BooksInv, NoBooks
<1>12. ASSUME NEW c \in Consumers PROVE ReadInv(c)'
  <2>1. CASE Reading(c)
    <3>1. PICK k : k = cons[c].loan
      OBVIOUS
    <3>2. k \in LoanIds /\ k # l
      <4>1. k \in LoanIds
        BY <1>0, <2>1, <3>1 DEF Reading, TypeOK, ConsumerTypeOK
      <4>2. k <= loanCount
        BY <3>1 DEF CoreInv, LoanInv
      <4> QED
        BY <1>0, <1>1, <4>1, <4>2
    <3> QED
      BY <1>1, <1>7, <3>1, <3>2 DEF BooksInv, ReadInv
  <2>2. CASE ~Reading(c)
    BY <1>1, <2>2 DEF Reading, ReadInv
  <2> QED
    BY <2>1, <2>2
<1>13. ASSUME NEW n \in MsgIds, Due(n)' PROVE DueInv(n)'
  <2>1. Due(n)
    BY <1>1, <1>13 DEF Due, Committed, Live, Finishing
  <2>2. PICK k : k = topic[n].loan
    OBVIOUS
  <2>3. k \in LoanIds /\ k # l
    <3>1. topic[n] \in Message /\ k <= loanCount
      BY <1>0, <2>1, <2>2 DEF Due, TypeOK, StoreTypeOK, CoreInv, LoanInv
    <3>2. k \in LoanIds
      BY <2>2, <3>1 DEF Message
    <3> QED
      BY <1>0, <1>1, <3>1, <3>2
  <2> QED
    BY <1>1, <1>7, <2>1, <2>2, <2>3 DEF BooksInv, DueInv
<1> QED
  BY <1>10, <1>11, <1>12, <1>13 DEF BooksInv

\* What the books rest on is an invariant together with them.
LEMMA BooksAreInvariant ==
    ASSUME SingleConsumer, ReliablePublisher, UndisturbedHandlers
    PROVE  Spec => []BooksInv
<1>1. Init => BooksInv
  <2> SUFFICES ASSUME Init PROVE BooksInv
    OBVIOUS
  <2>1. \A l : PesosCollected(l) = 0
    <3>1. collections = <<>> /\ collections \in Seq(Collection)
      BY DEF Init, StoreInit
    <3> QED
      BY <3>1, PesosAreTotal, TotalType
  <2> QED
    BY <2>1 DEF Init, StoreInit, ConsumerInit, WorkerInit, BooksInv, NoBooks, ReadInv, Due,
       Granted, IdleConsumer
<1>2. CoreInv /\ UnpaidHistory /\ BooksInv /\ [Next]_vars => BooksInv'
  <2> SUFFICES ASSUME CoreInv, UnpaidHistory, BooksInv, [Next]_vars PROVE BooksInv'
    OBVIOUS
  <2>1. CASE Grant
    BY <2>1, BooksGrant
  <2>2. CASE Consumer
    BY <2>2, BooksConsumerStep DEF Consumer, ConsumerNext, ConsumerStep, workerVars
  <2>3. CASE Worker
    BY <2>3, BooksWorkerStep DEF Worker, WorkerNext, WorkerStep, consumerVars
  <2>4. CASE UNCHANGED vars
    <3>1. \A l : PesosCollected(l)' = PesosCollected(l) /\ Owed(l)' = Owed(l)
      BY <2>4, PesosAreTotal, PesosAreTotalNext, OwedIsIn DEF vars, storeVars
    <3> QED
      BY <2>4, <3>1 DEF vars, storeVars, consumerVars, workerVars, BooksInv, LoanBooks, NoBooks,
         ReadInv, DueInv, Due, Committed, Live, Finishing, Granted
  <2> QED
    BY <2>1, <2>2, <2>3, <2>4 DEF Next
<1> QED
  BY <1>1, <1>2, CoreIsInvariant, HistoryIsKept, PTL DEF Spec

\* LedgerBalanced: while the lock works and no MongoDB call fails, whatever
\* the wallet, Kafka and the bucket do, each loan's three records agree.
THEOREM BooksBalance ==
    ASSUME SingleConsumer, ReliablePublisher, UndisturbedHandlers, ~MayFail("mongo")
    PROVE  Spec => []LedgerBalanced
<1>1. BooksInv => LedgerBalanced
  BY DEF BooksInv, LoanBooks, LedgerBalanced, Numbered
<1> QED
  BY <1>1, BooksAreInvariant, PTL

-----------------------------------------------------------------------------
(* The pipeline implements the ledger. *)

\* The ledger's view of the state.
Status == [l \in LoanIds |-> IF l > loanCount THEN "none"
                             ELSE IF closedDocs[l] > 0 THEN "closed" ELSE "open"]
OwedOf == [l \in LoanIds |-> Owed(l)]
Pesos  == [l \in LoanIds |-> PesosCollected(l)]

\* A grant is the ledger's.
LEMMA GrantMaps ==
    ASSUME CoreInv, BooksInv, Grant
    PROVE  \E l \in LoanIds : Ledger!Grant(l)
<1>0. /\ loanCount \in Nat /\ MaxLoans \in Nat /\ LoanIds = 1..MaxLoans
      /\ unpaidDocs \in [LoanIds -> Seq(UnpaidDoc)]
  BY StoreAssumption DEF CoreInv, TypeOK, StoreTypeOK, LoanIds
<1>1. PICK p, l :
         /\ p \in Principals /\ l = loanCount + 1 /\ loanCount < MaxLoans /\ loanCount' = l
         /\ unpaidDocs' = [unpaidDocs EXCEPT ![l] = <<[amount |-> p, open |-> TRUE, version |-> 1]>>]
         /\ UNCHANGED <<closedDocs, collections>>
  BY DEF Grant, AvailLoan
<1>2. l \in LoanIds /\ closedDocs[l] = 0
  BY <1>0, <1>1 DEF CoreInv, LoanInv
<1> DEFINE e == [amount |-> p, open |-> TRUE, version |-> 1]
<1>3. e.amount = p /\ unpaidDocs' = [unpaidDocs EXCEPT ![l] = <<e>>]
  BY <1>1
<1> HIDE DEF e
<1>4. OwedIn(<<e>>) = p
  BY <1>3 DEF OwedIn
<1>5. Owed(l)' = p /\ \A k \in LoanIds : k # l => Owed(k)' = Owed(k)
  BY <1>0, <1>2, <1>3, <1>4, OwedIsIn
<1>6. \A k : PesosCollected(k)' = PesosCollected(k)
  BY <1>1, PesosAreTotal, PesosAreTotalNext
<1>7. Status[l] = "none" /\ Status' = [Status EXCEPT ![l] = "open"]
  <2>1. \A k \in LoanIds : Status'[k] = IF k = l THEN "open" ELSE Status[k]
    BY <1>0, <1>1, <1>2 DEF Status
  <2>2. Status[l] = "none"
    BY <1>0, <1>1, <1>2 DEF Status
  <2>3. /\ Status = [k \in LoanIds |-> Status[k]]
        /\ Status' = [k \in LoanIds |-> Status'[k]]
    BY DEF Status
  <2> QED
    BY <2>1, <2>2, <2>3
<1>8. OwedOf' = [OwedOf EXCEPT ![l] = p]
  BY <1>2, <1>5 DEF OwedOf
<1>9. Pesos' = Pesos
  BY <1>6 DEF Pesos
<1> QED
  BY <1>1, <1>2, <1>7, <1>8, <1>9 DEF Ledger!Grant, Status, OwedOf, Pesos

\* A transaction that takes a peso or more is a collection of the ledger; one
\* that takes none leaves it as it was.
LEMMA CommitMaps ==
    ASSUME UndisturbedHandlers, CoreInv, BooksInv, BooksInv',
           NEW w \in Workers, WorkerStep(w), work[w].pc = "commit", Transaction(w)
    PROVE  (\E l \in LoanIds : Ledger!Collect(l)) \/ UNCHANGED <<Status, OwedOf, Pesos>>
<1>0. /\ TypeOK /\ HandlerInv /\ loanCount' = loanCount
      /\ unpaidDocs \in [LoanIds -> Seq(UnpaidDoc)] /\ closedDocs \in [LoanIds -> Nat]
  BY WorkerFrame DEF CoreInv, TypeOK, StoreTypeOK
<1>1. PICK m \in MsgIds : m = work[w].msg /\ Due(m) /\ Msg(w) = topic[m] /\ topic[m] \in Message
  BY <1>0, CommitIsDue DEF Msg
<1>2. PICK l, p, u, d : l = Msg(w).loan /\ p = Msg(w).pesos /\ u = Msg(w).unpaid /\ d = NextDoc(w)
  OBVIOUS
<1>3. /\ l \in LoanIds /\ l \in Granted /\ closedDocs[l] = 0
      /\ unpaidDocs' = [unpaidDocs EXCEPT ![l] = Append(CloseLatest(unpaidDocs[l]), d)]
      /\ IF Msg(w).kind = "Partial" THEN closedDocs' = closedDocs
         ELSE closedDocs' = [closedDocs EXCEPT ![l] = 1]
  BY <1>2, TransactionFacts
<1>4. u = Owed(l) /\ (Msg(w).kind = "Full" <=> p = u)
  BY <1>1, <1>2 DEF BooksInv, DueInv
<1>5. p \in Nat /\ u \in Nat /\ p <= u /\ Msg(w).kind \in {"Partial", "Full"}
  <2>1. m \in 1..Len(topic)
    BY <1>0, <1>1 DEF Due, TypeOK, StoreTypeOK
  <2> QED
    BY <1>0, <1>1, <1>2, <2>1 DEF Message, TypeOK, StoreTypeOK
<1>6. \A k \in LoanIds : PesosCollected(k) \in Nat
  BY <1>0, PesosAreTotal, TotalType DEF TypeOK, StoreTypeOK
<1>7. u > 0
  <2>1. LoanBooks(l)
    BY <1>3 DEF BooksInv
  <2> QED
    BY <1>3, <1>4, <1>5, <2>1 DEF LoanBooks
<1>8. \A k \in LoanIds : PesosCollected(k)' = IF k = l THEN PesosCollected(k) + p ELSE PesosCollected(k)
  BY <1>2, <1>6, PesosStep
<1>9. \A k \in LoanIds : Owed(k)' = IF k = l THEN Owed(k) - p ELSE Owed(k)
  <2>1. d.amount = u - p
    <3>1. NextDoc(w).amount = IF Msg(w).kind = "Partial" THEN Remaining(w) ELSE 0
      BY DEF NextDoc
    <3>2. Remaining(w) = u - p
      BY <1>2 DEF Remaining
    <3> QED
      BY <1>2, <1>4, <1>5, <3>1, <3>2
  <2>2. OwedIn(Append(CloseLatest(unpaidDocs[l]), d)) = d.amount
    <3>1. PICK docs \in Seq(UnpaidDoc) : docs = CloseLatest(unpaidDocs[l])
      BY <1>0, <1>3, CloseLatestType
    <3>2. Append(docs, d) # <<>> /\ Append(docs, d)[Len(Append(docs, d))] = d
      OBVIOUS
    <3> QED
      BY <3>1, <3>2 DEF OwedIn
  <2>3. Owed(l)' = u - p
    BY <1>0, <1>3, <2>1, <2>2, OwedIsIn
  <2>4. \A k \in LoanIds : k # l => Owed(k)' = Owed(k)
    BY <1>0, <1>3, OwedIsIn
  <2> QED
    BY <1>4, <2>3, <2>4
<1>10. \A k \in LoanIds : Status'[k] = IF k = l THEN (IF p = u THEN "closed" ELSE "open") ELSE Status[k]
  <2>1. \A k \in LoanIds : closedDocs'[k] = IF k = l THEN (IF p = u THEN 1 ELSE 0) ELSE closedDocs[k]
    BY <1>0, <1>3, <1>4, <1>5
  <2>2. l <= loanCount
    BY <1>3 DEF Granted
  <2>3. loanCount \in Nat /\ LoanIds \subseteq Nat
    BY <1>0, StoreAssumption DEF TypeOK, StoreTypeOK, LoanIds
  <2> QED
    BY <1>0, <2>1, <2>2, <2>3 DEF Status
<1>11. Status[l] = "open"
  <2>1. l <= loanCount /\ l \in Nat /\ loanCount \in Nat
    BY <1>0, <1>3, StoreAssumption DEF Granted, TypeOK, StoreTypeOK
  <2> QED
    BY <1>3, <2>1 DEF Status
<1>12. /\ Status = [k \in LoanIds |-> Status[k]] /\ Status' = [k \in LoanIds |-> Status'[k]]
       /\ OwedOf = [k \in LoanIds |-> Owed(k)] /\ OwedOf' = [k \in LoanIds |-> Owed(k)']
       /\ Pesos = [k \in LoanIds |-> PesosCollected(k)]
       /\ Pesos' = [k \in LoanIds |-> PesosCollected(k)']
  BY DEF Status, OwedOf, Pesos
<1>13. CASE p = 0
  <2>1. \A k \in LoanIds : PesosCollected(k)' = PesosCollected(k)
    BY <1>6, <1>8, <1>13
  <2>2. \A k \in LoanIds : Owed(k)' = Owed(k)
    BY <1>4, <1>5, <1>9, <1>13
  <2>3. \A k \in LoanIds : Status'[k] = Status[k]
    BY <1>7, <1>10, <1>11, <1>13
  <2>4. Pesos' = Pesos
    BY <1>12, <2>1
  <2>5. OwedOf' = OwedOf
    BY <1>12, <2>2
  <2>6. Status' = Status
    BY <1>12, <2>3
  <2> QED
    BY <2>4, <2>5, <2>6
<1>14. CASE p > 0
  <2>1. p \in 1..OwedOf[l]
    BY <1>3, <1>4, <1>5, <1>14 DEF OwedOf
  <2>2. OwedOf' = [OwedOf EXCEPT ![l] = OwedOf[l] - p]
    BY <1>3, <1>9, <1>12
  <2>3. Pesos' = [Pesos EXCEPT ![l] = Pesos[l] + p]
    BY <1>3, <1>8, <1>12
  <2>4. OwedOf[l] = u
    BY <1>3, <1>4 DEF OwedOf
  <2>5. Status' = [Status EXCEPT ![l] = IF p = OwedOf[l] THEN "closed" ELSE "open"]
    BY <1>3, <1>10, <1>12, <2>4
  <2>6. Ledger!Collect(l)
    BY <1>11, <2>1, <2>2, <2>3, <2>5 DEF Ledger!Collect, Status, OwedOf, Pesos
  <2> QED
    BY <1>3, <2>6
<1> QED
  BY <1>5, <1>13, <1>14

\* ImplementsLedger: while the lock works every behaviour of the pipeline, the
\* failures of MongoDB included, is a behaviour of LoanLedger, in which a
\* collection moves pesos from owed to collected in one step and the last one
\* closes the loan.
THEOREM PipelineImplementsLedger ==
    ASSUME SingleConsumer, ReliablePublisher, UndisturbedHandlers
    PROVE  Spec => ImplementsLedger
<1>1. Init => Ledger!LedgerInit
  <2> SUFFICES ASSUME Init PROVE Ledger!LedgerInit
    OBVIOUS
  <2>1. \A l : PesosCollected(l) = 0
    <3>1. collections = <<>> /\ collections \in Seq(Collection)
      BY DEF Init, StoreInit
    <3> QED
      BY <3>1, PesosAreTotal, TotalType
  <2>2. \A l \in LoanIds : l > 0
    BY StoreAssumption DEF LoanIds
  <2> QED
    BY <2>1, <2>2 DEF Init, StoreInit, Ledger!LedgerInit, Owed
<1>2. CoreInv /\ BooksInv /\ BooksInv' /\ [Next]_vars => [Ledger!LedgerNext]_(Ledger!ledgerVars)
  <2> SUFFICES ASSUME CoreInv, BooksInv, BooksInv', [Next]_vars
               PROVE  Ledger!LedgerNext \/ UNCHANGED <<Status, OwedOf, Pesos>>
    BY DEF Ledger!ledgerVars, Status, OwedOf, Pesos
  <2>1. ASSUME UNCHANGED <<loanCount, closedDocs, unpaidDocs>>,
               \A l \in LoanIds : PesosCollected(l)' = PesosCollected(l)
        PROVE  UNCHANGED <<Status, OwedOf, Pesos>>
    BY <2>1, OwedIsIn DEF Status, OwedOf, Pesos
  <2>2. CASE Grant
    BY <2>2, GrantMaps DEF Ledger!LedgerNext
  <2>3. CASE Consumer \/ UNCHANGED vars
    <3>1. UNCHANGED <<loanCount, closedDocs, unpaidDocs, collections>>
      BY <2>3, ConsumerFrame DEF Consumer, ConsumerNext, ConsumerStep, vars, storeVars
    <3> QED
      BY <2>1, <3>1, PesosAreTotal, PesosAreTotalNext
  <2>4. CASE Worker
    <3>1. PICK w \in Workers : WorkerStep(w)
      BY <2>4 DEF Worker, WorkerNext, WorkerStep
    <3>2. CASE CollectionsOnly(w)
      BY <2>1, <3>1, <3>2, WorkerFrame, PesosStep DEF CollectionsOnly
    <3>3. CASE work[w].pc = "commit" /\ Transaction(w)
      BY <3>1, <3>3, CommitMaps DEF Ledger!LedgerNext
    <3> QED
      BY <3>1, <3>2, <3>3, StoreMoves DEF CoreInv
  <2> QED
    BY <2>2, <2>3, <2>4 DEF Next
<1> QED
  BY <1>1, <1>2, CoreIsInvariant, BooksAreInvariant, PTL
  DEF Spec, ImplementsLedger, Ledger!LedgerSpec
=============================================================================
