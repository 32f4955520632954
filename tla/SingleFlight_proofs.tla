------------------------- MODULE SingleFlight_proofs -------------------------
(***************************************************************************)
(* What rests on the handlers being undisturbed and the consumer alone:    *)
(* one debit per message, and the entry as a lock.  Each theorem names the *)
(* faults it excludes; the rest may strike at any step.                    *)
(***************************************************************************)
EXTENDS PipelineSafety_proofs

\* A handler runs to its end, and nobody is given its message meanwhile.
UndisturbedHandlers == ~MayFail("workerCrash") /\ ~MayFail("lease")

\* One instance of promo-collection: check and insert are not interleaved.
SingleConsumer == \A c, d \in Consumers : c = d

\* The publisher reports no error for a message it sent.
ReliablePublisher == ~MayFail("pubsub")

-----------------------------------------------------------------------------
(* The places a handler goes through. *)

\* The (step, mode) pairs of a handler that holds a message, as successors.
NextPlace(p, m, q, n) ==
    \/ /\ p = "decrement"
       /\ \/ q \in {"fetch", "commit"} /\ n = "success"
          \/ q = "usage" /\ n = m
          \/ q = "record" /\ n \in {"unknown", "api", "ignored"}
    \/ /\ p = "usage"
       /\ \/ q \in {"fetch", "commit"} /\ n = "success"
          \/ q \in {"leave", "ack"} /\ n = m
          \/ q = "record" /\ n = "bucket"
    \/ p = "fetch" /\ q \in {"commit", "ack"} /\ n = m
    \/ p = "commit" /\ q \in {"report", "ack"} /\ n = m
    \/ p = "record" /\ q = AfterRecord(m) /\ n = m
    \/ p = "report" /\ (\E b \in BOOLEAN : q = AfterReport(m, b)) /\ n = m
    \/ p = "release" /\ (\E b \in BOOLEAN : q = AfterRelease(m, b)) /\ n = m
    \/ p = "flag" /\ q = AfterFlag(m) /\ n = m

\* A free handler is given message m.
Starts(w, m) ==
    /\ ~Busy(w) /\ m \in 1..Len(topic) /\ m \notin acked
    /\ \A v \in Workers : work[v].msg # m
    /\ work'[w].pc = "decrement" /\ work'[w].msg = m /\ work'[w].mode = "none"
    /\ UNCHANGED <<inProgress, acked, debits>>

\* A handler goes on with its message; only "release" touches the entry.
Advances(w) ==
    /\ Busy(w) /\ Busy(w)' /\ work'[w].msg = work[w].msg
    /\ NextPlace(work[w].pc, work[w].mode, work'[w].pc, work'[w].mode)
    /\ acked' = acked
    /\ \/ inProgress' = inProgress
       \/ work[w].pc = "release" /\ RemoveEntry(Msg(w).sub)

\* A handler is done with its message.
Ends(w) ==
    /\ work[w].pc \in {"ack", "leave"} /\ work'[w] = IdleWorker
    /\ acked' = IF work[w].pc = "ack" THEN acked \cup {work[w].msg} ELSE acked
    /\ UNCHANGED <<inProgress, debits>>

\* What a step of an undisturbed handler amounts to.
LEMMA HandlerMoves ==
    ASSUME UndisturbedHandlers, TypeOK, NEW w \in Workers, WorkerStep(w)
    PROVE  /\ \A v \in Workers \ {w} : work'[v] = work[v]
           /\ (\E m \in MsgIds : Starts(w, m)) \/ Advances(w) \/ Ends(w)
<1>0. WorkerTypeOK /\ work[w].mode \in Modes
  BY DEF TypeOK, WorkerTypeOK, WorkerState
<1>1. CASE \E m \in MsgIds : Deliver(w, m)
  <2> PICK m \in MsgIds : Deliver(w, m)
    BY <1>1
  <2>1. Starts(w, m)
    BY <1>0, DeliverFacts DEF Deliver, Starts, Doing, Busy, UndisturbedHandlers, storeVars
  <2> QED
    BY <1>0, <2>1, DeliverFacts
<1>2. CASE Acknowledge(w) \/ Leave(w)
  <2>1. Ends(w)
    BY <1>0, <1>2, IdleFacts DEF Acknowledge, Leave, Doing, Ends, storeVars
  <2> QED
    BY <1>0, <1>2, <2>1, IdleFacts DEF Acknowledge, Leave
<1>a. ASSUME Busy(w), Busy(w)', work'[w].msg = work[w].msg, work[w].pc # "release",
             UNCHANGED <<acked, inProgress>>,
             NextPlace(work[w].pc, work[w].mode, work'[w].pc, work'[w].mode)
      PROVE  Advances(w)
  BY <1>a DEF Advances
<1>3. CASE Decrement(w)
  <2>1. /\ UNCHANGED <<acked, inProgress>> /\ work[w].pc = "decrement"
        /\ Succeed(w) \/ Continue(w, "usage") \/ \E n \in {"unknown", "api", "ignored"} : Fail(w, n)
    BY <1>3 DEF Decrement, Doing, storeVars
  <2> QED
    BY <1>0, <2>1, <1>a, SucceedFacts, ContinueFacts, FailFacts DEF NextPlace, Busy
<1>4. CASE CheckUsage(w)
  <2>1. /\ UNCHANGED <<acked, inProgress>> /\ work[w].pc = "usage"
        /\ \/ Succeed(w) \/ Continue(w, "ack") \/ Continue(w, "leave")
           \/ Fail(w, "bucket")
    BY <1>4 DEF CheckUsage, Doing, storeVars
  <2> QED
    BY <1>0, <2>1, <1>a, SucceedFacts, ContinueFacts, FailFacts DEF NextPlace, Busy
<1>5. CASE FetchLoan(w)
  <2>1. UNCHANGED <<acked, inProgress>> /\ work[w].pc = "fetch"
    BY <1>5 DEF FetchLoan, Doing, storeVars
  <2> QED
    BY <1>0, <1>5, <2>1, <1>a, FetchFacts DEF NextPlace, Busy
<1>6. CASE Commit(w)
  <2>1. UNCHANGED <<acked, inProgress>> /\ work[w].pc = "commit"
    BY <1>6 DEF Commit, Doing
  <2> QED
    BY <1>0, <1>6, <2>1, <1>a, CommitFacts DEF NextPlace, Busy
<1>7. CASE RecordFailure(w)
  <2>1. UNCHANGED <<acked, inProgress>> /\ work[w].pc = "record"
    BY <1>7 DEF RecordFailure, Doing
  <2> QED
    BY <1>0, <1>7, <2>1, <1>a, RecordFacts DEF NextPlace, Busy, AfterRecord
<1>8. CASE ReportOutcome(w)
  <2>1. UNCHANGED <<acked, inProgress>> /\ work[w].pc = "report"
    BY <1>8 DEF ReportOutcome, Doing, storeVars
  <2>2. PICK b \in BOOLEAN : Continue(w, AfterReport(work[w].mode, b))
    BY <1>8 DEF ReportOutcome
  <2>3. /\ work'[w].pc = AfterReport(work[w].mode, b)
        /\ work'[w].mode = work[w].mode /\ work'[w].msg = work[w].msg
        /\ \A v \in Workers \ {w} : work'[v] = work[v]
    BY <1>0, <2>2, ContinueFacts
  <2>4. AfterReport(work[w].mode, b) # "idle"
    BY <1>0 DEF AfterReport, Modes
  <2> QED
    BY <2>1, <2>3, <2>4, <1>a DEF NextPlace, Busy
<1>9. CASE ReleaseEntry(w)
  <2>1. /\ acked' = acked /\ work[w].pc = "release"
        /\ inProgress' = inProgress \/ RemoveEntry(Msg(w).sub)
    BY <1>9 DEF ReleaseEntry, MaybeRemoveEntry, Doing
  <2>2. PICK b \in BOOLEAN : Continue(w, AfterRelease(work[w].mode, b))
    BY <1>9 DEF ReleaseEntry
  <2>3. /\ work'[w].pc = AfterRelease(work[w].mode, b)
        /\ work'[w].mode = work[w].mode /\ work'[w].msg = work[w].msg
        /\ \A v \in Workers \ {w} : work'[v] = work[v]
    BY <1>0, <2>2, ContinueFacts
  <2>4. AfterRelease(work[w].mode, b) # "idle"
    BY <1>0 DEF AfterRelease, Modes
  <2> QED
    BY <2>1, <2>3, <2>4 DEF Advances, NextPlace, Busy
<1>10. CASE FlagReported(w)
  <2>1. UNCHANGED <<acked, inProgress>> /\ work[w].pc = "flag"
    BY <1>10 DEF FlagReported, Doing
  <2>2. Continue(w, AfterFlag(work[w].mode))
    BY <1>10 DEF FlagReported
  <2>3. AfterFlag(work[w].mode) # "idle"
    BY <1>0 DEF AfterFlag, Modes
  <2> QED
    BY <1>0, <2>1, <2>2, <2>3, <1>a, ContinueFacts DEF NextPlace, Busy
<1> QED
  BY <1>1, <1>2, <1>3, <1>4, <1>5, <1>6, <1>7, <1>8, <1>9, <1>10
  DEF WorkerStep, Handle, WorkerCrash, UndisturbedHandlers

-----------------------------------------------------------------------------
(* One handler per message. *)

\* The modes a handler can be in at each step.
PlaceOK(p, m) ==
    /\ p \in {"decrement", "usage"} => m = "none"
    /\ p \in {"fetch", "commit"} => m = "success"
    /\ p = "record" => m \in {"unknown", "api", "ignored", "bucket"}
    /\ p = "report" => m \in Modes \ {"none"}
    /\ p = "release" => m \in {"success", "unknown", "api", "bucket"}
    /\ p = "flag" => m \in {"success", "api", "ignored", "bucket"}
    /\ p = "leave" => m \in {"none", "ignored"}

\* A message is with at most one handler, and never once it is acknowledged.
HandlerInv ==
    \A w \in Workers :
       /\ ~Busy(w) => work[w].msg = NoMsg
       /\ Busy(w) => work[w].msg \notin acked
       /\ \A v \in Workers : Busy(w) /\ work[v].msg = work[w].msg => v = w
       /\ PlaceOK(work[w].pc, work[w].mode)

\* Each step leads from a place the handler can be in to another one.
LEMMA PlacesFollow ==
    ASSUME NEW p \in WorkerPcs, NEW m \in Modes, NEW q, NEW n \in Modes,
           PlaceOK(p, m), NextPlace(p, m, q, n)
    PROVE  PlaceOK(q, n)
  BY DEF PlaceOK, NextPlace, Modes, WorkerPcs, AfterRecord, AfterReport, AfterRelease, AfterFlag

\* A handler keeps its message to itself.
LEMMA HandlerStep ==
    ASSUME UndisturbedHandlers, TypeOK, TypeOK', HandlerInv, NEW w \in Workers, WorkerStep(w)
    PROVE  HandlerInv'
<1>0. /\ \A v \in Workers : work[v].pc \in WorkerPcs /\ work[v].mode \in Modes
      /\ \A v \in Workers : work'[v].mode \in Modes
      /\ \A v \in Workers : Busy(v) => work[v].msg # NoMsg
  BY StoreAssumption DEF TypeOK, StoreTypeOK, WorkerTypeOK, WorkerState, NoMsg
<1>1. \A v \in Workers \ {w} : work'[v] = work[v]
  BY HandlerMoves
<1>2. CASE \E m \in MsgIds : Starts(w, m)
  BY <1>0, <1>1, <1>2 DEF HandlerInv, Starts, Busy, PlaceOK
<1>3. CASE Advances(w)
  <2>1. PlaceOK(work'[w].pc, work'[w].mode)
    BY <1>0, <1>3, PlacesFollow DEF HandlerInv, Advances
  <2> QED
    BY <1>1, <1>3, <2>1 DEF HandlerInv, Advances, Busy
<1>4. CASE Ends(w)
  <2>1. Busy(w) /\ ~Busy(w)' /\ work'[w].msg = NoMsg /\ PlaceOK(work'[w].pc, work'[w].mode)
    BY <1>4 DEF Ends, Busy, IdleWorker, PlaceOK
  <2>2. acked' \subseteq acked \cup {work[w].msg}
    BY <1>4 DEF Ends
  <2> QED
    BY <1>0, <1>1, <2>1, <2>2 DEF HandlerInv, Busy
<1> QED
  BY <1>2, <1>3, <1>4, HandlerMoves

\* With undisturbed handlers, HandlerInv holds throughout.
LEMMA OneHandler == ASSUME UndisturbedHandlers PROVE Spec => []HandlerInv
<1>1. Init => HandlerInv
  BY DEF Init, WorkerInit, HandlerInv, Busy, IdleWorker, PlaceOK
<1>2. TypeOK /\ TypeOK' /\ HandlerInv /\ [Next]_vars => HandlerInv'
  <2> SUFFICES ASSUME TypeOK, TypeOK', HandlerInv, [Next]_vars PROVE HandlerInv'
    OBVIOUS
  <2>1. CASE Worker
    BY <2>1, HandlerStep DEF Worker, WorkerNext, WorkerStep
  <2>2. CASE Grant \/ Consumer \/ UNCHANGED vars
    <3>1. UNCHANGED <<work, acked>>
      BY <2>2 DEF Grant, Consumer, vars, workerVars
    <3> QED
      BY <3>1 DEF HandlerInv, Busy
  <2> QED
    BY <2>1, <2>2 DEF Next
<1> QED
  BY <1>1, <1>2, TypeCorrect, PTL DEF Spec

-----------------------------------------------------------------------------
(* DebitedOnce. *)

\* Messages nobody has begun or will continue, and handlers that have not had
\* their debit.
Untried(m)   == m \notin acked /\ \A w \in Workers : work[w].msg # m
Undebited(w) == Busy(w) /\ (work[w].pc \in {"decrement", "leave"} \/ work[w].mode = "ignored")

\* A message is given out again only when it was not debited.
DebitInv ==
    /\ DebitedOnce
    /\ \A m \in MsgIds : Untried(m) => debits[m] = 0
    /\ \A w \in Workers : Undebited(w) => debits[work[w].msg] = 0

\* Only the decrement debits, and a debit never ends in a refusal to be retried;
\* with a reliable balance check a debited message is not left.
LEMMA DebitMoves ==
    ASSUME ~MayFail("usage"), TypeOK, HandlerInv, NEW w \in Workers, WorkerStep(w)
    PROVE  /\ \/ debits' = debits
              \/ /\ work[w].pc = "decrement"
                 /\ debits' = [debits EXCEPT ![work[w].msg] = @ + 1]
                 /\ work'[w].pc \notin {"decrement", "leave"} /\ work'[w].mode # "ignored"
           /\ work[w].pc = "usage" /\ work'[w].pc = "leave" => debits[work[w].msg] = 0
<1>0. WorkerTypeOK
  BY DEF TypeOK
<1>1. CASE Decrement(w)
  <2>1. work[w].pc = "decrement" /\ work[w].mode = "none"
    BY <1>1 DEF Decrement, Doing, HandlerInv, PlaceOK
  <2>2. \/ debits' = debits
        \/ /\ debits' = [debits EXCEPT ![work[w].msg] = @ + 1]
           /\ Succeed(w) \/ Continue(w, "usage") \/ Fail(w, "unknown")
    BY <1>1 DEF Decrement
  <2>3. CASE Succeed(w)
    BY <1>0, <2>1, <2>2, <2>3, SucceedFacts
  <2>4. CASE Fail(w, "unknown")
    BY <1>0, <2>1, <2>2, <2>4, FailFacts
  <2>5. CASE Continue(w, "usage")
    BY <1>0, <2>1, <2>2, <2>5, ContinueFacts
  <2> QED
    BY <2>1, <2>2, <2>3, <2>4, <2>5
<1>2. CASE CheckUsage(w)
  <2>1. debits' = debits
    BY <1>2 DEF CheckUsage
  <2>2. \/ Succeed(w) \/ Continue(w, "ack") \/ Fail(w, "bucket")
        \/ debits[work[w].msg] = 0
    BY <1>2 DEF CheckUsage, DebitUnseen
  <2> QED
    BY <1>0, <2>1, <2>2, SucceedFacts, ContinueFacts, FailFacts
<1>3. CASE ~Decrement(w) /\ ~CheckUsage(w)
  <2>1. debits' = debits
    BY <1>3 DEF WorkerStep, Handle, Deliver, FetchLoan, Commit, RecordFailure,
       ReportOutcome, ReleaseEntry, FlagReported, Acknowledge, Leave, WorkerCrash
  <2>2. work[w].pc = "usage" => WorkerCrash(w)
    BY <1>3 DEF WorkerStep, Handle, Deliver, FetchLoan, Commit, RecordFailure,
       ReportOutcome, ReleaseEntry, FlagReported, Acknowledge, Leave, Doing
  <2>3. WorkerCrash(w) => work'[w].pc = "idle"
    BY <1>0, IdleFacts DEF WorkerCrash
  <2> QED
    BY <2>1, <2>2, <2>3
<1> QED
  BY <1>1, <1>2, <1>3

\* Apart from the decrement, a handler comes to leave a message, or to try it
\* again, only from a place before the debit, or from the balance check.
LEMMA UndebitedFollows ==
    ASSUME NEW p, NEW m \in Modes, NEW q, NEW n, PlaceOK(p, m), NextPlace(p, m, q, n),
           q \in {"decrement", "leave"} \/ n = "ignored"
    PROVE  \/ p \in {"decrement", "leave"} \/ m = "ignored"
           \/ p = "usage" /\ q = "leave"
<1>1. CASE n # m
  BY <1>1 DEF NextPlace, PlaceOK
<1>2. CASE p = "report" /\ n = m
  BY <1>2 DEF NextPlace, PlaceOK, AfterReport, Modes
<1>3. CASE p = "release" /\ n = m
  BY <1>3 DEF NextPlace, PlaceOK, AfterRelease
<1>4. CASE p \in {"record", "flag"} /\ n = m
  BY <1>4 DEF NextPlace, PlaceOK, AfterRecord, AfterFlag
<1>5. CASE p \notin {"record", "report", "release", "flag"} /\ n = m
  BY <1>5 DEF NextPlace, PlaceOK
<1> QED
  BY <1>1, <1>2, <1>3, <1>4, <1>5

\* Each step of a handler keeps the debits at one.
LEMMA DebitStep ==
    ASSUME UndisturbedHandlers, ~MayFail("usage"), TypeOK, HandlerInv, DebitInv,
           NEW w \in Workers, WorkerStep(w)
    PROVE  DebitInv'
<1> DEFINE m == work[w].msg
<1>0. /\ debits \in [MsgIds -> Nat]
      /\ Busy(w) => m \in MsgIds /\ m \notin acked
      /\ \A v \in Workers \ {w} : work'[v] = work[v] /\ (Busy(w) => work[v].msg # m)
  <2>1. Busy(w) => m \in MsgIds
    BY StoreAssumption DEF TypeOK, StoreTypeOK, WorkerTypeOK, MsgIds
  <2> QED
    BY <2>1, HandlerMoves DEF HandlerInv, TypeOK, WorkerTypeOK
<1>1. CASE \E n \in MsgIds : Starts(w, n)
  <2> PICK n \in MsgIds : Starts(w, n)
    BY <1>1
  <2>1. Untried(n) /\ debits' = debits /\ acked' = acked
    BY DEF Starts, Untried
  <2>2. ASSUME NEW v \in Workers, Undebited(v)' PROVE debits[work'[v].msg] = 0
    <3>1. CASE v = w
      BY <2>1, <3>1 DEF Starts, DebitInv
    <3>2. CASE v # w
      BY <1>0, <2>2, <3>2 DEF Undebited, Busy, DebitInv
    <3> QED
      BY <3>1, <3>2
  <2>3. ASSUME NEW k \in MsgIds, Untried(k)' PROVE Untried(k)
    BY <1>0, <2>1, <2>3 DEF Untried, Starts, Busy, HandlerInv, NoMsg, MsgIds
  <2> QED
    BY <2>1, <2>2, <2>3 DEF DebitInv, DebitedOnce
<1>2. CASE Advances(w)
  <2>1. /\ Busy(w) /\ work'[w].msg = m /\ acked' = acked
        /\ NextPlace(work[w].pc, work[w].mode, work'[w].pc, work'[w].mode)
    BY <1>2 DEF Advances
  <2>2. \A k \in MsgIds : k # m => debits'[k] = debits[k]
    BY <1>0, <2>1, DebitMoves
  <2>3. debits'[m] <= 1
    <3>1. debits'[m] = debits[m] \/ (work[w].pc = "decrement" /\ debits'[m] = debits[m] + 1)
      BY <1>0, <2>1, DebitMoves
    <3>2. work[w].pc = "decrement" => debits[m] = 0
      BY <2>1 DEF DebitInv, Undebited
    <3> QED
      BY <1>0, <2>1, <3>1, <3>2 DEF DebitInv, DebitedOnce
  <2>4. Undebited(w)' => debits'[m] = 0
    <3> SUFFICES ASSUME Undebited(w)' PROVE debits'[m] = 0
      OBVIOUS
    <3>1. work'[w].pc \in {"decrement", "leave"} \/ work'[w].mode = "ignored"
      BY DEF Undebited
    <3>2. debits' = debits
      BY <3>1, DebitMoves
    <3>3. \/ Undebited(w)
          \/ work[w].pc = "usage" /\ work'[w].pc = "leave"
      <4>1. PlaceOK(work[w].pc, work[w].mode)
        BY DEF HandlerInv
      <4>2. work[w].mode \in Modes
        BY DEF TypeOK, WorkerTypeOK, WorkerState
      <4> QED
        BY <2>1, <3>1, <3>2, <4>1, <4>2, UndebitedFollows DEF Undebited
    <3> QED
      BY <3>2, <3>3, DebitMoves DEF DebitInv
  <2>5. ASSUME NEW v \in Workers, Undebited(v)' PROVE debits'[work'[v].msg] = 0
    <3>1. CASE v # w
      <4>1. Undebited(v) /\ work'[v] = work[v] /\ work[v].msg # m
        BY <1>0, <2>1, <2>5, <3>1 DEF Undebited, Busy
      <4>2. work[v].msg \in MsgIds
        BY <4>1, StoreAssumption DEF Undebited, TypeOK, StoreTypeOK, WorkerTypeOK, MsgIds
      <4> QED
        BY <2>2, <4>1, <4>2 DEF DebitInv
    <3> QED
      BY <2>1, <2>4, <2>5, <3>1
  <2>6. ASSUME NEW k \in MsgIds, Untried(k)' PROVE Untried(k) /\ k # m
    BY <1>0, <2>1, <2>6 DEF Untried
  <2> QED
    BY <2>2, <2>3, <2>5, <2>6 DEF DebitInv, DebitedOnce
<1>3. CASE Ends(w)
  <2>1. /\ Busy(w) /\ ~Busy(w)' /\ work'[w].msg = NoMsg /\ debits' = debits
        /\ acked \subseteq acked'
        /\ work[w].pc = "leave" \/ m \in acked'
    BY <1>3 DEF Ends, Busy, IdleWorker
  <2>2. work[w].pc = "leave" => debits[m] = 0
    BY <2>1 DEF DebitInv, Undebited
  <2>3. ASSUME NEW k \in MsgIds, Untried(k)' PROVE debits[k] = 0
    <3>1. CASE k = m
      BY <2>1, <2>2, <2>3, <3>1 DEF Untried
    <3>2. CASE k # m
      BY <1>0, <2>1, <2>3, <3>2 DEF Untried, DebitInv
    <3> QED
      BY <3>1, <3>2
  <2>4. ASSUME NEW v \in Workers, Undebited(v)' PROVE debits[work'[v].msg] = 0
    BY <1>0, <2>1, <2>4 DEF Undebited, Busy, DebitInv
  <2> QED
    BY <2>1, <2>3, <2>4 DEF DebitInv, DebitedOnce
<1> QED
  BY <1>1, <1>2, <1>3, HandlerMoves

\* A message is debited at most once: as long as no handler is stopped or
\* doubled and the balance check tells the truth, whatever else fails and
\* however often the message is delivered.
THEOREM MessagesAreDebitedOnce ==
    ASSUME UndisturbedHandlers, ~MayFail("usage")
    PROVE  Spec => []DebitedOnce
<1>1. Init => DebitInv
  BY DEF Init, WorkerInit, DebitInv, DebitedOnce, Undebited, Busy, IdleWorker
<1>2. TypeOK /\ HandlerInv /\ DebitInv /\ [Next]_vars => DebitInv'
  <2> SUFFICES ASSUME TypeOK, HandlerInv, DebitInv, [Next]_vars PROVE DebitInv'
    OBVIOUS
  <2>1. CASE Worker
    BY <2>1, DebitStep DEF Worker, WorkerNext, WorkerStep
  <2>2. CASE Grant \/ Consumer \/ UNCHANGED vars
    <3>1. UNCHANGED <<work, acked, debits>>
      BY <2>2 DEF Grant, Consumer, vars, workerVars
    <3> QED
      BY <3>1 DEF DebitInv, DebitedOnce, Untried, Undebited, Busy
  <2> QED
    BY <2>1, <2>2 DEF Next
<1>3. DebitInv => DebitedOnce
  BY DEF DebitInv
<1> QED
  BY <1>1, <1>2, <1>3, OneHandler, TypeCorrect, PTL DEF Spec

-----------------------------------------------------------------------------
(* What a step of a consumer amounts to. *)

\* The steps at which a consumer stands for the entry it inserted.
HoldingPcs == {"rules", "old", "loan", "unpaid", "backfill", "skip", "publish", "cleanup"}

\* It has no event, or has not looked for an entry; with an entry of its own
\* it comes to that only if it stops or a deletion fails.
Rests(c) == /\ cons'[c].pc \in {"idle", "check"}
            /\ cons[c].pc \in HoldingPcs => MayFail("consumerCrash") \/ MayFail("mongo")
            /\ UNCHANGED <<inProgress, topic>>

\* It has found no entry.
Finds(c) == /\ cons[c].pc = "check" /\ cons'[c].pc = "create"
            /\ inProgress[cons'[c].sub] = 0
            /\ UNCHANGED <<inProgress, topic>>

\* It inserts one, though it may not learn of it.
Inserts(c) ==
    /\ cons[c].pc = "create" /\ topic' = topic
    /\ \/ /\ MayFail("mongo") /\ cons'[c].pc = "idle"
          /\ inProgress' = inProgress \/ AddEntry(cons[c].sub)
       \/ cons'[c].pc = "rules" /\ cons'[c].sub = cons[c].sub /\ AddEntry(cons[c].sub)

\* It works on the subscriber.
Proceeds(c) ==
    /\ cons[c].pc \in HoldingPcs \ {"cleanup"} /\ cons'[c].pc \in HoldingPcs
    /\ cons'[c].sub = cons[c].sub
    /\ UNCHANGED <<inProgress, topic>>

\* It deletes the entry.
Deletes(c) ==
    /\ cons[c].pc \in {"skip", "cleanup"} /\ topic' = topic
    /\ RemoveEntry(cons[c].sub)
    /\ cons'[c].pc = "idle" \/ (cons'[c].pc = "cleanup" /\ cons'[c].sub = cons[c].sub)

\* It hands the subscriber on to the worker.
Sends(c) ==
    /\ cons[c].pc = "publish" /\ cons'[c].pc = "idle"
    /\ topic' = Append(topic, Snapshot(c)) /\ inProgress' = inProgress

\* The three ways a consumer's state is replaced.
LEMMA ConsumerMoveFacts ==
    ASSUME ConsumerTypeOK, NEW c \in Consumers, NEW pc
    PROVE  /\ Goto(c, pc) => cons'[c] = [cons[c] EXCEPT !.pc = pc]
           /\ Goto(c, pc) => cons'[c].pc = pc /\ cons'[c].sub = cons[c].sub
           /\ Finish(c) => cons'[c].pc = "idle"
<1>1. cons[c] \in ConsumerState /\ cons \in [Consumers -> ConsumerState]
  BY DEF ConsumerTypeOK
<1>2. CASE Goto(c, pc)
  <2>1. cons' = [cons EXCEPT ![c] = [cons[c] EXCEPT !.pc = pc]]
    BY <1>2, Zenon DEF Goto
  <2>2. cons'[c] = [cons[c] EXCEPT !.pc = pc]
    BY <1>1, <2>1
  <2>3. cons'[c].pc = pc /\ cons'[c].sub = cons[c].sub
    BY <1>1, <2>2 DEF ConsumerState
  <2>4. ~Finish(c) \/ pc = "idle"
    <3>1. Finish(c) => cons'[c].pc = "idle"
      BY <1>1 DEF Finish, IdleConsumer
    <3> QED
      BY <2>3, <3>1
  <2> QED
    BY <2>2, <2>3, <2>4
<1>3. CASE ~Goto(c, pc)
  BY <1>1, <1>3 DEF Finish, IdleConsumer
<1> QED
  BY <1>2, <1>3

\* What follows from the unpaid amount: publish or skip, nothing else.
LEMMA DecideFacts ==
    ASSUME ConsumerTypeOK, NEW c \in Consumers, NEW u, NEW v, Decide(c, u, v)
    PROVE  /\ cons'[c].pc \in {"publish", "skip"} /\ cons'[c].sub = cons[c].sub
           /\ cons'[c].loan = cons[c].loan /\ cons'[c].unpaid = u /\ cons'[c].version = v
           /\ cons'[c].pesos = PesosOf(cons[c].allowance, u)
           /\ cons'[c].kind = IF IsFull(cons[c].allowance, u) THEN "Full" ELSE "Partial"
           /\ cons'[c].pc = "publish" =>
                 IsFull(cons[c].allowance, u) \/ IsPartial(cons[c].allowance, u)
<1> DEFINE a     == cons[c].allowance
           pc    == IF IsFull(a, u) \/ IsPartial(a, u) THEN "publish" ELSE "skip"
           kind  == IF IsFull(a, u) THEN "Full" ELSE "Partial"
           pesos == PesosOf(a, u)
           q     == [cons[c] EXCEPT !.pc = pc, !.unpaid = u, !.version = v, !.kind = kind,
                                    !.pesos = pesos]
<1>1. cons[c] \in ConsumerState /\ cons \in [Consumers -> ConsumerState]
  BY DEF ConsumerTypeOK
<1>2. cons' = [cons EXCEPT ![c] = q]
  BY Zenon DEF Decide
<1>3. pc \in {"publish", "skip"} /\ (pc = "publish" => IsFull(a, u) \/ IsPartial(a, u))
  OBVIOUS
<1> HIDE DEF pc, kind, pesos
<1>4. /\ cons'[c].pc = pc /\ cons'[c].sub = cons[c].sub /\ cons'[c].loan = cons[c].loan
      /\ cons'[c].unpaid = u /\ cons'[c].version = v
      /\ cons'[c].kind = kind /\ cons'[c].pesos = pesos
  BY <1>1, <1>2 DEF ConsumerState
<1> QED
  BY <1>3, <1>4 DEF kind, pesos

\* Reading a document into the consumer's state moves it on as well.
LEMMA HoldFacts ==
    ASSUME ConsumerTypeOK, NEW c \in Consumers, NEW pc, NEW l, NEW u,
           cons' = [cons EXCEPT ![c] = [cons[c] EXCEPT !.pc = pc, !.loan = l, !.unpaid = u]]
    PROVE  /\ cons'[c].pc = pc /\ cons'[c].sub = cons[c].sub
           /\ cons'[c].loan = l /\ cons'[c].unpaid = u
<1>1. cons[c] \in ConsumerState /\ cons \in [Consumers -> ConsumerState]
  BY DEF ConsumerTypeOK
<1> QED
  BY <1>1 DEF ConsumerState

\* What a lookup that found the loan leaves of its consumer.
LEMMA FoundFacts ==
    ASSUME ConsumerTypeOK, NEW c \in Consumers, NEW u, NEW v,
           cons' = [cons EXCEPT ![c] =
                       [cons[c] EXCEPT !.pc = "backfill", !.unpaid = u, !.version = v]]
    PROVE  /\ cons'[c].pc = "backfill" /\ cons'[c].sub = cons[c].sub
           /\ cons'[c].loan = cons[c].loan /\ cons'[c].unpaid = u /\ cons'[c].version = v
<1>1. cons[c] \in ConsumerState /\ cons \in [Consumers -> ConsumerState]
  BY DEF ConsumerTypeOK
<1> QED
  BY <1>1 DEF ConsumerState

\* Every step of a consumer is one of the six, as long as the publisher reports
\* no error.
LEMMA ConsumerMoves ==
    ASSUME ReliablePublisher, TypeOK, NEW c \in Consumers, ConsumerStep(c)
    PROVE  \/ Rests(c) \/ Finds(c) \/ Inserts(c) \/ Proceeds(c) \/ Deletes(c) \/ Sends(c)
<1>0. ConsumerTypeOK
  BY DEF TypeOK
<1>1. CASE TakeEvent(c)
  <2>1. PICK s \in Subscribers, a \in Allowances :
           cons' = [cons EXCEPT ![c] =
                       [cons[c] EXCEPT !.pc = "check", !.sub = s, !.allowance = a]]
    BY <1>1, Zenon DEF TakeEvent
  <2>2. cons'[c].pc = "check"
    BY <1>0, <2>1 DEF ConsumerTypeOK, ConsumerState
  <2> QED
    BY <1>1, <2>2 DEF TakeEvent, At, Rests, HoldingPcs, storeVars
<1>2. CASE SkipEvent(c) \/ ConsumerCrash(c)
  BY <1>0, <1>2, ConsumerMoveFacts DEF SkipEvent, ConsumerCrash, At, Rests, HoldingPcs,
     storeVars
<1>3. CASE CheckEntry(c)
  <2>1. cons[c].pc = "check" /\ UNCHANGED <<inProgress, topic>>
    BY <1>3 DEF CheckEntry, At, storeVars
  <2>2. CASE EntryExists(cons[c].sub)
    BY <1>0, <1>3, <2>1, <2>2, ConsumerMoveFacts DEF CheckEntry, Rests, HoldingPcs
  <2>3. CASE ~EntryExists(cons[c].sub)
    <3>1. cons'[c].pc = "create" /\ cons'[c].sub = cons[c].sub
      BY <1>0, <1>3, <2>3, ConsumerMoveFacts DEF CheckEntry
    <3>2. inProgress[cons[c].sub] = 0
      <4>1. cons[c].sub \in Subscribers
        BY <1>3 DEF CheckEntry, At, TypeOK, ConsumerTypeOK
      <4>2. inProgress[cons[c].sub] \in Nat
        BY <4>1 DEF TypeOK, StoreTypeOK
      <4> QED
        BY <2>3, <4>2 DEF EntryExists
    <3> QED
      BY <2>1, <3>1, <3>2 DEF Finds
  <2> QED
    BY <2>2, <2>3
<1>4. CASE CreateEntry(c)
  <2>1. /\ cons[c].pc = "create" /\ topic' = topic
        /\ \/ AddEntry(cons[c].sub) /\ Goto(c, "rules")
           \/ /\ MayFail("mongo") /\ Finish(c)
              /\ AddEntry(cons[c].sub) \/ inProgress' = inProgress
    BY <1>4 DEF CreateEntry, MaybeAddEntry, At
  <2> QED
    BY <1>0, <2>1, ConsumerMoveFacts DEF Inserts
<1>a. ASSUME cons[c].pc \in HoldingPcs \ {"cleanup"}, UNCHANGED <<inProgress, topic>>,
             cons'[c].pc \in HoldingPcs, cons'[c].sub = cons[c].sub
      PROVE  Proceeds(c)
  BY <1>a DEF Proceeds
<1>5. CASE EvaluateRules(c) \/ ReadLoan(c)
  <2> DEFINE l == active[cons[c].sub]
             Hold(pc) == cons' = [cons EXCEPT ![c] =
                [cons[c] EXCEPT !.pc = pc, !.loan = l, !.unpaid = balance[l]]]
  <2>1. cons[c].pc \in HoldingPcs \ {"cleanup"} /\ UNCHANGED <<inProgress, topic>>
    BY <1>5 DEF EvaluateRules, ReadLoan, At, HoldingPcs, storeVars
  <2>2. Goto(c, "cleanup") \/ Goto(c, "loan") \/ Hold("old") \/ Hold("unpaid")
    BY <1>5, Zenon DEF EvaluateRules, ReadLoan
  <2>3. cons'[c].sub = cons[c].sub /\ cons'[c].pc \in {"cleanup", "loan", "old", "unpaid"}
    <3>1. ASSUME NEW pc, Hold(pc) PROVE cons'[c].sub = cons[c].sub /\ cons'[c].pc = pc
      <4> HIDE DEF l
      <4> QED
        BY <1>0, <3>1, HoldFacts
    <3> HIDE DEF Hold
    <3> QED
      BY <1>0, <2>2, <3>1, ConsumerMoveFacts
  <2> QED
    BY <2>1, <2>3, <1>a DEF HoldingPcs
<1>6. CASE UpdateOldLoan(c)
  <2>1. /\ cons[c].pc = "old" /\ UNCHANGED <<inProgress, topic>>
        /\ Goto(c, "cleanup") \/ Goto(c, "loan")
    BY <1>6 DEF UpdateOldLoan, At
  <2> QED
    BY <1>0, <2>1, <1>a, ConsumerMoveFacts DEF HoldingPcs
<1>7. CASE ReadUnpaid(c) \/ BackfillUnpaid(c)
  <2>1. /\ cons[c].pc \in {"unpaid", "backfill"} /\ UNCHANGED <<inProgress, topic>>
        /\ Goto(c, "cleanup") \/ \E u, v : Decide(c, u, v)
    BY <1>7 DEF ReadUnpaid, BackfillUnpaid, At, storeVars
  <2>2. cons'[c].sub = cons[c].sub /\ cons'[c].pc \in {"cleanup", "publish", "skip"}
    BY <1>0, <2>1, ConsumerMoveFacts, DecideFacts
  <2> QED
    BY <2>1, <2>2, <1>a DEF HoldingPcs
<1>8. CASE FindUnpaid(c)
  <2>1. cons[c].pc = "unpaid" /\ UNCHANGED <<inProgress, topic>>
    BY <1>8 DEF FindUnpaid, At, storeVars
  <2>2. \/ Goto(c, "cleanup")
        \/ \E x \in OpenDocs(cons[c].loan) : cons' = [cons EXCEPT ![c] =
              [cons[c] EXCEPT !.pc = "backfill", !.unpaid = x.amount, !.version = x.version]]
    BY <1>8, Zenon DEF FindUnpaid
  <2>3. cons'[c].sub = cons[c].sub /\ cons'[c].pc \in {"cleanup", "backfill"}
    <3>1. ASSUME NEW u, NEW v, cons' = [cons EXCEPT ![c] =
                    [cons[c] EXCEPT !.pc = "backfill", !.unpaid = u, !.version = v]]
          PROVE  cons'[c].sub = cons[c].sub /\ cons'[c].pc = "backfill"
      BY <1>0, <3>1, FoundFacts
    <3>2. CASE Goto(c, "cleanup")
      BY <1>0, <3>2, ConsumerMoveFacts
    <3> QED
      BY <2>2, <3>1, <3>2
  <2> QED
    BY <2>1, <2>3, <1>a DEF HoldingPcs
<1>9. CASE SkipCollection(c)
  <2>1. /\ cons[c].pc = "skip" /\ topic' = topic
        /\ \/ RemoveEntry(cons[c].sub) /\ (Finish(c) \/ Goto(c, "cleanup"))
           \/ inProgress' = inProgress /\ Goto(c, "cleanup")
    BY <1>9 DEF SkipCollection, MaybeRemoveEntry, At
  <2> QED
    BY <1>0, <2>1, <1>a, ConsumerMoveFacts DEF Deletes, HoldingPcs
<1>10. CASE Cleanup(c)
  <2>1. /\ cons[c].pc = "cleanup" /\ topic' = topic /\ Finish(c)
        /\ RemoveEntry(cons[c].sub) \/ (MayFail("mongo") /\ inProgress' = inProgress)
    BY <1>10 DEF Cleanup, MaybeRemoveEntry, At
  <2> QED
    BY <1>0, <2>1, ConsumerMoveFacts DEF Deletes, Rests
<1>11. CASE PublishMessage(c)
  <2>1. /\ cons[c].pc = "publish" /\ inProgress' = inProgress
        /\ topic' = Append(topic, Snapshot(c)) /\ Finish(c)
    BY <1>11 DEF PublishMessage, At, ReliablePublisher
  <2> QED
    BY <1>0, <2>1, ConsumerMoveFacts DEF Sends
<1> QED
  BY <1>1, <1>2, <1>3, <1>4, <1>5, <1>6, <1>7, <1>8, <1>9, <1>10, <1>11
  DEF ConsumerStep, Proceed

-----------------------------------------------------------------------------
(* SingleFlight. *)

\* The inductive invariant: an entry that was not found is still not there
\* when the consumer inserts its own.
CreateInv == \A c \in Consumers : cons[c].pc = "create" => inProgress[cons[c].sub] = 0
FlightInv == SingleFlight /\ CreateInv

\* After the entry is deleted a handler only finishes, and a finishing one
\* stays so.
LEMMA FinishingFollows ==
    ASSUME UndisturbedHandlers, TypeOK, HandlerInv, NEW w \in Workers, Advances(w),
           Finishing(w) \/ work[w].pc = "release"
    PROVE  Finishing(w)'
<1>1. PlaceOK(work[w].pc, work[w].mode)
  BY DEF HandlerInv
<1>2. NextPlace(work[w].pc, work[w].mode, work'[w].pc, work'[w].mode)
  BY DEF Advances
<1>3. work[w].pc # "ack"
  BY <1>2 DEF NextPlace
<1>4. CASE work[w].pc = "flag"
  BY <1>2, <1>4 DEF Finishing, NextPlace, AfterFlag
<1>5. CASE work[w].pc = "report"
  BY <1>2, <1>5 DEF Finishing, NextPlace, AfterReport
<1>6. CASE work[w].pc = "release"
  BY <1>1, <1>2, <1>6 DEF Finishing, NextPlace, PlaceOK, AfterRelease
<1> QED
  BY <1>3, <1>4, <1>5, <1>6 DEF Finishing

\* A handler makes no message live, and the one it releases is live no more.
LEMMA LiveShrinks ==
    ASSUME UndisturbedHandlers, TypeOK, HandlerInv, NEW w \in Workers, WorkerStep(w),
           NEW n, NEW s, Live(n, s)'
    PROVE  Live(n, s) /\ ~(Advances(w) /\ work[w].pc = "release" /\ work[w].msg = n)
<1>0. topic' = topic /\ \A v \in Workers \ {w} : work'[v] = work[v]
  BY WorkerFrame, HandlerMoves
<1>1. acked \subseteq acked'
  BY HandlerMoves DEF Starts, Advances, Ends
<1>2. ASSUME Advances(w), Finishing(w) \/ work[w].pc = "release" PROVE work[w].msg # n
  BY <1>2, FinishingFollows DEF Advances, Live
<1>3. ASSUME NEW v \in Workers, work[v].msg = n, Finishing(v) PROVE FALSE
  <2>1. v = w
    BY <1>0, <1>3 DEF Live, Finishing
  <2>2. CASE \E m \in MsgIds : Starts(w, m)
    BY <1>3, <2>1, <2>2 DEF Starts, Busy, Finishing
  <2>3. CASE Ends(w)
    BY <1>3, <2>1, <2>3 DEF Ends, Finishing, Live
  <2> QED
    BY <1>2, <1>3, <2>1, <2>2, <2>3, HandlerMoves
<1> QED
  BY <1>0, <1>1, <1>2, <1>3 DEF Live

\* A handler that holds a message and is not finishing holds a live one.
LEMMA BusyIsLive ==
    ASSUME TypeOK, HandlerInv, NEW w \in Workers, Busy(w), ~Finishing(w)
    PROVE  /\ work[w].msg \in MsgIds /\ Msg(w).sub \in Subscribers
           /\ Live(work[w].msg, Msg(w).sub)
<1>1. work[w].msg \in 1..Len(topic) /\ topic \in Seq(Message)
  BY DEF TypeOK, StoreTypeOK, WorkerTypeOK
<1>2. topic[work[w].msg] \in Message /\ work[w].msg \in MsgIds
  BY <1>1, StoreAssumption DEF TypeOK, StoreTypeOK, MsgIds
<1> QED
  BY <1>1, <1>2 DEF HandlerInv, Live, Msg, Message

\* A handler's step keeps the lock: the only entry it deletes is its own.
LEMMA FlightWorkerStep ==
    ASSUME UndisturbedHandlers, TypeOK, HandlerInv, FlightInv,
           NEW w \in Workers, WorkerStep(w), cons' = cons
    PROVE  FlightInv'
<1>1. \A s \in Subscribers, n \in MsgIds : Live(n, s)' => Live(n, s)
  BY LiveShrinks
<1>2. CASE inProgress' = inProgress
  BY <1>1, <1>2 DEF FlightInv, SingleFlight, CreateInv, Holds
<1>3. CASE Advances(w) /\ work[w].pc = "release" /\ RemoveEntry(Msg(w).sub)
  <2>1. PICK m \in MsgIds, t \in Subscribers :
           m = work[w].msg /\ t = Msg(w).sub /\ Live(m, t)
    <3>1. ~Finishing(w) /\ Busy(w)
      BY <1>3 DEF Finishing, Busy
    <3> QED
      BY <3>1, BusyIsLive
  <2>2. inProgress[t] = 1 /\ \A n \in MsgIds : Live(n, t) => n = m
    BY <2>1 DEF FlightInv, SingleFlight
  <2>3. \A c \in Consumers : ~Holds(c, t)
    BY <2>1 DEF FlightInv, SingleFlight
  <2>4. inProgress' = [inProgress EXCEPT ![t] = 0]
    BY <1>3, <2>1, <2>2 DEF RemoveEntry
  <2>5. \A n \in MsgIds : ~Live(n, t)'
    <3>1. ~Live(m, t)'
      BY <1>3, <2>1, LiveShrinks
    <3> QED
      BY <1>1, <2>1, <2>2, <3>1
  <2>6. inProgress'[t] = 0 /\ \A s \in Subscribers : s # t => inProgress'[s] = inProgress[s]
    BY <2>1, <2>4 DEF TypeOK, StoreTypeOK
  <2>7. CreateInv'
    <3> SUFFICES ASSUME NEW c \in Consumers, cons[c].pc = "create"
                 PROVE  inProgress'[cons[c].sub] = 0
      BY DEF CreateInv
    <3>1. cons[c].sub \in Subscribers /\ inProgress[cons[c].sub] = 0
      BY DEF FlightInv, CreateInv, TypeOK, ConsumerTypeOK
    <3> QED
      BY <2>6, <3>1
  <2>8. SingleFlight'
    <3> SUFFICES ASSUME NEW s \in Subscribers
                 PROVE  /\ inProgress'[s] <= 1
                        /\ \A c \in Consumers : Holds(c, s) =>
                              /\ cons[c].pc # "cleanup" => inProgress'[s] = 1
                              /\ \A d \in Consumers : Holds(d, s) => d = c
                              /\ \A n \in MsgIds : ~Live(n, s)'
                        /\ \A n \in MsgIds : Live(n, s)' =>
                              /\ inProgress'[s] = 1
                              /\ \A k \in MsgIds : Live(k, s)' => k = n
      BY DEF SingleFlight, Holds
    <3>1. CASE s = t
      BY <2>3, <2>5, <2>6, <3>1
    <3>2. CASE s # t
      BY <1>1, <2>6, <3>2 DEF FlightInv, SingleFlight
    <3> QED
      BY <3>1, <3>2
  <2> QED
    BY <2>7, <2>8 DEF FlightInv
<1> QED
  BY <1>2, <1>3, HandlerMoves DEF Starts, Advances, Ends

\* What becomes live when only a consumer moves: the message it sends.
LEMMA LiveFollows ==
    ASSUME TypeOK, UNCHANGED <<acked, work>>, NEW n, NEW s, Live(n, s)',
           NEW c \in Consumers, topic' = topic \/ topic' = Append(topic, Snapshot(c))
    PROVE  \/ Live(n, s)
           \/ topic' # topic /\ n = Len(topic) + 1 /\ s = cons[c].sub
<1>1. CASE topic' = topic
  BY <1>1 DEF Live, Finishing
<1>2. CASE topic' = Append(topic, Snapshot(c)) /\ topic' # topic
  <2> DEFINE e == Snapshot(c)
  <2>1. topic \in Seq(Message) /\ e.sub = cons[c].sub
    BY DEF TypeOK, StoreTypeOK, Snapshot
  <2> HIDE DEF e
  <2>2. /\ Len(topic) \in Nat /\ DOMAIN topic' = 1..Len(topic) + 1 /\ DOMAIN topic = 1..Len(topic)
        /\ topic'[Len(topic) + 1] = e
        /\ \A i \in 1..Len(topic) : topic'[i] = topic[i]
    BY <1>2, <2>1 DEF e
  <2>3. n \in DOMAIN topic' /\ topic'[n].sub = s /\ n \notin acked
        /\ ~\E w \in Workers : work[w].msg = n /\ Finishing(w)
    BY DEF Live, Finishing
  <2>4. CASE n = Len(topic) + 1
    BY <1>2, <2>1, <2>2, <2>3, <2>4
  <2>5. CASE n # Len(topic) + 1
    <3>1. n \in DOMAIN topic /\ topic[n] = topic'[n]
      BY <2>2, <2>3, <2>5
    <3> QED
      BY <2>3, <3>1 DEF Live
  <2> QED
    BY <2>4, <2>5
<1> QED
  BY <1>1, <1>2

\* A consumer alone in the world keeps the lock.
LEMMA FlightConsumerStep ==
    ASSUME SingleConsumer, ReliablePublisher, TypeOK, FlightInv, UNCHANGED <<acked, work>>,
           NEW c \in Consumers, ConsumerStep(c)
    PROVE  FlightInv'
<1>0. \A d \in Consumers : d = c
  BY DEF SingleConsumer
<1>1. inProgress \in [Subscribers -> Nat] /\ (cons[c].pc # "idle" => cons[c].sub \in Subscribers)
  BY DEF TypeOK, StoreTypeOK, ConsumerTypeOK
<1>2. \A s \in Subscribers :
         /\ inProgress[s] <= 1
         /\ Holds(c, s) => /\ cons[c].pc # "cleanup" => inProgress[s] = 1
                           /\ \A m \in MsgIds : ~Live(m, s)
         /\ \A m \in MsgIds : Live(m, s) => inProgress[s] = 1 /\ \A n \in MsgIds : Live(n, s) => n = m
  BY DEF FlightInv, SingleFlight
<1>a. ASSUME \A s \in Subscribers :
                /\ inProgress'[s] <= 1
                /\ Holds(c, s)' => /\ cons'[c].pc # "cleanup" => inProgress'[s] = 1
                                   /\ \A m \in MsgIds : ~Live(m, s)'
                /\ \A m \in MsgIds : Live(m, s)' => /\ inProgress'[s] = 1
                                                    /\ \A n \in MsgIds : Live(n, s)' => n = m,
             cons'[c].pc = "create" => inProgress'[cons'[c].sub] = 0
      PROVE  FlightInv'
  BY <1>0, <1>a DEF FlightInv, SingleFlight, CreateInv
<1>b. ASSUME topic' = topic PROVE \A s \in Subscribers, m \in MsgIds : Live(m, s)' => Live(m, s)
  BY <1>b, LiveFollows
<1>3. CASE Rests(c)
  BY <1>2, <1>3, <1>a, <1>b DEF Rests, Holds
<1>4. CASE Finds(c)
  BY <1>2, <1>4, <1>a, <1>b DEF Finds, Holds
<1>5. CASE Inserts(c)
  <2>1. PICK t \in Subscribers : t = cons[c].sub
    BY <1>1, <1>5 DEF Inserts
  <2>2. inProgress[t] = 0 /\ \A m \in MsgIds : ~Live(m, t)
    BY <1>2, <1>5, <2>1 DEF Inserts, FlightInv, CreateInv
  <2>3. /\ \A s \in Subscribers : s # t => inProgress'[s] = inProgress[s]
        /\ inProgress'[t] \in {0, 1}
        /\ cons'[c].pc = "rules" => inProgress'[t] = 1 /\ cons'[c].sub = t
        /\ cons'[c].pc \in {"idle", "rules"} /\ topic' = topic
    BY <1>1, <1>5, <2>1, <2>2 DEF Inserts, AddEntry
  <2>4. \A s \in Subscribers : Holds(c, s)' => s = t /\ inProgress'[s] = 1
    BY <2>3 DEF Holds
  <2> QED
    BY <1>2, <1>a, <1>b, <2>2, <2>3, <2>4
<1>6. CASE Proceeds(c)
  <2>1. \A s \in Subscribers : Holds(c, s)' => Holds(c, s)
    BY <1>6 DEF Proceeds, Holds, HoldingPcs
  <2>2. /\ cons[c].pc # "cleanup" /\ cons'[c].pc # "create"
        /\ UNCHANGED <<inProgress, topic>>
    BY <1>6 DEF Proceeds, HoldingPcs
  <2> QED
    BY <1>2, <1>a, <1>b, <2>1, <2>2
<1>7. CASE Deletes(c)
  <2>1. PICK t \in Subscribers : t = cons[c].sub
    BY <1>1, <1>7 DEF Deletes
  <2>2. inProgress[t] <= 1 /\ \A m \in MsgIds : ~Live(m, t)
    BY <1>2, <1>7, <2>1 DEF Deletes, Holds
  <2>3. /\ \A s \in Subscribers : s # t => inProgress'[s] = inProgress[s]
        /\ inProgress'[t] <= 1 /\ topic' = topic
        /\ cons'[c].pc \in {"idle", "cleanup"}
        /\ cons'[c].pc = "cleanup" => cons'[c].sub = t
    BY <1>1, <1>7, <2>1, <2>2 DEF Deletes, RemoveEntry
  <2>4. \A s \in Subscribers : Holds(c, s)' => s = t /\ cons'[c].pc = "cleanup"
    BY <2>3 DEF Holds
  <2> QED
    BY <1>2, <1>a, <1>b, <2>2, <2>3, <2>4
<1>8. CASE Sends(c)
  <2>1. PICK t \in Subscribers : t = cons[c].sub
    BY <1>1, <1>8 DEF Sends
  <2>2. inProgress[t] = 1 /\ \A m \in MsgIds : ~Live(m, t)
    BY <1>2, <1>8, <2>1 DEF Sends, Holds
  <2>3. /\ inProgress' = inProgress /\ cons'[c].pc = "idle"
        /\ topic' = Append(topic, Snapshot(c))
    BY <1>8 DEF Sends
  <2>4. \A s \in Subscribers, m \in MsgIds :
           Live(m, s)' => Live(m, s) \/ (m = Len(topic) + 1 /\ s = t)
    BY <2>1, <2>3, LiveFollows
  <2> QED
    BY <1>2, <1>a, <2>2, <2>3, <2>4 DEF Holds
<1> QED
  BY <1>3, <1>4, <1>5, <1>6, <1>7, <1>8, ConsumerMoves

\* The lock is kept from the first state on.
LEMMA FlightIsInvariant ==
    ASSUME SingleConsumer, ReliablePublisher, UndisturbedHandlers
    PROVE  Spec => []FlightInv
<1>1. Init => FlightInv
  BY DEF Init, StoreInit, ConsumerInit, FlightInv, SingleFlight, CreateInv, Holds, Live,
     IdleConsumer
<1>2. TypeOK /\ HandlerInv /\ FlightInv /\ [Next]_vars => FlightInv'
  <2> SUFFICES ASSUME TypeOK, HandlerInv, FlightInv, [Next]_vars PROVE FlightInv'
    OBVIOUS
  <2>1. CASE Worker
    BY <2>1, FlightWorkerStep DEF Worker, WorkerNext, WorkerStep, consumerVars
  <2>2. CASE Consumer
    BY <2>2, FlightConsumerStep DEF Consumer, ConsumerNext, ConsumerStep, workerVars
  <2>3. CASE Grant \/ UNCHANGED vars
    <3>1. UNCHANGED <<inProgress, cons, topic, acked, work>>
      BY <2>3 DEF Grant, AvailLoan, vars, storeVars, consumerVars, workerVars
    <3> QED
      BY <3>1 DEF FlightInv, SingleFlight, CreateInv, Holds, Live, Finishing
  <2> QED
    BY <2>1, <2>2, <2>3 DEF Next
<1> QED
  BY <1>1, <1>2, OneHandler, TypeCorrect, PTL DEF Spec

\* The unowned entry is a lock: with one consumer, a publisher that reports
\* truthfully and handlers that run to their end, at most one consumer or
\* message works on a subscriber at any time and one entry stands for it,
\* although MongoDB, Kafka and the bucket may fail, the wallet may answer
\* anything and the consumer may stop anywhere.
THEOREM EntryIsALock ==
    ASSUME SingleConsumer, ReliablePublisher, UndisturbedHandlers
    PROVE  Spec => []SingleFlight
<1>1. FlightInv => SingleFlight
  BY DEF FlightInv
<1> QED
  BY <1>1, FlightIsInvariant, PTL
=============================================================================
