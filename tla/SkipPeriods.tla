---------------------------- MODULE SkipPeriods ----------------------------
(***************************************************************************)
(* The periods in which a loan of one subscriber is not collected: promo   *)
(* education and load period from the day of the loan, grace period after  *)
(* a partial collection.  Three services write one Redis key for them,     *)
(* each another part of it: loan-availment when it grants a loan,          *)
(* promo-collection when it skips one, the worker when it has collected a  *)
(* part.  Only promo-collection reads the key, and for the first two       *)
(* periods also the document of the loan.  The in-progress entry of        *)
(* CollectionPipeline keeps consumer and worker apart; amounts are left    *)
(* out.                                                                    *)
(***************************************************************************)
EXTENDS Naturals

CONSTANTS
    PromoPeriod, LoadPeriod, GracePeriod, \* lengths of the periods
    LoanTypes,   \* of the loans granted: "load" has a load period, "data" none
    MaxLoans,    \* bound: loans granted
    MaxTime,     \* bound: the clock stops here
    Troubles     \* redis, mongo: a call fails; crash: an instance dies

ASSUME SkipAssumption ==
    /\ {PromoPeriod, LoadPeriod, GracePeriod} \subseteq Nat
    /\ LoanTypes \subseteq {"load", "data"}
    /\ MaxLoans \in Nat \ {0} /\ MaxTime \in Nat \ {0}
    /\ Troubles \subseteq {"redis", "mongo", "crash"}

VARIABLES
    now,      \* the time
    loan,     \* document of Loans
    cache,    \* the key skipTimestamps:<msisdn>
    invited,  \* the subscriber is in WhitelistedForDataCollection
    grants,   \* loans granted
    saving,   \* loan-availment has stored the loan and not yet the key
    consumer, \* the handler of the subscriber's event, and the loan it has read
    worker,   \* the worker on the message the handler published
    missed    \* the grace period of the loan did not get to the key, or is gone

skipVars == <<now, loan, cache, invited, grants, saving, consumer, worker, missed>>

\* Time 0 is the zero timestamp; a loan without any is an old one.
Times  == 0 .. (MaxTime + 1 + PromoPeriod + LoadPeriod + GracePeriod)
NoLoan == [id |-> 0, type |-> "none", created |-> 0, promo |-> 0, load |-> 0,
           grace |-> 0, rate |-> FALSE]
Loans  == [id : 0 .. MaxLoans, type : LoanTypes \cup {"none"}, created : Times,
           promo : Times, load : Times, grace : Times, rate : BOOLEAN]

\* What the consumer finds under the key, and when the key expires.
NoKey     == [promo |-> 0, load |-> 0, grace |-> 0, expires |-> 0]
KeyStates == [promo : Times, load : Times, grace : Times, expires : Times]

SkipTypeOK ==
    /\ now \in 1 .. MaxTime /\ loan \in Loans /\ cache \in KeyStates
    /\ invited \in BOOLEAN /\ grants \in 0 .. MaxLoans /\ saving \in BOOLEAN
    /\ consumer \in [at : {"idle", "redis", "purge", "loan", "convert", "uninvite",
                           "save", "notify", "rules", "dead"}, loan : Loans]
    /\ worker \in {"idle", "debit", "grace"}
    /\ missed \in BOOLEAN
    /\ worker # "idle" => consumer.at = "idle" /\ loan # NoLoan

\* A loan from before there were periods, or none.
OldLoan(type) ==
    [NoLoan EXCEPT !.id = 1, !.type = type, !.created = 1]

SkipInit ==
    /\ now = 1 /\ cache = NoKey /\ saving = FALSE /\ worker = "idle" /\ missed = FALSE
    /\ consumer = [at |-> "idle", loan |-> NoLoan]
    /\ \/ loan = NoLoan /\ grants = 0 /\ invited = FALSE
       \/ /\ \E type \in LoanTypes : loan = OldLoan(type)
          /\ grants = 1 /\ invited \in BOOLEAN

Trouble(t) == t \in Troubles
Later(t, u) == IF t > u THEN t ELSE u

-----------------------------------------------------------------------------
(* loan-availment.                                                         *)

LoadEnd(type, start) == IF type = "load" THEN start + LoadPeriod ELSE start

Grant(type) ==
    /\ loan = NoLoan /\ ~saving /\ grants < MaxLoans
    /\ grants' = grants + 1 /\ saving' = TRUE /\ missed' = FALSE
    /\ loan' = [id |-> grants', type |-> type, created |-> now, promo |-> now + PromoPeriod,
                load |-> LoadEnd(type, now), grace |-> 0, rate |-> TRUE]
    /\ UNCHANGED <<now, cache, invited, consumer, worker>>

\* After the commit.  The promo education period goes into a field of another
\* name than the one the consumer reads, so that it finds none.
SaveLoan ==
    /\ saving /\ saving' = FALSE
    /\ \/ cache' = [promo |-> 0, load |-> loan.load, grace |-> 0,
                    expires |-> Later(loan.promo, loan.load)]
       \/ (Trouble("redis") \/ Trouble("crash")) /\ UNCHANGED cache
    /\ UNCHANGED <<now, loan, invited, grants, consumer, worker, missed>>

-----------------------------------------------------------------------------
(* promo-collection.                                                       *)

To(at)      == consumer' = [consumer EXCEPT !.at = at]
Leave       == consumer' = [at |-> "idle", loan |-> NoLoan]
Reads(at)   == consumer' = [at |-> at, loan |-> loan]
OnlyConsumer == UNCHANGED <<now, loan, cache, invited, grants, saving, worker, missed>>

\* A promo event, when no entry of the subscriber is in progress.
Event ==
    /\ consumer.at = "idle" /\ worker = "idle"
    /\ To("redis")
    /\ OnlyConsumer

\* checkRedisForActivePeriod.  An active promo education period is notified, from
\* the loan as it is read then.
CheckKey ==
    /\ consumer.at = "redis"
    /\ \/ cache = NoKey /\ To("loan")
       \/ Trouble("redis") /\ Leave
       \/ /\ now < cache.promo
          /\ Reads("notify") \/ (Trouble("mongo") /\ Leave)
       \/ /\ cache # NoKey /\ now >= cache.promo
          /\ now < cache.load \/ now < cache.grace
          /\ Leave
       \/ /\ cache # NoKey /\ now >= cache.promo /\ now >= cache.load /\ now >= cache.grace
          /\ To("purge")
    /\ OnlyConsumer

\* Whatever is under the key by now.
DeleteKey ==
    /\ consumer.at = "purge"
    /\ \/ /\ cache' = NoKey /\ To("loan")
          /\ UNCHANGED missed
       \/ Trouble("redis") /\ Leave /\ UNCHANGED <<cache, missed>>
    /\ UNCHANGED <<now, loan, invited, grants, saving, worker>>

\* Mutant: the load period of a loan is not looked at.
PromoActive(l) == now <= l.promo

\* IsSkipPeriodActive, which counts the last moment in.  In place of the grace
\* period it is given a field of the loan that nobody sets.
SkipActive(l) == now <= l.promo \/ now <= l.load

\* CheckIfOldOrNewLoan.
IsNew(l) == l.rate \/ l.promo # 0 \/ l.load # 0

\* getActiveLoan and what follows from its document; IsMSISDNWhitelisted for an
\* old loan.
GetLoan ==
    /\ consumer.at = "loan"
    /\ \/ loan = NoLoan /\ Leave
       \/ Trouble("mongo") /\ Leave
       \/ loan # NoLoan /\ IsNew(loan) /\ Reads(IF SkipActive(loan) THEN "save" ELSE "rules")
       \/ loan # NoLoan /\ ~IsNew(loan) /\ (IF invited THEN Reads("convert") ELSE Leave)
    /\ OnlyConsumer

\* Mutant: the promo education period of an old loan is counted from today.
ConvertedToday(l) ==
    [l EXCEPT !.rate = TRUE, !.promo = now + PromoPeriod,
              !.load = IF l.type = "load" THEN l.created + LoadPeriod ELSE 0]

\* processOldLoanForPromoCollection gives the loan its periods from the day of the
\* loan: it is a new one from here on, also when the next call fails.
Converted(l) ==
    [l EXCEPT !.rate = TRUE, !.promo = l.created + PromoPeriod,
              !.load = IF l.type = "load" THEN l.created + LoadPeriod ELSE 0]

Convert ==
    /\ consumer.at = "convert"
    /\ \/ /\ loan' = Converted(consumer.loan)
          /\ consumer' = [at |-> "uninvite", loan |-> Converted(consumer.loan)]
       \/ Trouble("mongo") /\ Leave /\ UNCHANGED loan
    /\ UNCHANGED <<now, cache, invited, grants, saving, worker, missed>>

\* DeleteByMSISDN.
Uninvite ==
    /\ consumer.at = "uninvite"
    /\ \/ invited' = FALSE /\ To(IF SkipActive(consumer.loan) THEN "save" ELSE "rules")
       \/ Trouble("mongo") /\ Leave /\ UNCHANGED invited
    /\ UNCHANGED <<now, loan, cache, grants, saving, worker, missed>>

\* SaveSkipTimestamps, with the periods of a loan; the key lives for a moment at
\* least.
SkipKey(l) ==
    [promo |-> l.promo, load |-> l.load, grace |-> 0,
     expires |-> Later(Later(l.promo, l.load), now + 1)]

\* createSkippingCacheEntry, and the same for an old loan.
SaveKey ==
    /\ consumer.at = "save"
    /\ \/ /\ cache' = SkipKey(consumer.loan)
          /\ IF consumer.loan.promo > now THEN To("notify") ELSE Leave
       \/ Trouble("redis") /\ Leave /\ UNCHANGED cache
    /\ UNCHANGED <<now, loan, invited, grants, saving, worker, missed>>

\* publishEducationNotification: the handler panics without a loan; a failure
\* skips the collection like a notice that was sent.
Notify ==
    /\ consumer.at = "notify"
    /\ IF consumer.loan = NoLoan THEN To("dead") ELSE Leave
    /\ OnlyConsumer

\* CollectionRules: the loan is read once more, written back when its amount is
\* missing, without its promo education period, and a message published, unless
\* there is nothing to collect.
Rules ==
    /\ consumer.at = "rules"
    /\ Leave
    /\ IF loan = NoLoan THEN UNCHANGED <<loan, worker>>
       ELSE /\ UNCHANGED loan \/ loan' = [loan EXCEPT !.promo = 0]
            /\ worker' = "debit" \/ UNCHANGED worker
    /\ UNCHANGED <<now, cache, invited, grants, saving, missed>>

\* Its entry stays behind, and the subscriber's events with it.
ConsumerDies ==
    /\ Trouble("crash") /\ consumer.at \notin {"idle", "dead"}
    /\ To("dead")
    /\ OnlyConsumer

-----------------------------------------------------------------------------
(* promo-collection-worker.                                                *)

\* Nothing is collected, or all, or a part: the transaction sets the grace period
\* in the document, where nobody reads it.
Settle ==
    /\ worker = "debit"
    /\ \/ worker' = "idle" /\ UNCHANGED <<loan, missed>>
       \/ worker' = "idle" /\ loan' = NoLoan /\ missed' = FALSE
       \/ /\ loan # NoLoan
          /\ worker' = "grace" /\ UNCHANGED missed
          /\ loan' = [loan EXCEPT !.grace = now + GracePeriod]
    /\ UNCHANGED <<now, cache, invited, grants, saving, consumer>>

\* insertSkipTimestampsInRedis replaces the key; its error is only logged.  The
\* time is taken once more.
SaveGrace ==
    /\ worker = "grace"
    /\ \/ /\ worker' = "idle" /\ missed' = FALSE
          /\ cache' = [promo |-> 0, load |-> 0, grace |-> now + GracePeriod,
                       expires |-> now + GracePeriod]
       \/ Trouble("redis") /\ worker' = "idle" /\ missed' = TRUE /\ UNCHANGED cache
       \/ Trouble("crash") /\ worker' = "debit" /\ missed' = TRUE /\ UNCHANGED cache
    /\ UNCHANGED <<now, loan, invited, grants, saving, consumer>>

-----------------------------------------------------------------------------
(* Time.                                                                   *)

\* A key that expires goes.  Periods are hours and days: the key of a new loan is
\* stored before the time moves on.
Tick ==
    /\ ~saving /\ now < MaxTime /\ now' = now + 1
    /\ cache' = IF cache.expires <= now' THEN NoKey ELSE cache
    /\ UNCHANGED <<loan, invited, grants, saving, consumer, worker, missed>>

\* Redis loses the key.
Evict ==
    /\ Trouble("redis") /\ cache # NoKey /\ cache' = NoKey
    /\ missed' = (missed \/ now < cache.grace)
    /\ UNCHANGED <<now, loan, invited, grants, saving, consumer, worker>>

Handle == CheckKey \/ DeleteKey \/ GetLoan \/ Convert \/ Uninvite \/ SaveKey \/ Notify \/ Rules
Work   == Settle \/ SaveGrace

SkipNext ==
    \/ \E type \in LoanTypes : Grant(type)
    \/ SaveLoan \/ Event \/ Handle \/ ConsumerDies \/ Work \/ Tick \/ Evict

SkipSpec == SkipInit /\ [][SkipNext]_skipVars

-----------------------------------------------------------------------------
(* Properties.                                                             *)

\* Collection starts only when promo education and load period are over, counted
\* from the day of the loan: whatever the key says, was lost or overwritten, and
\* also for an old loan whose conversion failed on the way.
PeriodsKept ==
    consumer.at = "rules" =>
        /\ loan # NoLoan
        /\ now > loan.created + PromoPeriod
        /\ loan.type = "load" => now > loan.created + LoadPeriod

\* Nor does it start in the grace period after a partial collection, unless Redis
\* never got it or lost it: no other writer takes it out of the key.
GraceKept == consumer.at = "rules" /\ ~missed => now >= loan.grace

\* Both hold of every collection that starts: CheckBusinessLevelRulesForPromoCollection
\* goes on to the rules only past the periods.
SkipsKept == PeriodsKept /\ GraceKept

\* A notice is sent only for a loan that is there, and while the promo education
\* period the key or the document speaks of is its own.
NoticeHasLoan ==
    /\ consumer.at = "notify" => consumer.loan # NoLoan
    /\ cache.promo # 0 => loan # NoLoan /\ cache.promo = loan.created + PromoPeriod
=============================================================================
