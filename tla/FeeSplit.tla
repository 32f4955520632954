------------------------------ MODULE FeeSplit ------------------------------
(***************************************************************************)
(* How the worker splits what it collects of one loan into service fee and *)
(* loan.  The fee comes first: the unpaid balance document says how much   *)
(* of it is left, the message carries that to the worker, the worker       *)
(* computes the collection it stores, the outcome it publishes to Kafka    *)
(* and the fee of the next document, each on its own.  Dues are whole   *)
(* pesos: a partial collection is rounded down to them.                    *)
(***************************************************************************)
EXTENDS Integers

CONSTANTS
    MaxTotal,   \* bound: what a loan amounts to, fee included
    FeeTroubles \* mongo: a read fails; wallet: a debit fails; crash: the
                \* worker dies after the transaction, and gets the message again

ASSUME FeeAssumption ==
    /\ MaxTotal \in Nat \ {0}
    /\ FeeTroubles \subseteq {"mongo", "wallet", "crash"}

VARIABLES
    debt,   \* total, fee, and what is unpaid of the total
    feeDoc, \* unpaidServiceFee of the latest unpaid balance document
    msg,    \* the message the worker has
    stored, \* the last document of Collections
    sent,   \* the last message to Kafka
    parts,  \* partial collections that were stored
    blind   \* a message was built without the unpaid balance document

feeVars == <<debt, feeDoc, msg, stored, sent, parts, blind>>

Dues == 0 .. MaxTotal
NoMsg   == [type |-> "none", amount |-> 0, unpaid |-> 0, fee |-> 0]
NoEntry == [type |-> "none", collected |-> 0, unpaid |-> 0, fee |-> 0, collectedFee |-> 0,
            principal |-> 0]

\* A fee that is left may be negative, see FirstSplitsExact.
MsgState == [type : {"none", "partial", "full"}, amount : Dues, unpaid : Dues, fee : Int]
Entries  == [type : {"none", "partial", "full", "failed"}, collected : Dues,
             unpaid : Dues, fee : Int, collectedFee : Int, principal : Int]

FeeTypeOK ==
    /\ debt \in [total : Dues \ {0}, fee : Dues, unpaid : Dues]
    /\ debt.fee <= debt.total /\ debt.unpaid <= debt.total
    /\ feeDoc \in Int /\ msg \in MsgState /\ stored \in Entries /\ sent \in Entries
    /\ parts \in Nat /\ blind \in BOOLEAN
    /\ msg.type # "none" => msg.amount \in 1 .. msg.unpaid

\* SerializeLoans and SerializeUnpaidLoans.
FeeInit ==
    /\ \E total \in Dues \ {0} : \E fee \in 0 .. total :
          debt = [total |-> total, fee |-> fee, unpaid |-> total]
    /\ feeDoc = debt.fee
    /\ msg = NoMsg /\ stored = NoEntry /\ sent = NoEntry
    /\ parts = 0 /\ blind = FALSE

FeeTrouble(t) == t \in FeeTroubles

\* handleFullCollection, handlePartialOrSkipCollection.
Deductible == 1 .. debt.unpaid

\* buildPubSubMsg: all that is unpaid, or a part; without a document the fee in it
\* is that of an empty one.
Ask ==
    /\ msg = NoMsg /\ debt.unpaid > 0
    /\ \E amount \in Deductible :
       \E fee \in {feeDoc} \cup (IF FeeTrouble("mongo") THEN {0} ELSE {}) :
          /\ msg' = [type   |-> IF amount = debt.unpaid THEN "full" ELSE "partial",
                     amount |-> amount, unpaid |-> debt.unpaid, fee |-> fee]
          /\ blind' = (blind \/ fee # feeDoc)
    /\ UNCHANGED <<debt, feeDoc, stored, sent, parts>>

\* Mutant: what is collected does not go to the fee.
FeeUntouched(m) == m.fee

\* calculateUnpaidServiceFee.
FeeAfter(m) == IF m.amount >= m.fee THEN 0 ELSE m.fee - m.amount

Paid(m) == debt.total - m.unpaid

\* SerializeCollections, and what the handlers of a success set after it.
Partial(m) ==
    [type |-> "partial", collected |-> Paid(m) + m.amount, unpaid |-> m.unpaid - m.amount,
     fee |-> FeeAfter(m), collectedFee |-> debt.fee - FeeAfter(m),
     principal |-> (m.unpaid - m.amount) - FeeAfter(m)]
Full(m) ==
    [type |-> "full", collected |-> Paid(m) + m.amount, unpaid |-> 0,
     fee |-> 0, collectedFee |-> debt.fee, principal |-> 0]
Failure(m) ==
    [type |-> "failed", collected |-> Paid(m), unpaid |-> m.unpaid,
     fee |-> m.fee, collectedFee |-> 0, principal |-> m.unpaid - m.fee]
Entry(m) == IF m.type = "full" THEN Full(m) ELSE Partial(m)

\* Mutant: what was collected before is left out.
SentAlone(m) ==
    [type |-> m.type, collected |-> m.amount, unpaid |-> debt.total - m.amount,
     fee |-> FeeAfter(m), collectedFee |-> debt.fee - FeeAfter(m),
     principal |-> debt.total - m.amount]

\* SerializeKafkaMessage.  The unpaid loan amount it gives includes the fee.
Sent(m) ==
    [type |-> m.type, collected |-> Paid(m) + m.amount,
     unpaid |-> debt.total - (Paid(m) + m.amount),
     fee |-> FeeAfter(m), collectedFee |-> debt.fee - FeeAfter(m),
     principal |-> debt.total - (Paid(m) + m.amount)]
SentFailure(m) ==
    [type |-> "failed", collected |-> Paid(m), unpaid |-> m.unpaid,
     fee |-> m.fee, collectedFee |-> debt.fee - m.fee, principal |-> m.unpaid]

\* Mutant: the amount is taken off the fee as it is.
NextFeeDocPlain(m, entry) == m.fee - m.amount

\* performPartialDataTransaction, performFullDataTransaction: what was left before,
\* less all that was ever collected of the fee.
NextFeeDoc(m, entry) == m.fee - entry.collectedFee

\* The transaction and the message after it; the worker may handle a message again.
Collect ==
    /\ msg # NoMsg
    /\ stored' = Entry(msg) /\ sent' = Sent(msg)
    /\ feeDoc' = NextFeeDoc(msg, Entry(msg))
    /\ debt' = [debt EXCEPT !.unpaid = Entry(msg).unpaid]
    /\ parts' = IF msg.type = "partial" /\ debt.unpaid = msg.unpaid THEN parts + 1 ELSE parts
    /\ msg' = NoMsg \/ (FeeTrouble("crash") /\ UNCHANGED msg)
    /\ UNCHANGED blind

\* DecrementWalletErrorHandler.
Refuse ==
    /\ msg # NoMsg /\ FeeTrouble("wallet")
    /\ stored' = Failure(msg) /\ sent' = SentFailure(msg)
    /\ msg' = NoMsg
    /\ UNCHANGED <<debt, feeDoc, parts, blind>>

FeeNext == Ask \/ Collect \/ Refuse

FeeSpec == FeeInit /\ [][FeeNext]_feeVars

-----------------------------------------------------------------------------
(* Properties.                                                             *)

\* What is left of the fee when everything paid goes to it first.
FeeLeft == IF debt.total - debt.unpaid >= debt.fee THEN 0
           ELSE debt.fee - (debt.total - debt.unpaid)

\* Neither the document, nor a message, nor a collection ever claims more of the
\* fee than is left: not after a failed debit, a message handled twice or a
\* document that could not be read.  (A debit that fails when its message is
\* handled again is stored with the balance from before.)
FeeNotOverstated ==
    /\ feeDoc <= FeeLeft
    /\ msg # NoMsg /\ msg.unpaid = debt.unpaid => msg.fee <= FeeLeft
    /\ stored.type # "none" /\ stored.unpaid = debt.unpaid => stored.fee <= FeeLeft
    /\ sent.type # "none" /\ sent.unpaid = debt.unpaid => sent.fee <= FeeLeft

\* The split is exact for the first two partial collections, and the document
\* after the first.  From then on the document is too low, as it has the whole
\* fee collected so far taken off it each time, and the next splits with it.
FirstSplitsExact ==
    ~blind =>
        /\ parts <= 1 /\ debt.unpaid > 0 => feeDoc = FeeLeft
        /\ parts <= 2 /\ stored.type \in {"partial", "full"} => stored.fee = FeeLeft

\* Collection and Kafka message of a success are computed apart and say the same
\* about amounts and fee, and the collection's loan and fee add up to the unpaid
\* total.  (They disagree about the fee that was collected on a failure, and about
\* the unpaid loan amount.)
ReportsAgree ==
    stored.type \in {"partial", "full"} =>
        /\ sent.type = stored.type /\ sent.collected = stored.collected
        /\ sent.unpaid = stored.unpaid /\ sent.unpaid = debt.unpaid
        /\ sent.fee = stored.fee /\ sent.collectedFee = stored.collectedFee
        /\ stored.principal + stored.fee = stored.unpaid
=============================================================================
