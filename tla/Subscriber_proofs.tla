--------------------------- MODULE Subscriber_proofs ---------------------------
(***************************************************************************)
(* Proofs about the parts that stand on their own (WalletCheck, FeeSplit   *)
(* and SkipPeriods), for every value of their constants, and the types of  *)
(* all of them as one instance has them.                                   *)
(***************************************************************************)
EXTENDS MCSubscriber, AvailmentJobs_proofs

(***************************************************************************)
(* What the balance check gets right for every wallet, deduction and unit  *)
(* between 1000 and 1024 KB to the MB.                                     *)
(***************************************************************************)

\* What the wallet held when the event was sent, in KB.
Held == amount * unit

\* The wallet shows every debit, and the collection is not tried again once
\* the check must see one.
WalletInv ==
    /\ unit \in 1000..1024 /\ amount \in Nat /\ deduct \in Nat \ {0}
    /\ deduct <= amount
    /\ volume \in Nat
    /\ state \in States
    /\ \/ debits = 0 /\ volume = Held
       \/ debits = 1 /\ volume + deduct * 1000 = Held
       \/ debits = 2 /\ volume + deduct * 2000 = Held /\ unit # 1000
    /\ state = "debit" => debits = 0
    /\ state = "retry" => debits = 0 \/ (debits = 1 /\ unit # 1000)
    /\ state = "booked" /\ Modest => debits # 0

\* An MB of the event is at most the 1024 KB the check takes it for, and at
\* least the 1000 KB the debit takes it for.
LEMMA HeldBounds ==
    ASSUME WalletInv
    PROVE  /\ Held \in Nat
           /\ amount * 1000 <= Held
           /\ Held <= amount * 1024
           /\ unit = 1000 => Held = amount * 1000
           /\ amount * (1024 - unit) = amount * 1024 - Held
<1>1. unit \in Nat /\ 1000 <= unit /\ unit <= 1024 /\ amount \in Nat  BY DEF WalletInv
<1>2. Held \in Nat  BY <1>1 DEF Held
<1>3. amount * 1000 <= Held  BY <1>1 DEF Held
<1>4. Held <= amount * 1024  BY <1>1 DEF Held
<1>5. amount * (1024 - unit) = amount * 1024 - Held  BY <1>1 DEF Held
<1> QED  BY <1>2, <1>3, <1>4, <1>5 DEF Held

\* A wallet debited twice always looks debited, and one debited once does if
\* it is counted in thousands.
LEMMA SeenInTheEnd ==
    ASSUME WalletInv, ~LooksDebited
    PROVE  debits = 0 \/ (debits = 1 /\ unit # 1000)
  BY HeldBounds DEF WalletInv, LooksDebited

\* A modest wallet that was not debited does not look debited.
LEMMA NotSeenTooEarly ==
    ASSUME WalletInv, LooksDebited, Modest
    PROVE  debits # 0
  BY HeldBounds DEF WalletInv, LooksDebited, Modest

\* The invariant holds of every event.
LEMMA WalletStart == WalletInit => WalletInv
<1> SUFFICES ASSUME WalletInit PROVE WalletInv  OBVIOUS
<1> USE DEF WalletInit
<1>1. /\ unit \in 1000..1024 /\ amount \in Nat /\ deduct \in Nat \ {0}
      BY WalletAssumption
<1>2. volume \in Nat /\ volume = Held  BY <1>1 DEF Held
<1> QED  BY <1>1, <1>2 DEF WalletInv, States

\* A debit that takes place, from a state in which one may be sent.
LEMMA DebitStep ==
    ASSUME WalletInv, state \in {"debit", "retry"}, Debit,
           UNCHANGED <<unit, amount, deduct>>
    PROVE  /\ volume' \in Nat
           /\ \/ debits' = 1 /\ volume' + deduct * 1000 = Held
              \/ debits' = 2 /\ volume' + deduct * 2000 = Held /\ unit # 1000
<1>1. debits = 0 \/ (debits = 1 /\ unit # 1000)  BY DEF WalletInv
<1>2. volume' \in Nat  BY DEF WalletInv, Debit, Request
<1>3. CASE debits = 0
      BY <1>2, <1>3, HeldBounds DEF WalletInv, Debit, Request
<1>4. CASE debits = 1 /\ unit # 1000
      BY <1>2, <1>4, HeldBounds DEF WalletInv, Debit, Request
<1> QED  BY <1>1, <1>2, <1>3, <1>4

\* Every step keeps the invariant.
LEMMA WalletStep == WalletInv /\ [WalletNext]_walletVars => WalletInv'
<1> SUFFICES ASSUME WalletInv, [WalletNext]_walletVars PROVE WalletInv'  OBVIOUS
<1>1. CASE DebitAnswered
  <2>0. Held' = Held  BY <1>1 DEF DebitAnswered, Held
  <2>1. CASE Debit /\ state' = "booked"
        BY <1>1, <2>0, <2>1, DebitStep DEF DebitAnswered, WalletInv, States
  <2>2. CASE NoDebit /\ state' = "failed"
        BY <1>1, <2>0, <2>2 DEF DebitAnswered, NoDebit, WalletInv, States
  <2> QED  BY <1>1, <2>1, <2>2 DEF DebitAnswered
<1>2. CASE DebitUnanswered
  <2>0. Held' = Held  BY <1>2 DEF DebitUnanswered, Held
  <2>1. CASE Debit
        BY <1>2, <2>0, <2>1, DebitStep DEF DebitUnanswered, WalletInv, States
  <2>2. CASE NoDebit
        BY <1>2, <2>0, <2>2 DEF DebitUnanswered, NoDebit, WalletInv, States
  <2> QED  BY <1>2, <2>1, <2>2 DEF DebitUnanswered
<1>3. CASE CheckBalance
  <2>0. Held' = Held /\ Modest' = Modest  BY <1>3 DEF CheckBalance, Held, Modest
  <2>1. CASE LooksDebited
        BY <1>3, <2>0, <2>1, NotSeenTooEarly DEF CheckBalance, WalletInv, States
  <2>2. CASE ~LooksDebited
        BY <1>3, <2>0, <2>2, SeenInTheEnd DEF CheckBalance, WalletInv, States
  <2> QED  BY <2>1, <2>2
<1>4. CASE UNCHANGED walletVars
      BY <1>4 DEF walletVars, WalletInv, Held, Modest
<1> QED  BY <1>1, <1>2, <1>3, <1>4 DEF WalletNext

\* The wallet never goes below zero, and every variable keeps its type.
THEOREM WalletTypeCorrect == WalletSpec => []WalletTypeOK
<1> DEFINE Fixed == unit \in Units /\ amount \in Amounts /\ deduct \in Deductions
<1>1. WalletInit => Fixed  BY DEF WalletInit
<1>2. Fixed /\ [WalletNext]_walletVars => Fixed'
      BY DEF WalletNext, DebitAnswered, DebitUnanswered, CheckBalance, walletVars
<1>3. WalletInv /\ Fixed => WalletTypeOK  BY DEF WalletInv, WalletTypeOK
<1> HIDE DEF Fixed
<1> QED  BY <1>1, <1>2, <1>3, WalletStart, WalletStep, PTL DEF WalletSpec

\* A collection is debited at most twice however often its answer is lost,
\* and at most once if the event counts in thousands as RequestWallet does.
THEOREM DebitedAtMostTwice == WalletSpec => []DebitsBounded
<1>1. WalletInv => DebitsBounded  BY DEF WalletInv, DebitsBounded
<1> QED  BY <1>1, WalletStart, WalletStep, PTL DEF WalletSpec

\* In a wallet that is modest for its unit CheckAndProcessBalance never books
\* a collection for a debit that did not take place.
THEOREM ModestWalletsAreDebited == WalletSpec => []BookedWasDebited
<1>1. WalletInv => BookedWasDebited  BY DEF WalletInv, BookedWasDebited
<1> QED  BY <1>1, WalletStart, WalletStep, PTL DEF WalletSpec

-----------------------------------------------------------------------------
(***************************************************************************)
(* Proofs about FeeSplit, for every loan and every bound.  What is left of *)
(* a fee is a function of what is unpaid of the loan (LeftAt); a document, *)
(* a message and a collection each speak of one unpaid amount, and claim   *)
(* no more of the fee than is left at that amount.  Said of their own      *)
(* amounts this is inductive, and FeeNotOverstated is the case in which    *)
(* the amount is the present one.                                          *)
(***************************************************************************)

\* FeeLeft, when u is unpaid.
LeftAt(u) == IF debt.total - u >= debt.fee THEN 0 ELSE debt.fee - (debt.total - u)

\* A message asks for all that was unpaid, or for less; it was not handled yet, or
\* its effect is that of having handled it.
MsgInv ==
    msg # NoMsg =>
        /\ msg.type \in {"partial", "full"}
        /\ msg.unpaid <= debt.total
        /\ msg.type = "full" <=> msg.amount = msg.unpaid
        /\ msg.unpaid = debt.unpaid \/ msg.unpaid - msg.amount = debt.unpaid
        /\ msg.fee <= LeftAt(msg.unpaid)

ClaimInv ==
    /\ feeDoc <= LeftAt(debt.unpaid)
    /\ stored.type # "none" => stored.fee <= LeftAt(stored.unpaid)
    /\ sent.type # "none" => sent.fee <= LeftAt(sent.unpaid)

FeeInv == FeeTypeOK /\ MsgInv /\ ClaimInv /\ ReportsAgree

-----------------------------------------------------------------------------
(* What a message yields.                                                  *)

\* What is left after a message is no more than what is left of the fee at the
\* amount it leaves, and a full one leaves nothing of it.
LEMMA AfterAMessage ==
    ASSUME FeeTypeOK, MsgInv, msg # NoMsg
    PROVE  /\ FeeAfter(msg) \in Int /\ FeeAfter(msg) >= 0
           /\ FeeAfter(msg) <= LeftAt(msg.unpaid - msg.amount)
           /\ FeeAfter(msg) <= debt.fee
           /\ msg.fee <= debt.fee
           /\ msg.type = "full" => FeeAfter(msg) = 0
<1>1. /\ msg.amount \in Nat /\ msg.unpaid \in Nat /\ msg.fee \in Int
      /\ debt.total \in Nat /\ debt.fee \in Nat /\ debt.fee <= debt.total
      /\ msg.amount <= msg.unpaid /\ msg.unpaid <= debt.total
      /\ msg.fee <= LeftAt(msg.unpaid)
      /\ msg.type = "full" => msg.amount = msg.unpaid
  BY FeeAssumption DEF FeeTypeOK, MsgInv, MsgState, Dues, NoMsg
<1> QED BY <1>1 DEF FeeAfter, LeftAt

\* The collection and the Kafka message of a handled message are well formed and
\* agree, and the collection adds up.
LEMMA EntryAndSent ==
    ASSUME FeeTypeOK, MsgInv, msg # NoMsg
    PROVE  /\ Entry(msg) \in Entries /\ Sent(msg) \in Entries
           /\ Entry(msg).type \in {"partial", "full"} /\ Sent(msg).type = Entry(msg).type
           /\ Entry(msg).unpaid = msg.unpaid - msg.amount
           /\ Entry(msg).unpaid \in Dues /\ Entry(msg).unpaid <= debt.total
           /\ Sent(msg).unpaid = Entry(msg).unpaid
           /\ Sent(msg).collected = Entry(msg).collected
           /\ Sent(msg).fee = Entry(msg).fee /\ Entry(msg).fee = FeeAfter(msg)
           /\ Sent(msg).collectedFee = Entry(msg).collectedFee
           /\ Entry(msg).collectedFee = debt.fee - FeeAfter(msg)
           /\ Entry(msg).principal + Entry(msg).fee = Entry(msg).unpaid
<1>1. /\ msg.amount \in Nat /\ msg.unpaid \in Nat /\ msg.fee \in Int
      /\ debt.total \in Nat /\ debt.total <= MaxTotal /\ debt.fee \in Nat
      /\ msg.amount <= msg.unpaid /\ msg.unpaid <= debt.total
      /\ msg.type \in {"partial", "full"}
      /\ msg.type = "full" <=> msg.amount = msg.unpaid
  BY FeeAssumption DEF FeeTypeOK, MsgInv, MsgState, Dues, NoMsg
<1>2. FeeAfter(msg) \in Int /\ (msg.type = "full" => FeeAfter(msg) = 0)
  BY AfterAMessage
<1>3. MaxTotal \in Nat
  BY FeeAssumption
<1>4. CASE msg.type = "full"
  <2>1. Entry(msg) = Full(msg)
    BY <1>4 DEF Entry
  <2> QED BY <1>1, <1>2, <1>3, <1>4, <2>1 DEF Full, Sent, Paid, Entries, Dues
<1>5. CASE msg.type = "partial"
  <2>1. Entry(msg) = Partial(msg)
    BY <1>5 DEF Entry
  <2> QED BY <1>1, <1>2, <1>3, <1>5, <2>1 DEF Partial, Sent, Paid, Entries, Dues
<1> QED BY <1>1, <1>4, <1>5

-----------------------------------------------------------------------------
(* The steps.                                                              *)

LEMMA FeeInitially == FeeInit => FeeInv
<1> SUFFICES ASSUME FeeInit PROVE FeeInv
  OBVIOUS
<1>1. FeeTypeOK
  <2>1. PICK total \in Dues \ {0} : \E fee \in 0 .. total :
           debt = [total |-> total, fee |-> fee, unpaid |-> total]
    BY DEF FeeInit
  <2>2. /\ debt \in [total : Dues \ {0}, fee : Dues, unpaid : Dues] /\ feeDoc \in Int
        /\ debt.fee <= debt.total /\ debt.unpaid <= debt.total
    BY <2>1, FeeAssumption DEF FeeInit, Dues
  <2>3. NoMsg \in MsgState /\ NoEntry \in Entries
    BY FeeAssumption DEF NoMsg, NoEntry, MsgState, Entries, Dues
  <2> QED BY <2>2, <2>3 DEF FeeInit, FeeTypeOK, NoMsg
<1>2. MsgInv
  BY DEF FeeInit, MsgInv
<1>3. ClaimInv /\ ReportsAgree
  BY <1>1, FeeAssumption DEF FeeInit, FeeTypeOK, ClaimInv, ReportsAgree, NoEntry, LeftAt, Dues
<1> QED BY <1>1, <1>2, <1>3 DEF FeeInv

LEMMA AskKeeps == FeeInv /\ Ask => FeeInv'
<1> SUFFICES ASSUME FeeInv, Ask PROVE FeeInv'
  OBVIOUS
<1>1. PICK pesos \in Deductible, fee \in {feeDoc, 0} :
         /\ msg' = [type   |-> IF pesos = debt.unpaid THEN "full" ELSE "partial",
                    amount |-> pesos, unpaid |-> debt.unpaid, fee |-> fee]
         /\ blind' = (blind \/ fee # feeDoc)
  BY DEF Ask
<1>2. UNCHANGED <<debt, feeDoc, stored, sent, parts>>
  BY DEF Ask
<1>3. /\ pesos \in Nat /\ 1 <= pesos /\ pesos <= debt.unpaid /\ pesos \in Dues
      /\ debt.unpaid \in Dues /\ debt.unpaid \in Nat /\ debt.unpaid <= debt.total
      /\ fee \in Int
  BY FeeAssumption DEF FeeInv, FeeTypeOK, Deductible, Dues
<1>4. FeeTypeOK'
  BY <1>1, <1>2, <1>3 DEF FeeInv, FeeTypeOK, MsgState
<1>5. fee <= LeftAt(debt.unpaid)
  BY <1>3, FeeAssumption DEF FeeInv, ClaimInv, LeftAt, FeeTypeOK, Dues
<1>6. MsgInv'
  BY <1>1, <1>2, <1>3, <1>5 DEF MsgInv, LeftAt
<1>7. ClaimInv' /\ ReportsAgree'
  BY <1>2 DEF FeeInv, ClaimInv, ReportsAgree, LeftAt
<1> QED BY <1>4, <1>6, <1>7 DEF FeeInv

LEMMA CollectKeeps == FeeInv /\ Collect => FeeInv'
<1> SUFFICES ASSUME FeeInv, Collect PROVE FeeInv'
  OBVIOUS
<1> USE DEF FeeInv
<1>1. /\ msg # NoMsg /\ stored' = Entry(msg) /\ sent' = Sent(msg)
      /\ feeDoc' = NextFeeDoc(msg, Entry(msg))
      /\ debt' = [debt EXCEPT !.unpaid = Entry(msg).unpaid]
      /\ parts' \in {parts, parts + 1} /\ msg' \in {msg, NoMsg} /\ blind' = blind
  BY DEF Collect
<1>2. /\ debt \in [total : Dues \ {0}, fee : Dues, unpaid : Dues]
      /\ debt.fee \in Nat /\ debt.total \in Nat /\ debt.fee <= debt.total
  BY FeeAssumption DEF FeeTypeOK, Dues
<1>3. /\ debt'.total = debt.total /\ debt'.fee = debt.fee
      /\ debt'.unpaid = msg.unpaid - msg.amount
      /\ debt' \in [total : Dues \ {0}, fee : Dues, unpaid : Dues]
      /\ debt'.unpaid <= debt'.total
  BY <1>1, <1>2, EntryAndSent
<1>4. /\ feeDoc' = msg.fee - (debt.fee - FeeAfter(msg))
      /\ feeDoc' \in Int /\ feeDoc' <= FeeAfter(msg)
  <2>1. msg.fee \in Int /\ msg.fee <= debt.fee /\ FeeAfter(msg) \in Int
    BY <1>1, AfterAMessage DEF FeeTypeOK, MsgState
  <2> QED BY <1>1, <1>2, <2>1, EntryAndSent DEF NextFeeDoc
<1>5. FeeTypeOK'
  <2>1. msg' \in MsgState /\ (msg'.type # "none" => msg'.amount \in 1 .. msg'.unpaid)
    BY <1>1, FeeAssumption DEF FeeTypeOK, NoMsg, MsgState, Dues
  <2>2. stored' \in Entries /\ sent' \in Entries /\ parts' \in Nat /\ blind' \in BOOLEAN
    BY <1>1, EntryAndSent DEF FeeTypeOK
  <2> QED BY <1>2, <1>3, <1>4, <2>1, <2>2 DEF FeeTypeOK
<1>6. MsgInv'
  BY <1>1, <1>3 DEF MsgInv, LeftAt
<1>7. ClaimInv'
  <2>1. /\ FeeAfter(msg) <= LeftAt(debt'.unpaid) /\ FeeAfter(msg) \in Int
        /\ LeftAt(debt'.unpaid) = LeftAt(debt.unpaid)'
        /\ LeftAt(debt'.unpaid) \in Int
    BY <1>1, <1>2, <1>3, AfterAMessage, FeeAssumption DEF LeftAt, Dues
  <2>2. /\ stored'.fee = FeeAfter(msg) /\ sent'.fee = FeeAfter(msg)
        /\ stored'.unpaid = debt'.unpaid /\ sent'.unpaid = debt'.unpaid
    BY <1>1, <1>3, EntryAndSent
  <2> QED BY <1>4, <2>1, <2>2 DEF ClaimInv, LeftAt
<1>8. ReportsAgree'
  BY <1>1, <1>3, EntryAndSent DEF ReportsAgree
<1> QED BY <1>5, <1>6, <1>7, <1>8

LEMMA RefuseKeeps == FeeInv /\ Refuse => FeeInv'
<1> SUFFICES ASSUME FeeInv, Refuse PROVE FeeInv'
  OBVIOUS
<1> USE DEF FeeInv
<1>1. /\ msg # NoMsg /\ stored' = Failure(msg) /\ sent' = SentFailure(msg)
      /\ msg' = NoMsg /\ UNCHANGED <<debt, feeDoc, parts, blind>>
  BY DEF Refuse
<1>2. /\ msg.amount \in Nat /\ msg.unpaid \in Nat /\ msg.fee \in Int
      /\ debt.total \in Nat /\ debt.total <= MaxTotal /\ debt.fee \in Nat
      /\ msg.unpaid <= debt.total /\ msg.fee <= LeftAt(msg.unpaid) /\ MaxTotal \in Nat
  BY <1>1, FeeAssumption DEF FeeTypeOK, MsgInv, MsgState, Dues, NoMsg
<1>3. Failure(msg) \in Entries /\ SentFailure(msg) \in Entries
  BY <1>2 DEF Failure, SentFailure, Paid, Entries, Dues
<1>4. FeeTypeOK'
  BY <1>1, <1>3, FeeAssumption DEF FeeTypeOK, NoMsg, MsgState, Dues
<1>5. MsgInv' /\ ReportsAgree'
  BY <1>1 DEF MsgInv, ReportsAgree, Failure
<1>6. ClaimInv'
  BY <1>1, <1>2 DEF ClaimInv, Failure, SentFailure, LeftAt
<1> QED BY <1>4, <1>5, <1>6

LEMMA FeeSteps == FeeInv /\ [FeeNext]_feeVars => FeeInv'
<1> SUFFICES ASSUME FeeInv, [FeeNext]_feeVars PROVE FeeInv'
  OBVIOUS
<1>1. CASE FeeNext
  BY <1>1, AskKeeps, CollectKeeps, RefuseKeeps DEF FeeNext
<1>2. CASE UNCHANGED feeVars
  BY <1>2 DEF feeVars, FeeInv, FeeTypeOK, MsgInv, ClaimInv, ReportsAgree, LeftAt
<1> QED BY <1>1, <1>2

LEMMA FeeInvariant == FeeSpec => []FeeInv
  BY FeeInitially, FeeSteps, PTL DEF FeeSpec

-----------------------------------------------------------------------------
(* The first two partial collections.  A message built from an exact       *)
(* document is exact; the document it leaves is, if the message was for    *)
(* the whole loan.  A message that is handled again says that it was a     *)
(* part and which one.                                                     *)

Fresh == msg # NoMsg /\ msg.unpaid = debt.unpaid
Again == msg # NoMsg /\ msg.unpaid # debt.unpaid /\ msg.type = "partial"

ExactInv ==
    /\ parts = 0 => debt.unpaid \in {debt.total, 0}
    /\ Again => parts >= 1
    /\ Again /\ parts <= 1 => msg.unpaid = debt.total
    /\ ~blind =>
          /\ parts <= 1 /\ debt.unpaid > 0 => feeDoc = LeftAt(debt.unpaid)
          /\ Fresh /\ parts <= 1 => msg.fee = LeftAt(msg.unpaid)
          /\ Again /\ parts <= 2 => msg.fee = LeftAt(msg.unpaid)
          /\ parts <= 2 /\ stored.type \in {"partial", "full"}
                => stored.fee = LeftAt(debt.unpaid)

LEMMA ExactMessage ==
    ASSUME FeeTypeOK, MsgInv, msg # NoMsg
    PROVE  /\ msg.fee = LeftAt(msg.unpaid) => FeeAfter(msg) = LeftAt(msg.unpaid - msg.amount)
           /\ msg.type = "full" => FeeAfter(msg) = LeftAt(0)
<1>1. /\ msg.amount \in Nat /\ msg.unpaid \in Nat /\ msg.fee \in Int
      /\ debt.total \in Nat /\ debt.fee \in Nat /\ debt.fee <= debt.total
      /\ msg.amount <= msg.unpaid /\ msg.unpaid <= debt.total
  BY FeeAssumption DEF FeeTypeOK, MsgInv, MsgState, Dues, NoMsg
<1>2. msg.type = "full" => FeeAfter(msg) = 0
  BY AfterAMessage
<1> QED BY <1>1, <1>2 DEF FeeAfter, LeftAt

LEMMA ExactInitially == FeeInit => ExactInv
<1> SUFFICES ASSUME FeeInit PROVE ExactInv
  OBVIOUS
<1>1. /\ debt.total \in Nat /\ debt.fee \in Nat /\ debt.unpaid = debt.total
      /\ debt.fee <= debt.total /\ feeDoc = debt.fee
  BY FeeAssumption DEF FeeInit, Dues
<1> QED BY <1>1 DEF FeeInit, ExactInv, Fresh, Again, NoEntry, LeftAt

LEMMA ExactAsk == FeeInv /\ ExactInv /\ Ask => ExactInv'
<1> SUFFICES ASSUME FeeInv, ExactInv, Ask PROVE ExactInv'
  OBVIOUS
<1>1. /\ debt.unpaid > 0 /\ UNCHANGED <<debt, stored, parts, feeDoc>>
      /\ msg'.unpaid = debt.unpaid
      /\ ~blind' => ~blind /\ msg'.fee = feeDoc
  <2>1. PICK pesos \in Deductible, fee \in {feeDoc, 0} :
           /\ msg' = [type   |-> IF pesos = debt.unpaid THEN "full" ELSE "partial",
                      amount |-> pesos, unpaid |-> debt.unpaid, fee |-> fee]
           /\ blind' = (blind \/ fee # feeDoc)
    BY DEF Ask
  <2> QED BY <2>1 DEF Ask
<1>2. ~Again'
  BY <1>1 DEF Again
<1> QED BY <1>1, <1>2 DEF ExactInv, Fresh, Again, LeftAt

LEMMA ExactRefuse == FeeInv /\ ExactInv /\ Refuse => ExactInv'
  BY DEF Refuse, ExactInv, Fresh, Again, LeftAt, Failure

LEMMA ExactCollect == FeeInv /\ ExactInv /\ Collect => ExactInv'
<1> SUFFICES ASSUME FeeInv, ExactInv, Collect PROVE ExactInv'
  OBVIOUS
<1> USE DEF FeeInv
<1>1. /\ msg # NoMsg /\ stored' = Entry(msg)
      /\ feeDoc' = NextFeeDoc(msg, Entry(msg))
      /\ debt' = [debt EXCEPT !.unpaid = Entry(msg).unpaid]
      /\ parts' = IF msg.type = "partial" /\ debt.unpaid = msg.unpaid THEN parts + 1 ELSE parts
      /\ msg' \in {msg, NoMsg} /\ blind' = blind
  BY DEF Collect
<1>2. /\ debt'.total = debt.total /\ debt'.fee = debt.fee
      /\ debt'.unpaid = msg.unpaid - msg.amount
      /\ debt.total \in Nat /\ debt.fee \in Nat /\ debt.fee <= debt.total
      /\ debt.unpaid \in Nat /\ debt.unpaid <= debt.total
      /\ msg.unpaid \in Nat /\ msg.amount \in Nat \ {0} /\ msg.fee \in Int /\ parts \in Nat /\ msg.amount <= msg.unpaid
      /\ msg.type \in {"partial", "full"} /\ (msg.type = "full" <=> msg.amount = msg.unpaid)
      /\ msg.unpaid = debt.unpaid \/ msg.unpaid - msg.amount = debt.unpaid
  BY <1>1, EntryAndSent, FeeAssumption DEF FeeTypeOK, MsgInv, MsgState, NoMsg, Dues
<1>3. /\ stored'.fee = FeeAfter(msg) /\ FeeAfter(msg) \in Int
      /\ feeDoc' = msg.fee - (debt.fee - FeeAfter(msg))
  BY <1>1, AfterAMessage, EntryAndSent DEF NextFeeDoc
<1>4. LeftAt(debt.unpaid)' = LeftAt(msg.unpaid - msg.amount)
  BY <1>2 DEF LeftAt
<1>5. CASE msg.type = "full"
  <2>1. debt'.unpaid = 0 /\ ~Again' /\ ~Fresh' /\ parts' = parts
    BY <1>1, <1>2, <1>5 DEF Again, Fresh
  <2>2. stored'.fee = LeftAt(debt.unpaid)'
    BY <1>2, <1>3, <1>4, <1>5, <1>1, <2>1, ExactMessage
  <2> QED BY <2>1, <2>2 DEF ExactInv
<1>6. CASE msg.type = "partial" /\ msg.unpaid = debt.unpaid
  <2>1. parts' = parts + 1 /\ ~Fresh' /\ (Again' => msg' = msg)
    BY <1>1, <1>2, <1>6 DEF Fresh, Again
  <2>2. ~blind /\ parts <= 1 =>
           /\ msg.fee = LeftAt(msg.unpaid) /\ stored'.fee = LeftAt(debt.unpaid)'
           /\ LeftAt(msg.unpaid)' = LeftAt(msg.unpaid) \/ msg' # msg
    BY <1>1, <1>2, <1>3, <1>4, <1>6, ExactMessage DEF ExactInv, Fresh, LeftAt
  <2>3. parts = 0 => msg.unpaid = debt.total
    BY <1>2, <1>6 DEF ExactInv
  <2>4. ~blind /\ parts = 0 => feeDoc' = LeftAt(debt.unpaid)'
    <3> SUFFICES ASSUME ~blind, parts = 0 PROVE feeDoc' = LeftAt(debt.unpaid)'
      OBVIOUS
    <3>1. msg.fee = LeftAt(debt.total) /\ stored'.fee = LeftAt(debt.unpaid)'
      BY <2>2, <2>3
    <3>2. LeftAt(debt.total) = debt.fee
      BY <1>2 DEF LeftAt
    <3> QED BY <1>2, <1>3, <3>1, <3>2
  <2>5. Again' => LeftAt(msg.unpaid)' = LeftAt(msg.unpaid)
    BY <1>2, <2>1 DEF LeftAt
  <2> QED BY <1>1, <1>2, <2>1, <2>2, <2>3, <2>4, <2>5 DEF ExactInv
<1>7. CASE msg.type = "partial" /\ msg.unpaid # debt.unpaid
  <2>1. /\ Again /\ parts' = parts /\ debt'.unpaid = debt.unpaid
        /\ ~Fresh' /\ (Again' => msg' = msg)
    BY <1>1, <1>2, <1>7 DEF Fresh, Again
  <2>2. parts >= 1 /\ (parts <= 1 => msg.unpaid = debt.total)
    BY <2>1 DEF ExactInv
  <2>3. ~blind /\ parts <= 2 =>
           msg.fee = LeftAt(msg.unpaid) /\ stored'.fee = LeftAt(debt.unpaid)'
    BY <1>1, <1>3, <1>4, <2>1, ExactMessage DEF ExactInv
  <2>4. ~blind /\ parts <= 1 => feeDoc' = LeftAt(debt.unpaid)'
    <3> SUFFICES ASSUME ~blind, parts <= 1 PROVE feeDoc' = LeftAt(debt.unpaid)'
      OBVIOUS
    <3>1. msg.fee = LeftAt(debt.total) /\ stored'.fee = LeftAt(debt.unpaid)'
      BY <1>2, <2>2, <2>3
    <3>2. LeftAt(debt.total) = debt.fee
      BY <1>2 DEF LeftAt
    <3> QED BY <1>2, <1>3, <3>1, <3>2
  <2>5. Again' => LeftAt(msg.unpaid)' = LeftAt(msg.unpaid)
    BY <1>2, <2>1 DEF LeftAt
  <2> QED BY <1>1, <1>2, <2>1, <2>2, <2>3, <2>4, <2>5 DEF ExactInv
<1> QED BY <1>2, <1>5, <1>6, <1>7

LEMMA ExactSteps == FeeInv /\ ExactInv /\ [FeeNext]_feeVars => ExactInv'
<1> SUFFICES ASSUME FeeInv, ExactInv, [FeeNext]_feeVars PROVE ExactInv'
  OBVIOUS
<1>1. CASE FeeNext
  BY <1>1, ExactAsk, ExactCollect, ExactRefuse DEF FeeNext
<1>2. CASE UNCHANGED feeVars
  BY <1>2 DEF feeVars, ExactInv, Fresh, Again, LeftAt
<1> QED BY <1>1, <1>2

-----------------------------------------------------------------------------

\* Every variable keeps its type and a message never asks for more than was unpaid
\* when it was built (buildPubSubMsg, the handlers of a success and of a failure).
THEOREM FeeTypeCorrect == FeeSpec => []FeeTypeOK
  BY FeeInvariant, PTL DEF FeeInv

\* No document, message or collection of the worker claims more of a service fee
\* than is left of it, whatever fails or is handled twice.
THEOREM FeesNotOverstated == FeeSpec => []FeeNotOverstated
<1>1. FeeInv => FeeNotOverstated
  BY DEF FeeInv, MsgInv, ClaimInv, FeeNotOverstated, FeeLeft, LeftAt
<1> QED BY <1>1, FeeInvariant, PTL

\* The stored collection of a success and its Kafka message, which are computed
\* apart, agree about amounts and fee, and loan and fee add up.
THEOREM ReportsAlwaysAgree == FeeSpec => []ReportsAgree
  BY FeeInvariant, PTL DEF FeeInv

\* As long as every message was built from the document it should be built from, the
\* split of the first two partial collections, and the document after the first, are
\* exact.
THEOREM FirstSplitsAreExact == FeeSpec => []FirstSplitsExact
<1>1. FeeInv /\ ExactInv => FirstSplitsExact
  BY DEF FeeInv, ExactInv, FirstSplitsExact, FeeLeft, LeftAt
<1>2. FeeSpec => []ExactInv
  BY FeeInvariant, ExactInitially, ExactSteps, PTL DEF FeeSpec
<1> QED BY <1>1, <1>2, FeeInvariant, PTL

-----------------------------------------------------------------------------
(***************************************************************************)
(* Proofs about SkipPeriods, for every length of the periods and every     *)
(* bound.  Three writers share one key, none of which knows what the       *)
(* others put there.  What holds the periods together is that the          *)
(* document, not the key, decides about promo education and load period    *)
(* (LoanDocsInv), that the loan a handler holds a copy of does not change  *)
(* under it (CopyInv), and that nobody overwrites the key while it says    *)
(* the grace period is not over (GraceInv).                                *)
(***************************************************************************)

\* The handler is past the key, and has a copy of the loan.
Holding == {"convert", "uninvite", "save", "rules"}

LoanInv ==
    /\ loan # NoLoan => loan.id # 0
    /\ loan.created <= MaxTime

CopyInv == consumer.at \in Holding => consumer.loan = loan /\ loan # NoLoan

\* A loan that was granted a moment ago is in its promo education period.
SavingInv ==
    saving => /\ loan # NoLoan /\ loan.rate /\ worker = "idle" /\ loan.grace = 0
              /\ loan.promo = loan.created + PromoPeriod /\ now = loan.created
              /\ consumer.at \notin {"convert", "uninvite", "rules"}

\* The document of a new loan gives its periods; the promo education period may be
\* missing once it is over.
Dated(l) ==
    /\ l.rate
    /\ l.promo = l.created + PromoPeriod \/ (l.promo = 0 /\ now > l.created + PromoPeriod)
    /\ l.type = "load" => l.load = l.created + LoadPeriod

LoanDocsInv ==
    /\ loan = NoLoan \/ ~IsNew(loan) \/ Dated(loan)
    /\ consumer.at = "uninvite" => Dated(loan)
    /\ consumer.at = "rules" => Dated(loan)

GraceInv ==
    /\ ~missed /\ worker # "grace" /\ now < loan.grace
          => cache.grace >= loan.grace /\ cache.expires >= loan.grace
    /\ ~missed /\ consumer.at \in Holding \cup {"purge", "loan"} => now >= loan.grace
    /\ worker = "grace" => loan.grace <= now + GracePeriod

KeyInv ==
    /\ consumer.at \in Holding \cup {"loan"} => cache.promo = 0
    /\ worker # "idle" => cache.promo = 0

SkipInv ==
    /\ SkipTypeOK /\ LoanInv /\ CopyInv /\ SavingInv /\ LoanDocsInv /\ GraceInv /\ KeyInv
    /\ PeriodsKept /\ NoticeHasLoan

-----------------------------------------------------------------------------
(* Facts about the values.                                                 *)

LEMMA PeriodNumbers ==
    /\ PromoPeriod \in Nat /\ LoadPeriod \in Nat /\ GracePeriod \in Nat
    /\ MaxTime \in Nat /\ MaxTime >= 1 /\ MaxLoans \in Nat /\ MaxLoans >= 1
    /\ Times \subseteq Nat
  BY SkipAssumption DEF Times

LEMMA NoneInRange == NoLoan \in Loans /\ NoKey \in KeyStates
  BY SkipAssumption DEF NoLoan, Loans, NoKey, KeyStates, Times

\* What the type of the state says of its numbers.
LEMMA Fields ==
    ASSUME SkipTypeOK
    PROVE  /\ now \in Nat /\ now >= 1 /\ now <= MaxTime
           /\ loan.created \in Nat /\ loan.promo \in Nat /\ loan.load \in Nat
           /\ loan.grace \in Nat /\ loan.id \in Nat
           /\ cache.promo \in Nat /\ cache.load \in Nat /\ cache.grace \in Nat
           /\ cache.expires \in Nat
  BY PeriodNumbers DEF SkipTypeOK, Loans, KeyStates, Times

LEMMA KeyInRange ==
    ASSUME SkipTypeOK, NEW l \in Loans
    PROVE  /\ SkipKey(l) \in KeyStates
           /\ SkipKey(l).promo = l.promo /\ SkipKey(l).grace = 0
<1>1. /\ l.promo \in Times /\ l.load \in Times /\ now + 1 \in Times /\ 0 \in Times
  BY PeriodNumbers, Fields DEF Loans, Times
<1>2. Later(Later(l.promo, l.load), now + 1) \in Times
  BY <1>1 DEF Later
<1> QED BY <1>1, <1>2 DEF SkipKey, KeyStates

LEMMA ConvertedInRange ==
    ASSUME NEW l \in Loans, l.created <= MaxTime
    PROVE  /\ Converted(l) \in Loans /\ Converted(l) # NoLoan /\ Dated(Converted(l))
           /\ IsNew(Converted(l))
           /\ Converted(l).created = l.created /\ Converted(l).grace = l.grace
           /\ Converted(l).id = l.id
<1>1. l.created \in Nat /\ l.created + PromoPeriod \in Times
      /\ l.created + LoadPeriod \in Times /\ 0 \in Times
  BY PeriodNumbers DEF Loans, Times
<1>2. Converted(l) \in Loans
  BY <1>1 DEF Converted, Loans
<1> QED BY <1>2 DEF Converted, Loans, Dated, IsNew, NoLoan

LEMMA SkipInitially == SkipInit => SkipInv
<1> SUFFICES ASSUME SkipInit PROVE SkipInv
  OBVIOUS
<1>1. /\ now = 1 /\ cache = NoKey /\ saving = FALSE /\ worker = "idle" /\ missed = FALSE
      /\ consumer = [at |-> "idle", loan |-> NoLoan]
      /\ grants \in {0, 1} /\ invited \in BOOLEAN
  BY DEF SkipInit
<1>2. loan = NoLoan \/ \E type \in LoanTypes : loan = OldLoan(type)
  BY DEF SkipInit
<1>3. \A type \in LoanTypes :
         /\ OldLoan(type) \in Loans /\ ~IsNew(OldLoan(type)) /\ OldLoan(type).id = 1
         /\ OldLoan(type).created = 1 /\ OldLoan(type).grace = 0
  <2> TAKE type \in LoanTypes
  <2>1. 1 \in Times /\ 1 \in 0 .. MaxLoans
    BY PeriodNumbers DEF Times
  <2>2. OldLoan(type) \in Loans /\ OldLoan(type).id = 1 /\ OldLoan(type).created = 1
    BY <2>1, NoneInRange DEF OldLoan, Loans
  <2>3. /\ OldLoan(type).promo = NoLoan.promo /\ OldLoan(type).load = NoLoan.load
        /\ OldLoan(type).grace = NoLoan.grace /\ OldLoan(type).rate = NoLoan.rate
    BY NoneInRange DEF OldLoan, Loans
  <2>4. NoLoan.promo = 0 /\ NoLoan.load = 0 /\ NoLoan.grace = 0 /\ NoLoan.rate = FALSE
    BY DEF NoLoan
  <2> QED BY <2>2, <2>3, <2>4 DEF IsNew
<1>4. loan \in Loans /\ loan.created <= MaxTime /\ loan.grace = 0 /\ (loan # NoLoan => loan.id # 0)
  <2>1. CASE loan = NoLoan
    BY <2>1, NoneInRange, PeriodNumbers DEF NoLoan
  <2>2. CASE loan # NoLoan
    BY <1>2, <1>3, <2>2, PeriodNumbers
  <2> QED BY <2>1, <2>2
<1>5. SkipTypeOK
  <2>1. now \in 1 .. MaxTime /\ grants \in 0 .. MaxLoans
    BY <1>1, PeriodNumbers
  <2>2. consumer.at = "idle" /\ worker \in {"idle", "debit", "grace"}
    BY <1>1
  <2> QED BY <1>1, <1>4, <2>1, <2>2, NoneInRange DEF SkipTypeOK
<1>6. LoanInv /\ CopyInv /\ SavingInv /\ LoanDocsInv
  BY <1>1, <1>2, <1>3, <1>4 DEF LoanInv, CopyInv, SavingInv, LoanDocsInv, Holding
<1>7. GraceInv /\ KeyInv
  BY <1>1, <1>4 DEF GraceInv, KeyInv, NoKey, Holding
<1>8. PeriodsKept /\ NoticeHasLoan
  BY <1>1 DEF PeriodsKept, NoticeHasLoan, NoKey
<1> QED BY <1>5, <1>6, <1>7, <1>8 DEF SkipInv

-----------------------------------------------------------------------------
(* loan-availment.                                                         *)

LEMMA GrantKeeps == ASSUME NEW type \in LoanTypes, SkipInv, Grant(type) PROVE SkipInv'
<1> DEFINE l == [id |-> grants + 1, type |-> type, created |-> now,
                 promo |-> now + PromoPeriod, load |-> LoadEnd(type, now), grace |-> 0,
                 rate |-> TRUE]
<1>1. /\ loan = NoLoan /\ ~saving /\ grants < MaxLoans /\ grants' = grants + 1
      /\ saving' = TRUE /\ missed' = FALSE /\ loan' = l
      /\ UNCHANGED <<now, cache, invited, consumer, worker>>
  BY DEF Grant
<1>2. SkipTypeOK /\ grants \in Nat /\ now \in Nat /\ now >= 1 /\ now <= MaxTime
  BY Fields, PeriodNumbers DEF SkipInv, SkipTypeOK
<1>3. now + PromoPeriod \in Times /\ LoadEnd(type, now) \in Times /\ now \in Times /\ 0 \in Times
  BY <1>2, PeriodNumbers DEF Times, LoadEnd
<1>4. l \in Loans /\ l # NoLoan
  BY <1>1, <1>2, <1>3, PeriodNumbers DEF Loans, NoLoan
<1>5. worker = "idle" /\ consumer.at \notin Holding
  BY <1>1 DEF SkipInv, SkipTypeOK, CopyInv
<1>6. SkipTypeOK'
  <2>1. grants' \in 0 .. MaxLoans
    BY <1>1, <1>2, PeriodNumbers
  <2> HIDE DEF l
  <2>2. loan' \in Loans /\ saving' \in BOOLEAN /\ missed' \in BOOLEAN
    BY <1>1, <1>4
  <2> QED BY <1>1, <1>2, <1>5, <2>1, <2>2 DEF SkipTypeOK
<1>7. LoanInv' /\ CopyInv' /\ SavingInv'
  BY <1>1, <1>2, <1>4, <1>5 DEF LoanInv, CopyInv, SavingInv, Holding
<1>8. LoanDocsInv'
  BY <1>1, <1>2, <1>5, PeriodNumbers DEF LoanDocsInv, Dated, LoadEnd, Holding
<1>9. GraceInv' /\ KeyInv' /\ PeriodsKept' /\ NoticeHasLoan'
  BY <1>1, <1>2, <1>5 DEF SkipInv, GraceInv, KeyInv, PeriodsKept, NoticeHasLoan, Holding
<1> HIDE DEF l
<1> QED BY <1>6, <1>7, <1>8, <1>9 DEF SkipInv

LEMMA SaveLoanKeeps == SkipInv /\ SaveLoan => SkipInv'
<1> SUFFICES ASSUME SkipInv, SaveLoan PROVE SkipInv'
  OBVIOUS
<1>1. /\ saving /\ saving' = FALSE
      /\ UNCHANGED <<now, loan, invited, grants, consumer, worker, missed>>
  BY DEF SaveLoan
<1>2. CASE UNCHANGED cache
  BY <1>1, <1>2, ZenonT(60) DEF SkipInv, SkipTypeOK, LoanInv, CopyInv, SavingInv, LoanDocsInv, Dated,
     GraceInv, KeyInv, PeriodsKept, NoticeHasLoan
<1>3. CASE cache' = [promo |-> 0, load |-> loan.load, grace |-> 0,
                     expires |-> Later(loan.promo, loan.load)]
  <2>1. cache' \in KeyStates
    BY <1>3, PeriodNumbers DEF SkipInv, SkipTypeOK, Loans, KeyStates, Later, Times
  <2>2. SkipTypeOK'
    BY <1>1, <2>1 DEF SkipInv, SkipTypeOK
  <2>3. loan.grace = 0 /\ now >= 1 /\ now \in Nat
    BY <1>1, Fields DEF SkipInv, SavingInv
  <2>4. GraceInv' /\ KeyInv' /\ NoticeHasLoan'
    BY <1>1, <1>3, <2>3 DEF SkipInv, GraceInv, KeyInv, NoticeHasLoan
  <2>5. LoanInv' /\ CopyInv' /\ SavingInv' /\ LoanDocsInv' /\ PeriodsKept'
    BY <1>1 DEF SkipInv, LoanInv, CopyInv, SavingInv, LoanDocsInv, Dated, PeriodsKept
  <2> QED BY <2>2, <2>4, <2>5 DEF SkipInv
<1> QED BY <1>2, <1>3 DEF SaveLoan

-----------------------------------------------------------------------------
(* promo-collection.  Most of its steps move the handler alone.            *)

LEMMA MoveKeeps ==
    ASSUME SkipInv, OnlyConsumer,
           consumer' \in [at : {"idle", "redis", "purge", "loan", "convert", "uninvite",
                                "save", "notify", "rules", "dead"}, loan : Loans],
           worker # "idle" => consumer'.at = "idle",
           consumer'.at \in Holding => consumer'.loan = loan /\ loan # NoLoan,
           saving => consumer'.at \notin {"convert", "uninvite", "rules"},
           consumer'.at \in {"uninvite", "rules"} => Dated(loan),
           ~missed /\ consumer'.at \in Holding \cup {"purge", "loan"} => now >= loan.grace,
           consumer'.at \in Holding \cup {"loan"} => cache.promo = 0,
           consumer'.at = "rules" =>
               /\ now > loan.created + PromoPeriod
               /\ loan.type = "load" => now > loan.created + LoadPeriod,
           consumer'.at = "notify" => consumer'.loan # NoLoan
    PROVE  SkipInv'
<1>1. UNCHANGED <<now, loan, cache, invited, grants, saving, worker, missed>>
  BY DEF OnlyConsumer
<1>2. SkipTypeOK'
  BY <1>1 DEF SkipInv, SkipTypeOK
<1>3. LoanInv' /\ CopyInv' /\ SavingInv'
  BY <1>1 DEF SkipInv, LoanInv, CopyInv, SavingInv
<1>4. LoanDocsInv'
  BY <1>1 DEF SkipInv, LoanDocsInv, Dated
<1>5. GraceInv' /\ KeyInv'
  BY <1>1 DEF SkipInv, GraceInv, KeyInv
<1>6. PeriodsKept' /\ NoticeHasLoan'
  BY <1>1 DEF SkipInv, PeriodsKept, NoticeHasLoan, Holding
<1> QED BY <1>2, <1>3, <1>4, <1>5, <1>6 DEF SkipInv

\* A handler that ends, or dies, holds nothing.
LEMMA LeaveKeeps == ASSUME SkipInv, OnlyConsumer, Leave PROVE SkipInv'
  BY MoveKeeps, NoneInRange DEF Leave, Holding

LEMMA EventKeeps == SkipInv /\ Event => SkipInv'
<1> SUFFICES ASSUME SkipInv, Event PROVE SkipInv'
  OBVIOUS
<1>1. consumer' = [consumer EXCEPT !.at = "redis"] /\ worker = "idle" /\ OnlyConsumer
  BY DEF Event, To
<1> QED BY <1>1, MoveKeeps DEF SkipInv, SkipTypeOK, Holding

LEMMA CheckKeyKeeps == SkipInv /\ CheckKey => SkipInv'
<1> SUFFICES ASSUME SkipInv, CheckKey PROVE SkipInv'
  OBVIOUS
<1>1. consumer.at = "redis" /\ OnlyConsumer /\ worker = "idle" /\ SkipTypeOK
  BY DEF CheckKey, SkipInv, SkipTypeOK
<1>2. /\ consumer \in [at : {"idle", "redis", "purge", "loan", "convert", "uninvite",
                             "save", "notify", "rules", "dead"}, loan : Loans]
      /\ loan \in Loans /\ now \in Nat /\ now >= 1 /\ loan.grace \in Nat /\ cache.promo \in Nat
      /\ cache.grace \in Nat
  BY <1>1, Fields DEF SkipTypeOK
<1>3. CASE cache = NoKey /\ To("loan")
  <2>1. ~missed => now >= loan.grace
    BY <1>1, <1>2, <1>3 DEF SkipInv, GraceInv, NoKey
  <2>2. consumer' = [consumer EXCEPT !.at = "loan"] /\ cache.promo = 0
    BY <1>3 DEF To, NoKey
  <2> QED BY <1>1, <1>2, <2>1, <2>2, MoveKeeps DEF Holding
<1>4. CASE Leave
  BY <1>1, <1>4, LeaveKeeps
<1>5. CASE now < cache.promo /\ Reads("notify")
  <2>1. loan # NoLoan
    BY <1>2, <1>5 DEF SkipInv, NoticeHasLoan
  <2>2. consumer' = [at |-> "notify", loan |-> loan]
    BY <1>5 DEF Reads
  <2> QED BY <1>1, <1>2, <2>1, <2>2, MoveKeeps DEF Holding
<1>6. CASE now >= cache.grace /\ To("purge")
  <2>1. ~missed => now >= loan.grace
    BY <1>1, <1>2, <1>6 DEF SkipInv, GraceInv
  <2>2. consumer' = [consumer EXCEPT !.at = "purge"]
    BY <1>6 DEF To
  <2> QED BY <1>1, <1>2, <2>1, <2>2, MoveKeeps DEF Holding
<1> QED BY <1>3, <1>4, <1>5, <1>6 DEF CheckKey

LEMMA DeleteKeyKeeps == SkipInv /\ DeleteKey => SkipInv'
<1> SUFFICES ASSUME SkipInv, DeleteKey PROVE SkipInv'
  OBVIOUS
<1>1. CASE Leave /\ UNCHANGED <<cache, missed>>
  BY <1>1, LeaveKeeps DEF DeleteKey, OnlyConsumer
<1>2. CASE cache' = NoKey /\ To("loan") /\ UNCHANGED missed
  <2>1. /\ consumer.at = "purge" /\ consumer' = [consumer EXCEPT !.at = "loan"]
        /\ UNCHANGED <<now, loan, invited, grants, saving, worker, missed>>
    BY <1>2 DEF DeleteKey, To
  <2>2. SkipTypeOK' /\ consumer'.at = "loan" /\ worker = "idle"
    BY <1>2, <2>1, NoneInRange DEF SkipInv, SkipTypeOK
  <2>3. LoanInv' /\ CopyInv' /\ SavingInv' /\ LoanDocsInv'
    BY <2>1, <2>2 DEF SkipInv, LoanInv, CopyInv, SavingInv, LoanDocsInv, Dated, Holding
  <2>4. now \in Nat /\ loan.grace \in Nat /\ (~missed => now >= loan.grace)
    BY <2>1, Fields DEF SkipInv, GraceInv
  <2>5. GraceInv' /\ KeyInv'
    BY <1>2, <2>1, <2>2, <2>4 DEF GraceInv, KeyInv, NoKey
  <2>6. PeriodsKept' /\ NoticeHasLoan'
    BY <1>2, <2>2 DEF PeriodsKept, NoticeHasLoan, NoKey
  <2> QED BY <2>2, <2>3, <2>5, <2>6 DEF SkipInv
<1> QED BY <1>1, <1>2 DEF DeleteKey

\* What a loan that is not skipped says of the time.
LEMMA NotSkipped ==
    ASSUME SkipTypeOK, Dated(loan), ~SkipActive(loan)
    PROVE  /\ now > loan.created + PromoPeriod
           /\ loan.type = "load" => now > loan.created + LoadPeriod
  BY Fields, PeriodNumbers DEF Dated, SkipActive

\* Of a loan that is being saved, that it is skipped.
LEMMA SavingIsSkipped == ASSUME SkipInv, saving PROVE IsNew(loan) /\ SkipActive(loan)
  BY Fields, PeriodNumbers DEF SkipInv, SavingInv, IsNew, SkipActive

LEMMA GetLoanKeeps == SkipInv /\ GetLoan => SkipInv'
<1> SUFFICES ASSUME SkipInv, GetLoan PROVE SkipInv'
  OBVIOUS
<1>1. /\ consumer.at = "loan" /\ OnlyConsumer /\ worker = "idle" /\ SkipTypeOK /\ loan \in Loans
      /\ cache.promo = 0 /\ (~missed => now >= loan.grace)
  BY DEF GetLoan, SkipInv, SkipTypeOK, KeyInv, GraceInv
<1>2. CASE Leave
  BY <1>1, <1>2, LeaveKeeps
<1>3. CASE loan # NoLoan /\ IsNew(loan) /\ SkipActive(loan) /\ Reads("save")
  <2>1. consumer' = [at |-> "save", loan |-> loan]
    BY <1>3 DEF Reads
  <2> QED BY <1>1, <1>3, <2>1, MoveKeeps DEF Holding
<1>4. CASE loan # NoLoan /\ IsNew(loan) /\ ~SkipActive(loan) /\ Reads("rules")
  <2>1. consumer' = [at |-> "rules", loan |-> loan]
    BY <1>4 DEF Reads
  <2>2. Dated(loan) /\ ~saving
    BY <1>4, SavingIsSkipped DEF SkipInv, LoanDocsInv
  <2> QED BY <1>1, <1>4, <2>1, <2>2, NotSkipped, MoveKeeps DEF Holding
<1>5. CASE loan # NoLoan /\ ~IsNew(loan) /\ Reads("convert")
  <2>1. consumer' = [at |-> "convert", loan |-> loan] /\ ~saving
    BY <1>5, SavingIsSkipped DEF Reads
  <2> QED BY <1>1, <1>5, <2>1, MoveKeeps DEF Holding
<1> QED BY <1>2, <1>3, <1>4, <1>5 DEF GetLoan

LEMMA ConvertKeeps == SkipInv /\ Convert => SkipInv'
<1> SUFFICES ASSUME SkipInv, Convert PROVE SkipInv'
  OBVIOUS
<1>1. CASE Leave /\ UNCHANGED loan
  BY <1>1, LeaveKeeps DEF Convert, OnlyConsumer
<1>2. CASE /\ loan' = Converted(consumer.loan)
           /\ consumer' = [at |-> "uninvite", loan |-> Converted(consumer.loan)]
  <2>1. /\ consumer.at = "convert"
        /\ UNCHANGED <<now, cache, invited, grants, saving, worker, missed>>
    BY DEF Convert
  <2>2. /\ consumer.loan = loan /\ loan # NoLoan /\ ~saving /\ worker = "idle"
        /\ cache.promo = 0 /\ loan \in Loans /\ loan.created <= MaxTime /\ loan.id # 0
        /\ ~missed => now >= loan.grace
    BY <2>1 DEF SkipInv, CopyInv, SavingInv, SkipTypeOK, KeyInv, LoanInv, GraceInv, Holding
  <2>3. /\ loan' \in Loans /\ loan' # NoLoan /\ Dated(loan') /\ loan'.created = loan.created
        /\ loan'.grace = loan.grace /\ loan'.id = loan.id /\ consumer'.loan = loan'
    BY <1>2, <2>2, ConvertedInRange
  <2>4. SkipTypeOK'
    BY <1>2, <2>1, <2>2, <2>3 DEF SkipInv, SkipTypeOK
  <2>5. LoanInv' /\ CopyInv' /\ SavingInv'
    BY <1>2, <2>1, <2>2, <2>3 DEF LoanInv, CopyInv, SavingInv
  <2>6. LoanDocsInv'
    BY <1>2, <2>1, <2>3 DEF LoanDocsInv, Dated
  <2>7. GraceInv' /\ KeyInv' /\ PeriodsKept' /\ NoticeHasLoan'
    BY <1>2, <2>1, <2>2, <2>3, Fields
       DEF SkipInv, GraceInv, KeyInv, PeriodsKept, NoticeHasLoan, Holding
  <2> QED BY <2>4, <2>5, <2>6, <2>7 DEF SkipInv
<1> QED BY <1>1, <1>2 DEF Convert

LEMMA UninviteKeeps == SkipInv /\ Uninvite => SkipInv'
<1> SUFFICES ASSUME SkipInv, Uninvite PROVE SkipInv'
  OBVIOUS
<1>1. CASE Leave /\ UNCHANGED invited
  BY <1>1, LeaveKeeps DEF Uninvite, OnlyConsumer
<1>2. CASE invited' = FALSE /\ To(IF SkipActive(consumer.loan) THEN "save" ELSE "rules")
  <2>1. /\ consumer.at = "uninvite"
        /\ consumer' = [consumer EXCEPT !.at = IF SkipActive(consumer.loan) THEN "save" ELSE "rules"]
        /\ UNCHANGED <<now, loan, cache, grants, saving, worker, missed>>
    BY <1>2 DEF Uninvite, To
  <2>2. /\ consumer.loan = loan /\ loan # NoLoan /\ ~saving /\ worker = "idle"
        /\ cache.promo = 0 /\ loan \in Loans /\ Dated(loan)
        /\ ~missed => now >= loan.grace
    BY <2>1 DEF SkipInv, CopyInv, SavingInv, SkipTypeOK, KeyInv, LoanDocsInv, GraceInv, Holding
  <2>3. /\ consumer'.loan = loan /\ consumer'.at \in {"save", "rules"}
        /\ consumer'.at = "rules" => ~SkipActive(loan)
    BY <2>1, <2>2 DEF SkipInv, SkipTypeOK
  <2>4. SkipTypeOK'
    BY <1>2, <2>1, <2>2 DEF SkipInv, SkipTypeOK
  <2>5. LoanInv' /\ CopyInv' /\ SavingInv' /\ LoanDocsInv'
    BY <2>1, <2>2, <2>3 DEF SkipInv, LoanInv, CopyInv, SavingInv, LoanDocsInv, Dated
  <2>6. GraceInv' /\ KeyInv' /\ NoticeHasLoan'
    BY <2>1, <2>2, <2>3 DEF SkipInv, GraceInv, KeyInv, NoticeHasLoan
  <2>7. PeriodsKept'
    BY <2>1, <2>2, <2>3, NotSkipped DEF SkipInv, PeriodsKept
  <2> QED BY <2>4, <2>5, <2>6, <2>7 DEF SkipInv
<1> QED BY <1>1, <1>2 DEF Uninvite

LEMMA SaveKeyKeeps == SkipInv /\ SaveKey => SkipInv'
<1> SUFFICES ASSUME SkipInv, SaveKey PROVE SkipInv'
  OBVIOUS
<1>1. CASE Leave /\ UNCHANGED cache
  BY <1>1, LeaveKeeps DEF SaveKey, OnlyConsumer
<1>2. CASE /\ cache' = SkipKey(consumer.loan)
           /\ IF consumer.loan.promo > now THEN To("notify") ELSE Leave
  <2>1. /\ consumer.at = "save" /\ consumer' \in {[consumer EXCEPT !.at = "notify"],
                                                 [at |-> "idle", loan |-> NoLoan]}
        /\ UNCHANGED <<now, loan, invited, grants, saving, worker, missed>>
    BY <1>2 DEF SaveKey, To, Leave
  <2>2. /\ consumer.loan = loan /\ loan # NoLoan /\ worker = "idle" /\ SkipTypeOK
        /\ loan \in Loans /\ (~missed => now >= loan.grace)
    BY <2>1 DEF SkipInv, CopyInv, SkipTypeOK, GraceInv, Holding
  <2>3. /\ cache' \in KeyStates /\ cache'.promo = loan.promo
    BY <1>2, <2>2, KeyInRange
  <2>4. loan.promo # 0 => loan.promo = loan.created + PromoPeriod
    BY <2>2 DEF SkipInv, LoanDocsInv, Dated, IsNew
  <2>5. /\ consumer'.at \in {"notify", "idle"} /\ (consumer'.at = "notify" => consumer'.loan = loan)
        /\ SkipTypeOK'
    BY <2>1, <2>2, <2>3, NoneInRange DEF SkipTypeOK
  <2>6. LoanInv' /\ CopyInv' /\ SavingInv' /\ LoanDocsInv'
    BY <2>1, <2>5 DEF SkipInv, LoanInv, CopyInv, SavingInv, LoanDocsInv, Dated, Holding
  <2>7. now \in Nat /\ loan.grace \in Nat /\ (~missed => now >= loan.grace)
    BY <2>2, Fields
  <2>8. GraceInv' /\ KeyInv'
    BY <2>1, <2>2, <2>5, <2>7 DEF GraceInv, KeyInv, Holding
  <2>9. PeriodsKept' /\ NoticeHasLoan'
    BY <2>1, <2>2, <2>3, <2>4, <2>5 DEF PeriodsKept, NoticeHasLoan
  <2> QED BY <2>5, <2>6, <2>8, <2>9 DEF SkipInv
<1> QED BY <1>1, <1>2 DEF SaveKey

LEMMA NotifyKeeps == SkipInv /\ Notify => SkipInv'
<1> SUFFICES ASSUME SkipInv, Notify PROVE SkipInv'
  OBVIOUS
<1>1. Leave /\ OnlyConsumer
  BY DEF Notify, SkipInv, NoticeHasLoan
<1> QED BY <1>1, LeaveKeeps

LEMMA RulesKeeps == SkipInv /\ Rules => SkipInv'
<1> SUFFICES ASSUME SkipInv, Rules PROVE SkipInv'
  OBVIOUS
<1>1. /\ consumer.at = "rules" /\ consumer' = [at |-> "idle", loan |-> NoLoan]
      /\ UNCHANGED <<now, cache, invited, grants, saving, missed>>
      /\ loan' \in {loan, [loan EXCEPT !.promo = 0]} /\ worker' \in {"debit", worker}
  BY DEF Rules, Leave
<1>2. /\ SkipTypeOK /\ loan \in Loans /\ loan # NoLoan /\ worker = "idle" /\ ~saving
      /\ cache.promo = 0 /\ Dated(loan) /\ now > loan.created + PromoPeriod /\ loan.id # 0
      /\ loan.created <= MaxTime /\ (~missed => now >= loan.grace)
  BY <1>1 DEF SkipInv, SkipTypeOK, CopyInv, SavingInv, KeyInv, LoanDocsInv, PeriodsKept,
              LoanInv, GraceInv, Holding
<1>3. /\ loan' \in Loans /\ loan'.id = loan.id /\ loan'.created = loan.created
      /\ loan'.grace = loan.grace /\ Dated(loan') /\ loan' # NoLoan
  <2>1. loan' \in Loans
    BY <1>1, <1>2, PeriodNumbers DEF Loans, Times
  <2> QED BY <1>1, <1>2, <2>1 DEF Loans, Dated, NoLoan
<1>4. SkipTypeOK'
  BY <1>1, <1>2, <1>3, NoneInRange DEF SkipTypeOK
<1>5. LoanInv' /\ CopyInv' /\ SavingInv' /\ PeriodsKept' /\ NoticeHasLoan'
  BY <1>1, <1>2, <1>3 DEF LoanInv, CopyInv, SavingInv, PeriodsKept, NoticeHasLoan, Holding
<1>6. LoanDocsInv'
  BY <1>1, <1>3 DEF LoanDocsInv, Dated
<1>7. now \in Nat /\ loan.grace \in Nat
  BY <1>2, Fields
<1>8. GraceInv' /\ KeyInv'
  BY <1>1, <1>2, <1>3, <1>7 DEF GraceInv, KeyInv, Holding, SkipInv
<1> QED BY <1>4, <1>5, <1>6, <1>8 DEF SkipInv

LEMMA ConsumerDiesKeeps == SkipInv /\ ConsumerDies => SkipInv'
<1> SUFFICES ASSUME SkipInv, ConsumerDies PROVE SkipInv'
  OBVIOUS
<1>1. consumer.at # "idle" /\ consumer' = [consumer EXCEPT !.at = "dead"] /\ OnlyConsumer
  BY DEF ConsumerDies, To
<1> QED BY <1>1, MoveKeeps DEF SkipInv, SkipTypeOK, Holding

-----------------------------------------------------------------------------
(* promo-collection-worker, and time.                                      *)

LEMMA SettleKeeps == SkipInv /\ Settle => SkipInv'
<1> SUFFICES ASSUME SkipInv, Settle PROVE SkipInv'
  OBVIOUS
<1>1. worker = "debit" /\ UNCHANGED <<now, cache, invited, grants, saving, consumer>>
  BY DEF Settle
<1>2. /\ SkipTypeOK /\ consumer.at = "idle" /\ loan # NoLoan /\ loan \in Loans /\ ~saving
      /\ cache.promo = 0 /\ loan.created <= MaxTime /\ loan.id # 0
      /\ now \in Nat /\ now <= MaxTime /\ loan.grace \in Nat
  BY <1>1, Fields DEF SkipInv, SkipTypeOK, SavingInv, KeyInv, LoanInv
<1>3. /\ worker' \in {"idle", "grace"} /\ loan' \in Loans /\ missed' \in BOOLEAN
      /\ worker' = "grace" => loan' # NoLoan
      /\ loan' # NoLoan => loan'.id # 0
      /\ loan'.created <= MaxTime
      /\ loan' # NoLoan => (IsNew(loan') <=> IsNew(loan)) /\ (Dated(loan) => Dated(loan'))
  <2>1. CASE worker' = "idle" /\ UNCHANGED <<loan, missed>>
    BY <1>2, <2>1 DEF SkipTypeOK, IsNew, Dated
  <2>2. CASE worker' = "idle" /\ loan' = NoLoan /\ missed' = FALSE
    <3>1. NoLoan.created <= MaxTime /\ NoLoan \in Loans
      BY NoneInRange, PeriodNumbers DEF NoLoan
    <3> QED BY <2>2, <3>1
  <2>3. CASE worker' = "grace" /\ UNCHANGED missed /\ loan' = [loan EXCEPT !.grace = now + GracePeriod]
    <3>1. now + GracePeriod \in Times
      BY <1>2, PeriodNumbers DEF Times
    <3>2. loan' \in Loans /\ loan'.id = loan.id /\ loan'.created = loan.created
          /\ loan'.rate = loan.rate /\ loan'.promo = loan.promo /\ loan'.load = loan.load
          /\ loan'.type = loan.type
      BY <1>2, <2>3, <3>1 DEF Loans
    <3> QED BY <1>1, <1>2, <2>3, <3>2 DEF IsNew, Dated, NoLoan, SkipTypeOK
  <2> QED BY <2>1, <2>2, <2>3 DEF Settle
<1>4. SkipTypeOK'
  BY <1>1, <1>2, <1>3 DEF SkipTypeOK
<1>5. LoanInv' /\ CopyInv' /\ SavingInv' /\ KeyInv' /\ PeriodsKept' /\ NoticeHasLoan'
  BY <1>1, <1>2, <1>3 DEF LoanInv, CopyInv, SavingInv, KeyInv, PeriodsKept, NoticeHasLoan, Holding
<1>6. LoanDocsInv'
  BY <1>1, <1>2, <1>3 DEF SkipInv, LoanDocsInv, Dated, IsNew
<1>7. GraceInv'
  <2>1. CASE worker' = "idle" /\ UNCHANGED <<loan, missed>>
    BY <1>1, <1>2, <2>1 DEF SkipInv, GraceInv, Holding
  <2>2. CASE worker' = "idle" /\ loan' = NoLoan /\ missed' = FALSE
    BY <1>1, <1>2, <2>2 DEF GraceInv, NoLoan, Holding
  <2>3. CASE worker' = "grace" /\ loan' = [loan EXCEPT !.grace = now + GracePeriod]
    BY <1>1, <1>2, <2>3, PeriodNumbers DEF GraceInv, Loans, Holding
  <2> QED BY <2>1, <2>2, <2>3 DEF Settle
<1> QED BY <1>4, <1>5, <1>6, <1>7 DEF SkipInv

LEMMA SaveGraceKeeps == SkipInv /\ SaveGrace => SkipInv'
<1> SUFFICES ASSUME SkipInv, SaveGrace PROVE SkipInv'
  OBVIOUS
<1>1. /\ worker = "grace" /\ worker' \in {"idle", "debit"}
      /\ UNCHANGED <<now, loan, invited, grants, saving, consumer>>
      /\ \/ missed' = FALSE /\ cache' = [promo |-> 0, load |-> 0, grace |-> now + GracePeriod,
                                          expires |-> now + GracePeriod]
         \/ missed' = TRUE /\ UNCHANGED cache
  BY DEF SaveGrace
<1>2. /\ SkipTypeOK /\ consumer.at = "idle" /\ loan # NoLoan /\ loan \in Loans /\ ~saving
      /\ cache.promo = 0 /\ now \in Nat /\ now <= MaxTime /\ loan.grace \in Nat
      /\ loan.grace <= now + GracePeriod
  BY <1>1, Fields DEF SkipInv, SkipTypeOK, SavingInv, KeyInv, GraceInv
<1>3. cache' \in KeyStates /\ cache'.promo = 0 /\ missed' \in BOOLEAN
  <2>1. now + GracePeriod \in Times /\ 0 \in Times
    BY <1>2, PeriodNumbers DEF Times
  <2>2. CASE UNCHANGED cache /\ missed' = TRUE
    BY <1>2, <2>2 DEF SkipTypeOK
  <2>3. CASE /\ missed' = FALSE
             /\ cache' = [promo |-> 0, load |-> 0, grace |-> now + GracePeriod,
                          expires |-> now + GracePeriod]
    BY <2>1, <2>3 DEF KeyStates
  <2> QED BY <1>1, <2>2, <2>3
<1>4. SkipTypeOK'
  BY <1>1, <1>2, <1>3 DEF SkipTypeOK
<1>5. LoanInv' /\ CopyInv' /\ SavingInv' /\ KeyInv' /\ PeriodsKept' /\ NoticeHasLoan'
  BY <1>1, <1>2, <1>3 DEF SkipInv, LoanInv, CopyInv, SavingInv, KeyInv, PeriodsKept,
     NoticeHasLoan, Holding
<1>6. LoanDocsInv'
  BY <1>1, <1>2 DEF SkipInv, LoanDocsInv, Dated
<1>7. GraceInv'
  BY <1>1, <1>2, PeriodNumbers DEF GraceInv, Holding
<1> QED BY <1>4, <1>5, <1>6, <1>7 DEF SkipInv

LEMMA TickKeeps == SkipInv /\ Tick => SkipInv'
<1> SUFFICES ASSUME SkipInv, Tick PROVE SkipInv'
  OBVIOUS
<1>1. /\ ~saving /\ now < MaxTime /\ now' = now + 1
      /\ cache' = (IF cache.expires <= now' THEN NoKey ELSE cache)
      /\ UNCHANGED <<loan, invited, grants, saving, consumer, worker, missed>>
  BY DEF Tick
<1>2. /\ SkipTypeOK /\ now \in Nat /\ now >= 1 /\ loan.grace \in Nat /\ cache.expires \in Nat
      /\ cache.grace \in Nat /\ loan.created \in Nat
  BY Fields DEF SkipInv
<1>3. cache' = NoKey \/ cache' = cache
  BY <1>1
<1>4. SkipTypeOK'
  BY <1>1, <1>2, <1>3, NoneInRange, PeriodNumbers DEF SkipTypeOK
<1>5. LoanInv' /\ CopyInv' /\ SavingInv' /\ KeyInv' /\ NoticeHasLoan'
  BY <1>1, <1>3 DEF SkipInv, LoanInv, CopyInv, SavingInv, KeyInv, NoticeHasLoan, NoKey
<1>6. LoanDocsInv' /\ PeriodsKept'
  BY <1>1, <1>2, PeriodNumbers DEF SkipInv, LoanDocsInv, PeriodsKept, Dated
<1>7. GraceInv'
  <2>1. CASE cache.expires <= now'
    BY <1>1, <1>2, <2>1, PeriodNumbers DEF SkipInv, GraceInv
  <2>2. CASE ~(cache.expires <= now')
    BY <1>1, <1>2, <2>2, PeriodNumbers DEF SkipInv, GraceInv
  <2> QED BY <2>1, <2>2
<1> QED BY <1>4, <1>5, <1>6, <1>7 DEF SkipInv

LEMMA EvictKeeps == SkipInv /\ Evict => SkipInv'
<1> SUFFICES ASSUME SkipInv, Evict PROVE SkipInv'
  OBVIOUS
<1>1. /\ cache' = NoKey /\ missed' = (missed \/ now < cache.grace)
      /\ UNCHANGED <<now, loan, invited, grants, saving, consumer, worker>>
  BY DEF Evict
<1>2. /\ SkipTypeOK /\ now \in Nat /\ loan.grace \in Nat /\ cache.grace \in Nat /\ missed \in BOOLEAN
  BY Fields DEF SkipInv, SkipTypeOK
<1>3. SkipTypeOK'
  BY <1>1, <1>2, NoneInRange DEF SkipTypeOK
<1>4. LoanInv' /\ CopyInv' /\ SavingInv' /\ KeyInv' /\ NoticeHasLoan' /\ PeriodsKept'
  BY <1>1 DEF SkipInv, LoanInv, CopyInv, SavingInv, KeyInv, NoticeHasLoan, PeriodsKept, NoKey
<1>5. LoanDocsInv'
  BY <1>1 DEF SkipInv, LoanDocsInv, Dated
<1>6. GraceInv'
  <2>1. ~missed' => ~missed /\ now >= cache.grace
    <3>1. ~missed' => ~missed /\ ~(now < cache.grace)
      BY <1>1, <1>2, Zenon
    <3> QED BY <1>2, <3>1
  <2>2. ~missed' /\ worker # "grace" => now >= loan.grace
    BY <1>2, <2>1 DEF SkipInv, GraceInv
  <2> QED BY <1>1, <1>2, <2>1, <2>2 DEF SkipInv, GraceInv
<1> QED BY <1>3, <1>4, <1>5, <1>6 DEF SkipInv

-----------------------------------------------------------------------------

LEMMA SkipSteps == SkipInv /\ [SkipNext]_skipVars => SkipInv'
<1> SUFFICES ASSUME SkipInv, [SkipNext]_skipVars PROVE SkipInv'
  OBVIOUS
<1>1. ASSUME NEW type \in LoanTypes, Grant(type) PROVE SkipInv'
  BY <1>1, GrantKeeps
<1>2. CASE SaveLoan \/ Event \/ ConsumerDies
  BY <1>2, SaveLoanKeeps, EventKeeps, ConsumerDiesKeeps
<1>3. CASE Handle
  BY <1>3, CheckKeyKeeps, DeleteKeyKeeps, GetLoanKeeps, ConvertKeeps, UninviteKeeps,
     SaveKeyKeeps, NotifyKeeps, RulesKeeps DEF Handle
<1>4. CASE Work
  BY <1>4, SettleKeeps, SaveGraceKeeps DEF Work
<1>5. CASE Tick \/ Evict
  BY <1>5, TickKeeps, EvictKeeps
<1>6. CASE UNCHANGED skipVars
  BY <1>6 DEF skipVars, SkipInv, SkipTypeOK, LoanInv, CopyInv, SavingInv, LoanDocsInv, Dated,
     GraceInv, KeyInv, PeriodsKept, NoticeHasLoan
<1> QED BY <1>1, <1>2, <1>3, <1>4, <1>5, <1>6 DEF SkipNext

LEMMA SkipInvariant == SkipSpec => []SkipInv
  BY SkipInitially, SkipSteps, PTL DEF SkipSpec

\* Every variable keeps its type, and the worker handles a message only while no
\* handler of promo-collection runs and the loan is there.
THEOREM SkipTypeCorrect == SkipSpec => []SkipTypeOK
  BY SkipInvariant, PTL DEF SkipInv

\* However long the periods are, a loan is collected only when its promo education and
\* load period are over, whatever the key in Redis says, was lost or overwritten with,
\* and not in the grace period after a partial collection either, as long as Redis has
\* got that one and not lost it (CheckBusinessLevelRulesForPromoCollection,
\* insertSkipTimestampsInRedis, checkRedisForActivePeriod).
THEOREM SkipsAreKept == SkipSpec => []SkipsKept
<1>1. SkipInv => SkipsKept
  BY DEF SkipInv, GraceInv, SkipsKept, GraceKept, Holding
<1> QED BY <1>1, SkipInvariant, PTL

\* The education notice is sent for a loan that is there, so the handler does not panic
\* on a missing one, and the key never speaks of the period of another loan.
THEOREM NoticesHaveLoans == SkipSpec => []NoticeHasLoan
  BY SkipInvariant, PTL DEF SkipInv

-----------------------------------------------------------------------------
(***************************************************************************)
(* An instance runs one part at a time, and every step of it is a step of  *)
(* that part, so that what is proved of a part holds of the instance.      *)
(***************************************************************************)

\* SubscriberTypeOK: every part keeps its types in an instance of all of them.
THEOREM SubscriberTypeCorrect == PartSpec => []SubscriberTypeOK
<1>1. PartInit => SkipInit /\ ListInit /\ FeeInit /\ WalletInit /\ ReportInit
  BY DEF PartInit
<1>2. [PartNext]_subscriberVars =>
         /\ [SkipNext]_skipVars /\ [ListNext]_listVars /\ [FeeNext]_feeVars
         /\ [WalletNext]_walletVars /\ [ReportNext]_reportVars
  BY DEF PartNext, subscriberVars
<1>3. PartSpec => SkipSpec /\ ListSpec /\ FeeSpec /\ WalletSpec /\ ReportSpec
  BY <1>1, <1>2, PTL DEF PartSpec, SkipSpec, ListSpec, FeeSpec, WalletSpec, ReportSpec
<1> QED
  BY <1>3, SkipTypeCorrect, ListTypeCorrect, FeeTypeCorrect, WalletTypeCorrect,
     ReportTypeCorrect, PTL DEF SubscriberTypeOK
=============================================================================
