------------------------ MODULE SellExecution_proofs ------------------------
(***************************************************************************)
(* What SellExecution.tla promises for every set of callers, every amount   *)
(* and every bound: type correctness, that one call at a time is in the     *)
(* locked body, that nothing is sold while a close is unverified, after the *)
(* position is CLOSED or marked unsellable, that a tier is recorded once,   *)
(* and that the books of a position are kept.                               *)
(***************************************************************************)
EXTENDS SellExecution, SequenceTheorems, FiniteSetTheorems, TLAPS

\* What the types leave open: a call in the locked body knows its kind, only a
\* partial sale writes an exit row, one that follows a swap up has sent it, one
\* that rechecks has tries left, and an exit log has a result to write.
LocalsOf(t) ==
    /\ pc[t] \in InSet => op[t].kind # "none"
    /\ pc[t] \in Following => op[t].tx \in 1..Len(txs)
    /\ pc[t] = "recheck" => op[t].tries < MaxTries
    /\ pc[t] \in {"exitRow", "reduce"} => op[t].kind = "partial"
    /\ pc[t] = "log" => op[t].result \in {"closed", "noop"}

Locals == IsFiniteSet(exits) /\ \A t \in Task : LocalsOf(t)

\* The in-process Set lets one call in.
Alone == \A t, u \in Task : pc[t] \in InSet /\ pc[u] \in InSet => t = u

\* While the reconciliation lock is in force the only call in the locked body,
\* if any, is the close that set it and still verifies.
VerifiesOnly ==
    unverified => \A t \in Task : pc[t] \in InSet => pc[t] = "verify" /\ op[t].kind = "close"

\* Once the position is closed or given up, a call in the locked body has not
\* passed its checks.
NotPastChecks ==
    status = "CLOSED" \/ unsellable =>
        \A t \in Task : pc[t] \in InSet => pc[t] \in {"claim", "read"}

\* A partial sale that passed its checks and has not written its exit row sells
\* a tier that is not taken.
SellsOpenTier ==
    \A t \in Task : pc[t] \in InSet \ {"claim", "read", "reduce"} /\ op[t].kind = "partial"
        => ~Taken(op[t].tier)

Control == Alone /\ VerifiesOnly /\ NotPastChecks /\ SellsOpenTier /\ TierOnce

IInv == TypeOK /\ Locals /\ Control
-----------------------------------------------------------------------------
\* --- The helpers keep the types -----------------------------------------------

USE AmountAssumption, BoundAssumption

\* A caller's locals replaced by well-typed ones.
LEMMA PutType ==
  ASSUME TypeOK, NEW t \in Task, NEW o \in OpType, op' = [op EXCEPT ![t] = o]
  PROVE  op' \in [Task -> OpType]
BY DEF TypeOK, CallTypeOK

\* A caller moved to another place.
LEMMA GotoType ==
  ASSUME TypeOK, NEW t \in Task, NEW place \in PC, Goto(t, place)
  PROVE  pc' \in [Task -> PC]
BY DEF Goto, TypeOK, CallTypeOK

\* Finish leaves a caller idle with empty locals.
LEMMA FinishType ==
  ASSUME TypeOK, NEW t \in Task, Finish(t)
  PROVE  pc' \in [Task -> PC] /\ op' \in [Task -> OpType]
<1>1. Idle \in OpType
  BY DEF Idle, OpType, Category
<1> QED
  BY <1>1, PutType DEF Finish, TypeOK, CallTypeOK, PC, InSet

\* Leave keeps the types for each result a locked body ends with.
LEMMA LeaveType ==
  ASSUME TypeOK, NEW t \in Task, NEW r \in {"closed", "sold", "noop", "threw"}, Leave(t, r)
  PROVE  pc' \in [Task -> PC] /\ op' \in [Task -> OpType]
<1>1. pc' \in [Task -> PC]
  BY DEF Leave, TypeOK, CallTypeOK, PC, InSet
<1>2. op' \in [Task -> OpType]
  BY DEF Leave, TypeOK, CallTypeOK, OpType
<1> QED
  BY <1>1, <1>2

\* The call's parameters, noted by Enter.
LEMMA RequestType ==
  ASSUME TypeOK, NEW t \in Task, NEW kind \in {"close", "partial"}, NEW tier \in Int,
         NEW want \in Nat,
         op' = [op EXCEPT ![t].kind = kind, ![t].tier = tier, ![t].want = want]
  PROVE  op' \in [Task -> OpType]
<1> DEFINE o == [op[t] EXCEPT !.kind = kind, !.tier = tier, !.want = want]
<1>1. o \in OpType
  <2>1. op[t] \in OpType
    BY DEF TypeOK, CallTypeOK
  <2> QED
    BY <2>1 DEF OpType
<1>2. op' = [op EXCEPT ![t] = o]
  BY DEF TypeOK, CallTypeOK
<1> QED
  BY <1>1, <1>2, PutType

\* Enter keeps the types, refused or not.
LEMMA EnterType ==
  ASSUME TypeOK, NEW t \in Task, NEW kind \in {"close", "partial"}, NEW tier \in Int,
         NEW want \in Nat, Enter(t, kind, tier, want)
  PROVE  pc' \in [Task -> PC] /\ op' \in [Task -> OpType]
<1>1. CASE Finish(t)
  BY <1>1, FinishType
<1>2. CASE /\ Goto(t, "claim")
           /\ op' = [op EXCEPT ![t].kind = kind, ![t].tier = tier, ![t].want = want]
  BY <1>2, GotoType, RequestType DEF PC, InSet
<1> QED
  BY <1>1, <1>2 DEF Enter

\* Choose keeps the types.
LEMMA ChooseType ==
  ASSUME TypeOK, NEW t \in Task, NEW tier \in Int, NEW want \in Nat, Choose(t, tier, want)
  PROVE  CallTypeOK'
<1> DEFINE o == [op[t] EXCEPT !.tier = tier, !.want = want]
<1>1. o \in OpType
  <2>1. op[t] \in OpType
    BY DEF TypeOK, CallTypeOK
  <2> QED
    BY <2>1 DEF OpType
<1>2. op' = [op EXCEPT ![t] = o]
  BY DEF TypeOK, CallTypeOK, Choose
<1>3. pc' \in [Task -> PC]
  BY GotoType DEF Choose, PC
<1> QED
  BY <1>1, <1>2, <1>3, PutType DEF TypeOK, CallTypeOK, Choose

\* Enter touches neither lock.
LEMMA EnterUnchanged ==
  ASSUME NEW t, NEW kind, NEW tier, NEW want, Enter(t, kind, tier, want)
  PROVE  UNCHANGED <<claim, unverified>>
BY DEF Enter

\* Amounts read or computed by a call.
LEMMA BaseTrailedType ==
  ASSUME TypeOK, NEW t \in Task, NEW b \in BOOLEAN,
         op' = [op EXCEPT ![t].base = remaining, ![t].trailed = b]
  PROVE  op' \in [Task -> OpType]
<1> DEFINE o == [op[t] EXCEPT !.base = remaining, !.trailed = b]
<1>1. o \in OpType
  <2>1. op[t] \in OpType /\ remaining \in 0..Amount
    BY DEF TypeOK, CallTypeOK, RowTypeOK
  <2> QED
    BY <2>1 DEF OpType
<1>2. op' = [op EXCEPT ![t] = o]
  BY DEF TypeOK, CallTypeOK
<1> QED
  BY <1>1, <1>2, PutType

\* What a call reads of the row under the lock.
LEMMA BaseWantType ==
  ASSUME TypeOK, NEW t \in Task, NEW w \in Nat,
         op' = [op EXCEPT ![t].base = remaining, ![t].want = w]
  PROVE  op' \in [Task -> OpType]
<1> DEFINE o == [op[t] EXCEPT !.base = remaining, !.want = w]
<1>1. o \in OpType
  <2>1. op[t] \in OpType /\ remaining \in 0..Amount
    BY DEF TypeOK, CallTypeOK, RowTypeOK
  <2> QED
    BY <2>1 DEF OpType
<1>2. op' = [op EXCEPT ![t] = o]
  BY DEF TypeOK, CallTypeOK
<1> QED
  BY <1>1, <1>2, PutType

\* The amount to send and the first try.
LEMMA AmountTriesType ==
  ASSUME TypeOK, NEW t \in Task, NEW a \in Nat,
         op' = [op EXCEPT ![t].amt = a, ![t].tries = 1]
  PROVE  op' \in [Task -> OpType]
<1> DEFINE o == [op[t] EXCEPT !.amt = a, !.tries = 1]
<1>1. o \in OpType
  <2>1. op[t] \in OpType
    BY DEF TypeOK, CallTypeOK
  <2>2. 1 \in 0..MaxTries
    OBVIOUS
  <2> QED
    BY <2>1, <2>2 DEF OpType
<1>2. op' = [op EXCEPT ![t] = o]
  BY DEF TypeOK, CallTypeOK
<1> QED
  BY <1>1, <1>2, PutType

\* The swap a call has sent.
LEMMA TxFieldType ==
  ASSUME TypeOK, NEW t \in Task, NEW n \in Nat, op' = [op EXCEPT ![t].tx = n]
  PROVE  op' \in [Task -> OpType]
BY DEF TypeOK, CallTypeOK, OpType

\* The catch of the retry loop.
LEMMA CaughtType ==
  ASSUME TypeOK, NEW t \in Task, NEW cat \in Category, Caught(t, cat)
  PROVE  pc' \in [Task -> PC] /\ op' \in [Task -> OpType]
<1>1. pc' \in [Task -> PC]
  BY DEF Caught, Goto, TypeOK, CallTypeOK, PC, InSet
<1>2. op' = [op EXCEPT ![t].cat = cat]
  BY DEF Caught
<1>3. op' \in [Task -> OpType]
  BY <1>2 DEF TypeOK, CallTypeOK, OpType
<1> QED
  BY <1>1, <1>3

\* Another try stays within MaxTries because recheck is only reached with tries
\* left.
LEMMA RetryType ==
  ASSUME TypeOK, Locals, NEW t \in Task, pc[t] = "recheck", Retry(t)
  PROVE  pc' \in [Task -> PC] /\ op' \in [Task -> OpType]
<1>1. pc' \in [Task -> PC]
  BY DEF Retry, TypeOK, CallTypeOK, PC, InSet
<1>2. op[t].tries + 1 \in 0..MaxTries
  BY DEF Locals, LocalsOf, TypeOK, CallTypeOK, OpType
<1>3. op' = [op EXCEPT ![t].tries = op[t].tries + 1]
  BY DEF Retry, TypeOK, CallTypeOK
<1>4. op' \in [Task -> OpType]
  <2> DEFINE o == [op[t] EXCEPT !.tries = op[t].tries + 1]
  <2>1. o \in OpType
    BY <1>2 DEF TypeOK, CallTypeOK, OpType
  <2>2. op' = [op EXCEPT ![t] = o]
    BY <1>3 DEF TypeOK, CallTypeOK
  <2> QED
    BY <2>1, <2>2, PutType
<1> QED
  BY <1>1, <1>4

-----------------------------------------------------------------------------
\* --- Every step keeps the types ------------------------------------------------

\* Every step keeps the Position row in its type.
LEMMA RowStep == ASSUME TypeOK, Next PROVE RowTypeOK'
<1> USE DEF TypeOK, RowTypeOK
<1>1. ASSUME NEW t \in Task, CloseEmpty(t) PROVE RowTypeOK'
  BY <1>1 DEF CloseEmpty
<1>2. ASSUME NEW t \in Task, Failed(t) PROVE RowTypeOK'
  BY <1>2 DEF Failed
<1>3. ASSUME NEW t \in Task, CountNoRoute(t) PROVE RowTypeOK'
  BY <1>3 DEF CountNoRoute
<1>4. ASSUME NEW t \in Task, MarkUnsellable(t) PROVE RowTypeOK'
  BY <1>4 DEF MarkUnsellable
<1>5. ASSUME NEW t \in Task, Reduce(t) PROVE RowTypeOK'
  <2>1. op[t].base \in 0..Amount /\ op[t].amt \in Nat
    BY DEF CallTypeOK, OpType
  <2> QED
    BY <1>5, <2>1 DEF Reduce, Bigger
<1>6. ASSUME NEW t \in Task, Close(t) PROVE RowTypeOK'
  BY <1>6 DEF Close
<1>7. ASSUME NEW t \in Task, ActivateTrailing(t) PROVE RowTypeOK'
  BY <1>7 DEF ActivateTrailing
<1>8. CASE BackoffPasses
  BY <1>8 DEF BackoffPasses
<1>9. ASSUME NEW t \in Task, Read(t) \/ Decide(t) \/ Failure(t) PROVE RowTypeOK'
  BY <1>9 DEF Decide, Failure, Read, TickRead, DirectClose, Decline, DecideClose, DecideLadder,
     DecideTp1, DecideManual, Choose, CallPartial, closePosition, executePartialSell, Enter,
     ClaimError, BodyError, PrepareFails, OutcomeUnknown, RecheckFails, VerifyFails,
     CallerError, Caught, dbVars
<1>10. ASSUME NEW t \in Task,
              \/ Claim(t) \/ ReadLocked(t) \/ ReadBalance(t) \/ Broadcast(t) \/ KnownDead(t)
              \/ Recheck(t) \/ Confirmed(t) \/ Verified(t) \/ ReleaseRow(t) \/ WriteExitLog(t)
       PROVE  RowTypeOK'
  BY <1>10 DEF Claim, ReadLocked, BodyStart, ReadBalance, Broadcast, KnownDead, Caught, Recheck,
     Confirmed, Verified, ReleaseRow, WriteExitLog, dbVars
<1>11. ASSUME NEW t \in Task, RecordTrade(t) \/ RecordExit(t) PROVE RowTypeOK'
  BY <1>11 DEF RecordTrade, RecordExit
<1>12. CASE ClaimLapses \/ LockLapses \/ ChainStep \/ Breach \/ Crash
  BY <1>12 DEF ClaimLapses, LockLapses, ChainStep, Land, Drop, Breach, Crash, dbVars
<1> QED
  BY <1>1, <1>2, <1>3, <1>4, <1>5, <1>6, <1>7, <1>8, <1>9, <1>10, <1>11, <1>12
     DEF Next, Body, TimePasses

\* A swap of the sequence changed in one field.
LEMMA ExceptTxs ==
  ASSUME TypeOK, NEW i \in 1..Len(txs), NEW x \in TxType, txs' = [txs EXCEPT ![i] = x]
  PROVE  txs' \in Seq(TxType) /\ Len(txs') = Len(txs)
BY ExceptSeq DEF TypeOK, ChainTypeOK

\* The chain settling a swap keeps the sequence of swaps in its type.
LEMMA SetStateType ==
  ASSUME TypeOK, NEW i \in 1..Len(txs), NEW s \in {"pending", "landed", "dead"}, SetState(i, s)
  PROVE  txs' \in Seq(TxType) /\ Len(txs') = Len(txs)
<1>1. txs[i] \in TxType
  BY DEF TypeOK, ChainTypeOK
<1>2. [txs[i] EXCEPT !.state = s] \in TxType
  BY <1>1 DEF TxType
<1>3. txs' = [txs EXCEPT ![i] = [txs[i] EXCEPT !.state = s]]
  BY DEF SetState, TypeOK, ChainTypeOK
<1> QED
  BY <1>2, <1>3, ExceptTxs

\* Marking a swap as booked keeps the sequence of swaps in its type.
LEMMA BookType ==
  ASSUME TypeOK, NEW t \in Task, op[t].tx \in 1..Len(txs), Book(t)
  PROVE  txs' \in Seq(TxType) /\ Len(txs') = Len(txs)
<1> DEFINE i == op[t].tx
<1>1. txs[i] \in TxType
  BY DEF TypeOK, ChainTypeOK
<1>2. [txs[i] EXCEPT !.booked = TRUE] \in TxType
  BY <1>1 DEF TxType
<1>3. txs' = [txs EXCEPT ![i] = [txs[i] EXCEPT !.booked = TRUE]]
  BY DEF Book, TypeOK, ChainTypeOK
<1> QED
  BY <1>2, <1>3, ExceptTxs

\* Sending a swap makes the sequence one longer.
LEMMA BroadcastType ==
  ASSUME TypeOK, NEW t \in Task, Broadcast(t), op[t].kind # "none"
  PROVE  txs' \in Seq(TxType) /\ Len(txs') = Len(txs) + 1
<1> DEFINE x == [kind |-> op[t].kind, tier |-> op[t].tier, amt |-> op[t].amt,
                 base |-> op[t].base, state |-> "pending", booked |-> FALSE]
<1>1. x \in TxType
  BY DEF TypeOK, CallTypeOK, OpType, TxType
<1>2. txs' = Append(txs, x)
  BY DEF Broadcast
<1> QED
  BY <1>1, <1>2, AppendProperties DEF TypeOK, ChainTypeOK

\* Every step keeps the balance, the swaps and the rows that name them in type.
LEMMA ChainStepType == ASSUME TypeOK, Locals, Next PROVE ChainTypeOK'
<1> USE DEF TypeOK, ChainTypeOK
<1>1. ASSUME NEW t \in Task, Broadcast(t) PROVE ChainTypeOK'
  <2>1. txs' \in Seq(TxType) /\ Len(txs') = Len(txs) + 1
    BY <1>1, BroadcastType DEF Locals, LocalsOf, Broadcast, InSet
  <2>2. UNCHANGED <<balance, exits, trades>>
    BY <1>1 DEF Broadcast, dbVars
  <2>3. 1..Len(txs) \subseteq 1..Len(txs')
    BY <2>1
  <2>4. exits' \in SUBSET [tier : Int, tx : 1..Len(txs')]
    BY <2>2, <2>3
  <2> QED
    BY <2>1, <2>2, <2>3, <2>4
<1>2. ASSUME NEW t \in Task, RecordTrade(t) PROVE ChainTypeOK'
  BY <1>2 DEF RecordTrade, Locals, LocalsOf, Following, chainVars
<1>3. ASSUME NEW t \in Task, RecordExit(t) PROVE ChainTypeOK'
  <2>1. op[t].tx \in 1..Len(txs) /\ op[t].tier \in Int
    BY <1>3 DEF RecordExit, Locals, LocalsOf, Following, CallTypeOK, OpType
  <2> QED
    BY <1>3, <2>1 DEF RecordExit, chainVars
<1>4. ASSUME NEW t \in Task, Reduce(t) \/ Close(t) PROVE ChainTypeOK'
  <2>1. op[t].tx \in 1..Len(txs) /\ Book(t) /\ UNCHANGED <<balance, exits, trades>>
    BY <1>4 DEF Reduce, Close, Locals, LocalsOf, Following
  <2> QED
    BY <2>1, BookType
<1>5. ASSUME NEW i \in 1..Len(txs), Land(i) PROVE ChainTypeOK'
  <2>1. SetState(i, "landed") /\ UNCHANGED <<exits, trades>>
    BY <1>5 DEF Land, dbVars
  <2>2. balance' \in 0..(Amount + Other)
    <3>1. txs[i] \in TxType
      OBVIOUS
    <3>2. txs[i].amt \in Nat
      BY <3>1 DEF TxType
    <3> QED
      BY <1>5, <3>2 DEF Land
  <2> QED
    BY <2>1, <2>2, SetStateType
<1>6. ASSUME NEW i \in 1..Len(txs), Drop(i) PROVE ChainTypeOK'
  BY <1>6, SetStateType DEF Drop, dbVars
<1>7. ASSUME NEW t \in Task, Read(t) \/ Decide(t) \/ Failure(t) PROVE ChainTypeOK'
  BY <1>7 DEF Decide, Failure, Read, TickRead, DirectClose, Decline, DecideClose, DecideLadder,
     DecideTp1, DecideManual, Choose, CallPartial, closePosition, executePartialSell, Enter,
     ClaimError, BodyError, PrepareFails, OutcomeUnknown, RecheckFails, VerifyFails,
     CallerError, Caught, dbVars,
     chainVars
<1>8. ASSUME NEW t \in Task,
             \/ Claim(t) \/ ReadLocked(t) \/ ReadBalance(t) \/ KnownDead(t)
             \/ Recheck(t) \/ Confirmed(t) \/ Verified(t) \/ ReleaseRow(t) \/ WriteExitLog(t)
      PROVE  ChainTypeOK'
  BY <1>8 DEF Claim, ReadLocked, BodyStart, ReadBalance, KnownDead, Caught, Recheck,
     Confirmed, Verified, ReleaseRow, WriteExitLog, dbVars, chainVars
<1>9. ASSUME NEW t \in Task,
             \/ CloseEmpty(t) \/ Failed(t) \/ CountNoRoute(t) \/ MarkUnsellable(t)
             \/ ActivateTrailing(t)
      PROVE  ChainTypeOK'
  BY <1>9 DEF CloseEmpty, Failed, CountNoRoute, MarkUnsellable, ActivateTrailing, chainVars
<1>10. CASE TimePasses \/ Breach \/ Crash
  BY <1>10 DEF TimePasses, ClaimLapses, LockLapses, BackoffPasses, Breach, Crash, dbVars,
     chainVars
<1> QED
  BY <1>1, <1>2, <1>3, <1>4, <1>5, <1>6, <1>7, <1>8, <1>9, <1>10 DEF Next, Body, ChainStep

\* Every step keeps the surroundings and the observers in type.
LEMMA EnvStep == ASSUME TypeOK, Locals, Next PROVE EnvTypeOK'
<1> USE DEF TypeOK, EnvTypeOK
<1>1. ASSUME NEW t \in Task, Read(t) PROVE EnvTypeOK'
  BY <1>1 DEF Read
<1>2. ASSUME NEW t \in Task, Decide(t) PROVE EnvTypeOK'
  BY <1>2 DEF Decide, TickRead, DirectClose, Decline, DecideClose, DecideLadder, DecideTp1,
     DecideManual, Choose, CallPartial, closePosition, executePartialSell, Enter, envVars
<1>3. ASSUME NEW t \in Task, Failure(t) PROVE EnvTypeOK'
  BY <1>3 DEF Failure, ClaimError, BodyError, PrepareFails, OutcomeUnknown, RecheckFails,
     VerifyFails, CallerError, Caught, Fault
<1>4. ASSUME NEW t \in Task,
             \/ Claim(t) \/ ReadLocked(t) \/ ReadBalance(t) \/ CloseEmpty(t) \/ Broadcast(t)
             \/ KnownDead(t) \/ Recheck(t) \/ MarkUnsellable(t) \/ Confirmed(t) \/ Verified(t)
             \/ RecordExit(t) \/ Reduce(t) \/ ActivateTrailing(t)
      PROVE  EnvTypeOK'
  BY <1>4 DEF Claim, ReadLocked, BodyStart, ReadBalance, CloseEmpty, Broadcast, KnownDead,
     Caught, Recheck, MarkUnsellable, Confirmed, Verified, RecordExit, Reduce,
     ActivateTrailing, envVars
<1>5. ASSUME NEW t \in Task, ReleaseRow(t) \/ Close(t) PROVE EnvTypeOK'
  <2>1. UNCHANGED <<breached, requests, exitLogs>>
    BY <1>5 DEF ReleaseRow, Close
  <2>2. faults' = faults \/ Fault
    BY <1>5 DEF ReleaseRow, Close
  <2> QED
    BY <2>1, <2>2 DEF Fault
<1>6. ASSUME NEW t \in Task, Failed(t) \/ CountNoRoute(t) \/ RecordTrade(t) PROVE EnvTypeOK'
  BY <1>6 DEF Failed, CountNoRoute, RecordTrade, envVars
<1>7. ASSUME NEW t \in Task, WriteExitLog(t) PROVE EnvTypeOK'
  <2>1. op[t].result \in {"closed", "noop"}
    BY <1>7 DEF WriteExitLog, Locals, LocalsOf
  <2> QED
    BY <1>7, <2>1 DEF WriteExitLog, envVars
<1>8. ASSUME NEW i \in 1..Len(txs), Land(i) \/ Drop(i) PROVE EnvTypeOK'
  <2>1. UNCHANGED <<breached, requests, exitLogs>>
    BY <1>8 DEF Land, Drop, envVars
  <2>2. faults' = faults \/ Fault
    BY <1>8 DEF Land, Drop, envVars
  <2> QED
    BY <2>1, <2>2 DEF Fault
<1>9. CASE TimePasses \/ Breach
  BY <1>9 DEF TimePasses, ClaimLapses, LockLapses, BackoffPasses, Breach, envVars
<1>10. CASE Crash
  BY <1>10 DEF Crash, Fault
<1> QED
  BY <1>1, <1>2, <1>3, <1>4, <1>5, <1>6, <1>7, <1>8, <1>9, <1>10 DEF Next, Body, ChainStep

\* Every step keeps the locks and the callers in type.
LEMMA CallStep == ASSUME TypeOK, Locals, Next PROVE CallTypeOK'
<1> USE DEF TypeOK, CallTypeOK
<1>1. ASSUME NEW t \in Task, Decline(t) PROVE CallTypeOK'
  BY <1>1, FinishType DEF Decline
<1>2. ASSUME NEW t \in Task, ClaimError(t) PROVE CallTypeOK'
  BY <1>2, FinishType DEF ClaimError
<1>3. ASSUME NEW t \in Task, CallerError(t) PROVE CallTypeOK'
  BY <1>3, FinishType DEF CallerError
<1>4. ASSUME NEW t \in Task, ActivateTrailing(t) PROVE CallTypeOK'
  BY <1>4, FinishType DEF ActivateTrailing
<1>5. ASSUME NEW t \in Task, WriteExitLog(t) PROVE CallTypeOK'
  BY <1>5, FinishType DEF WriteExitLog
<1>6. ASSUME NEW t \in Task, Read(t) PROVE CallTypeOK'
  <2>1. op' = [op EXCEPT ![t].base = remaining]
    BY <1>6 DEF Read
  <2>2. op' \in [Task -> OpType]
    BY <2>1 DEF OpType, RowTypeOK
  <2> QED
    BY <1>6, <2>2 DEF Read, Goto, PC, InSet
<1>7. ASSUME NEW t \in Task, TickRead(t) PROVE CallTypeOK'
  BY <1>7, FinishType, BaseTrailedType, GotoType DEF TickRead, RowTypeOK, PC, InSet
<1>8. ASSUME NEW t \in Task, DirectClose(t) PROVE CallTypeOK'
  <2>1. Enter(t, "close", 0, 0)
    BY <1>8 DEF DirectClose, closePosition
  <2> QED
    BY <2>1, EnterUnchanged, EnterType
<1>9. ASSUME NEW t \in Task, DecideClose(t) PROVE CallTypeOK'
  <2>1. Enter(t, "close", 0, 0)
    BY <1>9 DEF DecideClose, closePosition
  <2> QED
    BY <2>1, EnterUnchanged, EnterType
<1>10. ASSUME NEW t \in Task, DecideLadder(t) PROVE CallTypeOK'
  <2>1. op[t].base \in Nat
    BY DEF OpType
  <2>2. LadderAmount(op[t].base) \in Nat
    BY <2>1 DEF LadderAmount, Smaller, Bigger
  <2>3. PICK tier \in 0..(Tiers - 1) : Choose(t, tier, LadderAmount(op[t].base))
    BY <1>10 DEF DecideLadder
  <2> QED
    BY <2>2, <2>3, ChooseType
<1>11. ASSUME NEW t \in Task, DecideTp1(t) PROVE CallTypeOK'
  <2>1. Enter(t, "partial", 0, TierAmount)
    BY <1>11 DEF DecideTp1, executePartialSell
  <2> QED
    BY <2>1, EnterUnchanged, EnterType
<1>12. ASSUME NEW t \in Task, DecideManual(t) PROVE CallTypeOK'
  <2>1. ManualTier \in Int
    BY FS_Subset, FS_CardinalityType DEF ManualTier, Locals
  <2>2. PICK want \in 1..op[t].base : Choose(t, ManualTier, want)
    BY <1>12 DEF DecideManual
  <2>3. want \in Nat
    BY DEF OpType
  <2> QED
    BY <2>1, <2>2, <2>3, ChooseType
<1>37. ASSUME NEW t \in Task, CallPartial(t) PROVE CallTypeOK'
  <2>1. op[t].tier \in Int /\ op[t].want \in Nat
    BY DEF OpType
  <2>2. Enter(t, "partial", op[t].tier, op[t].want)
    BY <1>37 DEF CallPartial, executePartialSell
  <2> QED
    BY <2>1, <2>2, EnterUnchanged, EnterType
<1>13. ASSUME NEW t \in Task, Claim(t) PROVE CallTypeOK'
  BY <1>13, FinishType DEF Claim, Goto, PC, InSet
<1>14. ASSUME NEW t \in Task, ReadLocked(t) PROVE CallTypeOK'
  <2>1. CASE Leave(t, "noop")
    BY <1>14, <2>1, LeaveType DEF ReadLocked, BodyStart
  <2>2. CASE Goto(t, "balance") /\ ~Leave(t, "noop")
    <3> DEFINE w == IF op[t].kind = "close" THEN remaining ELSE op[t].want
    <3>1. w \in Nat
      BY DEF OpType, RowTypeOK
    <3>2. op' = [op EXCEPT ![t].base = remaining, ![t].want = w]
      BY <1>14, <2>2 DEF ReadLocked, BodyStart
    <3>3. op' \in [Task -> OpType]
      BY <3>1, <3>2, BaseWantType
    <3> QED
      BY <1>14, <2>2, <3>3 DEF ReadLocked, BodyStart, Goto, PC, InSet
  <2> QED
    BY <1>14, <2>1, <2>2 DEF ReadLocked, BodyStart
<1>15. ASSUME NEW t \in Task, ReadBalance(t) PROVE CallTypeOK'
  <2> DEFINE amt == Smaller(op[t].want, balance)
  <2>1. amt \in Nat
    BY DEF Smaller, OpType, ChainTypeOK
  <2>2. CASE amt > 0
    <3>1. op' = [op EXCEPT ![t].amt = amt, ![t].tries = 1]
      BY <1>15, <2>2 DEF ReadBalance
    <3>2. op' \in [Task -> OpType]
      BY <2>1, <3>1, AmountTriesType
    <3> QED
      BY <1>15, <2>2, <3>2 DEF ReadBalance, Goto, PC, InSet
  <2>3. CASE ~(amt > 0)
    BY <1>15, <2>3, LeaveType DEF ReadBalance, Goto, PC, InSet
  <2> QED
    BY <2>2, <2>3
<1>16. ASSUME NEW t \in Task, CloseEmpty(t) PROVE CallTypeOK'
  BY <1>16, LeaveType DEF CloseEmpty
<1>17. ASSUME NEW t \in Task, MarkUnsellable(t) PROVE CallTypeOK'
  BY <1>17, LeaveType DEF MarkUnsellable
<1>18. ASSUME NEW t \in Task, Close(t) PROVE CallTypeOK'
  BY <1>18, LeaveType DEF Close
<1>19. ASSUME NEW t \in Task, BodyError(t) PROVE CallTypeOK'
  BY <1>19, LeaveType DEF BodyError
<1>20. ASSUME NEW t \in Task, VerifyFails(t) PROVE CallTypeOK'
  BY <1>20, LeaveType DEF VerifyFails
<1>21. ASSUME NEW t \in Task, Reduce(t) PROVE CallTypeOK'
  BY <1>21, LeaveType DEF Reduce
<1>22. ASSUME NEW t \in Task, Broadcast(t) PROVE CallTypeOK'
  <2>1. Len(txs) + 1 \in Nat /\ op' = [op EXCEPT ![t].tx = Len(txs) + 1]
    BY <1>22 DEF Broadcast, ChainTypeOK
  <2>2. op' \in [Task -> OpType]
    BY <2>1, TxFieldType
  <2> QED
    BY <1>22, <2>2 DEF Broadcast, Goto, PC, InSet
<1>23. ASSUME NEW t \in Task, PrepareFails(t) PROVE CallTypeOK'
  <2>1. PICK cat \in Category : Caught(t, cat)
    BY <1>23 DEF PrepareFails, Category
  <2> QED
    BY <2>1, CaughtType DEF Caught
<1>24. ASSUME NEW t \in Task, OutcomeUnknown(t) PROVE CallTypeOK'
  <2>1. PICK cat \in Category : Caught(t, cat)
    BY <1>24 DEF OutcomeUnknown, Category
  <2> QED
    BY <2>1, CaughtType DEF Caught
<1>25. ASSUME NEW t \in Task, KnownDead(t) PROVE CallTypeOK'
  <2>1. PICK cat \in Category : Caught(t, cat)
    BY <1>25 DEF KnownDead, Category
  <2> QED
    BY <2>1, CaughtType DEF Caught
<1>26. ASSUME NEW t \in Task, Recheck(t) PROVE CallTypeOK'
  BY <1>26, RetryType DEF Recheck, Goto, PC, InSet
<1>27. ASSUME NEW t \in Task, RecheckFails(t) PROVE CallTypeOK'
  BY <1>27, RetryType DEF RecheckFails
<1>28. ASSUME NEW t \in Task, Failed(t) PROVE CallTypeOK'
  BY <1>28, LeaveType DEF Failed, Goto, PC, InSet
<1>29. ASSUME NEW t \in Task, CountNoRoute(t) PROVE CallTypeOK'
  BY <1>29, LeaveType DEF CountNoRoute, Goto, PC, InSet
<1>30. ASSUME NEW t \in Task, Confirmed(t) PROVE CallTypeOK'
  BY <1>30 DEF Confirmed, Goto, PC, InSet
<1>31. ASSUME NEW t \in Task, Verified(t) PROVE CallTypeOK'
  BY <1>31 DEF Verified, Goto, PC, InSet
<1>32. ASSUME NEW t \in Task, RecordTrade(t) PROVE CallTypeOK'
  BY <1>32 DEF RecordTrade, Goto, PC, InSet
<1>33. ASSUME NEW t \in Task, RecordExit(t) PROVE CallTypeOK'
  BY <1>33 DEF RecordExit, Goto, PC, InSet
<1>34. ASSUME NEW t \in Task, ReleaseRow(t) PROVE CallTypeOK'
  BY <1>34, FinishType DEF ReleaseRow, After, Goto, PC, InSet
<1>35. CASE ChainStep \/ TimePasses \/ Breach
  BY <1>35 DEF ChainStep, Land, Drop, TimePasses, ClaimLapses, LockLapses, BackoffPasses, Breach
<1>36. CASE Crash
  <2>1. Idle \in OpType
    BY DEF Idle, OpType, Category
  <2> QED
    BY <1>36, <2>1 DEF Crash, PC, InSet
<1> QED
  BY <1>1, <1>2, <1>3, <1>4, <1>5, <1>6, <1>7, <1>8, <1>9, <1>10, <1>11, <1>12, <1>13,
     <1>14, <1>15, <1>16, <1>17, <1>18, <1>19, <1>20, <1>21, <1>22, <1>23, <1>24, <1>25,
     <1>26, <1>27, <1>28, <1>29, <1>30, <1>31, <1>32, <1>33, <1>34, <1>35, <1>36, <1>37
     DEF Next, Body, Decide, Failure

-----------------------------------------------------------------------------
\* --- Every step of a caller moves that caller alone ------------------------------

OthersStay(t) == \A u \in Task \ {t} : pc'[u] = pc[u] /\ op'[u] = op[u]

\* A step moves one caller at most, or the process crashes.
LEMMA OthersStayStep ==
  ASSUME TypeOK, NEW t \in Task, Read(t) \/ Decide(t) \/ Body(t) \/ Failure(t)
  PROVE  OthersStay(t)
<1> USE DEF OthersStay, TypeOK, CallTypeOK, Goto, Leave, Finish
<1>1. CASE Read(t)
  BY <1>1 DEF Read
<1>2. CASE Decide(t)
  BY <1>2 DEF Decide, TickRead, DirectClose, Decline, DecideClose, DecideLadder, DecideTp1,
     DecideManual, Choose, CallPartial, closePosition, executePartialSell, Enter
<1>3. CASE Failure(t)
  BY <1>3 DEF Failure, ClaimError, BodyError, PrepareFails, OutcomeUnknown, RecheckFails,
     VerifyFails, CallerError, Caught, Retry
<1>4. CASE Claim(t) \/ ReadLocked(t) \/ ReadBalance(t) \/ CloseEmpty(t)
  BY <1>4 DEF Claim, ReadLocked, BodyStart, ReadBalance, CloseEmpty
<1>5. CASE Broadcast(t) \/ KnownDead(t) \/ Recheck(t)
  BY <1>5 DEF Broadcast, KnownDead, Caught, Recheck, Retry
<1>6. CASE Failed(t) \/ CountNoRoute(t) \/ MarkUnsellable(t)
  BY <1>6 DEF Failed, CountNoRoute, MarkUnsellable
<1>7. CASE Confirmed(t) \/ Verified(t) \/ RecordTrade(t) \/ RecordExit(t)
  BY <1>7 DEF Confirmed, Verified, RecordTrade, RecordExit
<1>8. CASE Reduce(t) \/ Close(t) \/ ReleaseRow(t) \/ ActivateTrailing(t) \/ WriteExitLog(t)
  BY <1>8 DEF Reduce, Close, ReleaseRow, ActivateTrailing, WriteExitLog
<1> QED
  BY <1>1, <1>2, <1>3, <1>4, <1>5, <1>6, <1>7, <1>8 DEF Body

\* A swap leaves only at the send place of a call in the locked body.
LEMMA OnlyBroadcastSends ==
  ASSUME TypeOK, Locals, Next
  PROVE  Len(txs') = Len(txs) \/ \E t \in Task : Broadcast(t)
<1>1. ASSUME NEW t \in Task, Reduce(t) \/ Close(t) PROVE Len(txs') = Len(txs)
  <2>1. op[t].tx \in 1..Len(txs) /\ Book(t)
    BY <1>1 DEF Reduce, Close, Locals, LocalsOf, Following
  <2> QED
    BY <2>1, BookType
<1>2. ASSUME NEW i \in 1..Len(txs), Land(i) \/ Drop(i) PROVE Len(txs') = Len(txs)
  BY <1>2, SetStateType DEF Land, Drop
<1>3. ASSUME NEW t \in Task, Read(t) \/ Decide(t) \/ Failure(t) PROVE UNCHANGED txs
  BY <1>3 DEF Decide, Failure, Read, TickRead, DirectClose, Decline, DecideClose, DecideLadder,
     DecideTp1, DecideManual, Choose, CallPartial, closePosition, executePartialSell, Enter,
     ClaimError, BodyError, PrepareFails, OutcomeUnknown, RecheckFails, VerifyFails,
     CallerError, Caught, chainVars
<1>4. ASSUME NEW t \in Task, Body(t), ~Broadcast(t), ~Reduce(t), ~Close(t) PROVE UNCHANGED txs
  BY <1>4 DEF Body, Claim, ReadLocked, BodyStart, ReadBalance, CloseEmpty, KnownDead, Caught,
     Recheck, Failed, CountNoRoute, MarkUnsellable, Confirmed, Verified, RecordTrade, RecordExit,
     ReleaseRow, ActivateTrailing, WriteExitLog, chainVars
<1>5. CASE TimePasses \/ Breach \/ Crash
  BY <1>5 DEF TimePasses, ClaimLapses, LockLapses, BackoffPasses, Breach, Crash, chainVars
<1> QED
  BY <1>1, <1>2, <1>3, <1>4, <1>5 DEF Next, ChainStep

\* Swaps are only ever added.
LEMMA TxsGrow == ASSUME TypeOK, Locals, Next PROVE 1..Len(txs) \subseteq 1..Len(txs')
<1>1. ASSUME NEW t \in Task, Broadcast(t) PROVE Len(txs') = Len(txs) + 1
  BY <1>1, BroadcastType DEF Locals, LocalsOf, Broadcast, InSet
<1>2. Len(txs) \in Nat
  BY DEF TypeOK, ChainTypeOK
<1> QED
  BY <1>1, <1>2, OnlyBroadcastSends

\* The checks and the amount leave what is sold as it was asked for.
LEMMA BodyStartKeeps ==
  ASSUME TypeOK, NEW t \in Task, ReadLocked(t)
  PROVE  /\ pc[t] = "read" /\ pc'[t] \in {"release", "balance"}
         /\ op'[t].kind = op[t].kind /\ op'[t].tier = op[t].tier
<1>0. pc[t] = "read" /\ op \in [Task -> OpType] /\ op[t] \in OpType /\ pc \in [Task -> PC]
  BY DEF ReadLocked, BodyStart, TypeOK, CallTypeOK
<1>1. CASE Leave(t, "noop")
  BY <1>0, <1>1 DEF Leave, OpType
<1>2. CASE ~Leave(t, "noop")
  <2> DEFINE w == IF op[t].kind = "close" THEN remaining ELSE op[t].want
             o == [op[t] EXCEPT !.base = remaining, !.want = w]
  <2>1. Goto(t, "balance") /\ op' = [op EXCEPT ![t] = o]
    BY <1>0, <1>2 DEF ReadLocked, BodyStart
  <2>2. o.kind = op[t].kind /\ o.tier = op[t].tier
    BY <1>0 DEF OpType
  <2>3. op'[t] = o
    BY <1>0, <2>1
  <2> QED
    BY <1>0, <2>1, <2>2, <2>3 DEF Goto
<1> QED
  BY <1>1, <1>2

\* Reading the balance changes neither kind, tier nor swap of a call.
LEMMA ReadBalanceKeeps ==
  ASSUME TypeOK, NEW t \in Task, ReadBalance(t)
  PROVE  /\ pc[t] = "balance" /\ pc'[t] \in {"release", "send", "empty"}
         /\ op'[t].kind = op[t].kind /\ op'[t].tier = op[t].tier
<1>0. pc[t] = "balance" /\ op \in [Task -> OpType] /\ op[t] \in OpType /\ pc \in [Task -> PC]
  BY DEF ReadBalance, TypeOK, CallTypeOK
<1> DEFINE amt == Smaller(op[t].want, balance)
           o == [op[t] EXCEPT !.amt = amt, !.tries = 1]
<1>1. CASE Goto(t, "send") /\ op' = [op EXCEPT ![t] = o]
  <2>1. op'[t] = o
    BY <1>0, <1>1
  <2>2. o.kind = op[t].kind /\ o.tier = op[t].tier
    BY <1>0 DEF OpType
  <2> QED
    BY <1>0, <1>1, <2>1, <2>2 DEF Goto
<1>2. CASE Goto(t, "empty") /\ UNCHANGED op
  BY <1>0, <1>2 DEF Goto
<1>3. CASE Leave(t, "noop")
  BY <1>0, <1>3 DEF Leave, OpType
<1> QED
  BY <1>0, <1>1, <1>2, <1>3 DEF ReadBalance

\* What Locals says of a caller that a step leaves alone.
LEMMA LocalsFrame ==
  ASSUME TypeOK, Locals, Next, NEW t \in Task, OthersStay(t), LocalsOf(t)', IsFiniteSet(exits')
  PROVE  Locals'
BY TxsGrow DEF Locals, LocalsOf, OthersStay

\* Every step keeps Locals.
LEMMA LocalsStep == ASSUME TypeOK, Locals, Next PROVE Locals'
<1>1. IsFiniteSet(exits')
  <2>1. ASSUME NEW t \in Task, RecordExit(t) PROVE IsFiniteSet(exits')
    BY <2>1, FS_AddElement DEF RecordExit, Locals
  <2>2. ASSUME NEW t \in Task, Read(t) \/ Decide(t) \/ Failure(t) PROVE UNCHANGED exits
    BY <2>2 DEF Decide, Failure, Read, TickRead, DirectClose, Decline, DecideClose, DecideLadder,
       DecideTp1, DecideManual, Choose, CallPartial, closePosition, executePartialSell, Enter,
       ClaimError, BodyError, PrepareFails, OutcomeUnknown, RecheckFails, VerifyFails,
     CallerError, Caught, dbVars
  <2>3. ASSUME NEW t \in Task, Body(t), ~RecordExit(t) PROVE UNCHANGED exits
    BY <2>3 DEF Body, Claim, ReadLocked, BodyStart, ReadBalance, CloseEmpty, Broadcast, KnownDead,
       Caught, Recheck, Failed, CountNoRoute, MarkUnsellable, Confirmed, Verified, RecordTrade,
       Reduce, Close, ReleaseRow, ActivateTrailing, WriteExitLog, dbVars
  <2>4. CASE ChainStep \/ TimePasses \/ Breach \/ Crash
    BY <2>4 DEF ChainStep, Land, Drop, TimePasses, ClaimLapses, LockLapses, BackoffPasses, Breach,
       Crash, dbVars, Locals
  <2> QED
    BY <2>1, <2>2, <2>3, <2>4 DEF Next, Locals
<1>2. ASSUME NEW t \in Task, Read(t) \/ Decide(t) \/ Body(t) \/ Failure(t) PROVE LocalsOf(t)'
  <2> USE DEF LocalsOf, TypeOK, CallTypeOK, InSet, Following
  <2>0. LocalsOf(t)
    BY DEF Locals
  <2>1. CASE Read(t) \/ TickRead(t) \/ Decline(t)
    BY <2>1 DEF Read, TickRead, Decline, Goto, Finish
  <2>2. ASSUME NEW kind \in {"close", "partial"}, NEW tier, NEW want, Enter(t, kind, tier, want)
        PROVE  LocalsOf(t)'
    <3>1. pc'[t] \in {"idle", "claim"}
      BY <2>2 DEF Enter, Goto, Finish
    <3>2. pc'[t] = "claim" => op'[t].kind = kind
      BY <2>2 DEF Enter, Finish, OpType
    <3> QED
      BY <3>1, <3>2
  <2>3. CASE DirectClose(t) \/ DecideClose(t)
    BY <2>3, <2>2 DEF DirectClose, DecideClose, closePosition
  <2>4. CASE DecideTp1(t) \/ CallPartial(t)
    BY <2>4, <2>2 DEF DecideTp1, CallPartial, executePartialSell
  <2>17. CASE DecideLadder(t) \/ DecideManual(t)
    BY <2>17 DEF DecideLadder, DecideManual, Choose, Goto
  <2>5. CASE Claim(t)
    BY <2>5, <2>0 DEF Claim, Goto, Finish
  <2>6. CASE ReadLocked(t)
    BY <2>6, <2>0, BodyStartKeeps
  <2>7. CASE ReadBalance(t)
    BY <2>7, <2>0, ReadBalanceKeeps
  <2>8. CASE \/ CloseEmpty(t) \/ MarkUnsellable(t) \/ Reduce(t) \/ Close(t)
             \/ BodyError(t) \/ VerifyFails(t)
    BY <2>8 DEF CloseEmpty, MarkUnsellable, Reduce, Close, BodyError, VerifyFails, Leave
  <2>9. CASE Broadcast(t)
    <3>1. Len(txs') = Len(txs) + 1 /\ Len(txs) \in Nat
      BY <2>9, <2>0, BroadcastType DEF Broadcast, ChainTypeOK
    <3>2. pc'[t] = "confirm" /\ op'[t].tx = Len(txs) + 1 /\ op'[t].kind = op[t].kind
      BY <2>9 DEF Broadcast, Goto, OpType
    <3> QED
      BY <2>9, <3>1, <3>2, <2>0 DEF Broadcast
  <2>10. ASSUME NEW cat \in Category, Caught(t, cat), pc[t] \in InSet PROVE LocalsOf(t)'
    <3>1. op'[t].kind = op[t].kind /\ op'[t].tries = op[t].tries /\ op[t].tries \in 0..MaxTries
      BY <2>10 DEF Caught, OpType
    <3>2. (pc'[t] = "recheck" /\ op[t].tries < MaxTries) \/ pc'[t] = "failed"
      BY <2>10 DEF Caught, Goto
    <3> QED
      BY <2>10, <3>1, <3>2, <2>0
  <2>11. CASE PrepareFails(t) \/ OutcomeUnknown(t) \/ KnownDead(t)
    BY <2>11, <2>10 DEF PrepareFails, OutcomeUnknown, KnownDead, Category
  <2>12. CASE Recheck(t) \/ RecheckFails(t)
    <3>1. op'[t].kind = op[t].kind
      BY <2>12 DEF Recheck, RecheckFails, Retry, OpType
    <3>2. pc'[t] \in {"failed", "send"} /\ pc[t] = "recheck"
      BY <2>12 DEF Recheck, RecheckFails, Retry, Goto
    <3> QED
      BY <3>1, <3>2, <2>0
  <2>13. CASE Failed(t) \/ CountNoRoute(t)
    BY <2>13, <2>0 DEF Failed, CountNoRoute, Goto, Leave
  <2>14. CASE Confirmed(t) \/ Verified(t) \/ RecordTrade(t) \/ RecordExit(t)
    <3>1. op[t].kind \in {"none", "close", "partial"}
      BY DEF OpType
    <3> QED
      BY <2>14, <3>1, <2>0 DEF Confirmed, Verified, RecordTrade, RecordExit, Goto, chainVars
  <2>15. CASE ReleaseRow(t)
    BY <2>15 DEF ReleaseRow, After, Goto, Finish
  <2>16. CASE ActivateTrailing(t) \/ WriteExitLog(t) \/ ClaimError(t) \/ CallerError(t)
    BY <2>16 DEF ActivateTrailing, WriteExitLog, ClaimError, CallerError, Finish
  <2> QED
    BY <1>2, <2>1, <2>3, <2>4, <2>5, <2>6, <2>7, <2>8, <2>9, <2>11, <2>12, <2>13, <2>14, <2>15,
       <2>16, <2>17 DEF Decide, Body, Failure
<1>3. ASSUME NEW t \in Task, Read(t) \/ Decide(t) \/ Body(t) \/ Failure(t) PROVE Locals'
  BY <1>1, <1>2, <1>3, OthersStayStep, LocalsFrame
<1>4. CASE ChainStep \/ TimePasses \/ Breach
  <2>1. UNCHANGED <<pc, op>>
    BY <1>4 DEF ChainStep, Land, Drop, TimePasses, ClaimLapses, LockLapses, BackoffPasses, Breach
  <2> QED
    BY <1>1, <2>1, TxsGrow DEF Locals, LocalsOf
<1>5. CASE Crash
  BY <1>1, <1>5 DEF Crash, Locals, LocalsOf, InSet, Following
<1> QED
  BY <1>3, <1>4, <1>5 DEF Next

-----------------------------------------------------------------------------
\* --- One call in the locked body, and what it may do -----------------------------

\* A caller outside the locked body after its step.
LEMMA OutFrame ==
  ASSUME TypeOK, Control, NEW t \in Task, OthersStay(t), pc'[t] \notin InSet, exits' = exits,
         unverified' => unverified,
         pc[t] \in InSet \/ (status' = status /\ unsellable' = unsellable)
  PROVE  Control'
<1>1. ASSUME NEW u \in Task, pc'[u] \in InSet PROVE u # t /\ pc[u] \in InSet /\ op'[u] = op[u]
  BY <1>1 DEF OthersStay
<1>2. Alone' /\ VerifiesOnly'
  BY <1>1 DEF Control, Alone, VerifiesOnly, OthersStay
<1>3. NotPastChecks'
  BY <1>1 DEF Control, Alone, NotPastChecks, OthersStay
<1>4. SellsOpenTier' /\ TierOnce'
  BY <1>1 DEF Control, SellsOpenTier, TierOnce, Taken, OthersStay
<1> QED
  BY <1>2, <1>3, <1>4 DEF Control

\* A caller that enters, or moves inside, the locked body: alone there, it is
\* the only one the invariant is about.
LEMMA SoloFrame ==
  ASSUME TypeOK, Control, NEW t \in Task, OthersStay(t),
         pc[t] \in InSet \/ ~Busy,
         unverified' /\ pc'[t] \in InSet => pc'[t] = "verify" /\ op'[t].kind = "close",
         (status' = "CLOSED" \/ unsellable') /\ pc'[t] \in InSet => pc'[t] \in {"claim", "read"},
         pc'[t] \in InSet \ {"claim", "read", "reduce"} /\ op'[t].kind = "partial"
            => ~Taken(op[t].tier)',
         TierOnce'
  PROVE  Control'
<1>1. ASSUME NEW u \in Task, pc'[u] \in InSet PROVE u = t
  BY <1>1 DEF OthersStay, Control, Alone, Busy
<1> QED
  BY <1>1 DEF Control, Alone, VerifiesOnly, NotPastChecks, SellsOpenTier

\* The same for a step that writes no row and sets no lock.
LEMMA QuietFrame ==
  ASSUME TypeOK, Control, NEW t \in Task, OthersStay(t), pc[t] \in InSet \ {"claim", "read"},
         pc'[t] \in InSet \ {"reduce"} => pc[t] # "reduce",
         op'[t].kind = op[t].kind, op'[t].tier = op[t].tier,
         UNCHANGED <<exits, status, unsellable>>,
         unverified' => unverified, unverified' => pc[t] # "verify"
  PROVE  Control'
<1>1. ~unverified'
  BY DEF Control, VerifiesOnly
<1>2. ~(status' = "CLOSED" \/ unsellable')
  BY DEF Control, NotPastChecks
<1>3. TierOnce'
  BY DEF Control, TierOnce
<1>4. pc'[t] \in InSet \ {"claim", "read", "reduce"} /\ op'[t].kind = "partial"
         => ~Taken(op[t].tier)'
  BY DEF Control, SellsOpenTier, Taken
<1> QED
  BY <1>1, <1>2, <1>3, <1>4, SoloFrame

\* Enter keeps the control part: it lets a call in only past both locks.
LEMMA EnterControl ==
  ASSUME TypeOK, Control, NEW t \in Task, NEW kind, NEW tier, NEW want, OthersStay(t),
         Enter(t, kind, tier, want)
  PROVE  Control'
<1>1. UNCHANGED <<exits, status, unsellable, unverified>>
  BY DEF Enter, dbVars
<1>2. CASE unverified \/ Busy
  <2>1. pc'[t] = "idle"
    BY <1>2 DEF Enter, Finish, TypeOK, CallTypeOK
  <2> QED
    BY <1>1, <2>1, OutFrame DEF InSet
<1>3. CASE ~(unverified \/ Busy)
  <2>1. pc'[t] = "claim"
    BY <1>3 DEF Enter, Goto, TypeOK, CallTypeOK
  <2>2. TierOnce'
    BY <1>1 DEF Control, TierOnce
  <2> QED
    BY <1>1, <1>3, <2>1, <2>2, SoloFrame
<1> QED
  BY <1>2, <1>3

\* Every step keeps the control part.
LEMMA ControlStep == ASSUME TypeOK, Locals, Control, Next PROVE Control'
<1> USE DEF InSet
<1>1. ASSUME NEW t \in Task,
             \/ Read(t) \/ TickRead(t) \/ Decline(t) \/ ClaimError(t) \/ BodyError(t)
             \/ VerifyFails(t) \/ CallerError(t) \/ ReleaseRow(t) \/ ActivateTrailing(t)
             \/ WriteExitLog(t) \/ DecideLadder(t) \/ DecideManual(t)
      PROVE  Control'
  <2>1. OthersStay(t)
    BY <1>1, OthersStayStep DEF Decide, Failure, Body
  <2>2. pc'[t] \in {"idle", "tick", "decide", "call", "release", "activate", "log"}
    BY <1>1 DEF Read, TickRead, Decline, DecideLadder, DecideManual, Choose, ClaimError, BodyError,
       VerifyFails, CallerError,
       ReleaseRow, After, ActivateTrailing, WriteExitLog, Goto, Finish, Leave, TypeOK, CallTypeOK
  <2>3. UNCHANGED <<exits, status, unsellable, unverified>>
    BY <1>1 DEF Read, TickRead, Decline, DecideLadder, DecideManual, Choose, ClaimError, BodyError,
       VerifyFails, CallerError,
       ReleaseRow, ActivateTrailing, WriteExitLog, dbVars
  <2> QED
    BY <2>1, <2>2, <2>3, OutFrame
<1>2. ASSUME NEW t \in Task, CloseEmpty(t) \/ MarkUnsellable(t) \/ Reduce(t) \/ Close(t)
      PROVE  Control'
  <2>1. OthersStay(t)
    BY <1>2, OthersStayStep DEF Body
  <2>2. pc[t] \in InSet /\ pc'[t] = "release"
    BY <1>2 DEF CloseEmpty, MarkUnsellable, Reduce, Close, Leave, TypeOK, CallTypeOK
  <2>3. UNCHANGED <<exits, unverified>>
    BY <1>2 DEF CloseEmpty, MarkUnsellable, Reduce, Close, dbVars
  <2> QED
    BY <2>1, <2>2, <2>3, OutFrame
<1>3. ASSUME NEW t \in Task, DirectClose(t) \/ DecideClose(t) PROVE Control'
  BY <1>3, OthersStayStep, EnterControl DEF Decide, DirectClose, DecideClose, closePosition
<1>4. ASSUME NEW t \in Task, DecideTp1(t) \/ CallPartial(t) PROVE Control'
  BY <1>4, OthersStayStep, EnterControl
     DEF Decide, DecideTp1, CallPartial, executePartialSell
<1>5. ASSUME NEW t \in Task, Claim(t) PROVE Control'
  <2>1. OthersStay(t)
    BY <1>5, OthersStayStep DEF Body
  <2>2. pc[t] = "claim" /\ pc'[t] \in {"read", "idle"}
    BY <1>5 DEF Claim, Goto, Finish, TypeOK, CallTypeOK
  <2>3. UNCHANGED <<exits, status, unsellable, unverified>>
    BY <1>5 DEF Claim, dbVars
  <2>4. ~unverified' /\ TierOnce'
    BY <2>2, <2>3 DEF Control, VerifiesOnly, TierOnce
  <2> QED
    BY <2>1, <2>2, <2>3, <2>4, SoloFrame
<1>6. ASSUME NEW t \in Task, ReadLocked(t) PROVE Control'
  <2>1. OthersStay(t)
    BY <1>6, OthersStayStep DEF Body
  <2>2. /\ pc[t] = "read" /\ pc'[t] \in {"release", "balance"}
        /\ op'[t].kind = op[t].kind /\ op'[t].tier = op[t].tier
    BY <1>6, BodyStartKeeps
  <2>3. UNCHANGED <<exits, status, unsellable, unverified>>
    BY <1>6 DEF ReadLocked, BodyStart, dbVars
  <2>4. ~unverified' /\ TierOnce'
    BY <2>2, <2>3 DEF Control, VerifiesOnly, TierOnce
  <2>5. status = "CLOSED" \/ unsellable \/ TierDone(t) => pc'[t] = "release"
    BY <1>6 DEF ReadLocked, BodyStart, Leave, TypeOK, CallTypeOK
  <2>6. pc'[t] = "balance" /\ op'[t].kind = "partial" => ~Taken(op[t].tier)'
    BY <2>2, <2>3, <2>5 DEF TierDone, Taken
  <2> QED
    BY <2>1, <2>2, <2>3, <2>4, <2>5, <2>6, SoloFrame
<1>7. ASSUME NEW t \in Task, ReadBalance(t) PROVE Control'
  <2>1. OthersStay(t)
    BY <1>7, OthersStayStep DEF Body
  <2>2. UNCHANGED <<exits, status, unsellable, unverified>>
    BY <1>7 DEF ReadBalance, dbVars
  <2> QED
    BY <1>7, <2>1, <2>2, ReadBalanceKeeps, QuietFrame
<1>8. ASSUME NEW t \in Task,
             \/ Broadcast(t) \/ PrepareFails(t) \/ OutcomeUnknown(t) \/ KnownDead(t)
             \/ Recheck(t) \/ RecheckFails(t) \/ Failed(t) \/ CountNoRoute(t)
      PROVE  Control'
  <2>1. OthersStay(t)
    BY <1>8, OthersStayStep DEF Body, Failure
  <2>2. UNCHANGED <<exits, status, unsellable, unverified>>
    BY <1>8 DEF Broadcast, PrepareFails, OutcomeUnknown, KnownDead, Caught, Recheck, RecheckFails,
       Failed, CountNoRoute, dbVars
  <2>3. pc[t] \in {"send", "confirm", "recheck", "failed", "noRoute"}
    BY <1>8 DEF Broadcast, PrepareFails, OutcomeUnknown, KnownDead, Recheck, RecheckFails,
       Failed, CountNoRoute
  <2>4. op'[t].kind = op[t].kind /\ op'[t].tier = op[t].tier
    <3> USE DEF TypeOK, CallTypeOK, OpType
    <3>1. CASE Broadcast(t)
      BY <3>1 DEF Broadcast
    <3>2. CASE PrepareFails(t) \/ OutcomeUnknown(t) \/ KnownDead(t)
      BY <3>2 DEF PrepareFails, OutcomeUnknown, KnownDead, Caught
    <3>3. CASE Recheck(t) \/ RecheckFails(t)
      BY <3>3 DEF Recheck, RecheckFails, Retry
    <3>4. CASE Failed(t) \/ CountNoRoute(t)
      BY <3>4 DEF Failed, CountNoRoute, Leave
    <3> QED
      BY <1>8, <3>1, <3>2, <3>3, <3>4
  <2> QED
    BY <2>1, <2>2, <2>3, <2>4, QuietFrame
<1>9. ASSUME NEW t \in Task, Confirmed(t) PROVE Control'
  <2>1. OthersStay(t)
    BY <1>9, OthersStayStep DEF Body
  <2>2. /\ pc[t] = "confirm" /\ pc'[t] = "verify" /\ UNCHANGED <<op, exits, status, unsellable>>
    BY <1>9 DEF Confirmed, Goto, TypeOK, CallTypeOK, dbVars
  <2>3. unverified' => op[t].kind = "close"
    BY <1>9, <2>2 DEF Confirmed, Control, VerifiesOnly
  <2>4. ~(status' = "CLOSED" \/ unsellable')
    BY <2>2 DEF Control, NotPastChecks
  <2>5. TierOnce' /\ (op'[t].kind = "partial" => ~Taken(op[t].tier)')
    BY <2>2 DEF Control, TierOnce, SellsOpenTier, Taken
  <2> QED
    BY <2>1, <2>2, <2>3, <2>4, <2>5, SoloFrame
<1>10. ASSUME NEW t \in Task, Verified(t) PROVE Control'
  <2>1. OthersStay(t)
    BY <1>10, OthersStayStep DEF Body
  <2>2. /\ pc[t] = "verify" /\ pc'[t] = "trade" /\ UNCHANGED <<op, exits, status, unsellable>>
    BY <1>10 DEF Verified, Goto, TypeOK, CallTypeOK, dbVars
  <2>3. ~unverified'
    BY <1>10, <2>2 DEF Verified, Control, VerifiesOnly
  <2> QED
    BY <2>1, <2>2, <2>3, QuietFrame
<1>11. ASSUME NEW t \in Task, RecordTrade(t) PROVE Control'
  <2>1. OthersStay(t)
    BY <1>11, OthersStayStep DEF Body
  <2>2. /\ pc[t] = "trade" /\ pc'[t] \in {"close", "exitRow"}
        /\ UNCHANGED <<op, exits, status, unsellable, unverified>>
    BY <1>11 DEF RecordTrade, Goto, TypeOK, CallTypeOK
  <2> QED
    BY <2>1, <2>2, QuietFrame
<1>12. ASSUME NEW t \in Task, RecordExit(t) PROVE Control'
  <2>1. OthersStay(t)
    BY <1>12, OthersStayStep DEF Body
  <2>2. /\ pc[t] = "exitRow" /\ pc'[t] = "reduce"
        /\ exits' = exits \cup {[tier |-> op[t].tier, tx |-> op[t].tx]}
        /\ UNCHANGED <<op, status, unsellable, unverified>>
    BY <1>12 DEF RecordExit, Goto, TypeOK, CallTypeOK
  <2>3. ~unverified' /\ ~(status' = "CLOSED" \/ unsellable')
    BY <2>2 DEF Control, VerifiesOnly, NotPastChecks
  <2>4. op[t].kind = "partial"
    BY <2>2 DEF Locals, LocalsOf
  <2>5. TierOnce'
    BY <2>2, <2>4 DEF Control, TierOnce, SellsOpenTier, Taken
  <2> QED
    BY <2>1, <2>2, <2>3, <2>5, SoloFrame
<1>13. CASE ChainStep \/ TimePasses \/ Breach
  <2>1. UNCHANGED <<pc, op, exits, status, unsellable>> /\ (unverified' => unverified)
    BY <1>13 DEF ChainStep, Land, Drop, TimePasses, ClaimLapses, LockLapses, BackoffPasses, Breach,
       dbVars
  <2> QED
    BY <2>1 DEF Control, Alone, VerifiesOnly, NotPastChecks, SellsOpenTier, TierOnce, Taken
<1>14. CASE Crash
  BY <1>14 DEF Crash, dbVars, Control, Alone, VerifiesOnly, NotPastChecks, SellsOpenTier,
     TierOnce, Taken
<1> QED
  BY <1>1, <1>2, <1>3, <1>4, <1>5, <1>6, <1>7, <1>8, <1>9, <1>10, <1>11, <1>12, <1>13, <1>14
     DEF Next, Decide, Body, Failure
-----------------------------------------------------------------------------
\* --- Theorems -------------------------------------------------------------------

\* The initial states satisfy the inductive invariant.
LEMMA InitOK == Init => IInv
<1> SUFFICES ASSUME Init PROVE IInv
  OBVIOUS
<1>1. Idle \in OpType
  BY DEF Idle, OpType, Category
<1>2. txs \in Seq(TxType) /\ Len(txs) = 0
  BY EmptySeq DEF Init
<1>3. TypeOK
  <2>1. RowTypeOK
    <3>1. Amount \in 0..Amount /\ 0 \in Nat
      BY AmountAssumption
    <3> QED
      BY <3>1 DEF Init, RowTypeOK
  <2>4. EnvTypeOK
    <3>1. 0 \in 0..MaxFaults /\ 0 \in 0..MaxRequests
      OBVIOUS
    <3> QED
      BY <3>1 DEF Init, EnvTypeOK
  <2>2. ChainTypeOK
    BY <1>2 DEF Init, ChainTypeOK
  <2>3. CallTypeOK
    BY <1>1 DEF Init, CallTypeOK, PC, InSet
  <2> QED
    BY <2>1, <2>2, <2>3, <2>4 DEF TypeOK
<1>4. Locals
  BY FS_EmptySet DEF Init, Locals, LocalsOf, InSet, Following
<1>5. Control
  BY DEF Init, Control, Alone, VerifiesOnly, NotPastChecks, SellsOpenTier, TierOnce, Taken, InSet
<1> QED
  BY <1>3, <1>4, <1>5 DEF IInv

\* Every step, stuttering included, keeps the inductive invariant.
LEMMA StepOK == IInv /\ [Next]_vars => IInv'
<1> SUFFICES ASSUME IInv, [Next]_vars PROVE IInv'
  OBVIOUS
<1>1. CASE Next
  BY <1>1, RowStep, ChainStepType, CallStep, EnvStep, LocalsStep, ControlStep DEF IInv, TypeOK
<1>2. CASE UNCHANGED vars
  BY <1>2 DEF vars, dbVars, chainVars, envVars, IInv, TypeOK, RowTypeOK, ChainTypeOK,
     CallTypeOK, EnvTypeOK, Locals, LocalsOf, Control, Alone, VerifiesOnly, NotPastChecks,
     SellsOpenTier, TierOnce, Taken
<1> QED
  BY <1>1, <1>2

\* The inductive invariant holds in every reachable state.
THEOREM Invariance == Spec => []IInv
BY InitOK, StepOK, PTL DEF Spec

\* Every variable keeps its type.
THEOREM TypeCorrect == Spec => []TypeOK
<1>1. IInv => TypeOK
  BY DEF IInv
<1> QED
  BY <1>1, Invariance, PTL

\* No tier is recorded as sold twice.
THEOREM TierSoldOnce == Spec => []TierOnce
<1>1. IInv => TierOnce
  BY DEF IInv, Control
<1> QED
  BY <1>1, Invariance, PTL

\* What the control part says of a caller about to send.
LEMMA SenderIsFree ==
  ASSUME IInv, NEW t \in Task, Broadcast(t)
  PROVE  ~unverified /\ status = "OPEN" /\ ~unsellable
BY DEF IInv, TypeOK, RowTypeOK, Control, VerifiesOnly, NotPastChecks, Broadcast, InSet

\* No swap is sent while a close is unverified.
THEOREM UnverifiedHoldsSells == Spec => NoSellWhileUnverified
<1>1. ASSUME IInv, Next, unverified PROVE NothingSent
  BY <1>1, OnlyBroadcastSends, SenderIsFree DEF IInv, NothingSent
<1>2. IInv /\ [Next]_vars => [unverified => NothingSent]_vars
  BY <1>1
<1> QED
  BY <1>2, Invariance, PTL DEF Spec, NoSellWhileUnverified

\* No swap is sent for a position marked unsellable.
THEOREM UnsellableStays == Spec => UnsellableNotSold
<1>1. ASSUME IInv, Next, unsellable PROVE NothingSent
  BY <1>1, OnlyBroadcastSends, SenderIsFree DEF IInv, NothingSent
<1>2. IInv /\ [Next]_vars => [unsellable => NothingSent]_vars
  BY <1>1
<1> QED
  BY <1>2, Invariance, PTL DEF Spec, UnsellableNotSold

\* A CLOSED position stays closed, keeps its amount and is not sold again.
THEOREM ClosedForGood == Spec => ClosedIsFinal
<1> DEFINE Kept == status = "CLOSED" =>
                     status' = "CLOSED" /\ remaining' = remaining /\ NothingSent
<1>1. ASSUME IInv, Next PROVE Kept
  <2> SUFFICES ASSUME status = "CLOSED"
               PROVE  status' = "CLOSED" /\ remaining' = remaining /\ NothingSent
    OBVIOUS
  <2>1. NothingSent
    BY <1>1, OnlyBroadcastSends, SenderIsFree DEF IInv, NothingSent
  <2>2. ASSUME NEW t \in Task PROVE ~Reduce(t) /\ ~CloseEmpty(t) /\ ~Close(t)
    BY <1>1 DEF IInv, Control, NotPastChecks, Reduce, CloseEmpty, Close, InSet
  <2>3. ASSUME NEW t \in Task, Read(t) \/ Decide(t) \/ Failure(t)
        PROVE  UNCHANGED <<status, remaining>>
    BY <2>3 DEF Decide, Failure, Read, TickRead, DirectClose, Decline, DecideClose, DecideLadder,
       DecideTp1, DecideManual, Choose, CallPartial, closePosition, executePartialSell, Enter,
       ClaimError, BodyError, PrepareFails, OutcomeUnknown, RecheckFails, VerifyFails,
     CallerError, Caught, dbVars
  <2>4. ASSUME NEW t \in Task, Body(t) PROVE UNCHANGED <<status, remaining>>
    BY <2>2, <2>4 DEF Body, Claim, ReadLocked, BodyStart, ReadBalance, Broadcast, KnownDead,
       Caught, Recheck, Failed, CountNoRoute, MarkUnsellable, Confirmed, Verified, RecordTrade,
       RecordExit, ReleaseRow, ActivateTrailing, WriteExitLog, dbVars
  <2>5. CASE ChainStep \/ TimePasses \/ Breach \/ Crash
    BY <2>1, <2>5 DEF ChainStep, Land, Drop, TimePasses, ClaimLapses, LockLapses, BackoffPasses,
       Breach, Crash, dbVars
  <2> QED
    BY <1>1, <2>1, <2>3, <2>4, <2>5 DEF Next
<1>2. IInv /\ [Next]_vars => [Kept]_vars
  BY <1>1
<1> QED
  BY <1>2, Invariance, PTL DEF Spec, ClosedIsFinal
-----------------------------------------------------------------------------
\* --- The books ---------------------------------------------------------------
\* The rows are written in order, the wallet loses no more than the
\* position's tokens unless a swap was left to itself or sold more than was
\* left, what remains is lowered by every recorded partial sale, and trailing
\* is on only after TP1's sale.

\* What a call in the locked body knows: the amount that remains since it read
\* the row, its own swap while it follows it up, and the rows it has written.
HandOf(t) ==
    /\ pc[t] \in InSet \ {"claim", "read"} => op[t].base = remaining
    /\ pc[t] \in Following =>
         /\ ~txs[op[t].tx].booked
         /\ txs[op[t].tx].kind = op[t].kind
         /\ txs[op[t].tx].amt = op[t].amt
         /\ txs[op[t].tx].base = op[t].base
    /\ pc[t] \in Following \ {"confirm"} => txs[op[t].tx].state = "landed"
    /\ pc[t] \in {"exitRow", "reduce", "close"} => op[t].tx \in trades
    /\ pc[t] = "reduce" => \E e \in exits : e.tx = op[t].tx
    /\ pc[t] = "close" => op[t].kind = "close"

Hands == \A t \in Task : HandOf(t)

\* At most one close reaches the row, and closes it.
IsClosing(i) == txs[i].booked /\ txs[i].kind = "close"

ClosedOnce ==
    /\ \A i \in 1..Len(txs) : IsClosing(i) => status = "CLOSED"
    /\ \A i, j \in 1..Len(txs) : IsClosing(i) /\ IsClosing(j) => i = j

\* Landed swaps whose amount is still part of what the row says remains.
Outstanding == {i \in Landed : txs[i].kind = "close" \/ ~txs[i].booked}

\* Without a gap at most one swap is outstanding, and the wallet holds the
\* other tokens and what remains, less what that swap took.
Accounts ==
    ~Gap =>
      /\ \A i, j \in Outstanding : i = j
      /\ Outstanding = {} => balance = Other + remaining
      /\ \A i \in Outstanding :
           txs[i].amt <= remaining /\ balance = Other + remaining - txs[i].amt

Books == Hands /\ RecordsInOrder /\ ClosedOnce /\ Accounts

\* TP1 sells under index 0; a call that goes on to switch trailing on has sold.
Tp1Caller(t) == ExitMode = "tp1" /\ t \in PriceTick

Tp1Of(t) ==
    Tp1Caller(t) =>
      /\ pc[t] # "call"
      /\ pc[t] \in InSet /\ op[t].kind = "partial" => op[t].tier = 0
      /\ pc[t] \in Following => txs[op[t].tx].tier = op[t].tier

Tp1Sold == \E i \in 1..Len(txs) : txs[i].booked /\ txs[i].kind = "partial" /\ txs[i].tier = 0

Tp1Inv ==
    /\ \A t \in Task : Tp1Of(t)
    /\ \A t \in Task : pc[t] = "activate" => Tp1Caller(t) /\ op[t].result = "sold"
    /\ \A t \in Task : Tp1Caller(t) /\ pc[t] \in {"release", "activate"}
                         /\ op[t].result = "sold" => Tp1Sold
    /\ trailing => Tp1Sold
-----------------------------------------------------------------------------
\* --- What a step does to the swaps --------------------------------------------

USE AmountAssumption, BoundAssumption

\* The steps that touch neither the swaps nor the amounts nor the rows.
Still == UNCHANGED <<txs, balance, remaining, trades, exits>>

Writes(t) == Broadcast(t) \/ RecordTrade(t) \/ RecordExit(t) \/ Reduce(t) \/ Close(t)

\* Only five steps of a call write to the books or send.
LEMMA CallerStill ==
  ASSUME NEW t \in Task, Read(t) \/ Decide(t) \/ Body(t) \/ Failure(t), ~Writes(t)
  PROVE  Still
<1>1. CASE Read(t) \/ Decide(t) \/ Failure(t)
  BY <1>1 DEF Still, Decide, Failure, Read, TickRead, DirectClose, Decline, DecideClose, DecideLadder,
     DecideTp1, DecideManual, Choose, CallPartial, closePosition, executePartialSell, Enter,
     ClaimError, BodyError, PrepareFails, OutcomeUnknown, RecheckFails, VerifyFails,
     CallerError, Caught, dbVars, chainVars
<1>2. CASE Body(t)
  BY <1>2 DEF Still, Writes, Body, Claim, ReadLocked, BodyStart, ReadBalance, CloseEmpty, KnownDead,
     Caught, Recheck, Failed, CountNoRoute, MarkUnsellable, Confirmed, Verified,
     ReleaseRow, ActivateTrailing, WriteExitLog, dbVars, chainVars
<1> QED
  BY <1>1, <1>2

\* The amounts of a swap are numbers.
LEMMA SwapType ==
  ASSUME TypeOK, NEW i \in 1..Len(txs)
  PROVE  txs[i] \in TxType /\ txs[i].amt \in Nat /\ txs[i].base \in Nat
<1>1. txs[i] \in TxType
  BY DEF TypeOK, ChainTypeOK
<1> QED
  BY <1>1 DEF TxType

\* A settled swap differs from the pending one in its state only.
LEMMA SetStateFields ==
  ASSUME TypeOK, NEW i \in 1..Len(txs), NEW s \in {"landed", "dead"}, SetState(i, s)
  PROVE  /\ Len(txs') = Len(txs)
         /\ \A j \in 1..Len(txs) :
              /\ txs'[j].kind = txs[j].kind /\ txs'[j].tier = txs[j].tier
              /\ txs'[j].amt = txs[j].amt /\ txs'[j].base = txs[j].base
              /\ txs'[j].booked = txs[j].booked
              /\ txs'[j].state = IF j = i THEN s ELSE txs[j].state
<1>1. \A j \in 1..Len(txs) : txs[j] \in TxType
  BY DEF TypeOK, ChainTypeOK
<1>2. txs' = [txs EXCEPT ![i] = [txs[i] EXCEPT !.state = s]]
  BY DEF SetState, TypeOK, ChainTypeOK
<1>3. /\ Len(txs') = Len(txs)
      /\ \A j \in 1..Len(txs) :
            txs'[j] = IF j = i THEN [txs[i] EXCEPT !.state = s] ELSE txs[j]
  BY <1>2, ExceptSeq DEF TypeOK, ChainTypeOK
<1> QED
  BY <1>1, <1>2, <1>3 DEF TxType

\* A booked swap differs in being booked only.
LEMMA BookFields ==
  ASSUME TypeOK, NEW t \in Task, op[t].tx \in 1..Len(txs), Book(t)
  PROVE  /\ Len(txs') = Len(txs)
         /\ \A j \in 1..Len(txs) :
              /\ txs'[j].kind = txs[j].kind /\ txs'[j].tier = txs[j].tier
              /\ txs'[j].amt = txs[j].amt /\ txs'[j].base = txs[j].base
              /\ txs'[j].state = txs[j].state
              /\ txs'[j].booked = IF j = op[t].tx THEN TRUE ELSE txs[j].booked
<1>1. \A j \in 1..Len(txs) : txs[j] \in TxType
  BY DEF TypeOK, ChainTypeOK
<1> DEFINE i == op[t].tx
<1>2. txs' = [txs EXCEPT ![i] = [txs[i] EXCEPT !.booked = TRUE]]
  BY DEF Book, TypeOK, ChainTypeOK
<1>3. /\ Len(txs') = Len(txs)
      /\ \A j \in 1..Len(txs) :
            txs'[j] = IF j = i THEN [txs[i] EXCEPT !.booked = TRUE] ELSE txs[j]
  BY <1>2, ExceptSeq DEF TypeOK, ChainTypeOK
<1>4. ASSUME NEW x \in TxType, NEW y, y = [x EXCEPT !.booked = TRUE]
      PROVE  /\ y.kind = x.kind /\ y.tier = x.tier /\ y.amt = x.amt /\ y.base = x.base
             /\ y.state = x.state /\ y.booked = TRUE
  BY <1>4 DEF TxType
<1>5. ASSUME NEW j \in 1..Len(txs)
      PROVE  /\ txs'[j].kind = txs[j].kind /\ txs'[j].tier = txs[j].tier
             /\ txs'[j].amt = txs[j].amt /\ txs'[j].base = txs[j].base
             /\ txs'[j].state = txs[j].state
             /\ txs'[j].booked = IF j = op[t].tx THEN TRUE ELSE txs[j].booked
  <2>1. CASE j = i
    BY <1>1, <1>3, <1>4, <2>1
  <2>2. CASE j # i
    BY <1>3, <2>2
  <2> QED
    BY <2>1, <2>2
<1> QED
  BY <1>3, <1>5

\* A new swap comes last, pending and not booked.
LEMMA SendFields ==
  ASSUME TypeOK, NEW t \in Task, Broadcast(t)
  PROVE  /\ Len(txs') = Len(txs) + 1 /\ Len(txs) \in Nat
         /\ \A j \in 1..Len(txs) : txs'[j] = txs[j]
         /\ txs'[Len(txs')].kind = op[t].kind /\ txs'[Len(txs')].tier = op[t].tier
         /\ txs'[Len(txs')].amt = op[t].amt /\ txs'[Len(txs')].base = op[t].base
         /\ txs'[Len(txs')].state = "pending" /\ txs'[Len(txs')].booked = FALSE
<1> DEFINE x == [kind |-> op[t].kind, tier |-> op[t].tier, amt |-> op[t].amt,
                 base |-> op[t].base, state |-> "pending", booked |-> FALSE]
<1>1. txs' = Append(txs, x) /\ Len(txs) \in Nat
  BY DEF Broadcast, TypeOK, ChainTypeOK
<1>2. /\ x.kind = op[t].kind /\ x.tier = op[t].tier /\ x.amt = op[t].amt
      /\ x.base = op[t].base /\ x.state = "pending" /\ x.booked = FALSE
  OBVIOUS
<1> HIDE DEF x
<1>3. Len(txs') = Len(txs) + 1 /\ (\A j \in 1..Len(txs) : txs'[j] = txs[j])
        /\ txs'[Len(txs) + 1] = x
  BY <1>1 DEF TypeOK, ChainTypeOK
<1> QED
  BY <1>1, <1>2, <1>3

\* What a sent swap is for and what it takes never changes; once landed it
\* stays so, and only the call that follows it up books it.
LEMMA SwapsStay ==
  ASSUME TypeOK, Locals, Next, NEW i \in 1..Len(txs)
  PROVE  /\ i \in 1..Len(txs')
         /\ txs'[i].kind = txs[i].kind /\ txs'[i].tier = txs[i].tier
         /\ txs'[i].amt = txs[i].amt /\ txs'[i].base = txs[i].base
         /\ txs[i].state = "landed" => txs'[i].state = "landed"
         /\ txs[i].booked => txs'[i].booked
         /\ txs'[i].booked => \/ txs[i].booked
                              \/ \E t \in Task : (Reduce(t) \/ Close(t)) /\ op[t].tx = i
<1>0. i \in 1..Len(txs')
  BY TxsGrow
<1>1. ASSUME NEW t \in Task, Reduce(t) \/ Close(t) PROVE op[t].tx \in 1..Len(txs) /\ Book(t)
  BY <1>1 DEF Reduce, Close, Locals, LocalsOf, Following
<1>2. CASE \E t \in Task : Reduce(t) \/ Close(t)
  BY <1>0, <1>1, <1>2, BookFields
<1>3. CASE \E t \in Task : Broadcast(t)
  BY <1>0, <1>3, SendFields
<1>4. CASE ChainStep
  <2>1. PICK j \in 1..Len(txs) : Land(j) \/ Drop(j)
    BY <1>4 DEF ChainStep
  <2>2. txs[j].state = "pending" /\ \E s \in {"landed", "dead"} : SetState(j, s)
    BY <2>1 DEF Land, Drop
  <2> QED
    BY <1>0, <2>2, SetStateFields
<1>5. ASSUME NEW t \in Task, Read(t) \/ Decide(t) \/ Body(t) \/ Failure(t),
             ~Broadcast(t), ~Reduce(t), ~Close(t)
      PROVE  UNCHANGED txs
  <2>1. CASE RecordTrade(t) \/ RecordExit(t)
    BY <2>1 DEF RecordTrade, RecordExit, chainVars
  <2> QED
    BY <1>5, <2>1, CallerStill DEF Writes, Still
<1>6. CASE TimePasses \/ Breach \/ Crash
  BY <1>0, <1>6 DEF TimePasses, ClaimLapses, LockLapses, BackoffPasses, Breach, Crash, chainVars
<1> QED
  BY <1>0, <1>2, <1>3, <1>4, <1>5, <1>6 DEF Next
-----------------------------------------------------------------------------
\* --- What a call knows ----------------------------------------------------------

\* Places of the locked body at which a call knows the row but follows no swap.
Preparing == {"balance", "empty", "send", "recheck", "failed", "noRoute", "mark"}

\* A step that stays there keeps the amount the call read.
LEMMA BaseKept ==
  ASSUME TypeOK, NEW t \in Task,
         \/ ReadBalance(t) \/ PrepareFails(t) \/ OutcomeUnknown(t) \/ KnownDead(t)
         \/ Recheck(t) \/ RecheckFails(t) \/ Failed(t) \/ CountNoRoute(t)
  PROVE  /\ pc[t] \in InSet \ {"claim", "read"} /\ pc'[t] \in Preparing \cup {"release"}
         /\ op'[t].base = op[t].base
<1> USE DEF Preparing, InSet
<1>0. op \in [Task -> OpType] /\ op[t] \in OpType /\ pc \in [Task -> PC]
  BY DEF TypeOK, CallTypeOK
<1>1. CASE ReadBalance(t)
  <2> DEFINE amt == Smaller(op[t].want, balance)
             o == [op[t] EXCEPT !.amt = amt, !.tries = 1]
  <2>1. CASE Goto(t, "send") /\ op' = [op EXCEPT ![t] = o]
    <3>1. op'[t] = o /\ o.base = op[t].base
      BY <1>0, <2>1 DEF OpType
    <3> QED
      BY <1>0, <1>1, <2>1, <3>1 DEF Goto, ReadBalance
  <2>2. CASE (Goto(t, "empty") /\ UNCHANGED op) \/ Leave(t, "noop")
    BY <1>0, <1>1, <2>2 DEF Goto, Leave, OpType, ReadBalance
  <2> QED
    BY <1>0, <1>1, <2>1, <2>2 DEF ReadBalance
<1>2. ASSUME NEW cat \in Category, Caught(t, cat)
      PROVE  pc'[t] \in {"recheck", "failed"} /\ op'[t].base = op[t].base
  BY <1>0, <1>2 DEF Caught, Goto, OpType
<1>3. CASE PrepareFails(t) \/ OutcomeUnknown(t) \/ KnownDead(t)
  BY <1>2, <1>3 DEF PrepareFails, OutcomeUnknown, KnownDead, Category
<1>4. CASE Recheck(t) \/ RecheckFails(t)
  BY <1>0, <1>4 DEF Recheck, RecheckFails, Retry, Goto, OpType
<1>5. CASE Failed(t) \/ CountNoRoute(t)
  BY <1>0, <1>5 DEF Failed, CountNoRoute, Goto, Leave, OpType
<1> QED
  BY <1>1, <1>3, <1>4, <1>5

\* A call that enters the locked body has not read the row yet.
LEMMA EnterPlace ==
  ASSUME TypeOK, NEW t \in Task, NEW kind, NEW tier, NEW want, Enter(t, kind, tier, want)
  PROVE  pc'[t] \in {"idle", "claim"}
BY DEF Enter, Goto, Finish, TypeOK, CallTypeOK

\* Steps after which a call knows nothing of the row.
LEMMA KnowsNothing ==
  ASSUME TypeOK, NEW t \in Task,
         \/ Read(t) \/ Decide(t) \/ Claim(t) \/ CloseEmpty(t) \/ MarkUnsellable(t) \/ Reduce(t)
         \/ Close(t) \/ ReleaseRow(t) \/ ActivateTrailing(t) \/ WriteExitLog(t)
         \/ ClaimError(t) \/ BodyError(t) \/ VerifyFails(t) \/ CallerError(t)
  PROVE  pc'[t] \notin InSet \ {"claim", "read"}
<1> USE DEF InSet, TypeOK, CallTypeOK, Goto, Leave, Finish
<1>1. CASE DirectClose(t) \/ DecideClose(t)
  BY <1>1, EnterPlace DEF DirectClose, DecideClose, closePosition
<1>2. CASE DecideTp1(t) \/ CallPartial(t)
  BY <1>2, EnterPlace DEF DecideTp1, CallPartial, executePartialSell
<1>3. CASE Read(t) \/ TickRead(t) \/ Decline(t) \/ DecideLadder(t) \/ DecideManual(t)
  BY <1>3 DEF Read, TickRead, Decline, DecideLadder, DecideManual, Choose
<1>4. CASE \/ Claim(t) \/ ReleaseRow(t) \/ ActivateTrailing(t) \/ WriteExitLog(t)
           \/ ClaimError(t) \/ CallerError(t)
  BY <1>4 DEF Claim, ReleaseRow, After, ActivateTrailing, WriteExitLog, ClaimError, CallerError
<1>5. CASE \/ CloseEmpty(t) \/ MarkUnsellable(t) \/ Reduce(t) \/ Close(t)
           \/ BodyError(t) \/ VerifyFails(t)
  BY <1>5 DEF CloseEmpty, MarkUnsellable, Reduce, Close, BodyError, VerifyFails
<1> QED
  BY <1>1, <1>2, <1>3, <1>4, <1>5 DEF Decide

\* Steps after which a call knows the row and follows no swap.
LEMMA KnowsRow ==
  ASSUME TypeOK, NEW t \in Task, HandOf(t),
         \/ ReadLocked(t) \/ ReadBalance(t) \/ PrepareFails(t) \/ OutcomeUnknown(t)
         \/ KnownDead(t) \/ Recheck(t) \/ RecheckFails(t) \/ Failed(t) \/ CountNoRoute(t)
  PROVE  pc'[t] \in Preparing \cup {"release"} /\ (pc'[t] = "release" \/ op'[t].base = remaining)
<1>1. CASE ReadLocked(t)
  <2> DEFINE w == IF op[t].kind = "close" THEN remaining ELSE op[t].want
             o == [op[t] EXCEPT !.base = remaining, !.want = w]
  <2>0. op \in [Task -> OpType] /\ op[t] \in OpType /\ pc \in [Task -> PC]
    BY DEF TypeOK, CallTypeOK
  <2>1. CASE Leave(t, "noop")
    BY <2>0, <2>1 DEF Leave
  <2>2. CASE Goto(t, "balance") /\ op' = [op EXCEPT ![t] = o]
    <3>1. op'[t] = o /\ o.base = remaining
      BY <2>0, <2>2 DEF OpType
    <3> QED
      BY <2>0, <2>2, <3>1 DEF Goto, Preparing
  <2> QED
    BY <1>1, <2>0, <2>1, <2>2 DEF ReadLocked, BodyStart
<1>2. CASE \/ ReadBalance(t) \/ PrepareFails(t) \/ OutcomeUnknown(t) \/ KnownDead(t)
           \/ Recheck(t) \/ RecheckFails(t) \/ Failed(t) \/ CountNoRoute(t)
  BY <1>2, BaseKept DEF HandOf
<1> QED
  BY <1>1, <1>2

\* A call that follows its swap up goes on with the same swap and amounts.
LEMMA FollowsOn ==
  ASSUME TypeOK, NEW t \in Task,
         Confirmed(t) \/ Verified(t) \/ RecordTrade(t) \/ RecordExit(t)
  PROVE  /\ pc[t] \in Following /\ pc'[t] \in Following \ {"confirm"}
         /\ pc[t] = "confirm" => txs[op[t].tx].state = "landed"
         /\ UNCHANGED <<op, txs, balance, remaining, status>>
BY DEF Confirmed, Verified, RecordTrade, RecordExit, Goto, TypeOK, CallTypeOK, Following, dbVars,
   chainVars

\* A call's own step keeps what it knows.
LEMMA OwnHand ==
  ASSUME TypeOK, Locals, NEW t \in Task, HandOf(t), Read(t) \/ Decide(t) \/ Body(t) \/ Failure(t)
  PROVE  HandOf(t)'
<1> USE DEF HandOf, InSet, Following
<1>1. CASE \/ Read(t) \/ Decide(t) \/ Claim(t) \/ CloseEmpty(t) \/ MarkUnsellable(t) \/ Reduce(t)
           \/ Close(t) \/ ReleaseRow(t) \/ ActivateTrailing(t) \/ WriteExitLog(t)
           \/ ClaimError(t) \/ BodyError(t) \/ VerifyFails(t) \/ CallerError(t)
  BY <1>1, KnowsNothing
<1>2. CASE \/ ReadLocked(t) \/ ReadBalance(t) \/ PrepareFails(t) \/ OutcomeUnknown(t)
           \/ KnownDead(t) \/ Recheck(t) \/ RecheckFails(t) \/ Failed(t) \/ CountNoRoute(t)
  <2>1. remaining' = remaining
    BY <1>2 DEF ReadLocked, BodyStart, ReadBalance, PrepareFails, OutcomeUnknown, KnownDead, Caught,
       Recheck, RecheckFails, Failed, CountNoRoute, dbVars
  <2> QED
    BY <1>2, <2>1, KnowsRow DEF Preparing
<1>3. CASE Broadcast(t)
  <2>1. op \in [Task -> OpType] /\ op[t] \in OpType /\ pc \in [Task -> PC]
    BY DEF TypeOK, CallTypeOK
  <2>2. pc'[t] = "confirm" /\ pc[t] = "send" /\ remaining' = remaining
    BY <1>3, <2>1 DEF Broadcast, Goto, dbVars
  <2>3. /\ op'[t].tx = Len(txs) + 1 /\ op'[t].kind = op[t].kind
        /\ op'[t].amt = op[t].amt /\ op'[t].base = op[t].base
    BY <1>3, <2>1 DEF Broadcast, OpType
  <2> QED
    BY <1>3, <2>2, <2>3, SendFields
<1>4. CASE Confirmed(t) \/ Verified(t)
  <2>1. pc'[t] \in {"verify", "trade"}
    BY <1>4 DEF Confirmed, Verified, Goto, TypeOK, CallTypeOK
  <2> QED
    BY <1>4, <2>1, FollowsOn
<1>5. CASE RecordTrade(t)
  <2>1. /\ pc[t] = "trade" /\ pc'[t] = (IF op[t].kind = "close" THEN "close" ELSE "exitRow")
        /\ op[t].tx \in trades'
    BY <1>5 DEF RecordTrade, Goto, TypeOK, CallTypeOK
  <2> QED
    BY <1>5, <2>1, FollowsOn
<1>6. CASE RecordExit(t)
  <2>1. pc[t] = "exitRow" /\ pc'[t] = "reduce" /\ trades' = trades
    BY <1>6 DEF RecordExit, Goto, TypeOK, CallTypeOK
  <2>2. [tier |-> op[t].tier, tx |-> op[t].tx] \in exits'
    BY <1>6 DEF RecordExit
  <2>3. \E e \in exits' : e.tx = op[t].tx
    BY <2>2
  <2> QED
    BY <1>6, <2>1, <2>3, FollowsOn
<1> QED
  BY <1>1, <1>2, <1>3, <1>4, <1>5, <1>6 DEF Body, Failure

\* Steps taken outside the locked body leave the books alone.
LEMMA OutsideStill ==
  ASSUME NEW t \in Task, pc[t] \notin InSet, Read(t) \/ Decide(t) \/ Body(t) \/ Failure(t)
  PROVE  Still
<1>1. ~Writes(t)
  BY DEF Writes, InSet, Broadcast, RecordTrade, RecordExit, Reduce, Close
<1> QED
  BY <1>1, CallerStill

\* Every step keeps what each call knows.
LEMMA HandsStep == ASSUME IInv, Hands, Next PROVE Hands'
<1> USE DEF IInv
<1>1. ASSUME NEW t \in Task, Read(t) \/ Decide(t) \/ Body(t) \/ Failure(t),
             NEW u \in Task, u # t
      PROVE  HandOf(u)'
  <2>1. pc'[u] = pc[u] /\ op'[u] = op[u]
    BY <1>1, OthersStayStep DEF OthersStay
  <2>2. CASE pc[u] \in InSet
    <3>1. pc[t] \notin InSet
      BY <1>1, <2>2 DEF Control, Alone
    <3> QED
      BY <1>1, <2>1, <3>1, OutsideStill DEF Still, Hands, HandOf
  <2>3. CASE pc[u] \notin InSet
    BY <2>1, <2>3 DEF HandOf, InSet, Following
  <2> QED
    BY <2>2, <2>3
<1>2. ASSUME NEW t \in Task, Read(t) \/ Decide(t) \/ Body(t) \/ Failure(t) PROVE Hands'
  <2>1. HandOf(t)'
    BY <1>2, OwnHand DEF Hands
  <2> QED
    BY <1>1, <1>2, <2>1 DEF Hands
<1>3. CASE ChainStep
  <2>1. UNCHANGED <<pc, op, remaining, trades, exits>>
    BY <1>3 DEF ChainStep, Land, Drop, dbVars
  <2>2. ASSUME NEW t \in Task, pc[t] \in Following
        PROVE  /\ op[t].tx \in 1..Len(txs) /\ (txs'[op[t].tx].booked = txs[op[t].tx].booked)
    <3>1. PICK i \in 1..Len(txs) : \E s \in {"landed", "dead"} : SetState(i, s)
      BY <1>3 DEF ChainStep, Land, Drop
    <3>2. op[t].tx \in 1..Len(txs)
      BY <2>2 DEF Locals, LocalsOf
    <3> QED
      BY <3>1, <3>2, SetStateFields
  <2> QED
    BY <2>1, <2>2, SwapsStay DEF Hands, HandOf
<1>4. CASE TimePasses \/ Breach
  <2>1. UNCHANGED <<pc, op, remaining, trades, exits, txs>>
    BY <1>4 DEF TimePasses, ClaimLapses, LockLapses, BackoffPasses, Breach, dbVars, chainVars
  <2> QED
    BY <2>1 DEF Hands, HandOf
<1>5. CASE Crash
  BY <1>5 DEF Crash, Hands, HandOf, InSet, Following
<1> QED
  BY <1>2, <1>3, <1>4, <1>5 DEF Next
-----------------------------------------------------------------------------
\* --- The rows are written in order ----------------------------------------------

\* The status changes only to CLOSED.
LEMMA StatusStays ==
  ASSUME TypeOK, Next
  PROVE  status' = status \/ status' = "CLOSED"
<1>1. ASSUME NEW t \in Task, Read(t) \/ Decide(t) \/ Failure(t) PROVE status' = status
  BY <1>1 DEF Decide, Failure, Read, TickRead, DirectClose, Decline, DecideClose, DecideLadder,
     DecideTp1, DecideManual, Choose, CallPartial, closePosition, executePartialSell, Enter,
     ClaimError, BodyError, PrepareFails, OutcomeUnknown, RecheckFails, VerifyFails,
     CallerError, Caught, dbVars
<1>2. ASSUME NEW t \in Task, Body(t) PROVE status' = status \/ status' = "CLOSED"
  BY <1>2 DEF Body, Claim, ReadLocked, BodyStart, ReadBalance, CloseEmpty, Broadcast, KnownDead,
     Caught, Recheck, Failed, CountNoRoute, MarkUnsellable, Confirmed, Verified, RecordTrade,
     RecordExit, Reduce, Close, ReleaseRow, ActivateTrailing, WriteExitLog, dbVars
<1>3. CASE ChainStep \/ TimePasses \/ Breach \/ Crash
  BY <1>3 DEF ChainStep, Land, Drop, TimePasses, ClaimLapses, LockLapses, BackoffPasses, Breach,
     Crash, dbVars
<1> QED
  BY <1>1, <1>2, <1>3 DEF Next

\* A call that books its swap has landed it and recorded its trade, a partial
\* one its exit row too, a close while the position is open.
LEMMA Booking ==
  ASSUME IInv, Hands, NEW t \in Task, Reduce(t) \/ Close(t)
  PROVE  /\ op[t].tx \in Landed /\ op[t].tx \in trades /\ Book(t)
         /\ Reduce(t) => /\ txs[op[t].tx].kind = "partial" /\ (\E e \in exits : e.tx = op[t].tx)
                         /\ UNCHANGED status
         /\ Close(t) => txs[op[t].tx].kind = "close" /\ status' = "CLOSED" /\ status # "CLOSED"
         /\ UNCHANGED <<trades, exits, balance>>
<1>1. op[t].tx \in 1..Len(txs)
  BY DEF Reduce, Close, IInv, Locals, LocalsOf, Following
<1>2. pc[t] \in {"reduce", "close"} /\ op[t].tx \in trades /\ txs[op[t].tx].state = "landed"
  BY DEF Reduce, Close, Hands, HandOf, Following
<1>3. ASSUME Reduce(t)
      PROVE  /\ txs[op[t].tx].kind = "partial" /\ (\E e \in exits : e.tx = op[t].tx)
             /\ UNCHANGED status
  BY <1>3 DEF Reduce, Hands, HandOf, Following, IInv, Locals, LocalsOf
<1>4. ASSUME Close(t)
      PROVE  txs[op[t].tx].kind = "close" /\ status' = "CLOSED" /\ status # "CLOSED"
  BY <1>4 DEF Close, Hands, HandOf, Following, IInv, Control, NotPastChecks, InSet
<1>5. Book(t) /\ UNCHANGED <<trades, exits, balance>>
  BY DEF Reduce, Close
<1> QED
  BY <1>1, <1>2, <1>3, <1>4, <1>5 DEF Landed

\* Every step keeps the order of the rows.
LEMMA RecordsStep == ASSUME IInv, Hands, RecordsInOrder, Next PROVE RecordsInOrder'
<1> USE DEF IInv
<1>1. Landed \subseteq Landed'
  BY SwapsStay DEF Landed
<1>2. trades \subseteq trades' /\ exits \subseteq exits' /\ trades' \subseteq Landed'
        /\ (\A e \in exits' : e.tx \in trades')
  <2>1. ASSUME NEW t \in Task, RecordTrade(t)
        PROVE  exits' = exits /\ trades' = trades \cup {op[t].tx} /\ op[t].tx \in Landed
    BY <2>1 DEF RecordTrade, Locals, LocalsOf, Following, Hands, HandOf, Landed
  <2>2. ASSUME NEW t \in Task, RecordExit(t)
        PROVE  /\ trades' = trades /\ exits' = exits \cup {[tier |-> op[t].tier, tx |-> op[t].tx]}
               /\ op[t].tx \in trades
    BY <2>2 DEF RecordExit, Hands, HandOf
  <2>3. ASSUME NEW t \in Task, Read(t) \/ Decide(t) \/ Body(t) \/ Failure(t),
               ~RecordTrade(t), ~RecordExit(t)
        PROVE  UNCHANGED <<trades, exits>>
    <3>1. CASE Broadcast(t)
      BY <3>1 DEF Broadcast, dbVars
    <3>2. CASE Reduce(t) \/ Close(t)
      BY <3>2 DEF Reduce, Close
    <3> QED
      BY <2>3, <3>1, <3>2, CallerStill DEF Writes, Still
  <2>4. CASE ChainStep \/ TimePasses \/ Breach \/ Crash
    BY <1>1, <2>4 DEF ChainStep, Land, Drop, TimePasses, ClaimLapses, LockLapses, BackoffPasses,
       Breach, Crash, dbVars, RecordsInOrder
  <2>5. ASSUME NEW t \in Task, Read(t) \/ Decide(t) \/ Body(t) \/ Failure(t)
        PROVE  trades \subseteq trades' /\ exits \subseteq exits' /\ trades' \subseteq Landed'
                 /\ (\A e \in exits' : e.tx \in trades')
    <3>1. CASE RecordTrade(t)
      BY <1>1, <2>1, <3>1 DEF RecordsInOrder
    <3>2. CASE RecordExit(t)
      <4> DEFINE x == [tier |-> op[t].tier, tx |-> op[t].tx]
      <4>1. x.tx = op[t].tx
        OBVIOUS
      <4> HIDE DEF x
      <4>2. exits' = exits \cup {x} /\ trades' = trades /\ op[t].tx \in trades
        BY <2>2, <3>2 DEF x
      <4> QED
        BY <1>1, <4>1, <4>2 DEF RecordsInOrder
    <3>3. CASE ~RecordTrade(t) /\ ~RecordExit(t)
      BY <1>1, <2>3, <2>5, <3>3 DEF RecordsInOrder
    <3> QED
      BY <3>1, <3>2, <3>3
  <2> QED
    BY <2>4, <2>5 DEF Next
<1>3. ASSUME NEW i \in 1..Len(txs'), txs'[i].booked
      PROVE  i \in trades' /\ (txs'[i].kind = "partial" => \E e \in exits' : e.tx = i)
  <2>1. i \in 1..Len(txs)
    <3>1. ASSUME NEW t \in Task, Broadcast(t) PROVE i \in 1..Len(txs)
      <4>1. i # Len(txs')
        BY <1>3, <3>1, SendFields
      <4>2. Len(txs') = Len(txs) + 1 /\ Len(txs) \in Nat
        BY <3>1, SendFields
      <4> QED
        BY <4>1, <4>2
    <3> QED
      BY <3>1, OnlyBroadcastSends
  <2>2. CASE txs[i].booked
    BY <1>2, <2>1, <2>2, SwapsStay DEF RecordsInOrder
  <2>3. CASE \E t \in Task : (Reduce(t) \/ Close(t)) /\ op[t].tx = i
    BY <1>2, <2>1, <2>3, Booking, SwapsStay
  <2> QED
    BY <1>3, <2>1, <2>2, <2>3, SwapsStay
<1> QED
  BY <1>2, <1>3 DEF RecordsInOrder

\* A booked close is the only one, and the position stays closed.
LEMMA ClosedOnceStep == ASSUME IInv, Hands, ClosedOnce, Next PROVE ClosedOnce'
<1> USE DEF IInv
<1>1. ASSUME NEW i \in 1..Len(txs'), IsClosing(i)'
      PROVE  \/ i \in 1..Len(txs) /\ IsClosing(i) /\ \A t \in Task : ~Close(t)
             \/ \E t \in Task : Close(t) /\ op[t].tx = i
  <2>1. i \in 1..Len(txs)
    <3>1. ASSUME NEW t \in Task, Broadcast(t) PROVE i \in 1..Len(txs)
      <4>1. i # Len(txs')
        BY <1>1, <3>1, SendFields DEF IsClosing
      <4>2. Len(txs') = Len(txs) + 1 /\ Len(txs) \in Nat
        BY <3>1, SendFields
      <4> QED
        BY <4>1, <4>2
    <3> QED
      BY <3>1, OnlyBroadcastSends
  <2>2. txs[i].kind = "close"
    BY <1>1, <2>1, SwapsStay DEF IsClosing
  <2>3. CASE txs[i].booked
    BY <2>1, <2>2, <2>3, Booking DEF IsClosing, ClosedOnce
  <2>4. CASE \E t \in Task : (Reduce(t) \/ Close(t)) /\ op[t].tx = i
    BY <2>2, <2>4, Booking
  <2> QED
    BY <1>1, <2>1, <2>3, <2>4, SwapsStay DEF IsClosing
<1>2. ASSUME NEW t \in Task, NEW u \in Task, Close(t), Close(u) PROVE t = u
  BY <1>2 DEF Control, Alone, Close, InSet
<1>3. ASSUME NEW i \in 1..Len(txs'), IsClosing(i)' PROVE status' = "CLOSED"
  <2>1. CASE i \in 1..Len(txs) /\ IsClosing(i)
    BY <2>1, StatusStays DEF ClosedOnce
  <2>2. CASE \E t \in Task : Close(t) /\ op[t].tx = i
    BY <2>2 DEF Close
  <2> QED
    BY <1>1, <1>3, <2>1, <2>2
<1>4. ASSUME NEW i \in 1..Len(txs'), NEW j \in 1..Len(txs'), IsClosing(i)', IsClosing(j)'
      PROVE  i = j
  <2>1. CASE \A t \in Task : ~Close(t)
    BY <1>1, <1>4, <2>1 DEF ClosedOnce
  <2>2. CASE \E t \in Task : Close(t)
    BY <1>1, <1>2, <1>4, <2>2
  <2> QED
    BY <2>1, <2>2
<1> QED
  BY <1>3, <1>4 DEF ClosedOnce
-----------------------------------------------------------------------------
\* --- The wallet and the row agree -----------------------------------------------

\* A swap already sent is in hand after a step only if it was before.
LEMMA HandBack ==
  ASSUME IInv, Next, NEW i \in 1..Len(txs), InHand(i)'
  PROVE  InHand(i)
<1> USE DEF IInv
<1>0. PICK u \in Task : pc'[u] \in Following /\ op'[u].tx = i
  BY DEF InHand
<1>1. ASSUME NEW t \in Task, Read(t) \/ Decide(t) \/ Body(t) \/ Failure(t), t # u PROVE InHand(i)
  BY <1>0, <1>1, OthersStayStep DEF OthersStay, InHand
<1>2. ASSUME Read(u) \/ Decide(u) \/ Body(u) \/ Failure(u) PROVE InHand(i)
  <2>1. CASE Broadcast(u)
    <3>1. op'[u].tx = Len(txs) + 1 /\ Len(txs) \in Nat
      BY <2>1 DEF Broadcast, TypeOK, CallTypeOK, ChainTypeOK, OpType
    <3> QED
      BY <1>0, <3>1
  <2>2. CASE Confirmed(u) \/ Verified(u) \/ RecordTrade(u) \/ RecordExit(u)
    BY <1>0, <2>2, FollowsOn DEF InHand
  <2>3. CASE \/ Read(u) \/ Decide(u) \/ Claim(u) \/ CloseEmpty(u) \/ MarkUnsellable(u)
             \/ Reduce(u) \/ Close(u) \/ ReleaseRow(u) \/ ActivateTrailing(u) \/ WriteExitLog(u)
             \/ ClaimError(u) \/ BodyError(u) \/ VerifyFails(u) \/ CallerError(u)
    BY <1>0, <2>3, KnowsNothing DEF InSet, Following
  <2>4. CASE ReadLocked(u)
    BY <1>0, <2>4, BodyStartKeeps DEF Following
  <2>5. CASE \/ ReadBalance(u) \/ PrepareFails(u) \/ OutcomeUnknown(u) \/ KnownDead(u)
             \/ Recheck(u) \/ RecheckFails(u) \/ Failed(u) \/ CountNoRoute(u)
    BY <1>0, <2>5, BaseKept DEF Preparing, Following
  <2> QED
    BY <1>2, <2>1, <2>2, <2>3, <2>4, <2>5 DEF Body, Failure
<1>3. CASE ChainStep \/ TimePasses \/ Breach
  <2>1. UNCHANGED <<pc, op>>
    BY <1>3 DEF ChainStep, Land, Drop, TimePasses, ClaimLapses, LockLapses, BackoffPasses, Breach
  <2> QED
    BY <1>0, <2>1 DEF InHand
<1>4. CASE Crash
  BY <1>0, <1>4 DEF Crash, Following
<1> QED
  BY <1>1, <1>2, <1>3, <1>4 DEF Next

\* A gap stays: what nobody follows up stays unrecorded.
LEMMA GapStays == ASSUME IInv, Next, Gap PROVE Gap'
<1> USE DEF IInv
<1>1. PICK i \in Landed : (~txs[i].booked /\ ~InHand(i)) \/ txs[i].amt > txs[i].base
  BY DEF Gap
<1>2. i \in 1..Len(txs) /\ i \in Landed'
  BY <1>1, SwapsStay DEF Landed
<1>3. CASE txs[i].amt > txs[i].base
  BY <1>2, <1>3, SwapsStay DEF Gap
<1>4. CASE ~txs[i].booked /\ ~InHand(i)
  <2>1. ~InHand(i)'
    BY <1>2, <1>4, HandBack
  <2>2. ASSUME NEW t \in Task, Reduce(t) \/ Close(t) PROVE op[t].tx # i
    BY <1>4, <2>2 DEF Reduce, Close, InHand, Following
  <2>3. ~txs'[i].booked
    BY <1>2, <1>4, <2>2, SwapsStay
  <2> QED
    BY <1>2, <2>1, <2>3 DEF Gap
<1> QED
  BY <1>1, <1>3, <1>4

\* A step that leaves swaps and amounts alone keeps the accounts.
LEMMA AccountsFrame ==
  ASSUME IInv, Accounts, Next, UNCHANGED <<txs, balance, remaining>>
  PROVE  Accounts'
<1>1. Outstanding' = Outstanding
  BY DEF Outstanding, Landed
<1>2. ~Gap' => ~Gap
  BY GapStays
<1> QED
  BY <1>1, <1>2 DEF Accounts

\* Sending a swap takes nothing yet.
LEMMA AccountsSend ==
  ASSUME IInv, Accounts, NEW t \in Task, Broadcast(t), Next
  PROVE  Accounts'
<1>1. TypeOK
  BY DEF IInv
<1>2. Landed' = Landed
  <2>1. ASSUME NEW i \in 1..Len(txs'), txs'[i].state = "landed" PROVE i \in 1..Len(txs)
    <3>1. i # Len(txs')
      BY <1>1, <2>1, SendFields
    <3>2. Len(txs') = Len(txs) + 1 /\ Len(txs) \in Nat
      BY <1>1, SendFields
    <3> QED
      BY <3>1, <3>2
  <2>2. 1..Len(txs) \subseteq 1..Len(txs')
    BY <1>1, TxsGrow DEF IInv
  <2> QED
    BY <1>1, <2>1, <2>2, SendFields DEF Landed
<1>3. \A i \in Landed : txs'[i] = txs[i]
  BY <1>1, SendFields DEF Landed
<1>4. Outstanding' = Outstanding
  BY <1>2, <1>3 DEF Outstanding
<1>5. UNCHANGED <<balance, remaining>>
  BY DEF Broadcast, dbVars
<1>6. ~Gap' => ~Gap
  BY GapStays
<1>7. \A i \in Outstanding : i \in Landed
  BY DEF Outstanding
<1> QED
  BY <1>3, <1>4, <1>5, <1>6, <1>7 DEF Accounts

\* A swap that lands without making a gap is the one a call follows: nothing
\* was outstanding, and it takes no more than what remains.
LEMMA AccountsLand ==
  ASSUME IInv, Books, NEW i \in 1..Len(txs), Land(i), Next
  PROVE  Accounts'
<1> SUFFICES ASSUME ~Gap' PROVE Accounts'
  BY DEF Accounts
<1>1. ~Gap
  BY GapStays
<1>2. /\ txs[i].state = "pending" /\ SetState(i, "landed") /\ balance >= txs[i].amt
      /\ balance' = balance - txs[i].amt
      /\ UNCHANGED <<pc, op, status, remaining>>
  BY DEF Land, dbVars
<1>3. /\ Len(txs') = Len(txs)
      /\ \A j \in 1..Len(txs) :
           /\ txs'[j].kind = txs[j].kind /\ txs'[j].amt = txs[j].amt /\ txs'[j].base = txs[j].base
           /\ txs'[j].booked = txs[j].booked
           /\ txs'[j].state = IF j = i THEN "landed" ELSE txs[j].state
  BY <1>2, SetStateFields DEF IInv
<1>4. ~txs[i].booked
  BY <1>2 DEF Books, RecordsInOrder, Landed
<1>5. i \in Landed' /\ Landed' = Landed \cup {i} /\ i \notin Landed
  BY <1>2, <1>3 DEF Landed
<1>6. InHand(i)
  <2>1. InHand(i)'
    BY <1>3, <1>4, <1>5 DEF Gap
  <2> QED
    BY <1>2, <2>1 DEF InHand
<1>7. PICK t \in Task : pc[t] \in Following /\ op[t].tx = i
  BY <1>6 DEF InHand
<1>8. txs[i].amt <= remaining
  <2>1. txs[i].base = remaining
    BY <1>7 DEF Books, Hands, HandOf, Following, InSet
  <2>2. ~(txs[i].amt > txs[i].base)
    BY <1>3, <1>5 DEF Gap
  <2>3. txs[i].amt \in Nat /\ txs[i].base \in Nat
    BY SwapType DEF IInv
  <2> QED
    BY <2>1, <2>2, <2>3
<1>9. Outstanding = {}
  <2> SUFFICES ASSUME NEW j \in Outstanding PROVE FALSE
    OBVIOUS
  <2>1. j \in Landed /\ j # i
    BY <1>5 DEF Outstanding
  <2>2. CASE ~txs[j].booked
    <3>1. PICK u \in Task : pc[u] \in Following /\ op[u].tx = j
      BY <1>1, <2>1, <2>2 DEF Gap, InHand
    <3>2. u = t
      BY <1>7, <3>1 DEF IInv, Control, Alone, Following, InSet
    <3> QED
      BY <1>7, <2>1, <3>1, <3>2
  <2>3. CASE txs[j].booked /\ txs[j].kind = "close"
    <3>1. status = "CLOSED"
      BY <2>1, <2>3 DEF Books, ClosedOnce, IsClosing, Landed
    <3> QED
      BY <1>7, <3>1 DEF IInv, Control, NotPastChecks, Following, InSet
  <2> QED
    BY <2>1, <2>2, <2>3 DEF Outstanding
<1>10. balance = Other + remaining
  BY <1>1, <1>9 DEF Books, Accounts
<1>11. Outstanding' = {i}
  BY <1>3, <1>4, <1>5, <1>9 DEF Outstanding, Landed
<1>12. txs'[i].amt = txs[i].amt /\ balance' = Other + remaining' - txs'[i].amt
  <2>1. txs'[i].amt = txs[i].amt
    BY <1>3
  <2>2. txs[i].amt \in Nat /\ remaining \in Nat
    BY SwapType DEF IInv, TypeOK, RowTypeOK
  <2> QED
    BY <1>2, <1>10, <2>1, <2>2
<1> QED
  BY <1>2, <1>8, <1>11, <1>12 DEF Accounts

\* A swap that will not execute takes nothing.
LEMMA AccountsDrop ==
  ASSUME IInv, Accounts, NEW i \in 1..Len(txs), Drop(i), Next
  PROVE  Accounts'
<1>1. /\ txs[i].state = "pending" /\ SetState(i, "dead") /\ UNCHANGED <<balance, remaining>>
  BY DEF Drop, dbVars
<1>2. /\ Len(txs') = Len(txs)
      /\ \A j \in 1..Len(txs) :
           /\ txs'[j].kind = txs[j].kind /\ txs'[j].amt = txs[j].amt
           /\ txs'[j].booked = txs[j].booked
           /\ txs'[j].state = IF j = i THEN "dead" ELSE txs[j].state
  BY <1>1, SetStateFields DEF IInv
<1>3. Landed' = Landed /\ Landed \subseteq 1..Len(txs)
  BY <1>1, <1>2 DEF Landed
<1>4. Outstanding' = Outstanding /\ Outstanding \subseteq 1..Len(txs)
  BY <1>2, <1>3 DEF Outstanding
<1>5. ~Gap' => ~Gap
  BY GapStays
<1> QED
  BY <1>1, <1>2, <1>4, <1>5 DEF Accounts

\* A recorded partial sale lowers what remains by what it took.
LEMMA AccountsReduce ==
  ASSUME IInv, Books, NEW t \in Task, Reduce(t), Next
  PROVE  Accounts'
<1> SUFFICES ASSUME ~Gap' PROVE Accounts'
  BY DEF Accounts
<1> DEFINE i == op[t].tx
<1>1. ~Gap
  BY GapStays
<1>2. /\ i \in Landed /\ Book(t) /\ txs[i].kind = "partial" /\ balance' = balance
      /\ remaining' = Bigger(0, op[t].base - op[t].amt)
  BY Booking DEF Books, Reduce
<1>3. i \in 1..Len(txs)
  BY <1>2 DEF Landed
<1>4. /\ Len(txs') = Len(txs)
      /\ \A j \in 1..Len(txs) :
           /\ txs'[j].kind = txs[j].kind /\ txs'[j].amt = txs[j].amt
           /\ txs'[j].state = txs[j].state
  BY <1>2, <1>3, BookFields DEF IInv
<1>13. /\ txs'[i].booked
       /\ \A j \in 1..Len(txs) : j # i => txs'[j].booked = txs[j].booked
  BY <1>2, <1>3, BookFields DEF IInv
<1>5. Landed' = Landed
  BY <1>4 DEF Landed
<1>6. ~txs[i].booked /\ op[t].base = remaining /\ op[t].amt = txs[i].amt
  BY DEF Reduce, Books, Hands, HandOf, Following, InSet
<1>7. i \in Outstanding
  BY <1>2, <1>6 DEF Outstanding
<1>8. \A j \in Outstanding : j = i
  BY <1>1, <1>7 DEF Books, Accounts
<1>9. txs[i].amt <= remaining /\ balance = Other + remaining - txs[i].amt
  BY <1>1, <1>7 DEF Books, Accounts
<1>10. txs[i].amt \in Nat /\ remaining \in Nat
  BY <1>3, SwapType DEF IInv, TypeOK, RowTypeOK
<1>11. balance' = Other + remaining'
  <2>1. remaining' = remaining - txs[i].amt
    BY <1>2, <1>6, <1>9, <1>10 DEF Bigger
  <2> QED
    BY <1>2, <1>9, <1>10, <2>1
<1>12. Outstanding' = {}
  <2> SUFFICES ASSUME NEW j \in Outstanding' PROVE FALSE
    OBVIOUS
  <2>1. j \in Landed /\ j \in 1..Len(txs) /\ (txs'[j].kind = "close" \/ ~txs'[j].booked)
    BY <1>5 DEF Outstanding, Landed
  <2>2. j # i
    BY <1>2, <1>4, <1>13, <2>1
  <2>3. j \in Outstanding
    BY <1>4, <1>13, <2>1, <2>2 DEF Outstanding
  <2> QED
    BY <1>8, <2>2, <2>3
<1> QED
  BY <1>11, <1>12 DEF Accounts

\* A recorded close leaves the amounts as they are.
LEMMA AccountsClose ==
  ASSUME IInv, Books, NEW t \in Task, Close(t), Next
  PROVE  Accounts'
<1> DEFINE i == op[t].tx
<1>1. ~Gap' => ~Gap
  BY GapStays
<1>2. /\ i \in Landed /\ Book(t) /\ txs[i].kind = "close" /\ UNCHANGED <<balance, remaining>>
  BY Booking DEF Books, Close
<1>3. i \in 1..Len(txs)
  BY <1>2 DEF Landed
<1>4. /\ Len(txs') = Len(txs)
      /\ \A j \in 1..Len(txs) :
           /\ txs'[j].kind = txs[j].kind /\ txs'[j].amt = txs[j].amt
           /\ txs'[j].state = txs[j].state
  BY <1>2, <1>3, BookFields DEF IInv
<1>13. /\ txs'[i].booked
       /\ \A j \in 1..Len(txs) : j # i => txs'[j].booked = txs[j].booked
  BY <1>2, <1>3, BookFields DEF IInv
<1>5. Landed' = Landed /\ Landed \subseteq 1..Len(txs)
  BY <1>4 DEF Landed
<1>6. Outstanding' = Outstanding /\ Outstanding \subseteq 1..Len(txs)
  <2>1. ASSUME NEW j \in Landed
        PROVE  txs'[j].kind = "close" \/ ~txs'[j].booked <=> txs[j].kind = "close" \/ ~txs[j].booked
    <3>1. CASE j = i
      BY <1>2, <1>3, <1>4, <3>1
    <3>2. CASE j # i
      BY <1>4, <1>5, <1>13, <3>2
    <3> QED
      BY <3>1, <3>2
  <2> QED
    BY <1>5, <2>1 DEF Outstanding
<1> QED
  BY <1>1, <1>2, <1>4, <1>6 DEF Books, Accounts

\* Every step keeps the accounts.
LEMMA AccountsStep == ASSUME IInv, Books, Next PROVE Accounts'
<1>1. CASE \E t \in Task : Broadcast(t)
  BY <1>1, AccountsSend DEF Books
<1>2. CASE \E t \in Task : Reduce(t)
  BY <1>2, AccountsReduce
<1>3. CASE \E t \in Task : Close(t)
  BY <1>3, AccountsClose
<1>4. CASE ChainStep
  BY <1>4, AccountsLand, AccountsDrop DEF ChainStep, Books
<1>5. ASSUME NEW t \in Task, Read(t) \/ Decide(t) \/ Body(t) \/ Failure(t),
             ~Broadcast(t), ~Reduce(t), ~Close(t)
      PROVE  UNCHANGED <<txs, balance, remaining>>
  <2>1. CASE RecordTrade(t) \/ RecordExit(t)
    BY <2>1 DEF RecordTrade, RecordExit, chainVars
  <2> QED
    BY <1>5, <2>1, CallerStill DEF Writes, Still
<1>6. CASE TimePasses \/ Breach \/ Crash
  <2>1. UNCHANGED <<txs, balance, remaining>>
    BY <1>6 DEF TimePasses, ClaimLapses, LockLapses, BackoffPasses, Breach, Crash, dbVars, chainVars
  <2> QED
    BY <2>1, AccountsFrame DEF Books
<1> QED
  BY <1>1, <1>2, <1>3, <1>4, <1>5, <1>6, AccountsFrame DEF Next, Books
-----------------------------------------------------------------------------
\* --- Trailing follows TP1's sale ------------------------------------------------

\* A booked sale of TP1 stays.
LEMMA Tp1Stays == ASSUME IInv, Next, Tp1Sold PROVE Tp1Sold'
BY SwapsStay DEF IInv, Tp1Sold

\* A caller's own step keeps what TP1 says of it.
LEMMA Tp1Own ==
  ASSUME TypeOK, Locals, NEW t \in Task, Tp1Of(t), Read(t) \/ Decide(t) \/ Body(t) \/ Failure(t),
         Tp1Caller(t)
  PROVE  Tp1Of(t)'
<1> USE DEF Tp1Of
<1>0. op \in [Task -> OpType] /\ op[t] \in OpType /\ pc \in [Task -> PC] /\ t \notin UserCall
  BY CallerAssumption DEF TypeOK, CallTypeOK, Tp1Caller
<1>1. ASSUME NEW kind \in {"close", "partial"}, Enter(t, kind, 0, IF kind = "close" THEN 0 ELSE TierAmount)
      PROVE  Tp1Of(t)'
  <2>1. pc'[t] = "idle" \/ (pc'[t] = "claim" /\ op'[t].tier = 0)
    BY <1>0, <1>1 DEF Enter, Goto, Finish, OpType
  <2> QED
    BY <2>1 DEF InSet, Following
<1>2. CASE DirectClose(t) \/ DecideClose(t) \/ DecideTp1(t)
  BY <1>1, <1>2 DEF DirectClose, DecideClose, DecideTp1, closePosition, executePartialSell
<1>3. CASE DecideLadder(t) \/ DecideManual(t) \/ CallPartial(t)
  BY <1>0, <1>3 DEF DecideLadder, DecideManual, CallPartial, Tp1Caller
<1>4. CASE Read(t) \/ TickRead(t) \/ Decline(t)
  BY <1>0, <1>4 DEF Read, TickRead, Decline, Goto, Finish, InSet, Following
<1>5. CASE Claim(t)
  BY <1>0, <1>5 DEF Claim, Goto, Finish, InSet, Following
<1>6. CASE \/ CloseEmpty(t) \/ MarkUnsellable(t) \/ Reduce(t) \/ Close(t) \/ BodyError(t)
           \/ VerifyFails(t)
  BY <1>0, <1>6 DEF CloseEmpty, MarkUnsellable, Reduce, Close, BodyError, VerifyFails, Leave,
     InSet, Following
<1>7. CASE ReleaseRow(t) \/ ActivateTrailing(t) \/ WriteExitLog(t) \/ ClaimError(t) \/ CallerError(t)
  BY <1>0, <1>7 DEF ReleaseRow, After, ActivateTrailing, WriteExitLog, ClaimError, CallerError,
     Goto, Finish, InSet, Following
<1>8. CASE ReadLocked(t)
  BY <1>8, BodyStartKeeps DEF InSet, Following
<1>9. CASE ReadBalance(t)
  BY <1>9, ReadBalanceKeeps DEF InSet, Following
<1>10. CASE \/ PrepareFails(t) \/ OutcomeUnknown(t) \/ KnownDead(t) \/ Recheck(t)
            \/ RecheckFails(t) \/ Failed(t) \/ CountNoRoute(t)
  <2>1. pc[t] \in InSet /\ pc'[t] \in Preparing \cup {"release"}
    BY <1>10, BaseKept
  <2>2. op'[t].kind = op[t].kind /\ op'[t].tier = op[t].tier
    BY <1>0, <1>10 DEF PrepareFails, OutcomeUnknown, KnownDead, Caught, Recheck, RecheckFails,
       Retry, Failed, CountNoRoute, Leave, OpType, Goto
  <2> QED
    BY <2>1, <2>2 DEF Preparing, InSet, Following
<1>11. CASE Broadcast(t)
  <2>1. /\ pc[t] = "send" /\ pc'[t] = "confirm" /\ op'[t].tx = Len(txs) + 1
        /\ op'[t].kind = op[t].kind /\ op'[t].tier = op[t].tier
    BY <1>0, <1>11 DEF Broadcast, Goto, OpType
  <2> QED
    BY <1>11, <2>1, SendFields DEF InSet, Following
<1>12. CASE Confirmed(t) \/ Verified(t) \/ RecordTrade(t) \/ RecordExit(t)
  BY <1>12, FollowsOn DEF InSet, Following
<1> QED
  BY <1>2, <1>3, <1>4, <1>5, <1>6, <1>7, <1>8, <1>9, <1>10, <1>11, <1>12 DEF Decide, Body, Failure

\* A call on its way to switch trailing on has TP1's sale behind it.
LEMMA Tp1After ==
  ASSUME IInv, Hands, Tp1Inv, Next, NEW t \in Task,
         Read(t) \/ Decide(t) \/ Body(t) \/ Failure(t)
  PROVE  /\ pc'[t] = "activate" => Tp1Caller(t) /\ op'[t].result = "sold"
         /\ Tp1Caller(t) /\ pc'[t] \in {"release", "activate"} /\ op'[t].result = "sold"
              => Tp1Sold'
<1>0. op \in [Task -> OpType] /\ op[t] \in OpType /\ pc \in [Task -> PC]
  BY DEF IInv, TypeOK, CallTypeOK
<1>1. CASE Reduce(t)
  <2>1. pc'[t] = "release" /\ pc[t] = "reduce"
    BY <1>0, <1>1 DEF Reduce, Leave
  <2>2. ASSUME Tp1Caller(t) PROVE Tp1Sold'
    <3>1. op[t].tx \in 1..Len(txs) /\ op[t].kind = "partial" /\ Book(t)
      BY <1>1, <2>1 DEF Reduce, IInv, Locals, LocalsOf, Following
    <3>2. txs[op[t].tx].kind = "partial" /\ txs[op[t].tx].tier = 0
      BY <1>1, <2>1, <2>2, <3>1 DEF Tp1Inv, Tp1Of, Hands, HandOf, Following, InSet
    <3>3. /\ Len(txs') = Len(txs) /\ txs'[op[t].tx].booked
          /\ txs'[op[t].tx].kind = "partial" /\ txs'[op[t].tx].tier = 0
      BY <3>1, <3>2, BookFields DEF IInv
    <3> QED
      BY <3>1, <3>3 DEF Tp1Sold
  <2> QED
    BY <2>1, <2>2
<1>2. ASSUME NEW r \in {"closed", "noop", "threw"}, Leave(t, r)
      PROVE  pc'[t] = "release" /\ op'[t].result = r
  BY <1>0, <1>2 DEF Leave, OpType
<1>3. CASE CloseEmpty(t) \/ MarkUnsellable(t) \/ Close(t) \/ BodyError(t) \/ VerifyFails(t)
  BY <1>2, <1>3 DEF CloseEmpty, MarkUnsellable, Close, BodyError, VerifyFails
<1>4. CASE ReleaseRow(t)
  <2>1. pc[t] = "release" /\ (pc'[t] = "idle" \/ (pc'[t] = After(t) /\ op' = op))
    BY <1>0, <1>4 DEF ReleaseRow, Finish, Goto
  <2> QED
    BY <2>1, Tp1Stays DEF After, Tp1Caller, Tp1Inv
<1>5. CASE ReadLocked(t) \/ ReadBalance(t) \/ Failed(t) \/ CountNoRoute(t)
  <2>1. pc'[t] \in InSet \/ \E r \in {"noop", "threw"} : Leave(t, r)
    BY <1>0, <1>5 DEF ReadLocked, BodyStart, ReadBalance, Failed, CountNoRoute, Goto, InSet
  <2> QED
    BY <1>2, <2>1 DEF InSet
<1>6. CASE \/ Read(t) \/ TickRead(t) \/ Decline(t) \/ DecideLadder(t) \/ DecideManual(t)
           \/ Claim(t) \/ ActivateTrailing(t) \/ WriteExitLog(t) \/ ClaimError(t)
           \/ CallerError(t)
  BY <1>0, <1>6 DEF Read, TickRead, Decline, DecideLadder, DecideManual, Choose, Claim,
     ActivateTrailing, WriteExitLog, ClaimError, CallerError, Goto, Finish
<1>7. CASE DirectClose(t) \/ DecideClose(t) \/ DecideTp1(t) \/ CallPartial(t)
  BY <1>7, EnterPlace DEF DirectClose, DecideClose, DecideTp1, CallPartial, closePosition,
     executePartialSell, IInv
<1>8. CASE \/ PrepareFails(t) \/ OutcomeUnknown(t) \/ KnownDead(t) \/ Recheck(t)
           \/ RecheckFails(t) \/ Broadcast(t) \/ Confirmed(t) \/ Verified(t) \/ RecordTrade(t)
           \/ RecordExit(t)
  BY <1>0, <1>8 DEF PrepareFails, OutcomeUnknown, KnownDead, Caught, Recheck, RecheckFails, Retry,
     Broadcast, Confirmed, Verified, RecordTrade, RecordExit, Goto
<1> QED
  BY <1>1, <1>3, <1>4, <1>5, <1>6, <1>7, <1>8 DEF Decide, Body, Failure

\* Trailing is switched on by nothing else.
LEMMA TrailingOnly ==
  ASSUME IInv, Tp1Inv, Next
  PROVE  trailing' => trailing \/ Tp1Sold
<1>1. ASSUME NEW t \in Task, ActivateTrailing(t) PROVE Tp1Sold
  BY <1>1 DEF ActivateTrailing, Tp1Inv
<1>2. ASSUME NEW t \in Task, Read(t) \/ Decide(t) \/ Failure(t) PROVE trailing' = trailing
  BY <1>2 DEF Decide, Failure, Read, TickRead, DirectClose, Decline, DecideClose, DecideLadder,
     DecideTp1, DecideManual, Choose, CallPartial, closePosition, executePartialSell, Enter,
     ClaimError, BodyError, PrepareFails, OutcomeUnknown, RecheckFails, VerifyFails,
     CallerError, Caught, dbVars
<1>3. ASSUME NEW t \in Task, Body(t), ~ActivateTrailing(t) PROVE trailing' = trailing
  BY <1>3 DEF Body, Claim, ReadLocked, BodyStart, ReadBalance, CloseEmpty, Broadcast, KnownDead,
     Caught, Recheck, Failed, CountNoRoute, MarkUnsellable, Confirmed, Verified, RecordTrade,
     RecordExit, Reduce, Close, ReleaseRow, WriteExitLog, dbVars
<1>4. CASE ChainStep \/ TimePasses \/ Breach \/ Crash
  BY <1>4 DEF ChainStep, Land, Drop, TimePasses, ClaimLapses, LockLapses, BackoffPasses, Breach,
     Crash, dbVars
<1> QED
  BY <1>1, <1>2, <1>3, <1>4 DEF Next

\* Every step keeps the TP1 part.
LEMMA Tp1Step == ASSUME IInv, Hands, Tp1Inv, Next PROVE Tp1Inv'
<1> USE DEF IInv
<1>1. trailing' => Tp1Sold'
  BY TrailingOnly, Tp1Stays DEF Tp1Inv
<1>2. ASSUME NEW t \in Task, Read(t) \/ Decide(t) \/ Body(t) \/ Failure(t),
             NEW u \in Task, u # t
      PROVE  /\ Tp1Of(u)'
             /\ pc'[u] = "activate" => Tp1Caller(u) /\ op'[u].result = "sold"
             /\ Tp1Caller(u) /\ pc'[u] \in {"release", "activate"} /\ op'[u].result = "sold"
                  => Tp1Sold'
  <2>1. pc'[u] = pc[u] /\ op'[u] = op[u]
    BY <1>2, OthersStayStep DEF OthersStay
  <2>2. pc[u] \in Following => op[u].tx \in 1..Len(txs)
    BY DEF Locals, LocalsOf
  <2>3. Tp1Of(u)'
    BY <2>1, <2>2, SwapsStay DEF Tp1Inv, Tp1Of, Tp1Caller
  <2> QED
    BY <2>1, <2>3, Tp1Stays DEF Tp1Inv
<1>3. ASSUME NEW t \in Task, Read(t) \/ Decide(t) \/ Body(t) \/ Failure(t) PROVE Tp1Inv'
  <2>1. Tp1Of(t)'
    BY <1>3, Tp1Own DEF Tp1Inv, Tp1Of, Tp1Caller
  <2> QED
    BY <1>1, <1>2, <1>3, <2>1, Tp1After DEF Tp1Inv, Tp1Caller
<1>4. CASE ChainStep \/ TimePasses \/ Breach
  <2>1. UNCHANGED <<pc, op>>
    BY <1>4 DEF ChainStep, Land, Drop, TimePasses, ClaimLapses, LockLapses, BackoffPasses, Breach
  <2>2. ASSUME NEW u \in Task, pc[u] \in Following PROVE op[u].tx \in 1..Len(txs)
    BY <2>2 DEF Locals, LocalsOf
  <2> QED
    BY <1>1, <2>1, <2>2, SwapsStay, Tp1Stays DEF Tp1Inv, Tp1Of, Tp1Caller
<1>5. CASE Crash
  BY <1>1, <1>5 DEF Crash, Tp1Inv, Tp1Of, InSet, Following
<1> QED
  BY <1>3, <1>4, <1>5 DEF Next
-----------------------------------------------------------------------------
\* --- Theorems -------------------------------------------------------------------

BooksInv == IInv /\ Books /\ Tp1Inv

\* The initial states satisfy the inductive invariant.
LEMMA BooksInit == Init => BooksInv
<1> SUFFICES ASSUME Init PROVE BooksInv
  OBVIOUS
<1>1. IInv
  BY InitOK
<1>2. Len(txs) = 0
  BY EmptySeq DEF Init
<1>3. Landed = {}
  BY <1>2 DEF Landed
<1>4. Hands
  BY DEF Init, Hands, HandOf, InSet, Following
<1>5. RecordsInOrder /\ ClosedOnce
  BY <1>2 DEF Init, RecordsInOrder, ClosedOnce
<1>6. Accounts
  <2>1. Outstanding = {}
    BY <1>3 DEF Outstanding
  <2>2. balance = Other + remaining
    BY DEF Init
  <2> QED
    BY <2>1, <2>2 DEF Accounts
<1>7. Tp1Inv
  BY DEF Init, Tp1Inv, Tp1Of, InSet, Following
<1> QED
  BY <1>1, <1>4, <1>5, <1>6, <1>7 DEF BooksInv, Books

\* Every step, stuttering included, keeps the inductive invariant.
LEMMA BooksStep == BooksInv /\ [Next]_vars => BooksInv'
<1> SUFFICES ASSUME BooksInv, [Next]_vars PROVE BooksInv'
  OBVIOUS
<1>1. CASE Next
  BY <1>1, StepOK, HandsStep, RecordsStep, ClosedOnceStep, AccountsStep, Tp1Step
     DEF BooksInv, Books
<1>2. CASE UNCHANGED vars
  <2>1. IInv'
    BY <1>2, StepOK DEF BooksInv
  <2>2. UNCHANGED <<status, remaining, trailing, exits, trades, balance, txs, pc, op>>
    BY <1>2 DEF vars, dbVars, chainVars
  <2>3. Landed' = Landed /\ Gap' = Gap
    BY <2>2 DEF Landed, Gap, InHand
  <2>4. Hands' /\ RecordsInOrder' /\ ClosedOnce'
    BY <2>2, <2>3 DEF BooksInv, Books, Hands, HandOf, RecordsInOrder, ClosedOnce, IsClosing
  <2>5. Accounts'
    BY <2>2, <2>3 DEF BooksInv, Books, Accounts, Outstanding
  <2>6. Tp1Inv'
    BY <2>2 DEF BooksInv, Tp1Inv, Tp1Of, Tp1Caller, Tp1Sold
  <2> QED
    BY <2>1, <2>4, <2>5, <2>6 DEF BooksInv, Books
<1> QED
  BY <1>1, <1>2

\* The books are in order in every reachable state.
THEOREM BooksKept == Spec => []BooksInv
BY BooksInit, BooksStep, PTL DEF Spec

\* The wallet keeps the tokens that are not the position's, unless a swap was
\* left to itself or sold more than was left when its call began.
LEMMA NoOversell == BooksInv => OversellNeedsGap
<1> SUFFICES ASSUME BooksInv, ~Gap PROVE ~(balance < Other)
  BY DEF OversellNeedsGap
<1>1. balance \in Nat /\ remaining \in Nat
  BY DEF BooksInv, IInv, TypeOK, ChainTypeOK, RowTypeOK
<1>2. CASE Outstanding = {}
  BY <1>1, <1>2 DEF BooksInv, Books, Accounts
<1>3. ASSUME NEW i \in Outstanding PROVE ~(balance < Other)
  <2>1. i \in 1..Len(txs)
    BY DEF Outstanding, Landed
  <2>2. txs[i].amt \in Nat
    BY <2>1, SwapType DEF BooksInv, IInv
  <2>3. txs[i].amt <= remaining /\ balance = Other + remaining - txs[i].amt
    BY DEF BooksInv, Books, Accounts
  <2> QED
    BY <1>1, <2>2, <2>3
<1> QED
  BY <1>2, <1>3

\* What remains changes only when a partial sale reaches the row, by its amount.
LEMMA RemainingStep ==
  ASSUME BooksInv, Next
  PROVE  /\ NowBooked = {} => remaining' = remaining
         /\ \A i \in NowBooked : txs[i].amt <= remaining => remaining' = remaining - txs[i].amt
<1> USE DEF BooksInv, Books, IInv
<1>1. ASSUME NEW t \in Task, Reduce(t)
      PROVE  /\ op[t].tx \in NowBooked
             /\ txs[op[t].tx].amt <= remaining => remaining' = remaining - txs[op[t].tx].amt
  <2>1. op[t].tx \in 1..Len(txs) /\ Book(t)
    BY <1>1 DEF Reduce, Locals, LocalsOf, Following
  <2>2. txs[op[t].tx].kind = "partial"
    BY <1>1, Booking
  <2>3. /\ ~txs[op[t].tx].booked /\ txs[op[t].tx].amt = op[t].amt /\ op[t].base = remaining
        /\ remaining' = Bigger(0, op[t].base - op[t].amt)
    BY <1>1 DEF Reduce, Hands, HandOf, Following, InSet
  <2>4. txs'[op[t].tx].booked
    BY <2>1, BookFields
  <2>5. txs[op[t].tx].amt \in Nat /\ remaining \in Nat
    BY <2>1, SwapType DEF TypeOK, RowTypeOK
  <2> QED
    BY <2>1, <2>2, <2>3, <2>4, <2>5 DEF NowBooked, Bigger
<1>2. ASSUME NEW t \in Task, NEW u \in Task, Reduce(t), Reduce(u) \/ Close(u) PROVE t = u
  BY <1>2 DEF Control, Alone, Reduce, Close, InSet
<1>3. ASSUME NEW i \in NowBooked PROVE \E t \in Task : Reduce(t) /\ op[t].tx = i
  <2>1. i \in 1..Len(txs) /\ txs[i].kind = "partial" /\ ~txs[i].booked /\ txs'[i].booked
    BY DEF NowBooked
  <2>2. PICK t \in Task : (Reduce(t) \/ Close(t)) /\ op[t].tx = i
    BY <2>1, SwapsStay
  <2>3. ~Close(t)
    BY <2>1, <2>2, Booking
  <2> QED
    BY <2>2, <2>3
<1>4. (\A t \in Task : ~Reduce(t)) => remaining' = remaining
  <2>1. ASSUME NEW t \in Task, Read(t) \/ Decide(t) \/ Body(t) \/ Failure(t), ~Reduce(t)
        PROVE  remaining' = remaining
    <3>1. CASE Broadcast(t) \/ RecordTrade(t) \/ RecordExit(t) \/ Close(t)
      BY <3>1 DEF Broadcast, RecordTrade, RecordExit, Close, dbVars
    <3> QED
      BY <2>1, <3>1, CallerStill DEF Writes, Still
  <2>2. CASE ChainStep \/ TimePasses \/ Breach \/ Crash
    BY <2>2 DEF ChainStep, Land, Drop, TimePasses, ClaimLapses, LockLapses, BackoffPasses, Breach,
       Crash, dbVars
  <2> QED
    BY <2>1, <2>2 DEF Next
<1>5. ASSUME NEW i \in NowBooked, txs[i].amt <= remaining PROVE remaining' = remaining - txs[i].amt
  BY <1>1, <1>3, <1>5
<1>6. NowBooked = {} => remaining' = remaining
  BY <1>1, <1>4
<1> QED
  BY <1>5, <1>6

\* The sales of a position and its books agree.
THEOREM RecordsAgree == Spec => SaleRecords
<1> DEFINE Lowered ==
      /\ NowBooked = {} => remaining' = remaining
      /\ \A i \in NowBooked : txs[i].amt <= remaining => remaining' = remaining - txs[i].amt
<1>1. BooksInv => TypeOK /\ OversellNeedsGap /\ RecordsInOrder
  BY NoOversell DEF BooksInv, IInv, Books
<1>2. BooksInv /\ [Next]_vars => [Lowered]_vars
  BY RemainingStep
<1>3. Spec => []([Lowered]_vars)
  BY <1>2, BooksKept, PTL DEF Spec
<1>4. Spec => RemainingIsWhatIsLeft
  BY <1>3 DEF RemainingIsWhatIsLeft
<1>5. Spec => [](TypeOK /\ OversellNeedsGap /\ RecordsInOrder)
  BY <1>1, BooksKept, PTL
<1> QED
  BY <1>4, <1>5 DEF SaleRecords

\* Trailing is on only when the row has TP1's sale.
THEOREM TrailingHasSale == Spec => []TrailingAfterSale
<1>1. BooksInv => TrailingAfterSale
  BY DEF BooksInv, Tp1Inv, Tp1Sold, TrailingAfterSale
<1> QED
  BY <1>1, BooksKept, PTL
=============================================================================
