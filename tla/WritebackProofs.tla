-------------------------- MODULE WritebackProofs --------------------------
(***************************************************************************)
(* Theorems about Writeback, for any keys, window starts, event bound and  *)
(* numbers of calls and faults.                                            *)
(***************************************************************************)
EXTENDS Writeback, FiniteSetTheorems, TLAPS

(* An entry applied to a row is a row, and merging two entries is one.     *)
LEMMA ApplyType ==
    ASSUME NEW u \in Entry, NEW r \in Rows
    PROVE  Apply(u, r) \in Rows
BY NoneAssumption DEF Apply, Entry, Rows, Start

LEMMA RequeueType ==
    ASSUME NEW now \in Entry, NEW failed \in Entry
    PROVE  Requeue(now, failed) \in Entry
BY DEF Requeue, Entry

(* The merge of requeueUsage loses nothing: writing it leaves the row that *)
(* writing the failed entry and then the newer one would have left.        *)
LEMMA RequeueIsSequential ==
    ASSUME NEW now \in Entry, NEW failed \in Entry, NEW r \in Rows
    PROVE  Apply(Requeue(now, failed), r) = Apply(now, Apply(failed, r))
BY NoneAssumption DEF Apply, Requeue, Entry, Rows, Start

(* Writing an entry and requeueing it as well can only count too much.     *)
LEMMA RequeueAfterWriteOvercounts ==
    ASSUME NEW now \in Entry, NEW failed \in Entry, NEW r \in Rows
    PROVE  LET once  == Apply(now, Apply(failed, r))
               twice == Apply(Requeue(now, failed), Apply(failed, r))
           IN  twice.start = once.start /\ twice.count >= once.count
BY NoneAssumption DEF Apply, Requeue, Entry, Rows, Start

LEMMA EmptyChangesNothing ==
    /\ Empty \in Entry
    /\ \A r \in Rows : Apply(Empty, r) = r
BY DEF Empty, Apply, Entry, Rows, Start

LEMMA KeepEventsType ==
    ASSUME NEW S, NEW s \in Seq(S)
    PROVE  KeepEvents(s) \in Seq(S) /\ Len(KeepEvents(s)) <= MaxEvents
BY MaxEventsAssumption DEF KeepEvents

LEMMA ToSetType ==
    ASSUME NEW S, NEW s \in Seq(S)
    PROVE  ToSet(s) \subseteq S
BY DEF ToSet

(* A sequence of serials stays one when a newer serial is issued.          *)
LEMMA SerialsGrow ==
    ASSUME NEW n \in Nat, NEW s \in Seq(1..n)
    PROVE  s \in Seq(1..(n + 1))
OBVIOUS

LEMMA TypeInit == Init => TypeOK
<1> SUFFICES ASSUME Init PROVE TypeOK
    OBVIOUS
<1>1. NoUsage \in [Key -> Entry]
    BY EmptyChangesNothing DEF NoUsage
<1>2. row \in [Key -> Rows]
    BY DEF Init, Rows, Start
<1> QED
    <2>1. /\ events \in Seq(1..issued) /\ Len(events) <= MaxEvents
          /\ batch \in Seq(1..issued) /\ Len(batch) <= MaxEvents
        BY MaxEventsAssumption DEF Init
    <2>2. usage \in [Key -> Entry] /\ served \in [Key -> Entry] /\ made \in [Key -> Rows]
        BY <1>1, <1>2 DEF Init
    <2>3. calls \in 0..MaxCalls /\ faults \in 0..MaxFaults
        BY BoundsAssumption DEF Init
    <2> QED
        BY <1>2, <2>1, <2>2, <2>3 DEF Init, TypeOK

(* A store call ends within the bound on faults.                           *)
LEMMA StoreCallType ==
    ASSUME TypeOK, NEW outcome, NEW mayLose, StoreCall(outcome, mayLose)
    PROVE  faults' \in 0..MaxFaults
BY BoundsAssumption DEF TypeOK, StoreCall, Fault

LEMMA TypeStep == TypeOK /\ [Next]_vars => TypeOK'
<1> SUFFICES ASSUME TypeOK, [Next]_vars PROVE TypeOK'
    OBVIOUS
<1> USE DEF queue, flight, store
<1>1. ASSUME NEW k \in Key, Served(k) PROVE TypeOK'
  <2>1. CountOne(usage[k]) \in Entry
    BY DEF TypeOK, CountOne, Entry
  <2>2. [count |-> made[k].count + 1, start |-> made[k].start] \in Rows
    BY DEF TypeOK, Rows
  <2> QED
    BY <1>1, <2>1, <2>2, BoundsAssumption DEF TypeOK, Served, Call
<1>2. ASSUME NEW k \in Key, NEW t \in Time, WindowReset(k, t) PROVE TypeOK'
  <2>1. WindowOpened(usage[k], t) \in Entry /\ [count |-> 1, start |-> t] \in Rows
    BY DEF WindowOpened, Entry, Rows, Start
  <2> QED
    BY <1>2, <2>1, BoundsAssumption DEF TypeOK, WindowReset, Call
<1>3. ASSUME Event PROVE TypeOK'
  <2>1. issued \in Nat /\ issued' \in Nat /\ issued' = issued + 1
    BY <1>3 DEF Event, TypeOK
  <2>2. /\ events \in Seq(1..issued') /\ batch \in Seq(1..issued')
        /\ batch' = batch /\ Len(batch) <= MaxEvents
    BY <1>3, <2>1, SerialsGrow DEF TypeOK, Event
  <2>3. Append(events, issued') \in Seq(1..issued')
    <3>1. issued' \in 1..issued'
      BY <2>1
    <3> QED
      BY <2>2, <3>1
  <2>4. events' \in Seq(1..issued') /\ Len(events') <= MaxEvents
    BY <1>3, <2>3, KeepEventsType DEF Event
  <2>5. log' \subseteq 1..issued'
    BY <1>3, <2>1 DEF Event, TypeOK
  <2> QED
    BY <1>3, <2>1, <2>2, <2>4, <2>5, BoundsAssumption DEF TypeOK, Event, Call
<1>4. NoUsage \in [Key -> Entry]
    BY EmptyChangesNothing DEF NoUsage
<1>5. << >> \in Seq(1..issued) /\ Len(<< >>) <= MaxEvents
    BY MaxEventsAssumption
<1>6. ASSUME TickFlush PROVE TypeOK'
    BY <1>4, <1>5, <1>6 DEF TypeOK, TickFlush, TakeQueue
<1>7. ASSUME FinalFlush PROVE TypeOK'
    BY <1>4, <1>5, <1>7 DEF TypeOK, FinalFlush, TakeQueue
<1>8. ASSUME NEW k \in Key, FlushKey(k) PROVE TypeOK'
  <2> PICK outcome \in Outcome : FlushKey(k)!3!(outcome)
    BY <1>8 DEF FlushKey
  <2>1. Requeue(usage[k], served[k]) \in Entry /\ Apply(served[k], row[k]) \in Rows
    BY RequeueType, ApplyType DEF TypeOK
  <2>2. usage' \in [Key -> Entry] /\ row' \in [Key -> Rows]
    BY <2>1 DEF TypeOK
  <2>3. served' \in [Key -> Entry]
    BY <1>8, EmptyChangesNothing DEF FlushKey, TypeOK
  <2>4. faults' \in 0..MaxFaults
    BY StoreCallType
  <2> QED
    BY <1>8, <2>2, <2>3, <2>4 DEF TypeOK, FlushKey
<1>9. ASSUME FlushEvents PROVE TypeOK'
  <2> PICK outcome \in Outcome : FlushEvents!3!(outcome)
    BY <1>9 DEF FlushEvents
  <2>1. batch \o events \in Seq(1..issued)
    BY DEF TypeOK
  <2>2. /\ RequeueEvents(batch, events) \in Seq(1..issued)
        /\ Len(RequeueEvents(batch, events)) <= MaxEvents
    BY <2>1, KeepEventsType DEF RequeueEvents
  <2>3. events' \in Seq(1..issued) /\ Len(events') <= MaxEvents
    BY <2>2 DEF TypeOK
  <2>4. log' \subseteq 1..issued
    BY ToSetType DEF TypeOK
  <2>5. faults' \in 0..MaxFaults
    BY StoreCallType DEF CopyEvents, TypeOK
  <2> QED
    BY <1>5, <1>9, <2>3, <2>4, <2>5 DEF TypeOK, FlushEvents
<1>10. ASSUME FlushEnd PROVE TypeOK'
    BY <1>10 DEF TypeOK, FlushEnd
<1>11. ASSUME Cancel PROVE TypeOK'
    BY <1>11 DEF TypeOK, Cancel
<1>12. CASE UNCHANGED vars
    BY <1>12 DEF TypeOK, vars
<1> QED
    BY <1>1, <1>2, <1>3, <1>6, <1>7, <1>8, <1>9, <1>10, <1>11, <1>12 DEF Next

(* Every variable of the queue keeps its type, through every failed flush. *)
THEOREM TypeCorrect == Spec => []TypeOK
BY TypeInit, TypeStep, PTL DEF Spec

-----------------------------------------------------------------------------
(* Apply composed twice gives a row of the right type.                     *)
LEMMA TruthType == TypeOK => Truth \in [Key -> Rows]
BY ApplyType DEF TypeOK, Truth

(* Flush's swap moves the queue into the flight, which was empty.          *)
LEMMA TakeKeepsTruth ==
    ASSUME TypeOK, served = NoUsage, TakeQueue, row' = row
    PROVE  Truth' = Truth
<1> SUFFICES ASSUME NEW k \in Key
             PROVE  Apply(usage'[k], Apply(served'[k], row'[k]))
                      = Apply(usage[k], Apply(served[k], row[k]))
    BY DEF Truth
<1>1. usage'[k] = Empty /\ served'[k] = usage[k] /\ served[k] = Empty
    BY DEF TakeQueue, NoUsage
<1>2. row[k] \in Rows /\ usage[k] \in Entry
    BY DEF TypeOK
<1>3. Apply(usage[k], row[k]) \in Rows
    BY <1>2, ApplyType
<1> QED
    BY <1>1, <1>2, <1>3, EmptyChangesNothing

(* Between flushes nothing is in flight: what the inductive step of every  *)
(* theorem about Truth needs of the control flow.                          *)
NothingInFlight == phase \in {"idle", "stopped"} => served = NoUsage

LEMMA FlightStep == TypeOK /\ NothingInFlight /\ [Next]_vars => NothingInFlight'
<1> SUFFICES ASSUME TypeOK, NothingInFlight, [Next]_vars PROVE NothingInFlight'
    OBVIOUS
<1> USE DEF NothingInFlight, queue, flight, store
<1>1. ASSUME NEW k \in Key, Served(k) PROVE NothingInFlight'
    BY <1>1 DEF Served
<1>2. ASSUME NEW k \in Key, NEW t \in Time, WindowReset(k, t) PROVE NothingInFlight'
    BY <1>2 DEF WindowReset
<1>3. ASSUME Event PROVE NothingInFlight'
    BY <1>3 DEF Event
<1>4. CASE TickFlush
    BY <1>4 DEF TickFlush
<1>5. CASE FinalFlush
    BY <1>5 DEF FinalFlush
<1>6. ASSUME NEW k \in Key, FlushKey(k) PROVE NothingInFlight'
    BY <1>6 DEF FlushKey, Flushing
<1>7. CASE FlushEvents
    BY <1>7 DEF FlushEvents
<1>8. CASE FlushEnd
    BY <1>8 DEF FlushEnd
<1>9. CASE Cancel
    BY <1>9 DEF Cancel
<1>10. CASE UNCHANGED vars
    BY <1>10 DEF vars
<1> QED
    BY <1>1, <1>2, <1>3, <1>4, <1>5, <1>6, <1>7, <1>8, <1>9, <1>10 DEF Next

(* What each call and each iteration of a flush does to Truth.             *)
LEMMA ServedCounts ==
    ASSUME TypeOK, NEW k \in Key, Served(k)
    PROVE  Truth' = [Truth EXCEPT ![k] = [count |-> @.count + 1, start |-> @.start]]
<1>1. \A r \in Rows : Apply(CountOne(usage[k]), r)
                        = [count |-> Apply(usage[k], r).count + 1,
                           start |-> Apply(usage[k], r).start]
    BY DEF Apply, CountOne, TypeOK, Entry, Rows
<1>2. Apply(served[k], row[k]) \in Rows
    BY ApplyType DEF TypeOK
<1>3. usage' = [usage EXCEPT ![k] = CountOne(usage[k])] /\ served' = served /\ row' = row
    BY DEF Served, flight, store
<1> QED
    BY <1>1, <1>2, <1>3 DEF Truth, TypeOK

LEMMA ResetOpens ==
    ASSUME TypeOK, NEW k \in Key, NEW t \in Time, WindowReset(k, t)
    PROVE  Truth' = [Truth EXCEPT ![k] = [count |-> 1, start |-> t]]
<1>1. \A r \in Rows : Apply(WindowOpened(usage[k], t), r) = [count |-> 1, start |-> t]
    BY NoneAssumption DEF Apply, WindowOpened
<1>2. Apply(served[k], row[k]) \in Rows
    BY ApplyType DEF TypeOK
<1>3. usage' = [usage EXCEPT ![k] = WindowOpened(usage[k], t)] /\ served' = served /\ row' = row
    BY DEF WindowReset, flight, store
<1> QED
    BY <1>1, <1>2, <1>3 DEF Truth, TypeOK

(* One iteration of a flush leaves Truth as it was, or, when the answer of *)
(* a committed call was lost, counts one key's entry twice.                *)
LEMMA FlushKeyOvercounts ==
    ASSUME TypeOK, NEW k \in Key, FlushKey(k)
    PROVE  /\ \A j \in Key \ {k} : Truth'[j] = Truth[j]
           /\ Truth'[k].start = Truth[k].start /\ Truth'[k].count >= Truth[k].count
           /\ k \notin LostReplies \/ faults' = faults => Truth'[k] = Truth[k]
<1> DEFINE u == usage[k]
           s == served[k]
           r == row[k]
<1> PICK outcome \in Outcome : FlushKey(k)!3!(outcome)
    BY DEF FlushKey
<1>1. u \in Entry /\ s \in Entry /\ r \in Rows /\ Apply(s, r) \in Rows
    BY ApplyType DEF TypeOK
<1>2. served' = [served EXCEPT ![k] = Empty]
    BY DEF FlushKey
<1>3. \A j \in Key \ {k} : Truth'[j] = Truth[j]
    BY <1>2 DEF Truth, TypeOK
<1>4. /\ Truth[k] = Apply(u, Apply(s, r))
      /\ Truth'[k] = Apply(usage'[k], row'[k])
  <2>1. row'[k] \in Rows
    BY <1>1 DEF TypeOK
  <2> QED
    BY <1>2, <2>1, EmptyChangesNothing DEF Truth, TypeOK
<1>5. CASE outcome = "committed"
  <2>1. usage'[k] = u /\ row'[k] = Apply(s, r)
    BY <1>5 DEF TypeOK
  <2> QED
    BY <1>1, <1>3, <1>4, <2>1, ApplyType DEF Rows
<1>6. CASE outcome = "refused"
  <2>1. usage'[k] = Requeue(u, s) /\ row'[k] = r
    BY <1>6 DEF TypeOK
  <2>2. Truth'[k] = Truth[k]
    BY <1>1, <1>4, <2>1, RequeueIsSequential
  <2> QED
    BY <1>1, <1>3, <1>4, <2>2, ApplyType DEF Rows
<1>7. CASE outcome = "lost"
  <2>1. usage'[k] = Requeue(u, s) /\ row'[k] = Apply(s, r)
    BY <1>7 DEF TypeOK
  <2>2. k \in LostReplies /\ faults' # faults
    BY <1>7 DEF StoreCall, Fault, TypeOK
  <2> QED
    BY <1>1, <1>3, <1>4, <2>1, <2>2, RequeueAfterWriteOvercounts
<1> QED
    BY <1>5, <1>6, <1>7 DEF Outcome

-----------------------------------------------------------------------------
(* The steps that touch neither a count nor a flight leave Truth alone.    *)
LEMMA OtherStepsKeepTruth ==
    ASSUME TypeOK, NothingInFlight,
           \/ Event \/ TickFlush \/ FinalFlush \/ FlushEvents \/ FlushEnd \/ Cancel
           \/ UNCHANGED vars
    PROVE  Truth' = Truth /\ made' = made
<1> USE DEF queue, flight, store
<1>1. CASE Event
    BY <1>1 DEF Event, Truth
<1>2. CASE TickFlush
    BY <1>2, TakeKeepsTruth DEF TickFlush, NothingInFlight
<1>3. CASE FinalFlush
    BY <1>3, TakeKeepsTruth DEF FinalFlush, NothingInFlight
<1>4. CASE FlushEvents
    BY <1>4 DEF FlushEvents, Truth
<1>5. CASE FlushEnd
    BY <1>5 DEF FlushEnd, Truth
<1>6. CASE Cancel
    BY <1>6 DEF Cancel, Truth
<1>7. CASE UNCHANGED vars
    BY <1>7 DEF vars, Truth
<1> QED
    BY <1>1, <1>2, <1>3, <1>4, <1>5, <1>6, <1>7

LEMMA InitTruth == Init => NothingInFlight /\ Truth = row /\ made = row
<1> SUFFICES ASSUME Init PROVE Truth = row
    BY DEF Init, NothingInFlight
<1>1. TypeOK
    BY TypeInit
<1>2. ASSUME NEW k \in Key PROVE Truth[k] = row[k]
    BY <1>1, EmptyChangesNothing DEF Init, NoUsage, Truth, TypeOK
<1> QED
    BY <1>1, <1>2, TruthType DEF TypeOK

LEMMA UndercountStep ==
    TypeOK /\ NothingInFlight /\ NeverUndercounts /\ [Next]_vars => NeverUndercounts'
<1> SUFFICES ASSUME TypeOK, NothingInFlight, NeverUndercounts, [Next]_vars
             PROVE  NeverUndercounts'
    OBVIOUS
<1> USE DEF NeverUndercounts
<1>1. Truth \in [Key -> Rows] /\ made \in [Key -> Rows]
    BY TruthType DEF TypeOK
<1>2. ASSUME NEW k \in Key, Served(k) PROVE NeverUndercounts'
  <2>1. made' = [made EXCEPT ![k] = [count |-> made[k].count + 1, start |-> made[k].start]]
    BY <1>2 DEF Served
  <2>2. Truth' = [Truth EXCEPT ![k] = [count |-> Truth[k].count + 1, start |-> Truth[k].start]]
    BY <1>2, ServedCounts
  <2> QED
    BY <1>1, <2>1, <2>2 DEF Rows
<1>3. ASSUME NEW k \in Key, NEW t \in Time, WindowReset(k, t) PROVE NeverUndercounts'
  <2>1. made' = [made EXCEPT ![k] = [count |-> 1, start |-> t]]
    BY <1>3 DEF WindowReset
  <2>2. Truth' = [Truth EXCEPT ![k] = [count |-> 1, start |-> t]]
    BY <1>3, ResetOpens
  <2> QED
    BY <1>1, <2>1, <2>2 DEF Rows
<1>4. ASSUME NEW k \in Key, FlushKey(k) PROVE NeverUndercounts'
  <2>1. made' = made
    BY <1>4 DEF FlushKey
  <2>2. Truth' \in [Key -> Rows]
    <3>1. TypeOK'
      BY TypeStep
    <3> QED
      BY <3>1, ApplyType DEF TypeOK, Truth
  <2> QED
    BY <1>1, <1>4, <2>1, <2>2, FlushKeyOvercounts DEF Rows
<1>5. ASSUME \/ Event \/ TickFlush \/ FinalFlush \/ FlushEvents \/ FlushEnd \/ Cancel
             \/ UNCHANGED vars
      PROVE  NeverUndercounts'
    BY <1>5, OtherStepsKeepTruth
<1> QED
    BY <1>2, <1>3, <1>4, <1>5 DEF Next

(* Whatever store calls fail or lose their answer, what the database will  *)
(* hold after a flush counts at least the serves made in each window.      *)
THEOREM UndercountsNever == Spec => []NeverUndercounts
<1>1. Init => NeverUndercounts
    BY InitTruth, TypeInit DEF NeverUndercounts, TypeOK, Rows
<1>2. Init => NothingInFlight
    BY InitTruth
<1> QED
    BY <1>1, <1>2, TypeInit, TypeStep, FlightStep, UndercountStep, PTL DEF Spec

(* Of the keys whose answers are never lost, the queue, its flight and the *)
(* rows together are the ledger: every serve counts once, and every step   *)
(* of the queue is one of the ledger's or invisible.                       *)
LEMMA LedgerStep ==
    ASSUME TypeOK, NothingInFlight, [Next]_vars
    PROVE  [Ledger!Next]_[k \in Answered |-> Truth[k]]
<1> USE DEF Ledger!Next
<1> DEFINE counts == [k \in Answered |-> Truth[k]]
<1>1. ASSUME NEW k \in Key, Served(k) PROVE Ledger!Next \/ counts' = counts
  <2>1. Truth \in [Key -> Rows]
    BY TruthType
  <2>2. Truth' = [Truth EXCEPT ![k] = [count |-> @.count + 1, start |-> @.start]]
    BY <1>1, ServedCounts
  <2>3. CASE k \in Answered
    <3>1. counts' = [counts EXCEPT ![k] = [count |-> @.count + 1, start |-> @.start]]
      BY <2>1, <2>2, <2>3 DEF Answered
    <3> QED
      BY <2>3, <3>1 DEF Ledger!CountServe
  <2>4. CASE k \notin Answered
    BY <2>1, <2>2, <2>4 DEF Answered
  <2> QED
    BY <2>3, <2>4
<1>2. ASSUME NEW k \in Key, NEW t \in Time, WindowReset(k, t)
      PROVE  Ledger!Next \/ counts' = counts
  <2>1. Truth \in [Key -> Rows]
    BY TruthType
  <2>2. Truth' = [Truth EXCEPT ![k] = [count |-> 1, start |-> t]]
    BY <1>2, ResetOpens
  <2>3. CASE k \in Answered
    <3>1. counts' = [counts EXCEPT ![k] = [count |-> 1, start |-> t]]
      BY <2>1, <2>2, <2>3 DEF Answered
    <3> QED
      BY <2>3, <3>1 DEF Ledger!StartWindow
  <2>4. CASE k \notin Answered
    BY <2>1, <2>2, <2>4 DEF Answered
  <2> QED
    BY <2>3, <2>4
<1>3. ASSUME NEW k \in Key, FlushKey(k) PROVE counts' = counts
  <2>1. \A j \in Answered : Truth'[j] = Truth[j]
    BY <1>3, FlushKeyOvercounts DEF Answered
  <2> QED
    BY <2>1
<1>4. ASSUME \/ Event \/ TickFlush \/ FinalFlush \/ FlushEvents \/ FlushEnd \/ Cancel
             \/ UNCHANGED vars
      PROVE  counts' = counts
    BY <1>4, OtherStepsKeepTruth
<1> QED
    BY <1>1, <1>2, <1>3, <1>4 DEF Next

(* For the keys whose replies are never lost, queue, flight and row count  *)
(* as the ledger does, through any failed flush and whatever becomes of    *)
(* the other keys and of the events (Served, WindowReset, Flush).          *)
THEOREM QueueKeepsTheLedger == Spec => KeepsTheLedger
<1>1. Init => Ledger!Init
  <2> SUFFICES ASSUME Init PROVE Ledger!Init
    OBVIOUS
  <2>1. Truth \in [Key -> Rows]
    BY TypeInit, TruthType
  <2> QED
    BY <2>1 DEF Ledger!Init, Answered, Rows, Start
<1>2. Init => TypeOK /\ NothingInFlight
    BY TypeInit, InitTruth
<1>3. TypeOK /\ NothingInFlight /\ [Next]_vars
        => [Ledger!Next]_[k \in Answered |-> Truth[k]]
    BY LedgerStep
<1> QED
    BY <1>1, <1>2, <1>3, TypeStep, FlightStep, PTL DEF Spec, KeepsTheLedger, Ledger!Spec

-----------------------------------------------------------------------------
(* The events.  A sequence of serials that grows.                          *)
Sorted(s) == \A i, j \in 1..Len(s) : i < j => s[i] < s[j]

In(e, s) == \E i \in 1..Len(s) : s[i] = e

LEMMA InIsToSet == \A e, s : e \in ToSet(s) <=> In(e, s)
BY DEF ToSet, In

(* What the bound leaves of a sequence is its end.                         *)
Dropped(s) == IF Len(s) > MaxEvents THEN Len(s) - MaxEvents ELSE 0

LEMMA KeptEnd ==
    ASSUME NEW S, NEW s \in Seq(S)
    PROVE  /\ Dropped(s) \in 0..Len(s) /\ Len(KeepEvents(s)) = Len(s) - Dropped(s)
           /\ \A i \in 1..Len(KeepEvents(s)) : KeepEvents(s)[i] = s[i + Dropped(s)]
<1>1. Dropped(s) \in 0..Len(s) /\ MaxEvents \in Nat /\ Len(s) \in Nat
    BY MaxEventsAssumption DEF Dropped
<1>2. KeepEvents(s) = SubSeq(s, Dropped(s) + 1, Len(s))
    BY <1>1 DEF KeepEvents, Dropped
<1> HIDE DEF Dropped
<1> QED
    BY <1>1, <1>2

(* A place in what is left is that far from the end in the whole.          *)
LEMMA Places ==
    ASSUME NEW l \in Nat, NEW d \in 0..l
    PROVE  /\ \A i \in 1..(l - d) : i + d \in 1..l
           /\ \A i, j \in 1..(l - d) : i < j => i + d < j + d
           /\ \A i \in 1..l : i > d => i - d \in 1..(l - d) /\ (i - d) + d = i
OBVIOUS

LEMMA KeptAreThere ==
    ASSUME NEW S, NEW s \in Seq(S), NEW e, In(e, KeepEvents(s))
    PROVE  In(e, s)
<1>1. PICK i \in 1..Len(KeepEvents(s)) : KeepEvents(s)[i] = e
    BY DEF In
<1>2. i + Dropped(s) \in 1..Len(s) /\ s[i + Dropped(s)] = e
    BY <1>1, KeptEnd
<1> QED
    BY <1>2 DEF In

LEMMA KeptAreSorted ==
    ASSUME NEW S, NEW s \in Seq(S), Sorted(s)
    PROVE  Sorted(KeepEvents(s))
<1> SUFFICES ASSUME NEW i \in 1..Len(KeepEvents(s)), NEW j \in 1..Len(KeepEvents(s)), i < j
             PROVE  KeepEvents(s)[i] < KeepEvents(s)[j]
    BY DEF Sorted
<1> DEFINE d == Dropped(s)
<1>1. /\ i + d \in 1..Len(s) /\ j + d \in 1..Len(s) /\ i + d < j + d
      /\ KeepEvents(s)[i] = s[i + d] /\ KeepEvents(s)[j] = s[j + d]
  <2>1. /\ d \in 0..Len(s) /\ Len(KeepEvents(s)) = Len(s) - d
        /\ \A k \in 1..Len(KeepEvents(s)) : KeepEvents(s)[k] = s[k + d]
    BY KeptEnd
  <2>2. Len(s) \in Nat
    OBVIOUS
  <2> HIDE DEF d
  <2>3. /\ \A k \in 1..(Len(s) - d) : k + d \in 1..Len(s)
        /\ \A k, l \in 1..(Len(s) - d) : k < l => k + d < l + d
    BY <2>1, <2>2, Places
  <2> QED
    BY <2>1, <2>3
<1> HIDE DEF d
<1> QED
    BY <1>1 DEF Sorted

(* Serials that grow do not outrun how many there are from one to the last.*)
LEMMA SortedLeavesRoom ==
    ASSUME NEW n \in Nat, NEW s \in Seq(1..n), Sorted(s), NEW i \in 1..Len(s)
    PROVE  Len(s) - i <= n - s[i]
<1> DEFINE places == i..Len(s)
           above == s[i]..n
           f == [j \in places |-> s[j]]
<1>1. s[i] \in 1..n
    OBVIOUS
<1>2. f \in [places -> above]
  <2> SUFFICES ASSUME NEW j \in places PROVE s[j] \in above
    OBVIOUS
  <2>1. j \in 1..Len(s) /\ s[j] \in 1..n /\ (i < j \/ i = j)
    OBVIOUS
  <2>2. i < j => s[i] < s[j]
    BY <2>1 DEF Sorted
  <2> QED
    BY <1>1, <2>1, <2>2
<1>3. \A j, k \in places : f[j] = f[k] => j = k
  <2> SUFFICES ASSUME NEW j \in places, NEW k \in places, j # k PROVE f[j] # f[k]
    OBVIOUS
  <2>1. j \in 1..Len(s) /\ k \in 1..Len(s) /\ s[j] \in 1..n /\ s[k] \in 1..n
    OBVIOUS
  <2>2. CASE j < k
    <3>1. s[j] < s[k]
      BY <2>1, <2>2 DEF Sorted
    <3> QED
      BY <2>1, <3>1
  <2>3. CASE k < j
    <3>1. s[k] < s[j]
      BY <2>1, <2>3 DEF Sorted
    <3> QED
      BY <2>1, <3>1
  <2>4. j \in Int /\ k \in Int
    OBVIOUS
  <2> QED
    BY <2>2, <2>3, <2>4
<1>4. f \in Injection(places, above)
  <2> HIDE DEF f, places, above
  <2> QED
    BY <1>2, <1>3 DEF Injection, IsInjective
<1>5. IsFiniteSet(above) /\ Cardinality(above) = n - s[i] + 1
  <2>1. \A a, b \in Int : a <= b => IsFiniteSet(a..b) /\ Cardinality(a..b) = b - a + 1
    BY FS_Interval
  <2>2. s[i] \in Int /\ n \in Int /\ s[i] <= n
    BY <1>1
  <2> QED
    BY <2>1, <2>2
<1>6. Cardinality(places) = Len(s) - i + 1
    BY FS_Interval
<1>7. Cardinality(places) <= Cardinality(above)
  <2> HIDE DEF f, places, above
  <2> QED
    BY <1>4, <1>5, FS_Injection
<1> QED
    BY <1>1, <1>5, <1>6, <1>7

(* The bound drops none of the newest maxEvents.                           *)
LEMMA NewestAreKept ==
    ASSUME NEW n \in Nat, NEW s \in Seq(1..n), Sorted(s), NEW e \in 1..n,
           In(e, s), e > n - MaxEvents
    PROVE  In(e, KeepEvents(s))
<1>1. PICK i \in 1..Len(s) : s[i] = e
    BY DEF In
<1>2. Len(s) - i <= n - e
    BY <1>1, SortedLeavesRoom
<1>3. i > Dropped(s)
    BY <1>1, <1>2, MaxEventsAssumption DEF Dropped
<1>4. i - Dropped(s) \in 1..Len(KeepEvents(s)) /\ KeepEvents(s)[i - Dropped(s)] = e
  <2>1. /\ Dropped(s) \in 0..Len(s) /\ Len(KeepEvents(s)) = Len(s) - Dropped(s)
        /\ \A j \in 1..Len(KeepEvents(s)) : KeepEvents(s)[j] = s[j + Dropped(s)]
    BY KeptEnd
  <2>2. i - Dropped(s) \in 1..Len(KeepEvents(s)) /\ (i - Dropped(s)) + Dropped(s) = i
    <3>1. Len(s) \in Nat
      OBVIOUS
    <3> QED
      BY <1>1, <1>3, <2>1, <3>1, Places
  <2>3. KeepEvents(s)[i - Dropped(s)] = s[(i - Dropped(s)) + Dropped(s)]
    BY <2>1, <2>2
  <2> QED
    BY <1>1, <2>2, <2>3
<1> QED
    BY <1>4 DEF In

(* Two sequences one after the other.                                      *)
LEMMA SortedParts ==
    ASSUME NEW n \in Nat, NEW a \in Seq(1..n), NEW b \in Seq(1..n)
    PROVE  Sorted(a \o b) <=>
                /\ Sorted(a) /\ Sorted(b)
                /\ \A i \in 1..Len(a), j \in 1..Len(b) : a[i] < b[j]
<1>1. /\ Len(a \o b) = Len(a) + Len(b)
      /\ \A i \in 1..Len(a) : (a \o b)[i] = a[i]
      /\ \A j \in 1..Len(b) : (a \o b)[Len(a) + j] = b[j]
    OBVIOUS
<1>2. \A i \in 1..Len(a) : i \in 1..Len(a \o b)
    BY <1>1
<1>3. \A j \in 1..Len(b) : Len(a) + j \in 1..Len(a \o b)
    BY <1>1
<1>4. \A k \in 1..Len(a \o b) : k \in 1..Len(a) \/ \E j \in 1..Len(b) : k = Len(a) + j
  <2> TAKE k \in 1..Len(a \o b)
  <2>1. k \in Nat /\ Len(a) \in Nat /\ Len(b) \in Nat /\ 1 <= k /\ k <= Len(a) + Len(b)
    BY <1>1
  <2>2. CASE k > Len(a)
    <3>1. k - Len(a) \in 1..Len(b) /\ k = Len(a) + (k - Len(a))
      BY <2>1, <2>2
    <3> QED
      BY <3>1
  <2>3. CASE ~(k > Len(a))
    BY <2>1, <2>3
  <2> QED
    BY <2>2, <2>3
<1>5. ASSUME Sorted(a \o b)
      PROVE  /\ Sorted(a) /\ Sorted(b)
             /\ \A i \in 1..Len(a), j \in 1..Len(b) : a[i] < b[j]
  <2>1. Sorted(a)
    BY <1>1, <1>2, <1>5 DEF Sorted
  <2>2. Sorted(b)
    <3> SUFFICES ASSUME NEW i \in 1..Len(b), NEW j \in 1..Len(b), i < j PROVE b[i] < b[j]
      BY DEF Sorted
    <3>1. Len(a) + i < Len(a) + j
      OBVIOUS
    <3> QED
      BY <1>1, <1>3, <1>5, <3>1 DEF Sorted
  <2>3. ASSUME NEW i \in 1..Len(a), NEW j \in 1..Len(b) PROVE a[i] < b[j]
    <3>1. i < Len(a) + j
      OBVIOUS
    <3> QED
      BY <1>1, <1>2, <1>3, <1>5, <3>1 DEF Sorted
  <2> QED
    BY <2>1, <2>2, <2>3
<1>6. ASSUME Sorted(a), Sorted(b), \A i \in 1..Len(a), j \in 1..Len(b) : a[i] < b[j]
      PROVE  Sorted(a \o b)
  <2> SUFFICES ASSUME NEW k \in 1..Len(a \o b), NEW l \in 1..Len(a \o b), k < l
               PROVE  (a \o b)[k] < (a \o b)[l]
    BY DEF Sorted
  <2>1. CASE k \in 1..Len(a) /\ l \in 1..Len(a)
    BY <1>1, <1>6, <2>1 DEF Sorted
  <2>2. ASSUME k \in 1..Len(a), NEW j \in 1..Len(b), l = Len(a) + j
        PROVE  (a \o b)[k] < (a \o b)[l]
    BY <1>1, <1>6, <2>2
  <2>3. ASSUME NEW i \in 1..Len(b), k = Len(a) + i, NEW j \in 1..Len(b), l = Len(a) + j
        PROVE  (a \o b)[k] < (a \o b)[l]
    <3>1. i < j
      BY <2>3
    <3> QED
      BY <1>1, <1>6, <2>3, <3>1 DEF Sorted
  <2>4. ASSUME NEW i \in 1..Len(b), k = Len(a) + i, l \in 1..Len(a) PROVE FALSE
    BY <2>4
  <2> QED
    BY <1>4, <2>1, <2>2, <2>3, <2>4
<1> QED
    BY <1>5, <1>6

LEMMA InParts ==
    ASSUME NEW S, NEW a \in Seq(S), NEW b \in Seq(S), NEW e
    PROVE  In(e, a \o b) <=> In(e, a) \/ In(e, b)
<1>1. /\ Len(a \o b) = Len(a) + Len(b)
      /\ \A i \in 1..Len(a) : (a \o b)[i] = a[i] /\ i \in 1..Len(a \o b)
      /\ \A j \in 1..Len(b) : (a \o b)[Len(a) + j] = b[j] /\ Len(a) + j \in 1..Len(a \o b)
    OBVIOUS
<1>2. ASSUME NEW k \in 1..Len(a \o b)
      PROVE  (k \in 1..Len(a) /\ (a \o b)[k] = a[k])
             \/ (k - Len(a) \in 1..Len(b) /\ (a \o b)[k] = b[k - Len(a)])
    BY <1>1
<1> QED
    BY <1>1, <1>2 DEF In

LEMMA InNew ==
    ASSUME NEW S, NEW s \in Seq(S), NEW x \in S, NEW e
    PROVE  In(e, Append(s, x)) <=> In(e, s) \/ e = x
<1>1. /\ Len(Append(s, x)) = Len(s) + 1 /\ Append(s, x)[Len(s) + 1] = x
      /\ \A i \in 1..Len(s) : Append(s, x)[i] = s[i] /\ i \in 1..Len(Append(s, x))
      /\ Len(s) + 1 \in 1..Len(Append(s, x))
    OBVIOUS
<1>2. \A i \in 1..Len(Append(s, x)) : i \in 1..Len(s) \/ i = Len(s) + 1
    OBVIOUS
<1> QED
    BY <1>1, <1>2 DEF In

LEMMA NewestGoesLast ==
    ASSUME NEW n \in Nat, NEW s \in Seq(1..n), Sorted(s)
    PROVE  Sorted(Append(s, n + 1))
<1>0. Len(Append(s, n + 1)) = Len(s) + 1
    OBVIOUS
<1> SUFFICES ASSUME NEW i \in 1..(Len(s) + 1), NEW j \in 1..(Len(s) + 1), i < j
             PROVE  Append(s, n + 1)[i] < Append(s, n + 1)[j]
    BY <1>0 DEF Sorted
<1>1. i \in 1..Len(s) /\ Append(s, n + 1)[i] = s[i] /\ s[i] \in 1..n
  <2>1. i \in 1..Len(s)
    OBVIOUS
  <2> QED
    BY <2>1
<1>2. CASE j \in 1..Len(s)
    BY <1>1, <1>2 DEF Sorted
<1>3. CASE j = Len(s) + 1
    BY <1>1, <1>3
<1> QED
    BY <1>2, <1>3

-----------------------------------------------------------------------------
(* What holds of the events through every step: a flush leaves none behind *)
(* in its hands; those taken are older than those queued since; while no   *)
(* answer to a COPY was lost, none waits that is in the table; and what    *)
(* the bound dropped is older than the newest maxEvents.                   *)
NoBatchLeft == phase \in {"idle", "stopped"} => batch = << >>

Waits(e) == In(e, batch) \/ In(e, events)

InOrder ==
    /\ Sorted(batch) /\ Sorted(events)
    /\ \A d, e : In(d, batch) /\ In(e, events) => d < e

WaitsOnce == (LostCopies => faults = 0) => \A e \in log : ~Waits(e)

NewestHeld == \A e \in 1..issued : e > issued - MaxEvents => e \in log \/ Waits(e)

EventsInv == NoBatchLeft /\ InOrder /\ WaitsOnce /\ NewestHeld

LEMMA InMembers ==
    ASSUME NEW S, NEW s \in Seq(S), NEW e, In(e, s)
    PROVE  e \in S
BY DEF In

LEMMA InNone == \A e : ~In(e, << >>)
BY DEF In

LEMMA EventsInit == Init => EventsInv
BY InNone DEF Init, EventsInv, NoBatchLeft, InOrder, Sorted, WaitsOnce, NewestHeld

LEMMA EventSorted ==
    ASSUME TypeOK, EventsInv, Event
    PROVE  EventsInv'
<1> USE DEF EventsInv, queue, flight, store
<1> DEFINE grown == Append(events, issued + 1)
<1>1. /\ issued \in Nat /\ issued' = issued + 1 /\ log' = log /\ log \subseteq 1..issued
      /\ batch' = batch /\ phase' = phase /\ faults' = faults
      /\ events' = KeepEvents(grown)
    BY DEF Event, TypeOK
<1>2. batch \in Seq(1..issued) /\ events \in Seq(1..issued)
    BY DEF TypeOK
<1>3. events \in Seq(1..(issued + 1)) /\ issued + 1 \in 1..(issued + 1)
    BY <1>1, <1>2, SerialsGrow
<1>4. grown \in Seq(1..(issued + 1))
    BY <1>3
<1>5. Sorted(grown)
    BY <1>1, <1>2, NewestGoesLast DEF InOrder
<1>6. \A e : In(e, grown) <=> In(e, events) \/ e = issued + 1
    BY <1>3, InNew
<1> HIDE DEF grown
<1>7. \A e : In(e, events') => In(e, events) \/ e = issued + 1
    BY <1>1, <1>4, <1>6, KeptAreThere
<1>8. \A e : In(e, batch) => e \in 1..issued
    BY <1>2, InMembers
<1>9. InOrder'
  <2>1. Sorted(events')
    BY <1>1, <1>4, <1>5, KeptAreSorted
  <2>2. ASSUME NEW d, NEW e, In(d, batch), In(e, events') PROVE d < e
    BY <1>1, <1>7, <1>8, <2>2 DEF InOrder
  <2> QED
    BY <1>1, <2>1, <2>2 DEF InOrder
<1>10. WaitsOnce'
    BY <1>1, <1>7 DEF WaitsOnce, Waits
<1>11. ASSUME NEW e \in 1..issued', e > issued' - MaxEvents, e \notin log, ~In(e, batch)
       PROVE  In(e, events')
  <2>1. MaxEvents \in Nat \ {0} /\ issued' \in Nat /\ issued' = issued + 1
    BY <1>1, MaxEventsAssumption
  <2>2. In(e, grown)
    <3>1. CASE e = issued + 1
      BY <1>6, <3>1
    <3>2. CASE e # issued + 1
      <4>1. e \in 1..issued /\ e > issued - MaxEvents
        BY <1>1, <1>11, <2>1, <3>2
      <4> QED
        BY <1>6, <1>11, <4>1 DEF NewestHeld, Waits
    <3> QED
      BY <3>1, <3>2
  <2>3. grown \in Seq(1..issued')
    BY <1>4, <2>1
  <2>4. \A n \in Nat : \A s \in Seq(1..n) : \A d \in 1..n :
            Sorted(s) /\ In(d, s) /\ d > n - MaxEvents => In(d, KeepEvents(s))
    BY NewestAreKept
  <2>5. In(e, KeepEvents(grown))
    BY <1>5, <1>11, <2>1, <2>2, <2>3, <2>4
  <2> QED
    BY <1>1, <2>5
<1>12. NewestHeld'
  <2>1. batch' = batch /\ log' = log
    BY <1>1
  <2> QED
    BY <1>11, <2>1 DEF NewestHeld, Waits
<1> QED
    BY <1>1, <1>9, <1>10, <1>12 DEF NoBatchLeft

LEMMA TakeKeepsEvents ==
    ASSUME TypeOK, EventsInv, phase = "idle", TakeQueue, phase' \in {"tick", "final"},
           UNCHANGED <<log, issued, faults>>
    PROVE  EventsInv'
<1> USE DEF EventsInv
<1>1. batch = << >> /\ batch' = events /\ events' = << >>
    BY DEF NoBatchLeft, TakeQueue
<1>2. \A e : Waits(e)' <=> Waits(e)
    BY <1>1, InNone DEF Waits
<1>3. InOrder'
    BY <1>1, InNone DEF InOrder, Sorted
<1> QED
    BY <1>2, <1>3 DEF NoBatchLeft, WaitsOnce, NewestHeld

(* The batch goes back in front, as far as the bound has room, or it is in *)
(* the table, or both when the answer was lost.                            *)
LEMMA FlushedEvents ==
    ASSUME TypeOK, EventsInv, FlushEvents
    PROVE  EventsInv'
<1> USE DEF EventsInv
<1> PICK outcome \in Outcome : FlushEvents!3!(outcome)
    BY DEF FlushEvents
<1> DEFINE all == batch \o events
<1>1. /\ batch' = << >> /\ issued' = issued /\ phase' = phase /\ Flushing
    BY DEF FlushEvents
<1>2. /\ batch \in Seq(1..issued) /\ events \in Seq(1..issued) /\ issued \in Nat
      /\ all \in Seq(1..issued) /\ log \subseteq 1..issued
    BY DEF TypeOK
<1>3. \A e : In(e, all) <=> Waits(e)
    BY <1>2, InParts DEF Waits
<1>4. Sorted(all)
  <2>1. \A i \in 1..Len(batch), j \in 1..Len(events) : batch[i] < events[j]
    BY DEF InOrder, In
  <2> QED
    BY <1>2, <2>1, SortedParts DEF InOrder
<1>5. CASE outcome = "committed"
  <2>1. events' = events /\ log' = log \cup ToSet(batch) /\ faults' = faults
    BY <1>5 DEF CopyEvents, StoreCall
  <2>2. \A e : Waits(e)' <=> In(e, events)
    BY <1>1, <2>1, InNone DEF Waits
  <2>3. InOrder'
    BY <1>1, <2>1, InNone DEF InOrder, Sorted
  <2>4. WaitsOnce'
    <3>1. ASSUME NEW e, In(e, batch), In(e, events) PROVE FALSE
      <4>1. e \in 1..issued
        BY <1>2, <3>1, InMembers
      <4> QED
        BY <3>1, <4>1 DEF InOrder
    <3> QED
      BY <2>1, <2>2, <3>1, InIsToSet DEF WaitsOnce, Waits
  <2>5. NewestHeld'
    BY <1>1, <2>1, <2>2, InIsToSet DEF NewestHeld, Waits
  <2> QED
    BY <1>1, <2>3, <2>4, <2>5 DEF NoBatchLeft
<1>6. CASE outcome \in {"refused", "lost"}
  <2>1. events' = KeepEvents(all) /\ log \subseteq log'
    BY <1>6 DEF RequeueEvents
  <2> HIDE DEF all
  <2>2. \A e : Waits(e)' <=> In(e, KeepEvents(all))
    BY <1>1, <2>1, InNone DEF Waits
  <2>3. InOrder'
    BY <1>1, <1>2, <1>4, <2>1, InNone, KeptAreSorted DEF InOrder, Sorted
  <2>4. WaitsOnce'
    <3>1. outcome = "lost" => LostCopies /\ faults' # 0
      BY DEF CopyEvents, StoreCall, Fault, TypeOK
    <3>2. faults' = 0 => faults = 0
      BY DEF CopyEvents, StoreCall, Fault, TypeOK
    <3>3. outcome = "refused" => log' = log
      OBVIOUS
    <3>4. \A e : Waits(e)' => Waits(e)
      BY <1>2, <1>3, <2>2, KeptAreThere
    <3> QED
      BY <1>6, <3>1, <3>2, <3>3, <3>4 DEF WaitsOnce
  <2>5. NewestHeld'
    BY <1>1, <1>2, <1>3, <1>4, <2>1, <2>2, NewestAreKept DEF NewestHeld
  <2> QED
    BY <1>1, <2>3, <2>4, <2>5 DEF NoBatchLeft
<1> QED
    BY <1>5, <1>6 DEF Outcome

LEMMA EventsStep == TypeOK /\ EventsInv /\ [Next]_vars => EventsInv'
<1> SUFFICES ASSUME TypeOK, EventsInv, [Next]_vars PROVE EventsInv'
    OBVIOUS
<1> USE DEF queue, flight, store
<1>1. ASSUME UNCHANGED <<events, batch, log, issued, faults>>,
             phase' \in {"idle", "stopped"} => phase \in {"idle", "stopped"} \/ batch = << >>
      PROVE  EventsInv'
    BY <1>1 DEF EventsInv, NoBatchLeft, InOrder, WaitsOnce, NewestHeld, Waits
<1>2. ASSUME NEW k \in Key, Served(k) PROVE EventsInv'
    BY <1>1, <1>2 DEF Served
<1>3. ASSUME NEW k \in Key, NEW t \in Time, WindowReset(k, t) PROVE EventsInv'
    BY <1>1, <1>3 DEF WindowReset
<1>4. CASE Event
    BY <1>4, EventSorted
<1>5. CASE TickFlush
    BY <1>5, TakeKeepsEvents DEF TickFlush
<1>6. CASE FinalFlush
    BY <1>6, TakeKeepsEvents DEF FinalFlush
<1>7. ASSUME NEW k \in Key, FlushKey(k) PROVE EventsInv'
  <2> PICK outcome \in Outcome : FlushKey(k)!3!(outcome)
    BY <1>7 DEF FlushKey
  <2>1. UNCHANGED <<events, batch, log, issued, phase>>
    BY <1>7 DEF FlushKey
  <2>2. faults' = 0 => faults = 0
    BY DEF StoreCall, Fault, TypeOK
  <2> QED
    BY <2>1, <2>2 DEF EventsInv, NoBatchLeft, InOrder, WaitsOnce, NewestHeld, Waits
<1>8. CASE FlushEvents
    BY <1>8, FlushedEvents
<1>9. CASE FlushEnd
    BY <1>1, <1>9 DEF FlushEnd
<1>10. CASE Cancel
    BY <1>1, <1>10 DEF Cancel
<1>11. CASE UNCHANGED vars
    BY <1>1, <1>11 DEF vars
<1> QED
    BY <1>2, <1>3, <1>4, <1>5, <1>6, <1>7, <1>8, <1>9, <1>10, <1>11 DEF Next

(* Events wait in the order they were queued, those of a failed flush in   *)
(* front of those queued since: the bound drops the oldest.                *)
THEOREM EventsWaitInOrder == Spec => []OldestFirst
<1>1. TypeOK /\ EventsInv => OldestFirst
  <2> SUFFICES ASSUME TypeOK, EventsInv PROVE Sorted(batch \o events)
    BY DEF OldestFirst, Sorted
  <2>1. issued \in Nat /\ batch \in Seq(1..issued) /\ events \in Seq(1..issued)
    BY DEF TypeOK
  <2>2. \A i \in 1..Len(batch), j \in 1..Len(events) : batch[i] < events[j]
    BY DEF EventsInv, InOrder, In
  <2> QED
    BY <2>1, <2>2, SortedParts DEF EventsInv, InOrder
<1> QED
    BY <1>1, TypeInit, TypeStep, EventsInit, EventsStep, PTL DEF Spec

LEMMA WaitingAre ==
    ASSUME TypeOK
    PROVE  \A e : e \in ToSet(batch \o events) <=> Waits(e)
<1>1. batch \in Seq(1..issued) /\ events \in Seq(1..issued)
    BY DEF TypeOK
<1> QED
    BY <1>1, InParts, InIsToSet DEF Waits

(* While no answer to a COPY is lost, a retry never meets its own rows in  *)
(* the table, whatever else fails.                                         *)
THEOREM RetriesAreClean == Spec => []RetriesMeetNoConflict
<1>1. TypeOK /\ EventsInv => RetriesMeetNoConflict
    BY WaitingAre DEF RetriesMeetNoConflict, EventsInv, WaitsOnce
<1> QED
    BY <1>1, TypeInit, TypeStep, EventsInit, EventsStep, PTL DEF Spec

(* The newest maxEvents events ever queued are in the table or held, for   *)
(* any bound and any number of failed flushes.                             *)
THEOREM NewestAreSafe == Spec => []NewestEventsKept
<1>1. TypeOK /\ EventsInv => NewestEventsKept
    BY WaitingAre DEF NewestEventsKept, EventsInv, NewestHeld
<1> QED
    BY <1>1, TypeInit, TypeStep, EventsInit, EventsStep, PTL DEF Spec

-----------------------------------------------------------------------------
(* The end.  Without a store fault nothing is counted twice, and the final *)
(* flush leaves nothing in the queue it has swapped out.                   *)
CountedOnce == faults = 0 => Truth = made

QueueStaysEmpty ==
    phase \in {"final", "stopped"} /\ faults = 0 /\ ~late =>
        usage = NoUsage /\ events = << >>

LEMMA CountedOnceStep ==
    ASSUME TypeOK, NothingInFlight, CountedOnce, [Next]_vars
    PROVE  CountedOnce'
<1> USE DEF CountedOnce
<1>1. ASSUME NEW k \in Key, Served(k) PROVE CountedOnce'
    BY <1>1, ServedCounts DEF Served
<1>2. ASSUME NEW k \in Key, NEW t \in Time, WindowReset(k, t) PROVE CountedOnce'
    BY <1>2, ResetOpens DEF WindowReset
<1>3. ASSUME NEW k \in Key, FlushKey(k) PROVE CountedOnce'
  <2> SUFFICES ASSUME faults' = 0 PROVE Truth' = made'
    OBVIOUS
  <2> PICK outcome \in Outcome : FlushKey(k)!3!(outcome)
    BY <1>3 DEF FlushKey
  <2>1. faults' = faults
    BY DEF StoreCall, Fault, TypeOK
  <2>2. \A j \in Key : Truth'[j] = Truth[j]
    BY <1>3, <2>1, FlushKeyOvercounts
  <2>3. Truth' = Truth
    BY <2>2 DEF Truth
  <2> QED
    BY <1>3, <2>1, <2>3 DEF FlushKey
<1>4. CASE FlushEvents
  <2> PICK outcome \in Outcome : FlushEvents!3!(outcome)
    BY <1>4 DEF FlushEvents
  <2>1. faults' = 0 => faults = 0
    BY DEF CopyEvents, StoreCall, Fault, TypeOK
  <2> QED
    BY <1>4, <2>1, OtherStepsKeepTruth
<1>5. ASSUME Event \/ TickFlush \/ FinalFlush \/ FlushEnd \/ Cancel \/ UNCHANGED vars
      PROVE  CountedOnce'
  <2>1. faults' = faults
    BY <1>5 DEF Event, TickFlush, FinalFlush, FlushEnd, Cancel, vars
  <2> QED
    BY <1>5, <2>1, OtherStepsKeepTruth
<1> QED
    BY <1>1, <1>2, <1>3, <1>4, <1>5 DEF Next

LEMMA QueueStaysEmptyStep ==
    ASSUME TypeOK, EventsInv, QueueStaysEmpty, [Next]_vars
    PROVE  QueueStaysEmpty'
<1> USE DEF QueueStaysEmpty, queue, flight, store
<1>1. ASSUME Call PROVE QueueStaysEmpty' \/ phase' # phase
    BY <1>1 DEF Call
<1>2. ASSUME NEW k \in Key, Served(k) PROVE QueueStaysEmpty'
    BY <1>1, <1>2 DEF Served
<1>3. ASSUME NEW k \in Key, NEW t \in Time, WindowReset(k, t) PROVE QueueStaysEmpty'
    BY <1>1, <1>3 DEF WindowReset
<1>4. CASE Event
    BY <1>1, <1>4 DEF Event
<1>5. CASE TickFlush
    BY <1>5 DEF TickFlush
<1>6. CASE FinalFlush
    BY <1>6 DEF FinalFlush, TakeQueue
<1>7. ASSUME NEW k \in Key, FlushKey(k) PROVE QueueStaysEmpty'
  <2> PICK outcome \in Outcome : FlushKey(k)!3!(outcome)
    BY <1>7 DEF FlushKey
  <2> SUFFICES ASSUME phase \in {"final", "stopped"}, faults' = 0, ~late
               PROVE  UNCHANGED queue /\ faults = 0
    BY <1>7 DEF FlushKey
  <2>1. outcome = "committed" /\ faults = 0
    BY DEF StoreCall, Fault, Doomed, TypeOK
  <2> QED
    BY <1>7, <2>1 DEF FlushKey
<1>8. CASE FlushEvents
  <2> PICK outcome \in Outcome : FlushEvents!3!(outcome)
    BY <1>8 DEF FlushEvents
  <2> SUFFICES ASSUME phase \in {"final", "stopped"}, faults' = 0, ~late
               PROVE  UNCHANGED queue /\ faults = 0
    BY <1>8 DEF FlushEvents
  <2>1. faults = 0
    BY DEF CopyEvents, StoreCall, Fault, TypeOK
  <2>2. ~Conflict
    BY <2>1, InIsToSet DEF EventsInv, WaitsOnce, Waits, Conflict
  <2>3. outcome = "committed"
    BY <2>1, <2>2 DEF CopyEvents, StoreCall, Fault, Doomed
  <2> QED
    BY <1>8, <2>1, <2>3 DEF FlushEvents
<1>9. CASE FlushEnd
    BY <1>9 DEF FlushEnd, RunReturns
<1>10. CASE Cancel
    BY <1>10 DEF Cancel
<1>11. CASE UNCHANGED vars
    BY <1>11 DEF vars
<1> QED
    BY <1>2, <1>3, <1>4, <1>5, <1>6, <1>7, <1>8, <1>9, <1>10, <1>11 DEF Next

(* Nothing held and nothing in flight: the rows are the truth.             *)
LEMMA EmptyQueueIsTruth ==
    ASSUME TypeOK, usage = NoUsage, served = NoUsage
    PROVE  Truth = row
<1> SUFFICES ASSUME NEW k \in Key PROVE Apply(usage[k], Apply(served[k], row[k])) = row[k]
    BY DEF Truth, TypeOK
<1> QED
    BY EmptyChangesNothing DEF NoUsage, TypeOK

(* Run returns with everything the draws queued before its last swap in    *)
(* the database, if no store call failed on the way: a flush that the      *)
(* cancellation cut short put back all it had taken.                       *)
THEOREM StopsAreDrained == Spec => []StopsDrained
<1> DEFINE Inv == TypeOK /\ NothingInFlight /\ EventsInv /\ CountedOnce /\ QueueStaysEmpty
<1>1. Init => Inv
    BY TypeInit, InitTruth, EventsInit DEF CountedOnce, QueueStaysEmpty, Init
<1>2. Inv /\ [Next]_vars => Inv'
    BY TypeStep, FlightStep, EventsStep, CountedOnceStep, QueueStaysEmptyStep
<1>3. Inv => StopsDrained
  <2> SUFFICES ASSUME Inv, phase = "stopped", faults = 0, ~late
               PROVE  row = made /\ (MaxEvents >= issued => log = 1..issued)
    BY DEF StopsDrained
  <2>1. row = made
    BY EmptyQueueIsTruth DEF CountedOnce, QueueStaysEmpty, NothingInFlight
  <2>2. \A e : ~Waits(e)
    BY InNone DEF QueueStaysEmpty, EventsInv, NoBatchLeft, Waits
  <2>3. MaxEvents >= issued => 1..issued \subseteq log
    BY <2>2, MaxEventsAssumption DEF EventsInv, NewestHeld, TypeOK
  <2> QED
    BY <2>1, <2>3 DEF TypeOK
<1> QED
    BY <1>1, <1>2, <1>3, PTL DEF Spec

-----------------------------------------------------------------------------
(* How long a flush takes: one store call for each key it took, one for    *)
(* its events, and its end.                                                *)
Unwritten == {k \in Key : served[k] # Empty}

CallsLeft == Cardinality(Unwritten) + (IF batch = << >> THEN 0 ELSE 1)

(* What a flush puts back goes to the queue, for the next one: a flush     *)
(* never takes up again what it has dealt with, and nothing is added to    *)
(* its hands while it runs.                                                *)
FlushGoesForward ==
    Flushing =>
        /\ CallsLeft \in 0..(Cardinality(Key) + 1)
        /\ IF FlushStep
           THEN \/ CallsLeft' < CallsLeft /\ phase' = phase
                \/ CallsLeft = 0 /\ phase' \in {"idle", "stopped"} /\ UNCHANGED flight
           ELSE UNCHANGED <<flight, phase>>

LEMMA CallsAreCounted ==
    ASSUME IsFiniteSet(Key)
    PROVE  /\ IsFiniteSet(Unwritten) /\ Cardinality(Unwritten) \in 0..Cardinality(Key)
           /\ Cardinality(Key) \in Nat
           /\ CallsLeft \in 0..(Cardinality(Key) + 1)
<1>1. Unwritten \subseteq Key
    BY DEF Unwritten
<1> HIDE DEF Unwritten
<1>2. /\ IsFiniteSet(Unwritten) /\ Cardinality(Unwritten) \in Nat /\ Cardinality(Key) \in Nat
      /\ Cardinality(Unwritten) <= Cardinality(Key)
    BY <1>1, FS_Subset, FS_CardinalityType
<1> QED
    BY <1>2 DEF CallsLeft

LEMMA FlushStepGoesForward ==
    ASSUME IsFiniteSet(Key), TypeOK, FlushStep
    PROVE  \/ CallsLeft' < CallsLeft /\ phase' = phase
           \/ CallsLeft = 0 /\ phase' \in {"idle", "stopped"} /\ UNCHANGED flight
<1>1. ASSUME NEW k \in Key, FlushKey(k) PROVE CallsLeft' < CallsLeft /\ phase' = phase
  <2>1. /\ served[k] # Empty /\ served' = [served EXCEPT ![k] = Empty]
        /\ batch' = batch /\ phase' = phase
    BY <1>1 DEF FlushKey
  <2>2. k \in Unwritten /\ Unwritten' = Unwritten \ {k}
    BY <2>1 DEF Unwritten, TypeOK
  <2>3. Cardinality(Unwritten') = Cardinality(Unwritten) - 1
    BY <2>2, CallsAreCounted, FS_RemoveElement
  <2> QED
    BY <2>1, <2>3, CallsAreCounted DEF CallsLeft
<1>2. CASE FlushEvents
  <2>1. batch # << >> /\ batch' = << >> /\ UNCHANGED <<served, phase>>
    BY <1>2 DEF FlushEvents
  <2>2. Unwritten' = Unwritten
    BY <2>1 DEF Unwritten
  <2> QED
    BY <2>1, <2>2, CallsAreCounted DEF CallsLeft
<1>3. CASE FlushEnd
  <2>1. /\ served = NoUsage /\ batch = << >> /\ UNCHANGED flight
        /\ phase' \in {"idle", "stopped"}
    BY <1>3 DEF FlushEnd
  <2>2. Unwritten = {}
    BY <2>1 DEF Unwritten, NoUsage
  <2> QED
    BY <2>1, <2>2, FS_EmptySet DEF CallsLeft
<1> QED
    BY <1>1, <1>2, <1>3 DEF FlushStep

LEMMA OthersLeaveTheFlush ==
    ASSUME Flushing, Next, ~FlushStep
    PROVE  UNCHANGED <<flight, phase>>
<1>1. ~TickFlush /\ ~FinalFlush
    BY DEF Flushing, TickFlush, FinalFlush
<1>2. CASE \E k \in Key : Served(k)
    BY <1>2 DEF Served
<1>3. CASE \E k \in Key, t \in Time : WindowReset(k, t)
    BY <1>3 DEF WindowReset
<1>4. CASE Event
    BY <1>4 DEF Event
<1>5. CASE Cancel
    BY <1>5 DEF Cancel
<1> QED
    BY <1>1, <1>2, <1>3, <1>4, <1>5 DEF Next, FlushStep

(* A flush makes at most one store call for each key and one for the       *)
(* events, whichever of them fail and whatever the draws queue meanwhile:  *)
(* a store that refuses every call cannot keep Flush in its loop.          *)
THEOREM FlushesGoForward ==
    ASSUME IsFiniteSet(Key)
    PROVE  Spec => [][FlushGoesForward]_vars
<1>1. TypeOK /\ [Next]_vars => [FlushGoesForward]_vars
    BY CallsAreCounted, FlushStepGoesForward, OthersLeaveTheFlush DEF FlushGoesForward
<1> QED
    BY <1>1, TypeInit, TypeStep, PTL DEF Spec
=============================================================================
