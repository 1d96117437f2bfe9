---------------------------- MODULE InfraProofs ----------------------------
(***************************************************************************)
(* Proofs about two parts of the infrastructure that share nothing: of     *)
(* OutboxRelay for every set of events, consumers and processes, both      *)
(* transports, every batch size and every bound; of RequestAdmission for   *)
(* every limit, window, block, time to live and number of requests.        *)
(***************************************************************************)
EXTENDS OutboxRelay, RequestAdmission, FiniteSetTheorems, WellFoundedInduction, TLAPS

USE EventAssumption, BatchAssumption, TransportAssumption, NobodyAssumption,
    BoundsAssumption

----------------------------------------------------------------------------
(* Types *)

\* The row the loop is at is one of its batch.
LEMMA CurrentInBatch ==
    ASSUME TypeOK, NEW p \in Process, relay[p].batch # {}
    PROVE  Current(p) \in relay[p].batch
<1>1. relay[p].batch \subseteq Nat
  BY DEF TypeOK, RelayState
<1>2. \E x \in relay[p].batch : \A y \in relay[p].batch : <<y, x>> \notin OpToRel(<, Nat)
  BY <1>1, NatLessThanWellFounded, WFMin
<1>3. \E x \in relay[p].batch : \A y \in relay[p].batch : x <= y
  <2>1. PICK x \in relay[p].batch :
          \A y \in relay[p].batch : <<y, x>> \notin OpToRel(<, Nat)
    BY <1>2
  <2>2. \A y \in relay[p].batch : ~(y < x)
    BY <1>1, <2>1 DEF OpToRel
  <2> QED BY <1>1, <2>2
<1> QED BY <1>3 DEF Current

\* The type invariant is inductive once a relay that is not idle is known to
\* have rows left.
BatchOfRelay ==
    \A p \in Process : ~RelayAt(p, "idle") => relay[p].batch # {}

RelayInv == TypeOK /\ BatchOfRelay

\* A relay that reads its first batch finds at least one row.
LEMMA BatchNonEmpty ==
    ASSUME TypeOK, Pending # {}
    PROVE  Batch # {}
<1>1. Pending \subseteq Nat
  BY DEF Pending
<1>2. PICK x \in Pending : \A y \in Pending : <<y, x>> \notin OpToRel(<, Nat)
  BY <1>1, NatLessThanWellFounded, WFMin
<1>3. {d \in Pending : d < x} = {}
  BY <1>1, <1>2 DEF OpToRel
<1>4. Cardinality({d \in Pending : d < x}) = 0
  BY <1>3, FS_EmptySet
<1>5. 0 < BatchSize
  OBVIOUS
<1>6. x \in {e \in Pending : Cardinality({d \in Pending : d < e}) < BatchSize}
  BY <1>2, <1>4, <1>5, Zenon
<1> QED BY <1>6, Zenon DEF Batch

\* A relay that goes on with its batch, or ends it.
LEMMA AdvanceInv ==
    ASSUME RelayInv, NEW p \in Process, ~RelayAt(p, "idle"),
           Advance(p) \/ EndDrain(p)
    PROVE  relay' \in [Process -> RelayState] /\ BatchOfRelay'
<1>1. relay[p] \in RelayState
  BY DEF RelayInv, TypeOK
<1>2. [Started EXCEPT !.stopped = relay[p].stopped] \in RelayState
  BY <1>1 DEF Started, RelayState
<1>3. CASE EndDrain(p)
  BY <1>2, <1>3 DEF EndDrain, Started, BatchOfRelay, RelayAt, RelayInv, TypeOK
<1>4. CASE Advance(p)
  <2> DEFINE rest == relay[p].batch \ {Current(p)}
             next == [pc |-> "publish", batch |-> rest, read |-> relay[p].read,
                      stopped |-> relay[p].stopped]
  <2>1. CASE rest = {}
    BY <1>3, <1>4, <2>1 DEF Advance
  <2>2. CASE rest # {}
    <3>1. next \in RelayState /\ next.batch = rest
      BY <1>1 DEF RelayState
    <3>2. relay' = [relay EXCEPT ![p] = next]
      BY <1>1, <1>4, <2>2 DEF Advance, RelayState
    <3> HIDE DEF next
    <3> QED BY <2>2, <3>1, <3>2 DEF BatchOfRelay, RelayAt, RelayInv, TypeOK
  <2> QED BY <2>1, <2>2
<1> QED BY <1>3, <1>4

\* A relay that moves to another statement for the same row.
LEMMA ProceedInv ==
    ASSUME RelayInv, NEW p \in Process, ~RelayAt(p, "idle"),
           NEW pc \in {"stamp", "recordFailure"}, Proceed(p, pc)
    PROVE  relay' \in [Process -> RelayState] /\ BatchOfRelay'
<1> DEFINE row == [pc |-> pc, batch |-> relay[p].batch, read |-> relay[p].read,
                   stopped |-> relay[p].stopped]
<1>0. relay[p] \in RelayState
  BY DEF RelayInv, TypeOK
<1>1. row \in RelayState /\ row.batch = relay[p].batch
  BY <1>0 DEF RelayState
<1>2. [relay[p] EXCEPT !.pc = pc] = row
  BY <1>0 DEF RelayState
<1>3. relay' = [relay EXCEPT ![p] = row]
  BY <1>2 DEF Proceed
<1> HIDE DEF row
<1> QED BY <1>1, <1>3 DEF RelayInv, TypeOK, BatchOfRelay, RelayAt

\* The relay's own steps keep its types.
LEMMA RelayStepInv ==
    ASSUME RelayInv, NEW p \in Process,
           Tick(p) \/ Publish(p) \/ Stamp(p) \/ RecordFailure(p)
    PROVE  RelayInv'
<1> USE DEF RelayInv
<1>1. CASE Tick(p)
  <2> DEFINE row == [pc |-> "publish", batch |-> Batch, read |-> attempts,
                     stopped |-> FALSE]
  <2>1. row \in RelayState /\ row.batch # {}
    BY <1>1, BatchNonEmpty DEF Tick, RelayState, Batch, Pending, TypeOK
  <2>2. relay' = [relay EXCEPT ![p] = row]
    BY <1>1 DEF Tick
  <2> HIDE DEF row
  <2>3. relay' \in [Process -> RelayState] /\ BatchOfRelay'
    BY <2>1, <2>2 DEF TypeOK, BatchOfRelay, RelayAt
  <2> QED BY <1>1, <2>3 DEF Tick, TypeOK, producerVars, handlerVars
<1>2. CASE Publish(p)
  <2>1. Current(p) \in Event
    BY <1>2, CurrentInBatch DEF Publish, BatchOfRelay, RelayAt, TypeOK, RelayState
  <2>2. relay' \in [Process -> RelayState] /\ BatchOfRelay'
    BY <1>2, AdvanceInv, ProceedInv DEF Publish, RelayAt
  <2>3. waiting' \in [Process -> [Delivery -> Nat]]
    <3>1. [d \in Delivery |-> IF d[1] = Current(p) THEN waiting[p][d] + 1
                                                 ELSE waiting[p][d]]
            \in [Delivery -> Nat]
      BY DEF TypeOK
    <3>2. HandlersStarted(p, Current(p)) \in [Process -> [Delivery -> Nat]]
      BY <3>1 DEF HandlersStarted, TypeOK
    <3> QED BY <1>2, <3>2 DEF Publish, TypeOK
  <2>4. failures' \in Nat
    BY <1>2 DEF Publish, Fails, TypeOK
  <2>5. handed' \subseteq Event
    BY <1>2, <2>1 DEF Publish, TypeOK
  <2> QED BY <1>2, <2>2, <2>3, <2>4, <2>5 DEF Publish, TypeOK, producerVars
<1>3. CASE Stamp(p)
  <2>1. relay' \in [Process -> RelayState] /\ BatchOfRelay'
    BY <1>3, AdvanceInv, ProceedInv DEF Stamp, RelayAt
  <2>2. outbox' \in [Event -> {"absent", "pending", "published"}] /\ failures' \in Nat
    BY <1>3 DEF Stamp, Fails, TypeOK
  <2> QED BY <1>3, <2>1, <2>2 DEF Stamp, TypeOK, handlerVars
<1>4. CASE RecordFailure(p)
  <2>1. Current(p) \in Event
    BY <1>4, CurrentInBatch DEF RecordFailure, BatchOfRelay, RelayAt, TypeOK, RelayState
  <2>2. relay' \in [Process -> RelayState] /\ BatchOfRelay'
    BY <1>4, AdvanceInv DEF RecordFailure, RelayAt
  <2>3. relay[p].read \in [Event -> Nat]
    BY DEF TypeOK, RelayState
  <2>4. attempts' \in [Event -> Nat] /\ failures' \in Nat
    BY <1>4, <2>1, <2>3 DEF RecordFailure, Fails, TypeOK
  <2> QED BY <1>4, <2>2, <2>4 DEF RecordFailure, TypeOK, producerVars, handlerVars
<1> QED BY <1>1, <1>2, <1>3, <1>4

\* A process that is replaced starts with an idle relay and no handlers.
LEMMA ReplaceInv ==
    ASSUME RelayInv, NEW p \in Process, Crash(p) \/ Exit(p)
    PROVE  RelayInv'
<1>1. Started \in RelayState /\ Started.pc = "idle"
  BY DEF Started, RelayState
<1>2. Replace(p) /\ stops' \in Nat
  BY DEF Crash, Exit, RelayInv, TypeOK
<1>3. relay' \in [Process -> RelayState] /\ BatchOfRelay'
  BY <1>1, <1>2 DEF Replace, RelayInv, TypeOK, BatchOfRelay, RelayAt
<1>4. /\ waiting' \in [Process -> [Delivery -> Nat]]
      /\ claimant' \in [Delivery -> Process \cup {Nobody}]
  BY <1>2 DEF Replace, RelayInv, TypeOK
<1> QED BY <1>2, <1>3, <1>4 DEF Replace, RelayInv, TypeOK, producerVars

\* Producers, handlers and the signal to stop keep the types.
LEMMA OtherStepInv ==
    ASSUME RelayInv,
           \/ \E e \in Event : Produce(e)
           \/ \E p \in Process : \/ Shutdown(p)
                                 \/ \E d \in Delivery : HandlerStep(p, d) \/ Throw(p, d)
    PROVE  RelayInv'
<1> USE DEF RelayInv
<1>1. ASSUME NEW e \in Event, Produce(e) PROVE RelayInv'
  BY <1>1 DEF Produce, TypeOK, handlerVars, BatchOfRelay, RelayAt
<1>2. ASSUME NEW p \in Process, Shutdown(p) PROVE RelayInv'
  <2> DEFINE row == [relay[p] EXCEPT !.stopped = TRUE]
  <2>0. relay[p] \in RelayState
    BY DEF TypeOK
  <2>1. row \in RelayState
    BY <2>0 DEF RelayState
  <2>5. row.batch = relay[p].batch /\ row.pc = relay[p].pc
    BY <2>0 DEF RelayState
  <2>2. relay' = [relay EXCEPT ![p] = row]
    BY <1>2 DEF Shutdown
  <2> HIDE DEF row
  <2>3. relay' \in [Process -> RelayState] /\ BatchOfRelay'
    BY <2>1, <2>5, <2>2 DEF TypeOK, BatchOfRelay, RelayAt
  <2> QED BY <1>2, <2>3 DEF Shutdown, TypeOK, producerVars, handlerVars
<1>3. ASSUME NEW p \in Process, NEW d \in Delivery,
             Claim(p, d) \/ Handle(p, d) \/ Throw(p, d)
      PROVE  RelayInv'
  <2>1. BatchOfRelay'
    BY <1>3 DEF Claim, Handle, Throw, BatchOfRelay, RelayAt
  <2>2. CASE Claim(p, d)
    <3>1. waiting' = [waiting EXCEPT ![p] = [waiting[p] EXCEPT ![d] = waiting[p][d] - 1]]
      BY <2>2 DEF Claim, TypeOK
    <3>2. waiting[p][d] \in Nat /\ waiting[p][d] - 1 \in Nat
      BY <2>2 DEF Claim, TypeOK
    <3>3. waiting' \in [Process -> [Delivery -> Nat]]
      BY <3>1, <3>2 DEF TypeOK
    <3> QED BY <2>1, <2>2, <3>3 DEF Claim, TypeOK, producerVars
  <2>3. CASE Handle(p, d)
    BY <2>1, <2>3 DEF Handle, TypeOK, producerVars
  <2>4. CASE Throw(p, d)
    BY <2>1, <2>4 DEF Throw, TypeOK, producerVars
  <2> QED BY <1>3, <2>2, <2>3, <2>4
<1> QED BY <1>1, <1>2, <1>3 DEF HandlerStep

\* The invariant of the relay is inductive.
LEMMA RelayInvInductive == RelayInv /\ [Next]_vars => RelayInv'
<1> SUFFICES ASSUME RelayInv, [Next]_vars PROVE RelayInv'
  OBVIOUS
<1>1. CASE UNCHANGED vars
  BY <1>1 DEF vars, RelayInv, TypeOK, BatchOfRelay, RelayAt
<1> QED BY <1>1, RelayStepInv, ReplaceInv, OtherStepInv DEF Next, RelayStep

\* It holds when the processes start.
LEMMA RelayInvInit == Init => RelayInv
<1> SUFFICES ASSUME Init PROVE RelayInv
  OBVIOUS
<1>1. Started \in RelayState /\ Started.pc = "idle"
  BY DEF Started, RelayState
<1> QED BY <1>1 DEF Init, RelayInv, TypeOK, BatchOfRelay, RelayAt

\* Type correctness, for any number of processes, events and consumers.
THEOREM OutboxTypes == Spec => []TypeOK
<1>1. RelayInv => TypeOK
  BY DEF RelayInv
<1> QED BY RelayInvInit, RelayInvInductive, <1>1, PTL DEF Spec

----------------------------------------------------------------------------
(* Nothing is stamped that was not handed over *)

\* The relay is about to stamp a row it has handed over.
StampingWasHandedOver ==
    \A p \in Process : RelayAt(p, "stamp") => Current(p) \in handed

HandoverInv == StampedWasHandedOver /\ StampingWasHandedOver

\* How a step may move the relays: a batch only loses rows or is read anew
\* from the pending ones, and a relay about to stamp has just published.
RelaysMove ==
    \A q \in Process :
        /\ relay'[q].batch \subseteq relay[q].batch \cup Pending
        /\ RelayAt(q, "stamp")'
              => /\ Current(q)' = Current(q)
                 /\ RelayAt(q, "stamp") \/ Current(q) \in handed'

\* Leaving the current row does.
LEMMA AdvanceMoves ==
    ASSUME RelayInv, NEW p \in Process, Advance(p) \/ EndDrain(p)
    PROVE  RelaysMove
<1>1. relay \in [Process -> RelayState]
  BY DEF RelayInv, TypeOK
<1>2. PICK row \in RelayState : /\ relay' = [relay EXCEPT ![p] = row]
                               /\ row.batch \subseteq relay[p].batch
                               /\ row.pc # "stamp"
  <2>1. relay[p] \in RelayState
    BY <1>1
  <2>2. CASE EndDrain(p)
    <3>1. /\ [Started EXCEPT !.stopped = relay[p].stopped] \in RelayState
          /\ [Started EXCEPT !.stopped = relay[p].stopped].batch = {}
          /\ [Started EXCEPT !.stopped = relay[p].stopped].pc = "idle"
      BY <2>1 DEF Started, RelayState
    <3> QED BY <2>2, <3>1 DEF EndDrain
  <2>3. CASE Advance(p) /\ ~EndDrain(p)
    <3> DEFINE rest == relay[p].batch \ {Current(p)}
               next == [pc |-> "publish", batch |-> rest, read |-> relay[p].read,
                        stopped |-> relay[p].stopped]
    <3>1. /\ next \in RelayState
          /\ next.batch \subseteq relay[p].batch
          /\ next.pc = "publish"
      BY <2>1 DEF RelayState
    <3>2. relay' = [relay EXCEPT ![p] = next]
      BY <2>1, <2>3 DEF Advance, RelayState
    <3> HIDE DEF next
    <3> QED BY <3>1, <3>2
  <2> QED BY <2>2, <2>3
<1>3. ASSUME NEW q \in Process PROVE relay'[q].batch \subseteq relay[q].batch
  BY <1>1, <1>2
<1>4. ASSUME NEW q \in Process, RelayAt(q, "stamp")'
      PROVE  Current(q)' = Current(q) /\ RelayAt(q, "stamp")
  <2>1. relay'[q] = relay[q]
    BY <1>1, <1>2, <1>4 DEF RelayAt
  <2> QED BY <2>1, <1>4 DEF RelayAt, Current
<1> QED BY <1>3, <1>4 DEF RelaysMove

\* Going on to another statement for the same row does, if a row is not
\* stamped before it is handed over.
LEMMA ProceedMoves ==
    ASSUME RelayInv, NEW p \in Process, NEW pc \in {"stamp", "recordFailure"},
           Proceed(p, pc), pc = "stamp" => Current(p) \in handed'
    PROVE  RelaysMove
<1> DEFINE row == [pc |-> pc, batch |-> relay[p].batch, read |-> relay[p].read,
                   stopped |-> relay[p].stopped]
<1>1. relay \in [Process -> RelayState] /\ relay[p] \in RelayState
  BY DEF RelayInv, TypeOK
<1>2. [relay[p] EXCEPT !.pc = pc] = row /\ row.batch = relay[p].batch /\ row.pc = pc
  BY <1>1 DEF RelayState
<1>3. relay' = [relay EXCEPT ![p] = row]
  BY <1>2 DEF Proceed
<1> HIDE DEF row
<1>4. ASSUME NEW q \in Process
      PROVE  relay'[q].batch = relay[q].batch /\ (q # p => relay'[q] = relay[q])
  BY <1>1, <1>2, <1>3
<1>5. ASSUME NEW q \in Process PROVE Current(q)' = Current(q)
  BY <1>4 DEF Current
<1>6. relay'[p].pc = pc
  BY <1>1, <1>2, <1>3
<1> QED BY <1>4, <1>5, <1>6 DEF RelaysMove, RelayAt

\* Every step does.
LEMMA StepMoves ==
    ASSUME RelayInv, Next
    PROVE  RelaysMove
<1>1. relay \in [Process -> RelayState]
  BY DEF RelayInv, TypeOK
<1>2. CASE UNCHANGED relay
  BY <1>2 DEF RelaysMove, RelayAt, Current
<1>3. ASSUME NEW p \in Process, Tick(p) PROVE RelaysMove
  <2> DEFINE row == [pc |-> "publish", batch |-> Batch, read |-> attempts,
                     stopped |-> FALSE]
  <2>1. row.batch \subseteq Pending /\ row.pc = "publish"
    BY DEF Batch
  <2>2. relay' = [relay EXCEPT ![p] = row]
    BY <1>3 DEF Tick
  <2> HIDE DEF row
  <2>3. ASSUME NEW q \in Process, q # p PROVE relay'[q] = relay[q]
    BY <1>1, <2>2, <2>3
  <2>4. relay'[p] = row
    BY <1>1, <2>2
  <2> QED BY <2>1, <2>3, <2>4 DEF RelaysMove, RelayAt, Current
<1>4. ASSUME NEW p \in Process, Publish(p) PROVE RelaysMove
  BY <1>4, AdvanceMoves, ProceedMoves DEF Publish
<1>5. ASSUME NEW p \in Process, Stamp(p) \/ RecordFailure(p) PROVE RelaysMove
  BY <1>5, AdvanceMoves, ProceedMoves DEF Stamp, RecordFailure
<1>6. ASSUME NEW p \in Process, Crash(p) \/ Exit(p) PROVE RelaysMove
  <2>1. Started.batch = {} /\ Started.pc = "idle"
    BY DEF Started
  <2>2. relay' = [relay EXCEPT ![p] = Started]
    BY <1>6 DEF Crash, Exit, Replace
  <2>3. ASSUME NEW q \in Process, q # p PROVE relay'[q] = relay[q]
    BY <1>1, <2>2, <2>3
  <2>4. relay'[p] = Started
    BY <1>1, <2>2
  <2> QED BY <2>1, <2>3, <2>4 DEF RelaysMove, RelayAt, Current
<1>7. ASSUME NEW p \in Process, Shutdown(p) PROVE RelaysMove
  <2> DEFINE row == [relay[p] EXCEPT !.stopped = TRUE]
  <2>1. relay[p] \in RelayState
    BY <1>1
  <2>2. row.batch = relay[p].batch /\ row.pc = relay[p].pc
    BY <2>1 DEF RelayState
  <2>3. relay' = [relay EXCEPT ![p] = row]
    BY <1>7 DEF Shutdown
  <2> HIDE DEF row
  <2>4. ASSUME NEW q \in Process
        PROVE  relay'[q].batch = relay[q].batch /\ relay'[q].pc = relay[q].pc
    BY <1>1, <2>2, <2>3
  <2>5. ASSUME NEW q \in Process PROVE Current(q)' = Current(q)
    BY <2>4 DEF Current
  <2> QED BY <2>4, <2>5 DEF RelaysMove, RelayAt
<1> QED
  BY <1>2, <1>3, <1>4, <1>5, <1>6, <1>7
     DEF Next, RelayStep, HandlerStep, Produce, Claim, Handle, Throw

\* Every step keeps stamped rows handed over.
LEMMA HandoverKept ==
    ASSUME RelayInv, HandoverInv, [Next]_vars
    PROVE  HandoverInv'
<1>1. CASE UNCHANGED vars
  BY <1>1 DEF vars, HandoverInv, StampedWasHandedOver, StampingWasHandedOver,
              RelayAt, Current
<1>2. CASE Next
  <2>1. handed \subseteq handed'
    BY <1>2 DEF Next, RelayStep, HandlerStep, Produce, Tick, Publish, Stamp,
                RecordFailure, Claim, Handle, Throw, Crash, Exit, Replace, Shutdown
  <2>2. ASSUME NEW e \in Event, outbox'[e] = "published", outbox[e] # "published"
        PROVE  e \in handed
    <3>1. outbox \in [Event -> {"absent", "pending", "published"}]
      BY DEF RelayInv, TypeOK
    <3>2. \E p \in Process : Stamp(p) /\ e = Current(p)
      BY <1>2, <2>2, <3>1
         DEF Next, RelayStep, HandlerStep, Produce, Tick, Publish, Stamp,
             RecordFailure, Claim, Handle, Throw, Crash, Exit, Replace, Shutdown,
             producerVars
    <3> QED BY <3>2 DEF Stamp, HandoverInv, StampingWasHandedOver
  <2>3. StampedWasHandedOver'
    BY <2>1, <2>2 DEF HandoverInv, StampedWasHandedOver
  <2>4. StampingWasHandedOver'
    BY <1>2, <2>1, StepMoves
       DEF RelaysMove, HandoverInv, StampingWasHandedOver
  <2> QED BY <2>3, <2>4 DEF HandoverInv
<1> QED BY <1>1, <1>2

\* A stamped row was handed to the transport first, whatever fails or crashes.
THEOREM NoLostPublish == Spec => []StampedWasHandedOver
<1>1. Init => HandoverInv
  BY DEF Init, HandoverInv, StampedWasHandedOver, StampingWasHandedOver,
         RelayAt, Started
<1>2. RelayInv /\ HandoverInv /\ [Next]_vars => HandoverInv'
  BY HandoverKept
<1>3. HandoverInv => StampedWasHandedOver
  BY DEF HandoverInv
<1> QED BY RelayInvInit, RelayInvInductive, <1>1, <1>2, <1>3, PTL DEF Spec

----------------------------------------------------------------------------
(* The promised delivery *)

\* Rows and facts agree, and what is under way concerns facts only.
RowsAreFacts ==
    /\ \A e \in Event : outbox[e] # "absent" <=> e \in facts
    /\ \A p \in Process : relay[p].batch \subseteq facts
    /\ \A p \in Process, d \in Delivery : waiting[p][d] > 0 => d[1] \in facts

\* processed_events counts the effects, and an open claim is the first.
ClaimsCountEffects ==
    \A d \in Delivery :
        /\ effects[d] = IF d \in claims THEN 1 ELSE 0
        /\ claimant[d] # Nobody => d \notin claims /\ d[1] \in facts

DeliveryInv == RowsAreFacts /\ ClaimsCountEffects

\* Every step keeps rows and facts in agreement.
LEMMA RowsKept ==
    ASSUME RelayInv, RowsAreFacts, Next
    PROVE  RowsAreFacts'
<1>1. facts \subseteq facts'
  BY DEF Next, RelayStep, HandlerStep, Produce, Tick, Publish, Stamp, RecordFailure,
         Claim, Handle, Throw, Crash, Exit, Replace, Shutdown, producerVars
<1>2. ASSUME NEW p \in Process PROVE relay'[p].batch \subseteq facts'
  <2>1. Pending \subseteq facts
    BY DEF Pending, RowsAreFacts
  <2> QED BY <1>1, <2>1, StepMoves DEF RelaysMove, RowsAreFacts
<1>3. ASSUME NEW e \in Event PROVE outbox'[e] # "absent" <=> e \in facts'
  <2>1. outbox \in [Event -> {"absent", "pending", "published"}]
    BY DEF RelayInv, TypeOK
  <2>2. CASE \E p \in Process : Stamp(p)
    <3>1. PICK p \in Process : Stamp(p)
      BY <2>2
    <3>2. Current(p) \in facts
      BY <3>1, CurrentInBatch
         DEF Stamp, RelayInv, BatchOfRelay, RelayAt, RowsAreFacts
    <3> QED BY <2>1, <3>1, <3>2 DEF Stamp, RowsAreFacts
  <2>3. CASE \E f \in Event : Produce(f)
    BY <2>1, <2>3 DEF Produce, RowsAreFacts
  <2>4. CASE UNCHANGED producerVars
    BY <2>4 DEF producerVars, RowsAreFacts
  <2> QED
    BY <2>2, <2>3, <2>4
       DEF Next, RelayStep, HandlerStep, Tick, Publish, RecordFailure, Claim,
           Handle, Throw, Crash, Exit, Replace, Shutdown, producerVars
<1>4. ASSUME NEW q \in Process, NEW d \in Delivery, waiting'[q][d] > 0
      PROVE  d[1] \in facts'
  <2>1. waiting \in [Process -> [Delivery -> Nat]]
    BY DEF RelayInv, TypeOK
  <2>2. CASE \E p \in Process : Publish(p)
    <3>1. PICK p \in Process : Publish(p)
      BY <2>2
    <3>2. Current(p) \in facts
      BY <3>1, CurrentInBatch
         DEF Publish, RelayInv, BatchOfRelay, RelayAt, RowsAreFacts
    <3>3. waiting'[q][d] = waiting[q][d] \/ d[1] = Current(p)
      BY <2>1, <3>1 DEF Publish, HandlersStarted
    <3> QED BY <1>1, <1>4, <3>2, <3>3 DEF RowsAreFacts
  <2>3. CASE \E p \in Process, c \in Delivery : Claim(p, c)
    <3>1. waiting[q][d] > 0
      <4>1. PICK p \in Process, c \in Delivery : Claim(p, c)
        BY <2>3
      <4>2. CASE p = q /\ c = d
        BY <4>1, <4>2 DEF Claim
      <4>3. CASE ~(p = q /\ c = d)
        BY <1>4, <2>1, <4>1, <4>3 DEF Claim
      <4> QED BY <4>2, <4>3
    <3> QED BY <1>1, <3>1 DEF RowsAreFacts
  <2>4. CASE \E p \in Process : Crash(p) \/ Exit(p)
    <3>1. PICK p \in Process : Crash(p) \/ Exit(p)
      BY <2>4
    <3>2. waiting[q][d] > 0
      BY <1>4, <2>1, <3>1 DEF Crash, Exit, Replace
    <3> QED BY <1>1, <3>2 DEF RowsAreFacts
  <2>5. CASE UNCHANGED waiting
    BY <1>1, <1>4, <2>5 DEF RowsAreFacts
  <2> QED
    BY <2>2, <2>3, <2>4, <2>5
       DEF Next, RelayStep, HandlerStep, Produce, Tick, Stamp, RecordFailure,
           Handle, Throw, Shutdown, handlerVars
<1> QED BY <1>2, <1>3, <1>4 DEF RowsAreFacts

\* Every step keeps the count of effects.
LEMMA ClaimsKept ==
    ASSUME RelayInv, DeliveryInv, Next
    PROVE  ClaimsCountEffects'
<1>1. facts \subseteq facts'
  BY DEF Next, RelayStep, HandlerStep, Produce, Tick, Publish, Stamp, RecordFailure,
         Claim, Handle, Throw, Crash, Exit, Replace, Shutdown, producerVars
<1>2. /\ claimant \in [Delivery -> Process \cup {Nobody}]
      /\ effects \in [Delivery -> Nat]
  BY DEF RelayInv, TypeOK
<1>3. ClaimsCountEffects /\ RowsAreFacts
  BY DEF DeliveryInv
<1>4. ASSUME NEW p \in Process, NEW d \in Delivery, Claim(p, d)
      PROVE  ClaimsCountEffects'
  BY <1>1, <1>2, <1>3, <1>4 DEF Claim, ClaimsCountEffects, RowsAreFacts
<1>5. ASSUME NEW p \in Process, NEW d \in Delivery, Handle(p, d)
      PROVE  ClaimsCountEffects'
  BY <1>1, <1>2, <1>3, <1>5 DEF Handle, ClaimsCountEffects
<1>6. ASSUME NEW p \in Process, NEW d \in Delivery, Throw(p, d)
      PROVE  ClaimsCountEffects'
  BY <1>1, <1>2, <1>3, <1>6 DEF Throw, ClaimsCountEffects
<1>7. ASSUME NEW p \in Process, Crash(p) \/ Exit(p)
      PROVE  ClaimsCountEffects'
  BY <1>1, <1>2, <1>3, <1>7 DEF Crash, Exit, Replace, ClaimsCountEffects
<1>8. CASE UNCHANGED <<claimant, claims, effects>>
  BY <1>1, <1>3, <1>8 DEF ClaimsCountEffects
<1> QED
  BY <1>4, <1>5, <1>6, <1>7, <1>8
     DEF Next, RelayStep, HandlerStep, Produce, Tick, Publish, Stamp, RecordFailure,
         Shutdown, handlerVars

\* Both hold throughout.
LEMMA DeliveryInvariant == Spec => [](RelayInv /\ DeliveryInv)
<1>1. Init => DeliveryInv
  BY DEF Init, DeliveryInv, RowsAreFacts, ClaimsCountEffects, Started
<1>2. RelayInv /\ DeliveryInv /\ [Next]_vars => DeliveryInv'
  <2> SUFFICES ASSUME RelayInv, DeliveryInv, [Next]_vars PROVE DeliveryInv'
    OBVIOUS
  <2>1. CASE UNCHANGED vars
    BY <2>1 DEF vars, DeliveryInv, RowsAreFacts, ClaimsCountEffects
  <2> QED BY <2>1, RowsKept, ClaimsKept DEF DeliveryInv
<1> QED BY RelayInvInit, RelayInvInductive, <1>1, <1>2, PTL DEF Spec

\* A step of the system is a step of the promise or leaves it alone.
LEMMA StepImplements ==
    ASSUME RelayInv, DeliveryInv, [Next]_vars
    PROVE  [Promise!Next]_<<facts, effects>>
<1>1. ASSUME NEW e \in Event, Produce(e) PROVE Promise!Raise(e)
  BY <1>1 DEF Produce, handlerVars, Promise!Raise, DeliveryInv, RowsAreFacts
<1>2. ASSUME NEW p \in Process, NEW d \in Delivery, Handle(p, d)
      PROVE  \E e \in Event, c \in Consumer : Promise!Act(e, c)
  <2>0. d = <<d[1], d[2]>> /\ d[1] \in Event /\ d[2] \in Consumer
    BY DEF Delivery
  <2>1. PICK e \in Event, c \in Consumer : d = <<e, c>>
    BY <2>0
  <2>2. effects[d] = 0 /\ e \in facts
    BY <1>2, <2>1 DEF Handle, DeliveryInv, ClaimsCountEffects
  <2>3. effects' = [effects EXCEPT ![d] = 1] /\ UNCHANGED facts
    BY <1>2, <2>2 DEF Handle, producerVars
  <2> QED BY <2>1, <2>2, <2>3 DEF Promise!Act
<1>3. CASE UNCHANGED <<facts, effects>>
  BY <1>3
<1> QED
  BY <1>1, <1>2, <1>3
     DEF Promise!Next, Next, vars, RelayStep, HandlerStep, Tick, Publish, Stamp,
         RecordFailure, Claim, Throw, Crash, Exit, Replace, Shutdown,
         producerVars, handlerVars

\* Outbox, relays and handlers implement the promised delivery: the effect of
\* an event is committed at most once per consumer, and only for a fact.
THEOREM DeliveryHolds == Spec => DeliverySpec
<1>1. Init => Promise!Init
  BY DEF Init, Promise!Init, Delivery
<1>2. RelayInv /\ DeliveryInv /\ [Next]_vars => [Promise!Next]_<<facts, effects>>
  BY StepImplements
<1> QED BY DeliveryInvariant, <1>1, <1>2, PTL DEF Spec, DeliverySpec, Promise!Spec

----------------------------------------------------------------------------
(* The admission of requests *)

USE LimitAssumption, WindowAssumption, TTLAssumption, NoKeyAssumption

Key == [value : Status, left : 1 .. TTL]

State == [pc : Pcs, value : Status, age : 0 .. Slow]

\* What a remembered answer and one about to be remembered may have missed.
Recent ==
    /\ since[status] = 0
    /\ cache # None => since[cache.value] <= TTL - cache.left + Slow
    /\ \A r \in Request : At(r, "store") => since[request[r].value] <= request[r].age

AdmissionInv == ActivationTypeOK /\ Recent

----------------------------------------------------------------------------
(* The throttler *)

LEMMA CountedType ==
    ASSUME ThrottlerTypeOK
    PROVE  Counted \in [hits : 1 .. Limit + 1, left : 1 .. Window]
<1>1. CASE counter = NoCounter
  BY <1>1 DEF Counted
<1>2. CASE counter # NoCounter
  <2>1. counter \in [hits : 1 .. Limit + 1, left : 1 .. Window]
    BY <1>2 DEF ThrottlerTypeOK
  <2>2. CASE counter.hits > Limit
    BY <1>2, <2>1, <2>2 DEF Counted
  <2>3. CASE ~(counter.hits > Limit)
    <3>1. Counted = [counter EXCEPT !.hits = counter.hits + 1]
      BY <1>2, <2>3 DEF Counted
    <3>2. counter.hits + 1 \in 1 .. Limit + 1
      BY <2>1, <2>3
    <3>3. QED
      BY <2>1, <3>1, <3>2
  <2>4. QED
    BY <2>2, <2>3
<1>3. QED
  BY <1>1, <1>2

LEMMA AgedType ==
    ASSUME ThrottlerTypeOK
    PROVE  Aged(counter) \in
             [hits : 1 .. Limit + 1, left : 1 .. Window] \cup {NoCounter}
<1>1. CASE counter.left <= 1
  BY <1>1 DEF Aged
<1>2. CASE ~(counter.left <= 1)
  <2>1. counter # NoCounter
    BY <1>2 DEF NoCounter
  <2>2. counter \in [hits : 1 .. Limit + 1, left : 1 .. Window]
    BY <2>1 DEF ThrottlerTypeOK
  <2>3. Aged(counter) = [counter EXCEPT !.left = counter.left - 1]
    BY <1>2 DEF Aged
  <2>4. counter.left - 1 \in 1 .. Window
    BY <1>2, <2>2
  <2>5. QED
    BY <2>2, <2>3, <2>4
<1>3. QED
  BY <1>1, <1>2

LEMMA PauseType == Pause \in Nat \ {0} /\ Block <= Pause
BY DEF Pause

LEMMA AcceptType ==
    ASSUME ThrottlerTypeOK, Accept
    PROVE  ThrottlerTypeOK'
BY CountedType, PauseType DEF ThrottlerTypeOK, Accept

LEMMA RefuseType ==
    ASSUME ThrottlerTypeOK, Refuse
    PROVE  ThrottlerTypeOK'
BY CountedType, PauseType DEF ThrottlerTypeOK, Refuse

LEMMA KeysAgeType ==
    ASSUME ThrottlerTypeOK, KeysAge
    PROVE  ThrottlerTypeOK'
BY AgedType, PauseType DEF ThrottlerTypeOK, KeysAge

LEMMA ForgetType ==
    ASSUME ThrottlerTypeOK, ForgetHits
    PROVE  ThrottlerTypeOK'
<1>1. counter' \in [hits : 1 .. Limit + 1, left : 1 .. Window] \cup {NoCounter}
  <2>1. CASE counter' = NoCounter
    BY <2>1
  <2>2. CASE counter' # NoCounter
    <3>1. PICK h \in 1 .. counter.hits : counter' = [counter EXCEPT !.hits = h]
      BY <2>2 DEF ForgetHits
    <3>2. counter # NoCounter
      BY <3>1 DEF NoCounter
    <3>3. counter \in [hits : 1 .. Limit + 1, left : 1 .. Window]
      BY <3>2 DEF ThrottlerTypeOK
    <3>4. h \in 1 .. Limit + 1
      BY <3>1, <3>3
    <3>5. QED
      BY <3>1, <3>3, <3>4
  <2>3. QED
    BY <2>1, <2>2
<1>2. QED
  BY <1>1 DEF ThrottlerTypeOK, ForgetHits

----------------------------------------------------------------------------
(* The remembered answer *)

LEMMA BecomeState ==
    ASSUME ActivationTypeOK, NEW r \in Request,
           NEW pc \in Pcs, NEW v \in Status, Become(r, pc, v)
    PROVE  /\ request' \in [Request -> State]
           /\ request'[r] = [pc |-> pc, value |-> v, age |-> 0]
           /\ \A q \in Request : q # r => request'[q] = request[q]
<1>1. [pc |-> pc, value |-> v, age |-> 0] \in State
  BY DEF State
<1>2. QED
  BY <1>1 DEF ActivationTypeOK, Become, State

LEMMA AskInv ==
    ASSUME AdmissionInv, NEW r \in Request, Ask(r)
    PROVE  AdmissionInv'
<1>1. "get" \in Pcs /\ "inactive" \in Status
  BY DEF Pcs, Status
<1>2. /\ request' \in [Request -> State]
      /\ request'[r] = [pc |-> "get", value |-> "inactive", age |-> 0]
      /\ \A q \in Request : q # r => request'[q] = request[q]
  BY <1>1, BecomeState DEF Ask, AdmissionInv
<1>3. ActivationTypeOK'
  BY <1>2 DEF AdmissionInv, ActivationTypeOK, Ask, State
<1>4. Recent'
  BY <1>2 DEF AdmissionInv, Recent, Ask, At
<1>5. QED
  BY <1>3, <1>4 DEF AdmissionInv

LEMMA GetInv ==
    ASSUME AdmissionInv, NEW r \in Request, Get(r)
    PROVE  AdmissionInv'
<1>1. /\ "answered" \in Pcs /\ "load" \in Pcs /\ "inactive" \in Status
      /\ cache # None => cache \in Key
  BY DEF Pcs, Status, AdmissionInv, ActivationTypeOK, Key
<1>2. CASE cache # None
  <2>1. Become(r, "answered", cache.value) /\ cache' = cache
    BY <1>2 DEF Get, Kept
  <2>2. cache.value \in Status
    BY <1>1, <1>2 DEF Key
  <2>3. /\ request' \in [Request -> State]
        /\ request'[r] = [pc |-> "answered", value |-> cache.value, age |-> 0]
        /\ \A q \in Request : q # r => request'[q] = request[q]
    BY <1>1, <2>1, <2>2, BecomeState DEF AdmissionInv
  <2>4. ActivationTypeOK'
    BY <2>1, <2>3 DEF AdmissionInv, ActivationTypeOK, Get, State
  <2>5. Recent'
    BY <2>1, <2>3 DEF AdmissionInv, Recent, Get, At
  <2>6. QED
    BY <2>4, <2>5 DEF AdmissionInv
<1>3. CASE cache = None
  <2>1. Become(r, "load", "inactive") /\ cache' = cache
    BY <1>3 DEF Get
  <2>2. /\ request' \in [Request -> State]
        /\ request'[r] = [pc |-> "load", value |-> "inactive", age |-> 0]
        /\ \A q \in Request : q # r => request'[q] = request[q]
    BY <1>1, <2>1, BecomeState DEF AdmissionInv
  <2>3. ActivationTypeOK'
    BY <2>1, <2>2 DEF AdmissionInv, ActivationTypeOK, Get, State
  <2>4. Recent'
    BY <2>1, <2>2 DEF AdmissionInv, Recent, Get, At
  <2>5. QED
    BY <2>3, <2>4 DEF AdmissionInv
<1>4. QED
  BY <1>2, <1>3

LEMMA LoadInv ==
    ASSUME AdmissionInv, NEW r \in Request, Load(r)
    PROVE  AdmissionInv'
<1>1. "store" \in Pcs /\ status \in Status
  BY DEF Pcs, AdmissionInv, ActivationTypeOK
<1>2. /\ request' \in [Request -> State]
      /\ request'[r] = [pc |-> "store", value |-> status, age |-> 0]
      /\ \A q \in Request : q # r => request'[q] = request[q]
  BY <1>1, BecomeState DEF Load, AdmissionInv
<1>3. ActivationTypeOK'
  BY <1>2 DEF AdmissionInv, ActivationTypeOK, Load, State
<1>4. Recent'
  BY <1>2 DEF AdmissionInv, Recent, Load, At
<1>5. QED
  BY <1>3, <1>4 DEF AdmissionInv

LEMMA StoreInv ==
    ASSUME AdmissionInv, NEW r \in Request, Store(r)
    PROVE  AdmissionInv'
<1>1. "answered" \in Pcs /\ request[r] \in State
  BY DEF Pcs, AdmissionInv, ActivationTypeOK, State
<1>2. request[r].value \in Status /\ request[r].age \in 0 .. Slow
  BY <1>1 DEF State
<1>3. /\ request' \in [Request -> State]
      /\ request'[r] = [pc |-> "answered", value |-> request[r].value, age |-> 0]
      /\ \A q \in Request : q # r => request'[q] = request[q]
  BY <1>1, <1>2, BecomeState DEF Store, AdmissionInv
<1>4. cache' = [value |-> request[r].value, left |-> TTL] /\ cache' \in Key
  BY <1>2 DEF Store, Key
<1>5. ActivationTypeOK'
  BY <1>3, <1>4 DEF AdmissionInv, ActivationTypeOK, Store, State, Key
<1>6. since[request[r].value] <= request[r].age /\ since[request[r].value] \in 0 .. Old
  BY <1>2 DEF AdmissionInv, Recent, ActivationTypeOK, Store
<1>7. cache' # None => since'[cache'.value] <= TTL - cache'.left + Slow
  BY <1>2, <1>4, <1>6 DEF Store, Old
<1>8. Recent'
  BY <1>3, <1>7 DEF AdmissionInv, Recent, Store, At
<1>9. QED
  BY <1>5, <1>8 DEF AdmissionInv

LEMMA LeaveInv ==
    ASSUME AdmissionInv, NEW r \in Request, Fail(r) \/ Leave(r)
    PROVE  AdmissionInv'
<1>1. "idle" \in Pcs /\ "inactive" \in Status
  BY DEF Pcs, Status
<1>2. Become(r, "idle", "inactive") /\ UNCHANGED <<status, since, cache>>
  BY DEF Fail, Leave
<1>3. /\ request' \in [Request -> State]
      /\ request'[r] = [pc |-> "idle", value |-> "inactive", age |-> 0]
      /\ \A q \in Request : q # r => request'[q] = request[q]
  BY <1>1, <1>2, BecomeState DEF AdmissionInv
<1>4. ActivationTypeOK'
  BY <1>2, <1>3 DEF AdmissionInv, ActivationTypeOK, State
<1>5. Recent'
  BY <1>2, <1>3 DEF AdmissionInv, Recent, At
<1>6. QED
  BY <1>4, <1>5 DEF AdmissionInv

LEMMA SwitchInv ==
    ASSUME AdmissionInv, NEW s \in Status, SetStatus(s)
    PROVE  AdmissionInv'
<1>1. \A t \in Status : since'[t] <= since[t]
  BY DEF AdmissionInv, ActivationTypeOK, SetStatus, Old
<1>2. cache # None => cache.value \in Status /\ cache.left \in 1 .. TTL
  BY DEF AdmissionInv, ActivationTypeOK
<1>3. \A r \in Request : request[r].value \in Status /\ request[r].age \in 0 .. Slow
  BY DEF AdmissionInv, ActivationTypeOK
<1>4. ActivationTypeOK'
  BY DEF AdmissionInv, ActivationTypeOK, SetStatus, Old
<1>5. since'[status'] = 0
  BY DEF AdmissionInv, ActivationTypeOK, SetStatus
<1>6. cache' # None => since'[cache'.value] <= TTL - cache'.left + Slow
  BY <1>1, <1>2, <1>4 DEF AdmissionInv, Recent, ActivationTypeOK, SetStatus, Old
<1>7. \A r \in Request : At(r, "store")' => since'[request'[r].value] <= request'[r].age
  BY <1>1, <1>3, <1>4
     DEF AdmissionInv, Recent, ActivationTypeOK, SetStatus, At, Old
<1>8. QED
  BY <1>4, <1>5, <1>6, <1>7 DEF AdmissionInv, Recent

LEMMA ForgetInv ==
    ASSUME AdmissionInv, ForgetAnswer
    PROVE  AdmissionInv'
BY DEF AdmissionInv, ActivationTypeOK, Recent, ForgetAnswer, At

LEMMA CacheAgesInv ==
    ASSUME AdmissionInv, CacheAges
    PROVE  AdmissionInv'
<1>1. /\ since' \in [Status -> 0 .. Old]
      /\ status' = status /\ since'[status] = 0
      /\ \A s \in Status : since'[s] <= since[s] + 1
  <2>1. status \in Status /\ Old \in Nat /\ status' = status
    BY DEF AdmissionInv, ActivationTypeOK, CacheAges, Old
  <2>2. ASSUME NEW s \in Status
        PROVE  since'[s] \in 0 .. Old /\ since'[s] <= since[s] + 1
    <3>1. since[s] \in 0 .. Old
      BY DEF AdmissionInv, ActivationTypeOK
    <3>2. since'[s] = IF s = status THEN 0
                      ELSE IF since[s] = Old THEN Old ELSE since[s] + 1
      BY DEF CacheAges
    <3>3. QED
      BY <2>1, <3>1, <3>2
  <2>3. since' \in [Status -> 0 .. Old]
    BY <2>2 DEF CacheAges
  <2>4. since'[status] = 0
    BY <2>1 DEF CacheAges
  <2>5. QED
    BY <2>1, <2>2, <2>3, <2>4
<1>2. cache \in Key \cup {None}
  BY DEF AdmissionInv, ActivationTypeOK, Key
<1>3. /\ cache' \in Key \cup {None}
      /\ cache' # None =>
            /\ cache # None
            /\ cache'.value = cache.value /\ cache'.left = cache.left - 1
  <2>1. CASE cache = None
    BY <2>1 DEF CacheAges
  <2>2. CASE cache # None /\ cache.left = 1
    BY <2>2 DEF CacheAges
  <2>3. CASE cache # None /\ cache.left # 1
    <3>1. cache' = [cache EXCEPT !.left = cache.left - 1]
      BY <2>3 DEF CacheAges
    <3>2. cache \in Key /\ cache.left - 1 \in 1 .. TTL
      BY <1>2, <2>3 DEF Key
    <3>3. cache' \in Key /\ cache'.value = cache.value /\ cache'.left = cache.left - 1
      BY <3>1, <3>2 DEF Key
    <3>4. QED
      BY <2>3, <3>3
  <2>4. QED
    BY <2>1, <2>2, <2>3
<1>4. request \in [Request -> State]
  BY DEF AdmissionInv, ActivationTypeOK, State
<1>5. \A r \in Request :
         /\ request'[r] \in State
         /\ request'[r].pc = request[r].pc /\ request'[r].value = request[r].value
         /\ At(r, "store") => request'[r].age = request[r].age + 1
  <2> TAKE r \in Request
  <2>1. CASE At(r, "store")
    <3>1. request'[r] = [request[r] EXCEPT !.age = request[r].age + 1]
      BY <2>1 DEF CacheAges
    <3>2. request[r] \in State /\ request[r].age < Slow
      BY <1>4, <2>1 DEF CacheAges
    <3>3. request[r].age + 1 \in 0 .. Slow
      BY <3>2 DEF State
    <3>4. QED
      BY <3>1, <3>2, <3>3 DEF State
  <2>2. CASE ~At(r, "store")
    BY <1>4, <2>2 DEF CacheAges
  <2>3. QED
    BY <2>1, <2>2
<1>6. request' \in [Request -> State]
  BY <1>5 DEF CacheAges
<1>7. ActivationTypeOK'
  BY <1>1, <1>3, <1>6 DEF AdmissionInv, ActivationTypeOK, Key, State
<1>8. cache' # None => since'[cache'.value] <= TTL - cache'.left + Slow
  <2> SUFFICES ASSUME cache' # None
               PROVE  since'[cache'.value] <= TTL - cache'.left + Slow
    OBVIOUS
  <2>1. cache \in Key /\ since[cache.value] <= TTL - cache.left + Slow
    BY <1>2, <1>3 DEF AdmissionInv, Recent
  <2>2. since[cache.value] \in 0 .. Old /\ since'[cache.value] \in 0 .. Old
    BY <1>1, <2>1 DEF AdmissionInv, ActivationTypeOK, Key
  <2>3. since'[cache.value] <= since[cache.value] + 1
    BY <1>1, <2>1 DEF Key
  <2>4. QED
    BY <1>3, <2>1, <2>2, <2>3 DEF Key, Old
<1>9. \A r \in Request : At(r, "store")' => since'[request'[r].value] <= request'[r].age
  <2> SUFFICES ASSUME NEW r \in Request, At(r, "store")'
               PROVE  since'[request'[r].value] <= request'[r].age
    OBVIOUS
  <2>1. At(r, "store") /\ request[r] \in State
    BY <1>4, <1>5 DEF At
  <2>2. since[request[r].value] <= request[r].age /\ request[r].value \in Status
    BY <2>1 DEF AdmissionInv, Recent, State
  <2>3. since[request[r].value] \in 0 .. Old /\ since'[request[r].value] \in 0 .. Old
    BY <1>1, <2>2 DEF AdmissionInv, ActivationTypeOK
  <2>4. since'[request[r].value] <= since[request[r].value] + 1
    BY <1>1, <2>2
  <2>5. QED
    BY <1>5, <2>1, <2>2, <2>3, <2>4 DEF State, Old
<1>10. since'[status'] = 0
  BY <1>1
<1>11. QED
  BY <1>7, <1>8, <1>9, <1>10 DEF AdmissionInv, Recent

----------------------------------------------------------------------------
(* What always holds of admission *)

LEMMA InitAdmission == AdmissionInit => ThrottlerTypeOK /\ AdmissionInv
<1> SUFFICES ASSUME AdmissionInit
             PROVE  ThrottlerTypeOK /\ AdmissionInv
  OBVIOUS
<1>1. ThrottlerTypeOK
  BY PauseType DEF AdmissionInit, ThrottlerInit, ThrottlerTypeOK
<1>2. "idle" \in Pcs /\ "inactive" \in Status
  BY DEF Pcs, Status
<1>3. ActivationTypeOK
  BY <1>2 DEF AdmissionInit, ActivationInit, ActivationTypeOK, Old
<1>4. Recent
  BY DEF AdmissionInit, ActivationInit, Recent, At
<1>5. QED
  BY <1>1, <1>3, <1>4 DEF AdmissionInv

LEMMA UnchangedInv ==
    ASSUME AdmissionInv, UNCHANGED activationVars
    PROVE  AdmissionInv'
BY DEF AdmissionInv, ActivationTypeOK, Recent, At, activationVars

LEMMA AnswerInv ==
    ASSUME AdmissionInv, NEW r \in Request, Answer(r)
    PROVE  AdmissionInv'
BY GetInv, LoadInv, StoreInv, LeaveInv DEF Answer

LEMMA NextAdmission ==
    ASSUME ThrottlerTypeOK, AdmissionInv, [AdmissionNext]_admissionVars
    PROVE  ThrottlerTypeOK' /\ AdmissionInv'
<1>1. ASSUME UNCHANGED throttlerVars
      PROVE  ThrottlerTypeOK'
  BY <1>1 DEF ThrottlerTypeOK, throttlerVars
<1>2. ASSUME NEW r \in Request, Arrive(r)
      PROVE  ThrottlerTypeOK' /\ AdmissionInv'
  BY <1>2, AcceptType, RefuseType, AskInv, UnchangedInv DEF Arrive
<1>3. ASSUME NEW r \in Request, Answer(r), UNCHANGED throttlerVars
      PROVE  ThrottlerTypeOK' /\ AdmissionInv'
  BY <1>1, <1>3, AnswerInv
<1>4. ASSUME NEW s \in Status, SetStatus(s), UNCHANGED throttlerVars
      PROVE  ThrottlerTypeOK' /\ AdmissionInv'
  BY <1>1, <1>4, SwitchInv
<1>5. ASSUME Restart
      PROVE  ThrottlerTypeOK' /\ AdmissionInv'
  BY <1>5, ForgetType, ForgetInv, UnchangedInv DEF Restart
<1>6. ASSUME ClockTick
      PROVE  ThrottlerTypeOK' /\ AdmissionInv'
  BY <1>6, KeysAgeType, CacheAgesInv DEF ClockTick
<1>7. ASSUME UNCHANGED admissionVars
      PROVE  ThrottlerTypeOK' /\ AdmissionInv'
  BY <1>1, <1>7, UnchangedInv DEF admissionVars
<1>8. QED
  BY <1>2, <1>3, <1>4, <1>5, <1>6, <1>7 DEF AdmissionNext

LEMMA AdmissionHolds == AdmissionSpec => [](ThrottlerTypeOK /\ AdmissionInv)
<1>1. ThrottlerTypeOK /\ AdmissionInv /\ [AdmissionNext]_admissionVars
        => (ThrottlerTypeOK /\ AdmissionInv)'
  BY NextAdmission
<1>2. QED
  BY <1>1, InitAdmission, PTL DEF AdmissionSpec

\* The keys of Redis and the requests keep their types: no counter without a
\* time to live, none above what the script compares it with, no answer that
\* is older than a slow request when it is stored.
THEOREM AdmissionTypes == AdmissionSpec => []AdmissionTypeOK
<1>1. ThrottlerTypeOK /\ AdmissionInv => AdmissionTypeOK
  BY DEF AdmissionInv, AdmissionTypeOK
<1>2. QED
  BY <1>1, AdmissionHolds, PTL

LEMMA AnswersAreRecent ==
    ASSUME AdmissionInv, [AdmissionNext]_admissionVars, NEW r \in Request,
           ~At(r, "answered"), At(r, "answered")'
    PROVE  since[request'[r].value] < TTL + Slow
<1>0. request \in [Request -> State]
  BY DEF AdmissionInv, ActivationTypeOK, State
<1>1. ASSUME NEW q \in Request, NEW pc, NEW v, Become(q, pc, v), pc # "answered"
      PROVE  FALSE
  BY <1>0, <1>1 DEF Become, At
<1>2. ASSUME CacheAges
      PROVE  FALSE
  <2>1. request'[r] = [request[r] EXCEPT !.age = request[r].age + 1] \/ request'[r] = request[r]
    BY <1>2 DEF CacheAges
  <2>2. request'[r].pc = request[r].pc
    BY <1>0, <2>1 DEF State
  <2>3. QED
    BY <2>2 DEF At
<1>3. \E q \in Request : Answer(q)
  BY <1>1, <1>2
     DEF AdmissionNext, Arrive, Ask, SetStatus, Restart, ForgetAnswer, ClockTick, admissionVars,
         activationVars, At
<1>4. PICK q \in Request : Answer(q)
  BY <1>3
<1>5. Get(q) \/ Store(q)
  BY <1>1, <1>4 DEF Answer, Load, Fail, Leave
<1>6. q = r
  BY <1>0, <1>5 DEF Get, Store, Become, At
<1>7. CASE Get(q)
  <2>1. cache # None /\ Become(q, "answered", cache.value)
    BY <1>1, <1>7 DEF Get
  <2>2. cache \in Key /\ since[cache.value] <= TTL - cache.left + Slow
    BY <2>1 DEF AdmissionInv, ActivationTypeOK, Recent, Key
  <2>3. since[cache.value] \in 0 .. Old
    BY <2>2 DEF AdmissionInv, ActivationTypeOK, Key
  <2>4. request'[r].value = cache.value
    BY <1>0, <1>6, <2>1 DEF Become
  <2>5. QED
    BY <2>2, <2>3, <2>4 DEF Key, Old
<1>8. CASE Store(q)
  <2>1. At(r, "store") /\ Become(r, "answered", request[r].value)
    BY <1>6, <1>8 DEF Store
  <2>2. request'[r].value = request[r].value
    BY <1>0, <2>1 DEF Become
  <2>3. request[r].value \in Status /\ request[r].age \in 0 .. Slow
    BY <1>0 DEF State
  <2>4. since[request[r].value] <= request[r].age
    BY <2>1 DEF AdmissionInv, Recent
  <2>5. since[request[r].value] \in 0 .. Old
    BY <2>3 DEF AdmissionInv, ActivationTypeOK
  <2>6. QED
    BY <2>2, <2>3, <2>4, <2>5 DEF Old
<1>9. QED
  BY <1>5, <1>7, <1>8

\* However many requests race, a tenant is never taken for what it has not been
\* for TTL and one slow request.
THEOREM AnswersHold == AdmissionSpec => AnswerIsRecent
<1>1. AdmissionInv /\ [AdmissionNext]_admissionVars
        => [\A r \in Request :
              ~At(r, "answered") /\ At(r, "answered")'
                 => since[request'[r].value] < TTL + Slow]_activationVars
  BY AnswersAreRecent
<1>2. QED
  BY <1>1, AdmissionHolds, PTL DEF AdmissionSpec, AnswerIsRecent

----------------------------------------------------------------------------
(* The pause *)

\* A key lives no longer than it was given, and nothing gives it time but a
\* request, which ends the quiet.
KeysEnd ==
    /\ counter # NoCounter => counter.left + quiet <= Window
    /\ block # 0 => block + quiet <= Block

\* A pause is as long as any key lives.
LEMMA PauseBounds == Pause \in Nat /\ Window <= Pause /\ Block <= Pause
BY DEF Pause

\* After a pause no key is left.
LEMMA PauseEnds ==
    ASSUME ThrottlerTypeOK, KeysEnd, quiet = Pause
    PROVE  counter = NoCounter /\ block = 0
<1>1. ASSUME counter # NoCounter PROVE FALSE
  <2>1. counter.left \in 1 .. Window /\ counter.left + quiet <= Window
    BY <1>1 DEF ThrottlerTypeOK, KeysEnd
  <2> QED BY <2>1, PauseBounds
<1>2. ASSUME block # 0 PROVE FALSE
  BY <1>2, PauseBounds DEF ThrottlerTypeOK, KeysEnd
<1> QED BY <1>1, <1>2

\* A request that counts leaves the counter the time that it had, or its own.
LEMMA CountedLeft ==
    ASSUME ThrottlerTypeOK, KeysEnd
    PROVE  Counted.left \in 1 .. Window
<1> QED BY CountedType

\* No step keeps a key longer than it was given.
LEMMA NextKeysEnd ==
    ASSUME ThrottlerTypeOK, KeysEnd, [AdmissionNext]_admissionVars
    PROVE  KeysEnd'
<1>1. CASE Accept
  BY <1>1, CountedLeft DEF Accept, KeysEnd, ThrottlerTypeOK
<1>2. CASE Refuse
  <2>1. block' \in 0 .. Block /\ quiet' = 0
    BY <1>2 DEF Refuse, ThrottlerTypeOK
  <2> QED BY <1>2, <2>1, CountedLeft DEF Refuse, KeysEnd
<1>3. CASE KeysAge
  <2>1. quiet \in Nat /\ quiet' <= quiet + 1 /\ quiet' \in Nat
    BY <1>3, PauseBounds DEF KeysAge, ThrottlerTypeOK
  <2>2. ASSUME block' # 0 PROVE block' + quiet' <= Block
    BY <1>3, <2>1, <2>2 DEF KeysAge, KeysEnd, ThrottlerTypeOK
  <2>3. ASSUME counter' # NoCounter PROVE counter'.left + quiet' <= Window
    <3>1. counter' = Aged(counter) /\ ~(counter.left <= 1)
      BY <1>3, <2>3 DEF KeysAge, Aged
    <3>2. counter # NoCounter
      BY <3>1 DEF NoCounter
    <3>3. counter.left \in 1 .. Window /\ counter'.left = counter.left - 1
      BY <3>1, <3>2 DEF Aged, ThrottlerTypeOK
    <3> QED BY <2>1, <3>2, <3>3 DEF KeysEnd
  <2> QED BY <2>2, <2>3 DEF KeysEnd
<1>4. CASE ForgetHits
  <2>1. block' \in {0, block} /\ quiet' = quiet
    BY <1>4 DEF ForgetHits
  <2>2. ASSUME counter' # NoCounter PROVE counter # NoCounter /\ counter'.left = counter.left
    <3>1. PICK h \in 1 .. counter.hits : counter' = [counter EXCEPT !.hits = h]
      BY <1>4, <2>2 DEF ForgetHits
    <3>2. counter # NoCounter
      BY <3>1 DEF NoCounter
    <3> QED BY <3>1, <3>2 DEF ThrottlerTypeOK
  <2> QED BY <2>1, <2>2 DEF KeysEnd
<1>5. CASE UNCHANGED throttlerVars
  BY <1>5 DEF throttlerVars, KeysEnd
<1> QED
  BY <1>1, <1>2, <1>3, <1>4, <1>5 DEF AdmissionNext, Arrive, ClockTick, Restart, admissionVars

\* A client that has sent nothing for as long as any key lives is let through: the
\* script of the throttler never leaves a key without an end.
THEOREM PausesReopen == AdmissionSpec => PauseReopens
<1> DEFINE Reopens == quiet = Pause /\ quiet' = 0 => accepted'[0] = accepted[0] + 1
<1>1. ASSUME ThrottlerTypeOK, KeysEnd, [AdmissionNext]_admissionVars,
             quiet = Pause, quiet' = 0
      PROVE  accepted'[0] = accepted[0] + 1
  <2>1. counter = NoCounter /\ block = 0 /\ quiet # 0
    BY <1>1, PauseEnds, PauseType
  <2>2. ~Exceeds(Counted)
    BY <2>1 DEF Counted, Exceeds
  <2>3. ~KeysAge /\ ~ForgetHits /\ ~UNCHANGED throttlerVars /\ ~Refuse
    BY <1>1, <2>1, <2>2, PauseBounds DEF KeysAge, ForgetHits, throttlerVars, Refuse
  <2>4. Accept
    BY <1>1, <2>3 DEF AdmissionNext, Arrive, ClockTick, Restart, admissionVars
  <2> QED BY <1>1, <2>4 DEF Accept, ThrottlerTypeOK
<1>2. ThrottlerTypeOK /\ AdmissionInv /\ KeysEnd /\ [AdmissionNext]_admissionVars
        => KeysEnd' /\ [Reopens]_throttlerVars
  BY <1>1, NextKeysEnd
<1>3. AdmissionInit => KeysEnd
  BY PauseType DEF AdmissionInit, ThrottlerInit, KeysEnd
<1> QED BY <1>2, <1>3, AdmissionHolds, PTL DEF AdmissionSpec, PauseReopens, Reopens

----------------------------------------------------------------------------
(* The window *)

\* The hits of a counter that can have been let through.
Spent(hits) == IF hits < Limit THEN hits ELSE Limit

\* A counter counts its own requests, from its first hit on; of those before it that a
\* window can still see, none was the first hit of theirs.
Counts(table, hits, first) ==
    /\ table[first] <= Spent(hits)
    /\ first > 0 => table[first - 1] <= Spent(hits) - 1
    /\ table[Window - 1] - table[first] <= Limit - 1

Windows ==
    /\ \A a \in 1 .. Window - 1 : accepted[a - 1] <= accepted[a]
    /\ counter # NoCounter => Counts(accepted, counter.hits, Window - counter.left)
    /\ counter = NoCounter => accepted[0] = 0 /\ accepted[Window - 1] <= Limit - 1

\* What is in the table.
LEMMA WindowTable ==
    ASSUME ThrottlerTypeOK
    PROVE  /\ accepted \in [0 .. Window - 1 -> Nat]
           /\ \A a \in 0 .. Window - 1 : accepted[a] \in Nat
           /\ 0 \in 0 .. Window - 1 /\ Window - 1 \in 0 .. Window - 1
           /\ counter # NoCounter =>
                 /\ counter \in [hits : 1 .. Limit + 1, left : 1 .. Window]
                 /\ counter.hits \in 1 .. Limit + 1
                 /\ Window - counter.left \in 0 .. Window - 1
BY DEF ThrottlerTypeOK

\* A hit that is let through counts, and one that is refused takes nothing away.
LEMMA HitWindows ==
    ASSUME ThrottlerTypeOK, Windows, Accept \/ Refuse
    PROVE  Windows'
<1>1. counter' = Counted /\ Counted \in [hits : 1 .. Limit + 1, left : 1 .. Window]
  BY CountedType DEF Accept, Refuse
<1>2. counter' # NoCounter
  BY <1>1 DEF NoCounter
<1>3. PICK n \in {0, 1} :
        /\ \A a \in 0 .. Window - 1 : accepted'[a] = accepted[a] + n
        /\ n = 1 => counter'.hits <= Limit
  <2>1. CASE Accept
    BY <1>1, <2>1 DEF Accept, Exceeds
  <2>2. CASE Refuse
    BY <2>2, WindowTable DEF Refuse
  <2> QED BY <2>1, <2>2
<1>4. \A a \in 1 .. Window - 1 : accepted'[a - 1] <= accepted'[a]
  <2> SUFFICES ASSUME NEW a \in 1 .. Window - 1
               PROVE  accepted'[a - 1] <= accepted'[a]
    OBVIOUS
  <2>1. a \in 0 .. Window - 1 /\ a - 1 \in 0 .. Window - 1
    OBVIOUS
  <2> QED BY <1>3, <2>1, WindowTable DEF Windows
<1>5. CASE counter = NoCounter
  <2>1. counter'.hits = 1 /\ counter'.left = Window
    BY <1>1, <1>5 DEF Counted
  <2>2. Counts(accepted', 1, 0)
    <3>1. /\ 0 \in 0 .. Window - 1 /\ Window - 1 \in 0 .. Window - 1
          /\ accepted[0] \in Nat /\ accepted[Window - 1] \in Nat
      BY WindowTable
    <3>2. accepted[0] = 0 /\ accepted[Window - 1] <= Limit - 1
      BY <1>5 DEF Windows
    <3>3. accepted'[0] = n
      BY <1>3, <3>1, <3>2
    <3>4. accepted'[Window - 1] = accepted[Window - 1] + n
      BY <1>3, <3>1
    <3>5. Spent(1) = 1
      BY DEF Spent
    <3> QED BY <3>1, <3>2, <3>3, <3>4, <3>5 DEF Counts
  <2>3. Counts(accepted', counter'.hits, Window - counter'.left)
    BY <2>1, <2>2
  <2> QED BY <1>2, <1>4, <2>3 DEF Windows
<1>6. CASE counter # NoCounter
  <2>1. counter \in [hits : 1 .. Limit + 1, left : 1 .. Window]
    BY <1>6, WindowTable
  <2>2. PICK h, k \in 1 .. Limit + 1, first \in 0 .. Window - 1 :
          h = counter.hits /\ k = counter'.hits /\ first = Window - counter.left
    BY <1>1, <1>6, WindowTable
  <2>3. /\ counter'.left = counter.left
        /\ k = h \/ k = h + 1
        /\ n = 1 => k = h + 1 /\ k <= Limit
    BY <1>1, <1>3, <1>6, <2>1, <2>2 DEF Counted
  <2>4. Counts(accepted, h, first)
    BY <1>6, <2>2 DEF Windows
  <2>5. Spent(h) \in Nat /\ Spent(k) \in Nat /\ Spent(h) + n <= Spent(k)
    <3>1. CASE n = 0
      BY <2>2, <2>3, <3>1 DEF Spent
    <3>2. CASE n = 1
      BY <2>2, <2>3, <3>2 DEF Spent
    <3> QED BY <3>1, <3>2
  <2>6. /\ accepted[first] \in Nat /\ accepted[first] <= Spent(h)
        /\ accepted'[first] = accepted[first] + n
    BY <1>3, <2>2, <2>4, WindowTable DEF Counts
  <2>7. accepted'[first] <= Spent(k)
    BY <2>5, <2>6
  <2>8. ASSUME first > 0 PROVE accepted'[first - 1] <= Spent(k) - 1
    <3>1. first - 1 \in 0 .. Window - 1
      BY <2>2, <2>8
    <3>2. /\ accepted[first - 1] \in Nat /\ accepted[first - 1] <= Spent(h) - 1
          /\ accepted'[first - 1] = accepted[first - 1] + n
      BY <1>3, <2>4, <2>8, <3>1, WindowTable DEF Counts
    <3> QED BY <2>5, <3>2
  <2>9. accepted'[Window - 1] - accepted'[first] <= Limit - 1
    BY <1>3, <2>2, <2>4, WindowTable DEF Counts
  <2>10. Counts(accepted', k, first)
    BY <2>7, <2>8, <2>9 DEF Counts
  <2> QED BY <1>2, <1>4, <2>2, <2>3, <2>10 DEF Windows
<1> QED BY <1>5, <1>6

\* When a counter expires, its first hit leaves the window.
LEMMA TickWindows ==
    ASSUME ThrottlerTypeOK, Windows, KeysAge
    PROVE  Windows'
<1>1. \A a \in 0 .. Window - 1 : accepted'[a] = IF a = 0 THEN 0 ELSE accepted[a - 1]
  BY DEF KeysAge
<1>2. \A a \in 1 .. Window - 1 : accepted'[a - 1] <= accepted'[a]
  <2> SUFFICES ASSUME NEW a \in 1 .. Window - 1
               PROVE  accepted'[a - 1] <= accepted'[a]
    OBVIOUS
  <2>1. /\ a \in 0 .. Window - 1 /\ a - 1 \in 0 .. Window - 1
        /\ a # 1 => a - 1 \in 1 .. Window - 1 /\ a - 2 \in 0 .. Window - 1
    OBVIOUS
  <2>2. accepted'[a] = accepted[a - 1] /\ accepted[a - 1] \in Nat
    BY <1>1, <2>1, WindowTable
  <2>3. CASE a = 1
    BY <1>1, <2>1, <2>2, <2>3
  <2>4. CASE a # 1
    <3>1. accepted'[a - 1] = accepted[a - 2]
      BY <1>1, <2>1, <2>4
    <3>2. accepted[a - 2] <= accepted[a - 1]
      BY <2>1, <2>4 DEF Windows
    <3> QED BY <2>2, <3>1, <3>2
  <2> QED BY <2>3, <2>4
<1>3. accepted'[0] = 0
  BY <1>1, WindowTable
<1>4. accepted'[Window - 1] <= accepted[Window - 1] /\ accepted'[Window - 1] \in Nat
  <2>1. CASE Window = 1
    BY <1>3, <2>1, WindowTable
  <2>2. CASE Window # 1
    <3>1. Window - 1 \in 1 .. Window - 1 /\ Window - 2 \in 0 .. Window - 1
      BY <2>2
    <3>2. accepted'[Window - 1] = accepted[Window - 2]
      BY <1>1, <3>1, WindowTable
    <3>3. accepted[Window - 2] <= accepted[Window - 1]
      BY <3>1 DEF Windows
    <3> QED BY <3>1, <3>2, <3>3, WindowTable
  <2> QED BY <2>1, <2>2
<1>5. CASE counter = NoCounter
  <2>1. counter' = NoCounter
    BY <1>5 DEF KeysAge, Aged, NoCounter
  <2>2. accepted'[Window - 1] <= Limit - 1
    BY <1>4, <1>5, WindowTable DEF Windows
  <2> QED BY <1>2, <1>3, <2>1, <2>2 DEF Windows
<1>6. CASE counter # NoCounter
  <2>1. counter \in [hits : 1 .. Limit + 1, left : 1 .. Window]
    BY <1>6, WindowTable
  <2>2. PICK h \in 1 .. Limit + 1, first \in 0 .. Window - 1 :
          h = counter.hits /\ first = Window - counter.left
    BY <1>6, WindowTable
  <2>3. Counts(accepted, h, first)
    BY <1>6, <2>2 DEF Windows
  <2>4. Spent(h) \in 1 .. Limit
    BY <2>2 DEF Spent
  <2>5. CASE counter.left = 1
    <3>1. counter' = NoCounter
      BY <2>5 DEF KeysAge, Aged
    <3>2. first = Window - 1
      BY <2>2, <2>5
    <3>3. CASE first = 0
      BY <1>2, <1>3, <3>1, <3>2, <3>3 DEF Windows
    <3>4. CASE first > 0
      <4>1. accepted'[first] = accepted[first - 1] /\ first - 1 \in 0 .. Window - 1
        BY <1>1, <2>2, <3>4
      <4>2. accepted[first - 1] \in Nat /\ accepted[first - 1] <= Spent(h) - 1
        BY <2>3, <3>4, <4>1, WindowTable DEF Counts
      <4>3. accepted'[Window - 1] <= Limit - 1
        BY <2>4, <3>2, <4>1, <4>2
      <4> QED BY <1>2, <1>3, <3>1, <4>3 DEF Windows
    <3> QED BY <2>2, <3>3, <3>4
  <2>6. CASE counter.left # 1
    <3>1. counter' = [counter EXCEPT !.left = counter.left - 1]
      BY <2>1, <2>6 DEF KeysAge, Aged
    <3>2. counter'.left = counter.left - 1 /\ counter'.hits = h
      BY <2>1, <2>2, <3>1
    <3>3. counter' # NoCounter
      BY <2>2, <3>2 DEF NoCounter
    <3>4. Window - counter'.left = first + 1 /\ first + 1 \in 1 .. Window - 1
      BY <2>1, <2>2, <2>6, <3>2
    <3>5. accepted'[first + 1] = accepted[first]
      BY <1>1, <3>4
    <3>6. accepted'[first] <= Spent(h) - 1
      <4>1. CASE first = 0
        BY <1>3, <2>4, <4>1
      <4>2. CASE first > 0
        <5>1. accepted'[first] = accepted[first - 1]
          BY <1>1, <2>2, <4>2
        <5> QED BY <2>3, <4>2, <5>1 DEF Counts
      <4> QED BY <2>2, <4>1, <4>2
    <3>7. accepted'[Window - 1] - accepted'[first + 1] <= Limit - 1
      <4>1. accepted[Window - 1] - accepted[first] <= Limit - 1
        BY <2>3 DEF Counts
      <4>2. accepted[first] \in Nat /\ accepted[Window - 1] \in Nat
        BY <2>2, WindowTable
      <4> QED BY <1>4, <3>5, <4>1, <4>2
    <3>8. Counts(accepted', h, first + 1)
      <4>1. accepted'[first + 1] <= Spent(h)
        BY <2>3, <3>5 DEF Counts
      <4>2. (first + 1) - 1 = first
        BY <2>2
      <4> QED BY <3>6, <3>7, <4>1, <4>2 DEF Counts
    <3> QED BY <1>2, <3>2, <3>3, <3>4, <3>8 DEF Windows
  <2> QED BY <2>5, <2>6
<1> QED BY <1>5, <1>6

\* After a restart nothing that was let through is counted.
LEMMA ForgetWindows ==
    ASSUME ThrottlerTypeOK, ForgetHits
    PROVE  Windows'
<1>1. \A a \in 0 .. Window - 1 : accepted'[a] = 0
  BY DEF ForgetHits
<1>2. /\ 0 \in 0 .. Window - 1 /\ Window - 1 \in 0 .. Window - 1
      /\ \A a \in 1 .. Window - 1 : a - 1 \in 0 .. Window - 1 /\ a \in 0 .. Window - 1
  BY WindowAssumption
<1>3. CASE counter' = NoCounter
  BY <1>1, <1>2, <1>3, LimitAssumption DEF Windows
<1>4. CASE counter' # NoCounter
  <2>1. counter' \in [hits : 1 .. Limit + 1, left : 1 .. Window]
    BY <1>4, ForgetType DEF ThrottlerTypeOK
  <2>2. PICK h \in 1 .. Limit + 1, first \in 0 .. Window - 1 :
          h = counter'.hits /\ first = Window - counter'.left
    BY <2>1, WindowAssumption
  <2>3. Spent(h) \in 1 .. Limit
    BY LimitAssumption DEF Spent
  <2>4. first > 0 => first - 1 \in 0 .. Window - 1
    OBVIOUS
  <2>5. Counts(accepted', h, first)
    BY <1>1, <1>2, <2>3, <2>4, LimitAssumption DEF Counts
  <2> QED BY <1>1, <1>2, <1>4, <2>2, <2>5 DEF Windows
<1> QED BY <1>3, <1>4

LEMMA NextWindows ==
    ASSUME ThrottlerTypeOK, Windows, [AdmissionNext]_admissionVars
    PROVE  Windows'
<1>1. CASE UNCHANGED throttlerVars
  BY <1>1 DEF throttlerVars, Windows
<1> QED
  BY <1>1, HitWindows, TickWindows, ForgetWindows
     DEF AdmissionNext, Arrive, ClockTick, Restart, admissionVars

\* Windows are fixed, so requests of two of them may fall into the time of one: but never as
\* many as twice the limit, because the first hit of the older one is out of it by then.
THEOREM NeverTwice == AdmissionSpec => []AtMostTwice
<1>1. AdmissionInit => Windows
  BY DEF AdmissionInit, ThrottlerInit, Windows
<1>2. ThrottlerTypeOK /\ AdmissionInv /\ Windows /\ [AdmissionNext]_admissionVars => Windows'
  BY NextWindows
<1>3. ASSUME ThrottlerTypeOK, Windows PROVE AtMostTwice
  <2>1. CASE counter = NoCounter
    BY <1>3, <2>1, WindowTable DEF Windows, AtMostTwice
  <2>2. CASE counter # NoCounter
    <3>1. PICK h \in 1 .. Limit + 1, first \in 0 .. Window - 1 :
            h = counter.hits /\ first = Window - counter.left
      BY <1>3, <2>2, WindowTable
    <3>2. Counts(accepted, h, first)
      BY <1>3, <2>2, <3>1 DEF Windows
    <3> QED BY <1>3, <3>1, <3>2, WindowTable DEF Counts, Spent, AtMostTwice
  <2> QED BY <2>1, <2>2
<1> QED BY <1>1, <1>2, <1>3, AdmissionHolds, PTL DEF AdmissionSpec
=============================================================================
