---------------------------- MODULE OutboxRelay ----------------------------
(***************************************************************************)
(* Domain events: the outbox row written in the producer's transaction,    *)
(* the relay of every application process that drains the table, the two   *)
(* transports, and the consumers that deduplicate with processed_events.   *)
(*                                                                         *)
(* The relay holds no lock between reading its batch and stamping a row,   *)
(* so the relays of two processes may have the same row in their batches.  *)
(* Handlers of the in-process transport run in the memory of the process   *)
(* that published; nobody waits for them.                                  *)
(***************************************************************************)
EXTENDS Integers, FiniteSets

CONSTANTS
    Event,        \* event ids, numbers in the order of occurredAt
    Registered,   \* events whose type is in DOMAIN_EVENT_TYPES
    Consumer,     \* subclasses of EventHandlerBase, each subscribed to all
    Process,      \* application processes
    Nobody,       \* not a process
    Transport,    \* Transport[p]: its MESSAGING_TRANSPORT, "in_process" or "rabbitmq"
    BatchSize,    \* messaging.relayBatchSize
    MaxFailures,  \* bound: rejected publishes and failed updates
    MaxStops,     \* bound: processes that stop or crash and start again
    MaxThrows     \* bound: handlers that throw

ASSUME EventAssumption == Event \subseteq Nat /\ Registered \subseteq Event
ASSUME BatchAssumption == BatchSize \in Nat \ {0}
ASSUME TransportAssumption == Transport \in [Process -> {"in_process", "rabbitmq"}]
ASSUME NobodyAssumption == Nobody \notin Process
ASSUME BoundsAssumption ==
    MaxFailures \in Nat /\ MaxStops \in Nat /\ MaxThrows \in Nat

VARIABLES
    facts,      \* events whose producer has committed its domain write
    outbox,     \* outbox[e]: "absent", "pending" or "published"
    attempts,   \* attempts[e]: failed publishes recorded on the row
    relay,      \* relay[p]: the relay of process p
    handed,     \* events some publish has handed to the transport
    waiting,    \* waiting[p][e, c]: calls of the handler c in p not yet claimed
    claimant,   \* claimant[e, c]: the process whose open transaction claims it
    claims,     \* processed_events
    effects,    \* effects[e, c]: effects of c committed for e
    failures, stops, throws     \* what the bounds count

producerVars == <<facts, outbox>>
handlerVars == <<waiting, claimant, claims, effects, throws>>
vars == <<facts, outbox, attempts, relay, handed, waiting, claimant, claims,
          effects, failures, stops, throws>>

Delivery == Event \X Consumer

\* The batch is the set of its rows; they are taken in the order of occurredAt.
RelayState == [pc : {"idle", "publish", "stamp", "recordFailure"},
               batch : SUBSET Event, read : [Event -> Nat], stopped : BOOLEAN]

Started == [pc |-> "idle", batch |-> {}, read |-> [e \in Event |-> 0],
            stopped |-> FALSE]

Init ==
    /\ facts = {}
    /\ outbox = [e \in Event |-> "absent"]
    /\ attempts = [e \in Event |-> 0]
    /\ relay = [p \in Process |-> Started]
    /\ handed = {}
    /\ waiting = [p \in Process |-> [d \in Delivery |-> 0]]
    /\ claimant = [d \in Delivery |-> Nobody]
    /\ claims = {}
    /\ effects = [d \in Delivery |-> 0]
    /\ failures = 0
    /\ stops = 0
    /\ throws = 0

----------------------------------------------------------------------------
(* The producer *)

\* The domain write and the row of OutboxRepository.enqueue commit together;
\* a transaction that rolls back leaves neither.
Produce(e) ==
    /\ outbox[e] = "absent"
    /\ facts' = facts \cup {e}
    /\ outbox' = [outbox EXCEPT ![e] = "pending"]
    /\ UNCHANGED <<attempts, relay, handed, handlerVars, failures, stops>>

----------------------------------------------------------------------------
(* The relay *)

Pending == {e \in Event : outbox[e] = "pending"}

\* WHERE publishedAt IS NULL ORDER BY occurredAt LIMIT BatchSize
Batch == {e \in Pending : Cardinality({d \in Pending : d < e}) < BatchSize}

\* The row the loop is at.
Current(p) == CHOOSE e \in relay[p].batch : \A d \in relay[p].batch : e <= d

RelayAt(p, pc) == relay[p].pc = pc

Proceed(p, pc) == relay' = [relay EXCEPT ![p].pc = pc]

\* The drain ends, by its last row, by a break or by an error; finally clears
\* "ticking".
EndDrain(p) ==
    relay' = [relay EXCEPT ![p] = [Started EXCEPT !.stopped = relay[p].stopped]]

\* On to the next row of the batch.
Advance(p) ==
    LET rest == relay[p].batch \ {Current(p)}
    IN IF rest = {}
       THEN EndDrain(p)
       ELSE relay' = [relay EXCEPT ![p] = [@ EXCEPT !.pc = "publish", !.batch = rest]]

\* A call to the database or the broker fails.
Fails == failures < MaxFailures /\ failures' = failures + 1

\* The timer fires: nothing while a tick is running or after the shutdown; an
\* empty table ends the tick at once.
Tick(p) ==
    /\ RelayAt(p, "idle")
    /\ ~relay[p].stopped
    /\ Pending # {}
    /\ relay' = [relay EXCEPT ![p] = [pc |-> "publish", batch |-> Batch,
                                      read |-> attempts, stopped |-> FALSE]]
    /\ UNCHANGED <<producerVars, attempts, handed, handlerVars, failures, stops>>

\* EventBus.publish starts the handlers of a rebuilt event and returns; an
\* envelope of an unregistered type matches none.
HandlersStarted(p, e) ==
    IF Transport[p] = "in_process" /\ e \in Registered
    THEN [waiting EXCEPT ![p] =
            [d \in Delivery |-> IF d[1] = e THEN @[d] + 1 ELSE @[d]]]
    ELSE waiting

\* Broken form of Publish: the row counts as published before it is sent.
Publish_StampFirst(p) ==
    /\ RelayAt(p, "publish")
    /\ outbox' = [outbox EXCEPT ![Current(p)] = "published"]
    /\ Proceed(p, "stamp")
    /\ UNCHANGED <<facts, attempts, handed, handlerVars, failures, stops>>

\* transport.publish of the current row, or the break of a shutdown.
Publish(p) ==
    /\ RelayAt(p, "publish")
    /\ \/ /\ relay[p].stopped
          /\ EndDrain(p)
          /\ UNCHANGED <<handed, waiting, failures>>
       \/ /\ ~relay[p].stopped
          /\ handed' = handed \cup {Current(p)}
          /\ waiting' = HandlersStarted(p, Current(p))
          /\ Proceed(p, "stamp")
          /\ UNCHANGED failures
       \/ /\ ~relay[p].stopped
          /\ Transport[p] = "rabbitmq"
          /\ Fails
          /\ Proceed(p, "recordFailure")
          /\ UNCHANGED <<handed, waiting>>
    /\ UNCHANGED <<producerVars, attempts, claimant, claims, effects, throws, stops>>

\* The update of publishedAt, the only one in the system.
Stamp(p) ==
    /\ RelayAt(p, "stamp")
    /\ \/ /\ outbox' = [outbox EXCEPT ![Current(p)] = "published"]
          /\ Advance(p)
          /\ UNCHANGED failures
       \/ /\ Fails
          /\ Proceed(p, "recordFailure")
          /\ UNCHANGED outbox
    /\ UNCHANGED <<facts, attempts, handed, handlerVars, stops>>

\* Broken form of RecordFailure: its error leaves "ticking" set.
RecordFailure_NoFinally(p) ==
    /\ RelayAt(p, "recordFailure")
    /\ \/ /\ attempts' = [attempts EXCEPT ![Current(p)] =
                            relay[p].read[Current(p)] + 1]
          /\ Advance(p)
          /\ UNCHANGED failures
       \/ /\ Fails
          /\ Proceed(p, "ticking")
          /\ UNCHANGED attempts
    /\ UNCHANGED <<producerVars, handed, handlerVars, stops>>

\* Broken form of RecordFailure: a row that fails once is given up and deleted.
RecordFailure_GivesUp(p) ==
    /\ RelayAt(p, "recordFailure")
    /\ outbox' = [outbox EXCEPT ![Current(p)] = "absent"]
    /\ Advance(p)
    /\ UNCHANGED <<facts, attempts, handed, handlerVars, failures, stops>>

\* recordFailure counts on from the attempts the batch was read with; when it
\* fails itself the whole drain ends.
RecordFailure(p) ==
    /\ RelayAt(p, "recordFailure")
    /\ \/ /\ attempts' = [attempts EXCEPT ![Current(p)] =
                            relay[p].read[Current(p)] + 1]
          /\ Advance(p)
          /\ UNCHANGED failures
       \/ /\ Fails
          /\ EndDrain(p)
          /\ UNCHANGED attempts
    /\ UNCHANGED <<producerVars, handed, handlerVars, stops>>

----------------------------------------------------------------------------
(* Consumers: EventHandlerBase.handle is one transaction. *)

\* The insert into processed_events waits while another open transaction has
\* inserted the same key, and fails when it is committed: the call is skipped.
Claim(p, d) ==
    /\ waiting[p][d] > 0
    /\ claimant[d] = Nobody
    /\ waiting' = [waiting EXCEPT ![p][d] = @ - 1]
    /\ claimant' = IF d \in claims THEN claimant
                   ELSE [claimant EXCEPT ![d] = p]
    /\ UNCHANGED <<producerVars, attempts, relay, handed, claims, effects,
                   failures, stops, throws>>

\* Broken form of Handle: the claim is not part of the transaction's commit.
Handle_NoClaim(p, d) ==
    /\ claimant[d] = p
    /\ effects' = [effects EXCEPT ![d] = @ + 1]
    /\ claimant' = [claimant EXCEPT ![d] = Nobody]
    /\ UNCHANGED <<producerVars, attempts, relay, handed, waiting, claims,
                   failures, stops, throws>>

\* onEvent returns: the claim and the effect commit together.
Handle(p, d) ==
    /\ claimant[d] = p
    /\ claims' = claims \cup {d}
    /\ effects' = [effects EXCEPT ![d] = @ + 1]
    /\ claimant' = [claimant EXCEPT ![d] = Nobody]
    /\ UNCHANGED <<producerVars, attempts, relay, handed, waiting, failures,
                   stops, throws>>

\* onEvent throws: claim and effect roll back, and the call is over.
Throw(p, d) ==
    /\ claimant[d] = p
    /\ throws < MaxThrows
    /\ throws' = throws + 1
    /\ claimant' = [claimant EXCEPT ![d] = Nobody]
    /\ UNCHANGED <<producerVars, attempts, relay, handed, waiting, claims,
                   effects, failures, stops>>

----------------------------------------------------------------------------
(* The life of a process *)

\* A process is gone and a new one takes its place: what was in memory, its
\* batch and its handlers, is lost, and its open transactions roll back.
Replace(p) ==
    /\ relay' = [relay EXCEPT ![p] = Started]
    /\ waiting' = [waiting EXCEPT ![p] = [d \in Delivery |-> 0]]
    /\ claimant' = [d \in Delivery |-> IF claimant[d] = p THEN Nobody
                                                         ELSE claimant[d]]
    /\ UNCHANGED <<producerVars, attempts, handed, claims, effects, failures, throws>>

Crash(p) ==
    /\ stops < MaxStops
    /\ stops' = stops + 1
    /\ Replace(p)

\* onApplicationShutdown sets "stopped" and clears the timer ...
Shutdown(p) ==
    /\ stops < MaxStops
    /\ ~relay[p].stopped
    /\ stops' = stops + 1
    /\ relay' = [relay EXCEPT ![p].stopped = TRUE]
    /\ UNCHANGED <<producerVars, attempts, handed, handlerVars, failures>>

\* ... and waits for the tick in progress, but not for handlers.
Exit(p) ==
    /\ relay[p].stopped
    /\ RelayAt(p, "idle")
    /\ UNCHANGED stops
    /\ Replace(p)

----------------------------------------------------------------------------
RelayStep(p) == Tick(p) \/ Publish(p) \/ Stamp(p) \/ RecordFailure(p) \/ Exit(p)

HandlerStep(p, d) == Claim(p, d) \/ Handle(p, d)

Next ==
    \/ \E e \in Event : Produce(e)
    \/ \E p \in Process :
         \/ RelayStep(p) \/ Crash(p) \/ Shutdown(p)
         \/ \E d \in Delivery : HandlerStep(p, d) \/ Throw(p, d)

\* The timer of every process keeps firing, calls to the database and to the
\* broker return, handlers run on, and a process that has shut down is
\* started again.  Nothing is assumed of producers, failures or crashes.
Fairness ==
    \A p \in Process :
        /\ WF_vars(RelayStep(p))
        /\ \A d \in Delivery : WF_vars(HandlerStep(p, d))

Spec == Init /\ [][Next]_vars /\ Fairness

----------------------------------------------------------------------------
(* Properties *)

TypeOK ==
    /\ facts \subseteq Event
    /\ outbox \in [Event -> {"absent", "pending", "published"}]
    /\ attempts \in [Event -> Nat]
    /\ relay \in [Process -> RelayState]
    /\ handed \subseteq Event
    /\ waiting \in [Process -> [Delivery -> Nat]]
    /\ claimant \in [Delivery -> Process \cup {Nobody}]
    /\ claims \subseteq Delivery
    /\ effects \in [Delivery -> Nat]
    /\ failures \in Nat /\ stops \in Nat /\ throws \in Nat

\* A row is stamped only after a publish of it was handed to the transport, so
\* no crash between the two can lose it before it left.
StampedWasHandedOver ==
    \A e \in Event : outbox[e] = "published" => e \in handed

\* Outbox, relays and handlers implement the promised delivery.
Promise == INSTANCE EventDelivery WITH raised <- facts

\* Whatever is redelivered, crashes or runs at once, the effect of an event is
\* committed at most once per consumer, and only for a committed fact.
DeliverySpec == Promise!Spec

\* Every row is stamped in the end, whatever finite number of publishes and
\* updates fail and processes stop.
EveryEventIsStamped ==
    \A e \in Event : outbox[e] = "pending" ~> outbox[e] = "published"
=============================================================================
