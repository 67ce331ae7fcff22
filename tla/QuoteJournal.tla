---------------------------- MODULE QuoteJournal ----------------------------
(***************************************************************************)
(* The replay of archived quotes through Kafka (tools/streaming/replay.py) *)
(* on one partition: a producer that is run again after a failure, and     *)
(* consumers of one group that append to journals of their own before they *)
(* commit an offset.  The broker is external.                              *)
(***************************************************************************)
EXTENDS Integers, Sequences, FiniteSets

CONSTANTS
  Events,      \* the number of admitted events; they are sent in order
  Altered,     \* a message of the topic that is no admitted event
  Consumers,
  Nobody,
  Budget,      \* max_events of one run of the consumer
  MaxLog,      \* bound: messages in the partition
  MaxRuns      \* bound: runs of the consumers

ASSUME JournalAssumption ==
  /\ {Events, Budget, MaxLog, MaxRuns} \subseteq Nat
  /\ Altered \notin 1 .. Events /\ Nobody \notin Consumers

VARIABLES
  log,        \* the partition
  sending,    \* the producer: the event it sends next, 0 when it does not run
  committed,  \* the offset the group has committed
  assigned,   \* the consumer the partition is assigned to
  consumer,   \* each consumer: program counter, position, offset in hand, records processed
  journal,    \* the events in each consumer's journal
  executions

journalVars == <<log, sending, committed, assigned, consumer, journal, executions>>

Stopped0 == [pc |-> "stopped", position |-> 0, record |-> 0, processed |-> 0]

InitJournal ==
  /\ log = <<>>
  /\ sending = 0
  /\ committed = 0
  /\ assigned = Nobody
  /\ consumer = [c \in Consumers |-> Stopped0]
  /\ journal = [c \in Consumers |-> {}]
  /\ executions = 0

ConsumerAt(c, pc) == consumer[c].pc = pc

ConsumerGo(c, pc) == consumer' = [consumer EXCEPT ![c].pc = pc]

-----------------------------------------------------------------------------
(* produce() *)

StartProducer ==
  /\ sending = 0 /\ Events > 0
  /\ sending' = 1
  /\ UNCHANGED <<log, committed, assigned, consumer, journal, executions>>

\* A message is in the partition, once more when a retry follows a lost acknowledgement, and
\* the acknowledgement arrives; or the run ends on the deadline or an error, sent or not.
Produce ==
  /\ sending > 0 /\ Len(log) < MaxLog
  /\ \/ /\ log' = Append(log, sending)
        /\ sending' \in {sending, IF sending = Events THEN 0 ELSE sending + 1, 0}
     \/ log' = log /\ sending' = 0
  /\ UNCHANGED <<committed, assigned, consumer, journal, executions>>

\* External: something else writes to the topic.
WriteAltered ==
  /\ Len(log) < MaxLog
  /\ log' = Append(log, Altered)
  /\ UNCHANGED <<sending, committed, assigned, consumer, journal, executions>>

-----------------------------------------------------------------------------
(* consume() *)

StartConsumer(c) ==
  /\ ConsumerAt(c, "stopped") /\ executions < MaxRuns
  /\ executions' = executions + 1
  /\ consumer' = [consumer EXCEPT ![c] = [Stopped0 EXCEPT !.pc = "polling"]]
  /\ UNCHANGED <<log, sending, committed, assigned, journal>>

\* External: the coordinator assigns the partition, also away from a consumer that is slow;
\* the new owner reads on from the committed offset.
Assign(c) ==
  /\ assigned # c /\ ConsumerAt(c, "polling")
  /\ assigned' = c
  /\ consumer' = [consumer EXCEPT ![c].position = committed]
  /\ UNCHANGED <<log, sending, committed, journal, executions>>

Leave(c) == assigned' = IF assigned = c THEN Nobody ELSE assigned

\* One record at a time; the budget counts records, repeated ones too.
Poll(c) ==
  /\ ConsumerAt(c, "polling") /\ assigned = c
  /\ consumer[c].position < Len(log) /\ consumer[c].processed < Budget
  /\ consumer' = [consumer EXCEPT ![c].pc = "polled", ![c].position = @ + 1,
                                  ![c].record = consumer[c].position + 1]
  /\ UNCHANGED <<log, sending, committed, assigned, journal, executions>>

\* validate_message() and append(): one transaction inserts the event unless it is there.
Record(c) ==
  LET message == log[consumer[c].record] IN
  /\ ConsumerAt(c, "polled")
  /\ message # Altered
  /\ journal' = [journal EXCEPT ![c] = @ \cup {message}]
  /\ ConsumerGo(c, "appended")
  /\ UNCHANGED <<log, sending, committed, assigned, executions>>

\* The slip of committing before the transaction of the journal.
CommittableEarly(c) == consumer[c].pc \in {"polled", "appended"}

Committable(c) == ConsumerAt(c, "appended")

\* The broker takes the offset of the consumer it has assigned the partition to.
Commit(c) ==
  /\ Committable(c) /\ assigned = c
  /\ committed' = consumer[c].record
  /\ consumer' = [consumer EXCEPT ![c].pc = "polling", ![c].processed = @ + 1]
  /\ UNCHANGED <<log, sending, assigned, journal, executions>>

\* A refused message, a full budget, the deadline, an error or a crash ends the run; a commit
\* whose answer is lost has been made.
EndRun(c) ==
  /\ consumer[c].pc # "stopped"
  /\ consumer' = [consumer EXCEPT ![c] = Stopped0]
  /\ Leave(c)
  /\ \/ UNCHANGED committed
     \/ Committable(c) /\ assigned = c /\ committed' = consumer[c].record
  /\ UNCHANGED <<log, sending, journal, executions>>

NextJournal ==
  \/ StartProducer \/ Produce \/ WriteAltered
  \/ \E c \in Consumers :
       StartConsumer(c) \/ Assign(c) \/ Poll(c) \/ Record(c) \/ Commit(c) \/ EndRun(c)

-----------------------------------------------------------------------------

\* Whatever is sent twice, whoever owned the partition and wherever a consumer stopped, an offset
\* the group has committed never passes a message that is in nobody's journal, refused ones
\* included (tools/streaming/replay.py:91-103).
CommittedIsJournaled ==
  \A i \in 1 .. committed : \E c \in Consumers : log[i] \in journal[c]
=============================================================================
