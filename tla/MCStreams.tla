----------------------------- MODULE MCStreams -----------------------------
(* The progress events of an investigation, on the distributed store       *)
(* (EventStream) and on the in-process one (MemoryStream), which make the  *)
(* same promises to the same client.  They share nothing: each behaviour   *)
(* is one of the one or of the other.                                      *)
EXTENDS EventStream

CONSTANTS LocalCollectors, Callback, QueueSize, LocalProgress   \* of MemoryStream

VARIABLES
  part,   \* whose behaviour it is
  status, sequence, events, published, threads, raced, overflowed, queue,
  generator, received, opened

Memory == INSTANCE MemoryStream WITH
  Collectors <- LocalCollectors, MaxProgress <- LocalProgress,
  writer <- threads, crowded <- raced, stream <- generator,
  delivered <- received, connections <- opened

ASSUME StreamsAssumption == Memory!MemoryAssumption

memoryVars == <<status, sequence, events, published, threads, raced, overflowed,
                queue, generator, received, opened>>

MCInit == part \in {"distributed", "memory"} /\ Init /\ Memory!Init

InTable(A)  == part = "distributed" /\ A /\ UNCHANGED <<part, memoryVars>>
InMemory(A) == part = "memory" /\ A /\ UNCHANGED <<part, vars>>

MCNext == InTable(Next) \/ InMemory(Memory!Next)

MCvars == <<part, vars, memoryVars>>

(* The fairness of both: FairSpec of each.                                 *)
MCSpec ==
  /\ MCInit /\ [][MCNext]_MCvars
  /\ WF_MCvars(InTable(Subscribe))
  /\ WF_MCvars(InTable(Settle))
  /\ \A w \in Cancellers : WF_MCvars(InTable(MarkCancelled(w)))
  /\ \A w \in Settlers : WF_MCvars(InTable(InsertTerminal(w)))
  /\ \A w \in Writers : WF_MCvars(InTable(Publish(w)))
  /\ WF_MCvars(InMemory(Memory!Subscribe))
  /\ WF_MCvars(InMemory(Memory!MarkCancelled))
  /\ \A w \in {Finisher, Callback} : WF_MCvars(InMemory(Memory!Close(w)))
  /\ \A w \in LocalCollectors \cup {Finisher, Callback} :
       WF_MCvars(InMemory(Memory!Publish(w)))

(* Nothing recorded by the in-process store escapes its client for good,   *)
(* and nothing comes twice.                                                *)
SeesAll == Memory!SeesAll

(* The stream of a settled job ends, or the client leaves: on the          *)
(* distributed store unless a message was lost, on the in-process one      *)
(* unless its queue was full, which drops the sentinel as well.            *)
StreamsEnd == HeardStreamEnds /\ Memory!LocalStreamEnds
=============================================================================
