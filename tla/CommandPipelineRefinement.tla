---------------------- MODULE CommandPipelineRefinement ----------------------
(* The threads of CommandPipeline implement CommandService: the line is the  *)
(* command the worker has not answered yet, followed by the queue.           *)
EXTENDS CommandPipeline

UnansweredCurrent ==
    IF worker \in {"dispatching", "answering"} THEN <<current.uid>> ELSE <<>>
Waiting == UnansweredCurrent \o [i \in DOMAIN queue |-> queue[i].uid]

Service == INSTANCE CommandService
               WITH Uids <- 1 .. MaxUid, line <- Waiting, answers <- results

\* Every behaviour of the threads is one the service promises: answers leave in
\* the order of acceptance, at most one each, and only for commands in line.
ImplementsService == Service!ServiceSpec
=============================================================================
