-------------------------------- MODULE LiveState --------------------------------
(* What live transcription keeps, a pipeline and a dispatcher per client and what   *)
(* is under way between them, and what it promises.                                 *)
EXTENDS Naturals, Sequences

CONSTANTS Nobody,
          Sockets,       \* websocket connections, each accepted at most once
          Speakers,      \* clients, "<session_id>:<client_id>"
          MaxClients,    \* max_concurrent_clients
          AudioQueue,    \* audio_queue_maxsize
          BoxSize,       \* a dispatcher's queue
          Batch, Block,  \* chunks per accumulation, and per model block
          Threshold,     \* failures before the breaker trips
          MaxChunks,     \* bound: chunks accepted
          MaxErrors      \* bound: recognitions that fail

\* A block of the model is some audio, and no connection is nobody.
ASSUME LiveAssumption == Block \in Nat \ {0} /\ Nobody \notin Sockets

VARIABLES socket,      \* a connection's handler
          dispatcher,  \* OptimizedResultDispatcher.dispatchers
          box, halted, sent,   \* a connection's ClientDispatcher, and the last result its socket got
          pipeline,    \* PipelineManager.pipelines
          chunks,      \* chunks accepted per client so far: they are numbered
          emits,       \* emit_result coroutines scheduled on the loop
          joining,     \* the pipelines the loop is shutting down, and for whom
          stuck,       \* tasks waiting for pipelines_lock while it is never released
          breaker,     \* the global CircuitBreaker
          trips,       \* shutdowns it has scheduled
          errors
----------------------------------------------------------------------------------
(* Promises.                                                                      *)

\* What a connection was sent and what waits for it follow the audio: no result comes
\* twice and none after a later one, whoever emitted it (the thread, the flush of a
\* shutdown, or the pipeline that followed) and whichever dispatcher it went through.
ResultsInOrder ==
  \A c \in Sockets : \A j \in 1..Len(box[c]) : sent[c] < box[c][j] /\ \A i \in 1..(j - 1) : box[c][i] < box[c][j]

\* A pipeline that is shut down has recognised all it took from its queue, the last
\* short block included, unless the model failed.
TailIsHeard == \A k \in Speakers : pipeline[k].at \in {"over", "none"} /\ pipeline[k].whole =>
                 pipeline[k].heard + Len(pipeline[k].queue) = chunks[k] /\ pipeline[k].acc \o pipeline[k].buf = <<>>
==================================================================================
