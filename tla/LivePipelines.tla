------------------------------ MODULE LivePipelines ------------------------------
(* Live transcription in stt_service: one websocket handler per connection, one
   inference pipeline with a thread of its own per client, one dispatcher per client
   for its results, and a circuit breaker all of them share.

   Interleaved: the handlers and the coroutines the threads schedule, which run on
   one event loop and switch at awaits that really suspend; and the pipeline threads.
   ClientInferencePipeline.shutdown joins its thread on the event loop, so meanwhile
   no other task runs. A block is recognised within that join's timeout.         *)
EXTENDS LiveState, Naturals, FiniteSets, Sequences, SequencesExt, Functions

socketVars == <<socket, dispatcher, halted>>
vars == <<socketVars, box, sent, pipeline, chunks, emits, joining, stuck, breaker, trips, errors>>

Absent == [at |-> "none", queue |-> <<>>, acc |-> <<>>, buf |-> <<>>, heard |-> 0, text |-> FALSE, shut |-> FALSE, whole |-> TRUE]
NotJoining == [clients |-> {}, who |-> Nobody, drop |-> FALSE]
Exists(k) == pipeline[k].at # "none"
Held == {k \in Speakers : Exists(k)}

Init == /\ socket = [c \in Sockets |-> [at |-> "new", client |-> Nobody]]
        /\ dispatcher = [k \in Speakers |-> Nobody] /\ halted = {}
        /\ box = [c \in Sockets |-> <<>>] /\ sent = [c \in Sockets |-> 0]
        /\ pipeline = [k \in Speakers |-> Absent] /\ chunks = [k \in Speakers |-> 0]
        /\ emits = [k \in Speakers |-> <<>>]
        /\ joining = NotJoining /\ stuck = {} /\ errors = 0
        /\ breaker = [failures |-> 0, tripped |-> FALSE, last |-> Nobody] /\ trips = {}

LoopFree == joining = NotJoining
--------------------------------------------------------------------------------
(* CircuitBreaker: one for the process, though its callback is the one of the
   pipeline made last.                                                           *)

\* _on_failure, n times: at the threshold the last pipeline is told to shut down
Fails(n) ==
  LET trip == breaker.failures + n >= Threshold  k == breaker.last IN
    /\ breaker' = [breaker EXCEPT !.failures = IF trip THEN Threshold ELSE @ + n, !.tripped = @ \/ trip]
    /\ trips' = IF trip /\ k # Nobody /\ Exists(k) /\ ~pipeline[k].shut THEN trips \cup {k} ELSE trips
\* _on_success
Succeeds == breaker' = [breaker EXCEPT !.failures = IF breaker.tripped THEN @ ELSE 0] /\ UNCHANGED trips
--------------------------------------------------------------------------------
(* The handlers: websocket_stt_transcription.                                   *)

At(c, s) == LoopFree /\ socket[c].at = s
Moves(c, s) == socket' = [socket EXCEPT ![c].at = s]

\* register_client: an earlier dispatcher of the client is stopped first
Accept(c, k) ==
  /\ At(c, "new")
  /\ socket' = [socket EXCEPT ![c] = [at |-> IF dispatcher[k] = Nobody THEN "open" ELSE "register", client |-> k]]
  /\ dispatcher' = [dispatcher EXCEPT ![k] = IF @ = Nobody THEN c ELSE Nobody]
  /\ halted' = halted \cup ({dispatcher[k]} \ {Nobody})
  /\ UNCHANGED <<box, sent, pipeline, chunks, emits, joining, stuck, breaker, trips, errors>>
Register(c) ==
  /\ At(c, "register") /\ Moves(c, "open")
  /\ dispatcher' = [dispatcher EXCEPT ![socket[c].client] = c]
  /\ UNCHANGED <<halted, box, sent, pipeline, chunks, emits, joining, stuck, breaker, trips, errors>>

\* create_pipeline holds pipelines_lock when it looks for idle pipelines to make
\* room, and _cleanup_idle_pipelines takes that lock again.
AtLimit(k) == ~Exists(k) /\ Cardinality(Held) >= MaxClients
SubmitAtLimit(c) ==
  /\ At(c, "open") /\ ~breaker.tripped /\ stuck = {} /\ AtLimit(socket[c].client)
  /\ stuck' = {c} /\ Moves(c, "stuck")
  /\ UNCHANGED <<dispatcher, halted, box, sent, pipeline, chunks, emits, joining, breaker, trips, errors>>
\* any other user of the lock waits behind it
WaitForLock(c) ==
  /\ socket[c].at \in {"open", "cleanup"} /\ LoopFree /\ stuck # {} /\ (socket[c].at = "open" => ~breaker.tripped)
  /\ stuck' = stuck \cup {c} /\ Moves(c, "stuck")
  /\ UNCHANGED <<dispatcher, halted, box, sent, pipeline, chunks, emits, joining, breaker, trips, errors>>

\* submit_audio_async: get or create the pipeline, then its submit_audio. A pipeline
\* that is shut down stays in the table and refuses; a full queue drops the chunk.
NewPipeline(k) == [Absent EXCEPT !.at = "running", !.heard = chunks[k]]
Takes(p) == p.at = "running" /\ ~p.shut /\ Len(p.queue) < AudioQueue
Submit(c) ==
  LET k == socket[c].client
      p == IF Exists(k) THEN pipeline[k] ELSE NewPipeline(k) IN
    /\ At(c, "open") /\ ~breaker.tripped /\ stuck = {} /\ ~AtLimit(k) /\ FoldFunction(+, 0, chunks) < MaxChunks
    /\ IF Takes(p)
       THEN /\ pipeline' = [pipeline EXCEPT ![k] = [p EXCEPT !.queue = Append(@, chunks[k] + 1)]]
            /\ chunks' = [chunks EXCEPT ![k] = @ + 1]
            /\ breaker' = [breaker EXCEPT !.failures = 0, !.last = IF Exists(k) THEN @ ELSE k] /\ UNCHANGED trips
       ELSE Fails(1) /\ UNCHANGED <<pipeline, chunks>>
    /\ UNCHANGED <<socketVars, box, sent, emits, joining, stuck, errors>>

\* The client is gone, or was idle too long: the finally clause takes whatever
\* dispatcher the client has now.
Leave(c) ==
  /\ At(c, "open") /\ Moves(c, "cleanup")
  /\ dispatcher' = [dispatcher EXCEPT ![socket[c].client] = Nobody]
  /\ halted' = halted \cup ({dispatcher[socket[c].client]} \ {Nobody})
  /\ UNCHANGED <<box, sent, pipeline, chunks, emits, joining, stuck, breaker, trips, errors>>
\* cleanup_client, remove_pipeline
Cleanup(c) ==
  /\ At(c, "cleanup") /\ stuck = {}
  /\ IF Exists(socket[c].client)
     THEN joining' = [clients |-> {socket[c].client}, who |-> c, drop |-> TRUE] /\ UNCHANGED socket
     ELSE Moves(c, "over") /\ UNCHANGED joining
  /\ UNCHANGED <<dispatcher, halted, box, sent, pipeline, chunks, emits, stuck, breaker, trips, errors>>
--------------------------------------------------------------------------------
(* Shutting pipelines down.                                                      *)

\* the cleanup loop, for pipelines with no audio for idle_timeout or shut down before
Idle(k) == \/ pipeline[k].at = "over"
           \/ pipeline[k].at = "running" /\ pipeline[k].queue = <<>> /\ Len(pipeline[k].buf) < Block
CleanupIdle ==
  /\ LoopFree /\ stuck = {}
  /\ \E ks \in SUBSET {k \in Speakers : Idle(k)} :
       /\ ks # {} /\ {k \in Speakers : pipeline[k].at = "over"} \subseteq ks
       /\ joining' = [clients |-> ks, who |-> Nobody, drop |-> TRUE]
  /\ UNCHANGED <<socketVars, box, sent, pipeline, chunks, emits, stuck, breaker, trips, errors>>
\* the shutdown the breaker scheduled: the pipeline stays in the table
BreakerShutdown(k) ==
  /\ LoopFree /\ k \in trips /\ trips' = trips \ {k}
  /\ joining' = IF Exists(k) THEN [clients |-> {k}, who |-> Nobody, drop |-> FALSE] ELSE joining
  /\ UNCHANGED <<socketVars, box, sent, pipeline, chunks, emits, stuck, breaker, errors>>

\* SHUTTING_DOWN, and the thread is told
BeginShutdown(k) ==
  /\ k \in joining.clients /\ ~pipeline[k].shut
  /\ pipeline' = [pipeline EXCEPT ![k].shut = TRUE]
  /\ UNCHANGED <<socketVars, box, sent, chunks, emits, joining, stuck, breaker, trips, errors>>

\* The thread is over: what it had accumulated goes through the model, the last
\* block padded, and the text still open becomes final. What is left in the queue
\* is dropped with the pipeline.
Joined(k) == pipeline[k].at \in {"stopped", "over"}
RestBroken(p) == LET r == p.buf \o p.acc IN SubSeq(r, 1, Len(r) - (Len(r) % Block))   \* mutant: the last block is not padded
Rest(p) == p.buf \o p.acc
Flushed(p, n) == [p EXCEPT !.at = "over", !.acc = <<>>, !.buf = <<>>, !.text = FALSE, !.heard = n]
FinishShutdown(k) ==
  /\ k \in joining.clients /\ Joined(k)
  /\ LET p == pipeline[k]  rest == Rest(p)  n == IF rest = <<>> THEN p.heard ELSE Last(rest) IN
     \E speech, fails \in BOOLEAN :
       /\ p.at = "over" => ~speech /\ ~fails
       /\ speech \/ fails => rest # <<>>
       /\ fails => errors < MaxErrors /\ ~speech
       /\ errors' = IF fails THEN errors + 1 ELSE errors
       /\ pipeline' = [pipeline EXCEPT ![k] = [Flushed(p, n) EXCEPT !.at = IF joining.drop THEN "none" ELSE "over", !.whole = @ /\ ~fails]]
       /\ emits' = IF fails \/ p.at = "over" THEN emits
                   ELSE [emits EXCEPT ![k] = @ \o (IF speech THEN <<2 * n>> ELSE <<>>) \o (IF speech \/ p.text THEN <<2 * n + 1>> ELSE <<>>)]
  /\ LET left == joining.clients \ {k} IN
       /\ joining' = IF left = {} THEN NotJoining ELSE [joining EXCEPT !.clients = left]
       /\ socket' = IF joining.who = Nobody THEN socket ELSE [socket EXCEPT ![joining.who].at = "over"]
  /\ UNCHANGED <<dispatcher, halted, box, sent, chunks, stuck, breaker, trips>>
--------------------------------------------------------------------------------
(* A pipeline's thread.                                                          *)

Running(k) == pipeline[k].at = "running"
\* _processing_loop, _process_audio_chunk: one chunk is accumulated; a full batch
\* goes to the model's buffer
Get(k) ==
  LET p == pipeline[k]  acc == Append(p.acc, Head(p.queue)) IN
    /\ Running(k) /\ ~p.shut /\ p.queue # <<>> /\ Len(p.buf) < Block
    /\ pipeline' = [pipeline EXCEPT ![k] = IF Len(acc) >= Batch THEN [p EXCEPT !.queue = Tail(@), !.acc = <<>>, !.buf = @ \o acc]
                                           ELSE [p EXCEPT !.queue = Tail(@), !.acc = acc]]
    /\ IF Len(acc) < Batch \/ Len(p.buf) + Batch < Block THEN Succeeds ELSE UNCHANGED <<breaker, trips>>
    /\ UNCHANGED <<socketVars, box, sent, chunks, emits, joining, stuck, errors>>
\* NemotronStream.process: the text so far of the utterance, or at a silence the
\* final one, if there is any
HasText(p, speech) == speech \/ p.text
\* _process_accumulated_chunks: one block
Recognise(k) ==
  LET p == pipeline[k]  n == p.buf[Block] IN
    /\ Running(k) /\ Len(p.buf) >= Block
    /\ \E speech \in BOOLEAN :
         /\ pipeline' = [pipeline EXCEPT ![k] = [p EXCEPT !.buf = SubSeq(@, Block + 1, Len(@)), !.heard = n, !.text = speech]]
         /\ emits' = IF HasText(p, speech) THEN [emits EXCEPT ![k] = Append(@, 2 * n)] ELSE emits
    /\ IF Len(p.buf) < 2 * Block THEN Succeeds ELSE UNCHANGED <<breaker, trips>>
    /\ UNCHANGED <<socketVars, box, sent, chunks, joining, stuck, errors>>
\* the model fails: the block is lost, and counted twice
RecogniseFails(k) ==
  /\ Running(k) /\ Len(pipeline[k].buf) >= Block /\ errors < MaxErrors
  /\ pipeline' = [pipeline EXCEPT ![k].buf = SubSeq(@, Block + 1, Len(@)), ![k].whole = FALSE]
  /\ errors' = errors + 1 /\ Fails(2)
  /\ UNCHANGED <<socketVars, box, sent, chunks, emits, joining, stuck>>
Stop(k) ==
  /\ Running(k) /\ pipeline[k].shut /\ Len(pipeline[k].buf) < Block
  /\ pipeline' = [pipeline EXCEPT ![k].at = "stopped"]
  /\ UNCHANGED <<socketVars, box, sent, chunks, emits, joining, stuck, breaker, trips, errors>>
--------------------------------------------------------------------------------
(* Results on the event loop.                                                    *)

\* emit_result: to the client's dispatcher of this moment, if there is one with room
HasRoom(k) == dispatcher[k] # Nobody /\ Len(box[dispatcher[k]]) < BoxSize
WaitingBroken(k) == IF HasRoom(k) THEN Tail(emits[k]) ELSE Append(Tail(emits[k]), Head(emits[k]))   \* mutant: what finds no room is put again
Waiting(k) == Tail(emits[k])
EmitResult(k) ==
  /\ LoopFree /\ emits[k] # <<>>
  /\ emits' = [emits EXCEPT ![k] = Waiting(k)]
  /\ box' = IF HasRoom(k) THEN [box EXCEPT ![dispatcher[k]] = Append(@, Head(emits[k]))] ELSE box
  /\ UNCHANGED <<socketVars, sent, pipeline, chunks, joining, stuck, breaker, trips, errors>>
\* _dispatcher_loop: what cannot be sent is forgotten
Send(c) ==
  /\ LoopFree /\ c \notin halted /\ box[c] # <<>>
  /\ box' = [box EXCEPT ![c] = Tail(@)]
  /\ \E ok \in BOOLEAN : sent' = IF ok THEN [sent EXCEPT ![c] = Head(box[c])] ELSE sent
  /\ UNCHANGED <<socketVars, pipeline, chunks, emits, joining, stuck, breaker, trips, errors>>

Handler(c) == \/ \E k \in Speakers : Accept(c, k)
              \/ Register(c) \/ Submit(c) \/ SubmitAtLimit(c) \/ WaitForLock(c) \/ Leave(c) \/ Cleanup(c)
Thread(k) == Get(k) \/ Recognise(k) \/ RecogniseFails(k) \/ Stop(k)
Loop(k) == BreakerShutdown(k) \/ BeginShutdown(k) \/ FinishShutdown(k) \/ EmitResult(k)
Next == \/ \E c \in Sockets : Handler(c) \/ Send(c)
        \/ \E k \in Speakers : Thread(k) \/ Loop(k)
        \/ CleanupIdle
Spec == Init /\ [][Next]_vars
--------------------------------------------------------------------------------
(* What the limit of clients is; what the results and the audio are promised is in
   LiveState.                                                                    *)

\* Reaching the limit rejects one client and no more: no task waits for ever for
\* pipelines_lock (pipeline_manager.py:25 "Raised when maximum client limit is
\* exceeded").
LimitRejects == stuck = {}
================================================================================
