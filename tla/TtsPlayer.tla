-------------------------------- MODULE TtsPlayer --------------------------------
(* The agent's voice: the ttsplayer.Player of each session, its worker, its silence
   ticker and its record-service forwarder; the session that makes and closes
   players; and the handler of tts_play, which the request listener calls on a
   goroutine of its own.

   Time passes in frames of 20 ms. A frame that is due is sent before time goes on:
   playback keeps the 20 ms clock. Each other step is what one goroutine does while
   it holds the player's lock, or between two waits. *)
EXTENDS VoiceState, Naturals, Integers, SequencesExt, Functions

vars == <<player, refs, main, handler, now, asked, panicked>>

\* forwarder: queue, droppedSinceFlush; handed and offered count what SendPCM was given
NoForwarder == [queue |-> <<>>, dropped |-> 0, rejected |-> FALSE, writer |-> "none", told |-> 0, handed |-> 0, offered |-> 0]
Unmade == [requests |-> 0, stopped |-> FALSE, worker |-> "none", frame |-> 0, due |-> 0, start |-> 0,
           recorder |-> TRUE, has |-> FALSE, fwd |-> NoForwarder, speaking |-> FALSE, last |-> 0,
           ticker |-> "none", said |-> <<>>, owed |-> FALSE, completed |-> FALSE]
Init == /\ player = [p \in Players |-> Unmade] /\ refs = NoPlayer
        /\ main = [at |-> "out", p |-> NoPlayer, rejoin |-> FALSE]
        /\ handler = NoPlayer /\ now = 0 /\ asked = 0 /\ panicked = FALSE

Set(p, r) == player' = [player EXCEPT ![p] = r]
Free(p) == player[p].worker # "dialing"   \* p.mu: NewForwarder is called inside it
\* nothing runs on after a panic
Still(v) == ~panicked /\ UNCHANGED <<v, panicked>>
Quiet == Still(<<refs, main, handler, now, asked>>)
--------------------------------------------------------------------------------
(* Forwarder.                                                                    *)

\* an item of the queue is how many chunks it accounts for
StartItem == 0
NewForwarder == [NoForwarder EXCEPT !.queue = <<StartItem>>, !.writer = "running"]
HasRoom(f) == Len(f.queue) < QueueSize
\* the count goes before the next frame
Tell(f) == IF f.dropped > 0 /\ HasRoom(f) THEN [f EXCEPT !.queue = Append(@, f.dropped), !.dropped = 0] ELSE f
Offer(f) == IF HasRoom(f) /\ f.dropped = 0 THEN [f EXCEPT !.queue = Append(@, 1)] ELSE [f EXCEPT !.dropped = @ + 1]
SendPCM(f, n) ==
  LET g == [f EXCEPT !.handed = @ + n] IN
    IF f.rejected THEN g ELSE [Offer(Tell(g)) EXCEPT !.offered = @ + 1]
CloseForwarder(f) == [Tell(f) EXCEPT !.dropped = 0, !.writer = IF @ = "running" THEN "closing" ELSE @]

\* writeLoop: one item to the stream, the end of a closed queue, or a broken stream
Write(p) ==
  LET f == player[p].fwd IN
    /\ f.writer \in {"running", "closing"}
    /\ \/ f.queue # <<>> /\ Set(p, [player[p] EXCEPT !.fwd.queue = Tail(@), !.fwd.told = @ + Head(f.queue)])
       \/ f.queue = <<>> /\ f.writer = "closing" /\ Set(p, [player[p] EXCEPT !.fwd.writer = "done"])
       \/ "send" \in Faults /\ Set(p, [player[p] EXCEPT !.fwd.writer = "broken"])
    /\ Quiet
\* readLoop: record-service rejects the session
Rejected(p) ==
  /\ "reject" \in Faults /\ player[p].fwd.writer = "running" /\ ~player[p].fwd.rejected
  /\ Set(p, [player[p] EXCEPT !.fwd.rejected = TRUE]) /\ Quiet
--------------------------------------------------------------------------------
(* The recorded timeline.                                                        *)

\* sendRecordSilenceGapLocked
Gap(r) == IF r.has /\ now > r.last THEN [r EXCEPT !.last = now, !.fwd = SendPCM(@, now - r.last)] ELSE r

\* runRecordSilenceTicker, every two seconds or as late as it is scheduled
SilenceTick(p) ==
  /\ player[p].ticker = "running" /\ Free(p) /\ ~player[p].speaking
  /\ Set(p, Gap(player[p])) /\ Quiet
TickerStops(p) ==
  /\ player[p].ticker = "running" /\ player[p].stopped
  /\ Set(p, [player[p] EXCEPT !.ticker = "done"]) /\ Quiet

BeginUtterance(r) ==
  LET g == Gap(r) IN
    [g EXCEPT !.speaking = TRUE, !.worker = "playing", !.frame = 0, !.due = now,
              !.said = Append(@, [at |-> now - r.start, pos |-> g.fwd.handed])]
EndBroken(r) == [r EXCEPT !.speaking = FALSE, !.frame = 0, !.due = 0]   \* mutant: the anchor stays before the utterance
EndUtterance(r) == [r EXCEPT !.speaking = FALSE, !.frame = 0, !.due = 0, !.last = IF r.has THEN now ELSE @]
--------------------------------------------------------------------------------
(* The worker: processQueue, speakNow, one utterance at a time.                  *)

Move(p, from, to) == player[p].worker = from /\ Set(p, [player[p] EXCEPT !.worker = to]) /\ Quiet

\* a request that is taken after Close is dropped
Take(p) ==
  /\ player[p].worker = "idle" /\ player[p].requests > 0
  /\ Set(p, [player[p] EXCEPT !.requests = @ - 1, !.worker = IF player[p].stopped THEN "idle" ELSE "opening"])
  /\ Quiet
Exit(p) == player[p].requests = 0 /\ player[p].stopped /\ Move(p, "idle", "exited")

\* startRecordForwarding: once, and never again after it failed
StartRecording(p) == IF player[p].recorder /\ ~player[p].has THEN Move(p, "opening", "dialing") ELSE Move(p, "opening", "synthesizing")
Dialed(p) ==
  /\ player[p].worker = "dialing"
  /\ \/ Set(p, [player[p] EXCEPT !.worker = "synthesizing", !.has = TRUE, !.fwd = NewForwarder,
                                 !.start = now, !.last = now, !.ticker = "running"])
     \/ "dial" \in Faults /\ Set(p, [player[p] EXCEPT !.worker = "synthesizing", !.recorder = FALSE])
  /\ Quiet
\* Synthesize: stopCtx aborts it
Synthesized(p) ==
  \/ ~player[p].stopped /\ Move(p, "synthesizing", "ready")
  \/ player[p].stopped /\ Move(p, "synthesizing", "idle")
  \/ "synthesize" \in Faults /\ Move(p, "synthesizing", "idle")
Begin(p) == player[p].worker = "ready" /\ Set(p, BeginUtterance(player[p])) /\ Quiet

More(r) == r.worker = "playing" /\ r.frame < Frames
PlayFrame(p) ==
  LET r == player[p] IN
    /\ More(r) /\ now >= r.due
    /\ Set(p, [r EXCEPT !.frame = @ + 1, !.due = now + 1, !.fwd = IF r.has THEN SendPCM(@, 1) ELSE @])
    /\ Quiet
\* the deferred endRecordedUtterance, after the last frame, a stop or an error
Played(p) ==
  LET r == player[p] IN
    /\ r.worker = "playing"
    /\ \/ ~More(r) /\ Set(p, [EndUtterance(r) EXCEPT !.worker = "played", !.owed = r.has])
       \/ More(r) /\ ((r.frame > 0 /\ r.stopped) \/ "write" \in Faults) /\ Set(p, [EndUtterance(r) EXCEPT !.worker = "idle"])
    /\ Quiet
\* reportTTSTranscript: only for a track that has a recording; the call takes up to 3 s
Report(p) ==
  /\ player[p].worker = "played"
  /\ IF player[p].has THEN Set(p, [player[p] EXCEPT !.worker = "reporting", !.owed = FALSE])
     ELSE Set(p, [player[p] EXCEPT !.worker = "idle"])
  /\ Quiet
ReportEnds(p) == Move(p, "reporting", "idle")

Worker(p) == Take(p) \/ Exit(p) \/ StartRecording(p) \/ Dialed(p) \/ Synthesized(p) \/ Begin(p)
             \/ PlayFrame(p) \/ Played(p) \/ Report(p) \/ ReportEnds(p)
--------------------------------------------------------------------------------
(* The session: onJoined, close, Player.Close.                                   *)

Go(at) == main' = [main EXCEPT !.at = at]
Left == {p \in Players : player[p].worker = "none"}
\* New, and the references the handlers reach it by; or no encoder
Join ==
  /\ main.at = "joining" /\ Left # {}
  /\ LET p == CHOOSE q \in Left : TRUE IN
       \/ Set(p, [Unmade EXCEPT !.worker = "idle"]) /\ refs' = p /\ main' = [at |-> "in", p |-> p, rejoin |-> FALSE]
       \/ main' = [at |-> "in", p |-> NoPlayer, rejoin |-> FALSE] /\ refs' = NoPlayer /\ UNCHANGED player
  /\ Still(<<handler, now, asked>>)
Connect == main.at = "out" /\ Go("joining") /\ Still(<<player, refs, handler, now, asked>>)
\* a second joined message closes the player before it clears the references,
\* the end of the session clears them first
Rejoin ==
  /\ main.at = "in" /\ main' = [main EXCEPT !.at = IF main.p = NoPlayer THEN "joining" ELSE "stop", !.rejoin = TRUE]
  /\ Still(<<player, refs, handler, now, asked>>)
Leave ==
  /\ main.at = "in" /\ refs' = NoPlayer
  /\ main' = [main EXCEPT !.at = IF main.p = NoPlayer THEN "out" ELSE "stop"]
  /\ Still(<<player, handler, now, asked>>)

Mine == player[main.p]
Stop ==
  /\ main.at = "stop" /\ Go("wait") /\ Set(main.p, [Mine EXCEPT !.stopped = TRUE])
  /\ Still(<<refs, handler, now, asked>>)
\* closeGrace passes only while the worker is in a call that stopCtx does not end
PatientBroken(r) == TRUE    \* mutant: no wait for the worker
Patient(r) == r.worker \in {"exited", "dialing", "reporting"}
Waited ==
  /\ main.at = "wait" /\ Patient(Mine) /\ Go("ticker")
  /\ Still(<<player, refs, handler, now, asked>>)
TickerJoined ==
  /\ main.at = "ticker" /\ Free(main.p) /\ Mine.ticker # "running" /\ Go("flush")
  /\ Still(<<player, refs, handler, now, asked>>)
Forget(r) == [r EXCEPT !.has = FALSE]
FlushGap ==
  /\ main.at = "flush"
  /\ Set(main.p, Forget(Gap([Mine EXCEPT !.speaking = FALSE])))
  /\ Go(IF Mine.has THEN "shut" ELSE "closed")
  /\ Still(<<refs, handler, now, asked>>)
Shut ==
  /\ main.at = "shut" /\ Set(main.p, [Mine EXCEPT !.fwd = CloseForwarder(@)]) /\ Go("completed")
  /\ Still(<<refs, handler, now, asked>>)
\* ReportTTSCompleted, whose failure is logged
Complete ==
  /\ main.at = "completed" /\ Set(main.p, [Mine EXCEPT !.completed = TRUE]) /\ Go("closed")
  /\ Still(<<refs, handler, now, asked>>)
\* nothing refers to a closed player but a worker that outlived the grace period
Discard(r) == IF r.worker = "exited" THEN [Unmade EXCEPT !.worker = "exited", !.stopped = TRUE, !.completed = r.completed, !.owed = r.owed] ELSE r
Closed ==
  /\ main.at = "closed" /\ refs' = NoPlayer /\ Set(main.p, Discard(Mine))
  /\ main' = [at |-> IF main.rejoin THEN "joining" ELSE "out", p |-> NoPlayer, rejoin |-> FALSE]
  /\ Still(<<handler, now, asked>>)
ClosePlayer == Stop \/ Waited \/ TickerJoined \/ FlushGap \/ Shut \/ Complete \/ Closed
--------------------------------------------------------------------------------
(* tts_play, and time.                                                           *)

\* the handler reads the references, and later speaks to what it read
TtsPlay ==
  /\ handler = NoPlayer /\ refs # NoPlayer /\ asked < MaxAsks
  /\ handler' = refs /\ asked' = asked + 1
  /\ Still(<<player, refs, main, now>>)
\* a full queue drops the request; a closed channel panics
Speak ==
  /\ handler # NoPlayer /\ handler' = NoPlayer
  /\ IF player[handler].stopped THEN panicked' = TRUE /\ UNCHANGED player
     ELSE /\ Set(handler, [player[handler] EXCEPT !.requests = IF @ < SpeakQueue THEN @ + 1 ELSE @])
          /\ UNCHANGED panicked
  /\ UNCHANGED <<refs, main, now, asked>>
Tick ==
  /\ now < MaxTime /\ now' = now + 1
  /\ \A p \in Players : player[p].worker = "playing" => More(player[p]) /\ player[p].due > now
  /\ Still(<<player, refs, main, handler, asked>>)

Next == \/ \E p \in Players : Worker(p) \/ Write(p) \/ Rejected(p) \/ SilenceTick(p) \/ TickerStops(p)
        \/ Connect \/ Join \/ Rejoin \/ Leave \/ ClosePlayer \/ TtsPlay \/ Speak \/ Tick
Spec == Init /\ [][Next]_vars
--------------------------------------------------------------------------------
(* What the forwarder counts and what Speak promises; what the recorded track      *)
(* promises is in VoiceState.                                                      *)

\* Whatever a full queue drops is counted: each chunk the forwarder was offered is
\* told, queued or in the count ("dropped and counted", forwarder.go:82-86).
NothingUncounted ==
  \A p \in Players : LET f == player[p].fwd IN
    f.writer = "running" => f.offered = f.told + FoldSeq(+, 0, f.queue) + f.dropped

\* Speak is "safe to call from the SSE request-handling goroutine
\* (internal/orchestratorclient) directly" (player.go:151-153).
SpeakIsSafe == ~panicked
================================================================================
