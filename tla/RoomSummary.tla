------------------------------- MODULE RoomSummary -------------------------------
(* The summary of one finished room in the orchestrator: the draft row with the
   transcript, its correction by a language model, the sections of a long room, the
   overall context, the outbox of what failed, and the calls that retry it.

   Every database call is a transaction of its own, and between two of them a call
   waits for the model: calls interleave there, and a crash ends them there. What
   the model answers is any answer its caller tells apart.                       *)
EXTENDS SummaryState, Functions

CONSTANTS Faults,         \* what may fail: subset of {"llm", "db", "sections", "outbox", "crash"}
          MaxFaults,      \* bound: failures
          MaxCalls        \* bound: calls

rows == <<draft, messages, progress, summary, sections, outbox>>
vars == <<long, rows, fix, call, logged, stale, faults, calls>>

NotFixing == [at |-> "none", next |-> 1, done |-> {}]
Idle == [at |-> "idle", kind |-> "none", next |-> 1, index |-> 1, seen |-> <<>>]
None == [i \in {} |-> <<>>]

Init == /\ long \in BOOLEAN
        /\ draft = FALSE /\ messages = {} /\ progress = [status |-> "none", last |-> 0]
        /\ summary = NoSummary /\ sections = None /\ outbox = {}
        /\ fix = [a \in Summarisers \cup Correctors |-> NotFixing] /\ call = [w \in Summarisers |-> Idle]
        /\ logged = FALSE /\ stale = FALSE /\ faults = 0 /\ calls = 0

Fault(f) == f \in Faults /\ faults < MaxFaults /\ faults' = faults + 1
Called == calls < MaxCalls /\ calls' = calls + 1
--------------------------------------------------------------------------------
(* Windows of messages by their timestamps.                                      *)

\* get_candidate_end_idx, of both services: the first message after the window
CandidateEnd(s, d) == Min({e \in s..N : Stamp[e] > Stamp[s] + d} \cup {N + 1})
SectionEnd(s, d) == LET e == CandidateEnd(s, d) IN IF N + 1 - e < TailSize THEN N + 1 ELSE e

\* find_end_idx_by_time: the last message of the window with the time the model names
EndsAt(s, e) == {i \in s..(e - 1) : \A j \in (i + 1)..(e - 1) : Stamp[j] # Stamp[i]}
\* where a section from s may end, and whether the model may find no end to its topic
Ends(s) == UNION {LET e == SectionEnd(s, d) IN IF e = N + 1 THEN {N} ELSE EndsAt(s, e) : d \in Windows}
TopicOpen(s) == \A d \in Windows : SectionEnd(s, d) # N + 1

\* process_room resumes behind the first message with the last section's end time.
\* There is one: the row's messages keep their times, so its restart is not taken.
ResumeAfter(to) == Min({i \in Messages : Stamp[i] = Stamp[to]}) + 1
LastIndex == IF sections = None THEN 0 ELSE Max(DOMAIN sections)
--------------------------------------------------------------------------------
(* The correction: correct_transcript_for_room, called by the endpoint and by
   generate_summary.                                                             *)

ResumeFixBroken == progress.last + 2   \* mutant: one message is skipped
ResumeFix == progress.last + 1
\* where a call starts that does not force the correction of everything
FixFrom(all) == IF all \/ progress.status = "none" THEN 1 ELSE ResumeFix
Skipped(all) == ~all /\ progress.status = "completed"
BeginFix(a, all) ==
  /\ draft /\ fix[a].at = "none"
  /\ fix' = IF Skipped(all) THEN fix ELSE [fix EXCEPT ![a] = [at |-> "run", next |-> FixFrom(all), done |-> messages]]
\* a chunk: the whole array and the progress in one UPDATE
FixChunk(a) ==
  LET f == fix[a]  e == CandidateEnd(f.next, ChunkDuration)  done == f.done \cup (f.next)..(e - 1) IN
    /\ f.at = "run" /\ f.next <= N
    /\ fix' = [fix EXCEPT ![a].next = e, ![a].done = done]
    /\ messages' = done /\ progress' = [status |-> "in_progress", last |-> e - 1]
    /\ UNCHANGED <<long, draft, summary, sections, outbox, call, logged, stale, faults, calls>>
\* the result of the last UPDATE is not looked at
Goes(a) == IF a \in Summarisers THEN call' = [call EXCEPT ![a].at = "choose"] ELSE UNCHANGED call
EndFix(a) ==
  /\ fix[a].at = "run" /\ fix[a].next > N
  /\ fix' = [fix EXCEPT ![a] = NotFixing] /\ Goes(a)
  /\ \/ messages' = fix[a].done /\ progress' = [status |-> "completed", last |-> N] /\ UNCHANGED faults
     \/ Fault("db") /\ UNCHANGED <<messages, progress>>
  /\ UNCHANGED <<long, draft, summary, sections, outbox, logged, stale, calls>>
\* the model or the UPDATE of a chunk fails; generate_summary goes on without
FixFails(a) ==
  /\ fix[a].at = "run" /\ fix[a].next <= N /\ (Fault("llm") \/ Fault("db"))
  /\ fix' = [fix EXCEPT ![a] = NotFixing] /\ Goes(a)
  /\ UNCHANGED <<long, rows, logged, stale, calls>>
CorrectTranscript(a) ==
  /\ a \in Correctors /\ Called /\ \E all \in BOOLEAN : BeginFix(a, all)
  /\ UNCHANGED <<long, rows, call, logged, stale, faults>>
--------------------------------------------------------------------------------
(* generate_summary and retry_summary_from_full_text.                            *)

At(w, s) == call[w].at = s
Move(w, s) == call' = [call EXCEPT ![w].at = s]
Return(w) == call' = [call EXCEPT ![w] = Idle]

\* save_room_summary inserts under the room's id: a second row is refused
Generate(w) ==
  /\ At(w, "idle") /\ Called
  /\ \/ ~draft /\ draft' = TRUE /\ call' = [call EXCEPT ![w] = [Idle EXCEPT !.at = "fix", !.kind = "generate"]] /\ UNCHANGED <<logged, faults>>
     \/ ~draft /\ Fault("db") /\ logged' = TRUE /\ UNCHANGED <<draft, call>>
     \/ draft /\ UNCHANGED <<draft, call, logged, faults>>
  /\ UNCHANGED <<long, messages, progress, summary, sections, outbox, fix, stale>>
GenerateFix(w) ==
  /\ At(w, "fix") /\ BeginFix(w, FALSE)
  /\ Move(w, IF Skipped(FALSE) THEN "choose" ELSE "fixing")
  /\ UNCHANGED <<long, rows, logged, stale, faults, calls>>
Choose(w) ==
  /\ At(w, "choose") /\ Move(w, IF long THEN "delete" ELSE "normal")
  /\ UNCHANGED <<long, rows, fix, logged, stale, faults, calls>>

\* retry_type "summary" does everything again, "sections" resumes, "overall_context"
\* keeps the sections there are
FirstSection == [next |-> 1, index |-> 1]
ResumesAtBroken == [next |-> ResumeAfter(sections[LastIndex].to), index |-> LastIndex]   \* mutant: over the last section
ResumesAt == [next |-> ResumeAfter(sections[LastIndex].to), index |-> LastIndex + 1]
RetryAt(kind) == CASE ~long -> "normal"
                   [] long /\ kind = "overall_context" -> "merge"
                   [] long /\ kind = "sections" /\ sections # None -> "sections"
                   [] OTHER -> "delete"
Begins(w, s, kind, from) == call' = [call EXCEPT ![w] = [Idle EXCEPT !.at = s, !.kind = kind, !.next = from.next, !.index = from.index]]
Retry(w, kind) ==
  LET to == RetryAt(kind) IN
    /\ At(w, "idle") /\ Called /\ draft
    /\ \/ Begins(w, to, kind, IF to = "sections" THEN ResumesAt ELSE FirstSection) /\ UNCHANGED <<stale, faults>>
       \* a read of the sections that fails finds none: the first one means a new
       \* start, the second one the first section again over what is there
       \/ /\ to = "sections" /\ Fault("sections") /\ \E s \in {"delete", "sections"} : Begins(w, s, kind, FirstSection)
          /\ stale' = TRUE
    /\ UNCHANGED <<long, rows, fix, logged>>

\* What a failed call leaves behind: the first one a task in the outbox, or a line
\* in the log when that fails too; a retry nothing.
QueueBroken(w, type) == UNCHANGED <<outbox, logged>>   \* mutant: a first call that fails is forgotten
Queue(w, type) ==
  IF call[w].kind = "generate"
  THEN outbox' = outbox \cup {type} /\ UNCHANGED logged
  ELSE UNCHANGED <<outbox, logged>>
Loses(w, f, type) ==
  /\ Return(w)
  /\ \/ Fault(f) /\ Queue(w, type)
     \/ /\ {f, "outbox"} \subseteq Faults /\ faults + 2 <= MaxFaults /\ faults' = faults + 2 /\ logged' = TRUE
        /\ call[w].kind = "generate" /\ UNCHANGED outbox
  /\ UNCHANGED <<long, draft, messages, progress, summary, sections, fix, stale, calls>>
--------------------------------------------------------------------------------
(* The sections of a long room: LightSummaryService.                             *)

\* process_room_by_id from the start: whether the DELETE succeeds is not looked at
DeleteSections(w, s) ==
  /\ Move(w, s)
  /\ \/ sections' = None /\ UNCHANGED <<stale, faults>>
     \/ Fault("sections") /\ stale' = TRUE /\ UNCHANGED sections
  /\ UNCHANGED <<long, draft, messages, progress, summary, outbox, fix, logged, calls>>
BeginSections(w) == At(w, "delete") /\ DeleteSections(w, "sections")

\* one section: the model names its end, and the section is upserted
With(i, x) == [j \in DOMAIN sections \cup {i} |-> IF j = i THEN x ELSE sections[j]]
SaveSection(w) ==
  LET c == call[w] IN
    /\ At(w, "sections") /\ c.next <= N
    /\ \E e \in Ends(c.next) :
         /\ sections' = With(c.index, [from |-> c.next, to |-> e])
         /\ call' = [call EXCEPT ![w].next = e + 1, ![w].index = @ + 1]
    /\ UNCHANGED <<long, draft, messages, progress, summary, outbox, fix, logged, stale, faults, calls>>
SectionFails(w) == At(w, "sections") /\ call[w].next <= N /\ (Loses(w, "llm", "sections") \/ Loses(w, "db", "sections"))
\* the topic does not end in the longest window: back to one summary of everything
TopicNotFound(w) == At(w, "sections") /\ call[w].next <= N /\ TopicOpen(call[w].next) /\ DeleteSections(w, "normal")
SectionsDone(w) ==
  /\ At(w, "sections") /\ call[w].next > N /\ Move(w, "merge")
  /\ UNCHANGED <<long, rows, fix, logged, stale, faults, calls>>
--------------------------------------------------------------------------------
(* The overall context of the sections, and the summary of a short room.         *)

ReadSections(w) ==
  /\ At(w, "merge") /\ sections # None
  /\ call' = [call EXCEPT ![w].at = "overall", ![w].seen = sections]
  /\ UNCHANGED <<long, rows, fix, logged, stale, faults, calls>>
\* no section at all is an error of its own
NoSections(w) ==
  /\ At(w, "merge") /\ sections = None /\ Return(w) /\ Queue(w, "overall_context")
  /\ UNCHANGED <<long, draft, messages, progress, summary, sections, fix, stale, faults, calls>>
Overall(w) == At(w, "overall") /\ Move(w, "save") /\ UNCHANGED <<long, rows, fix, logged, stale, faults, calls>>
OverallFails(w) == \/ At(w, "merge") /\ Loses(w, "db", "overall_context")
                   \/ At(w, "overall") /\ Loses(w, "llm", "overall_context")
\* update_room_summary_data
Updates(w, of) ==
  /\ summary' = [by |-> call[w].kind, of |-> of] /\ Return(w)
  /\ UNCHANGED <<long, draft, messages, progress, sections, outbox, fix, logged, stale, faults, calls>>
SaveOverall(w) == At(w, "save") /\ Updates(w, call[w].seen)
SaveOverallFails(w) == At(w, "save") /\ Loses(w, "db", "overall_context")

Whole == <<[from |-> 1, to |-> N]>>
SaveNormal(w) == At(w, "normal") /\ Updates(w, Whole)
NormalFails(w) == At(w, "normal") /\ Loses(w, "llm", "summary")
\* this UPDATE has no task in the outbox, only a line in the log
SaveNormalFails(w) ==
  /\ At(w, "normal") /\ Fault("db") /\ Return(w) /\ logged' = TRUE
  /\ UNCHANGED <<long, rows, fix, stale, calls>>
--------------------------------------------------------------------------------
Crash ==
  /\ Fault("crash") /\ logged' = TRUE
  /\ call' = [w \in Summarisers |-> Idle] /\ fix' = [a \in DOMAIN fix |-> NotFixing]
  /\ UNCHANGED <<long, rows, stale, calls>>

Correction(a) == CorrectTranscript(a) \/ FixChunk(a) \/ EndFix(a) \/ FixFails(a)
Sections(w) == BeginSections(w) \/ SaveSection(w) \/ SectionFails(w) \/ TopicNotFound(w) \/ SectionsDone(w)
Merge(w) == ReadSections(w) \/ NoSections(w) \/ Overall(w) \/ OverallFails(w) \/ SaveOverall(w) \/ SaveOverallFails(w)
Normal(w) == SaveNormal(w) \/ NormalFails(w) \/ SaveNormalFails(w)
Summariser(w) == \/ Generate(w) \/ GenerateFix(w) \/ Choose(w) \/ Sections(w) \/ Merge(w) \/ Normal(w)
                 \/ \E kind \in {"summary", "sections", "overall_context"} : Retry(w, kind)
Next == \/ \E a \in Summarisers \cup Correctors : Correction(a)
        \/ \E w \in Summarisers : Summariser(w)
        \/ Crash
Spec == Init /\ [][Next]_vars
\* every call ends: the model answers or times out
Progresses == /\ \A a \in Summarisers \cup Correctors : WF_vars(FixChunk(a) \/ EndFix(a))
              /\ \A w \in Summarisers : WF_vars(GenerateFix(w) \/ Choose(w) \/ Sections(w) \/ Merge(w) \/ Normal(w))
FairSpec == Spec /\ Progresses
--------------------------------------------------------------------------------
(* Liveness; what the rows promise is in SummaryState.                           *)

\* A queued retry is taken (README.md:59 "polls `OutboxTask` rows on an interval ...
\* to retry summarization for rooms whose summary generation failed, rather than
\* losing it silently").
OutboxIsTaken == outbox # {} ~> outbox = {}
================================================================================
