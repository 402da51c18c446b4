------------------------------- MODULE SummaryState ------------------------------
(* The room whose summary is made, the rows it is made in, the calls that make it,  *)
(* and what the rows promise.                                                      *)
EXTENDS Naturals, Sequences, FiniteSets, FiniteSetsExt

CONSTANTS Stamp,          \* the messages' timestamps: HH:MM:SS, so a room past midnight starts again
          Summarisers,    \* calls of generate_summary or of the retry that may overlap
          Correctors,     \* calls of the correction endpoint that may overlap
          TailSize,       \* fewer messages than this are not left to a section of their own (5)
          Windows,        \* target_duration_min up to max_duration_min, in steps of extend_min
          ChunkDuration   \* chunk_duration_min

\* The messages are the rows of one SELECT, and a call is of one kind.
ASSUME SummaryAssumption ==
  /\ Stamp \in Seq(Nat) /\ TailSize \in Nat /\ Windows \subseteq Nat /\ ChunkDuration \in Nat
  /\ Summarisers \cap Correctors = {}

VARIABLES long,      \* the room lasted longer than threshold_min
          draft,     \* rooms_summary has the room's row
          messages,  \* its messages: those that went through the correction
          progress,  \* its correction_progress
          summary,   \* its summary_data: by which call, and of which sections
          sections,  \* rooms_section_summary: section_index -> its messages
          outbox,    \* retry types of the pending OutboxTask rows
          fix, call, \* the correction and the position of each call
          logged,    \* the code said a summary is missing, or the process crashed
          stale,     \* a DELETE or a read of the sections failed, and the code went on
          faults, calls

Messages == DOMAIN Stamp
N == Cardinality(Messages)
NoSummary == [by |-> "none", of |-> <<>>]
---------------------------------------------------------------------------------
(* Promises.                                                                     *)

\* A summary made by a call that ran the sections covers the room, whatever failed
\* before it (unless the sections themselves could not be read or deleted): no
\* message is left out between two sections or behind the last, and two sections
\* share messages only where a timestamp repeats.
Joins(x, y) == y.from = x.to + 1 \/ (y.from <= x.to /\ Stamp[y.from - 1] = Stamp[x.to])
Covers(s) == /\ 1 \in DOMAIN s /\ s[1].from = 1 /\ s[Max(DOMAIN s)].to = N
             /\ \A i \in DOMAIN s : i + 1 \in DOMAIN s => Joins(s[i], s[i + 1])
SummaryIsWhole == summary.by \in {"generate", "summary", "sections"} /\ ~stale => Covers(summary.of)

\* correction_progress never counts a message whose correction is not in the row,
\* though calls overlap, each writes the whole array it read before, and any stops
\* at any chunk.
ProgressIsTrue == 1..progress.last \subseteq messages /\ (progress.status = "completed" => messages = Messages)

\* A room without a summary has a task in the outbox or a line in the log once the
\* call that was to make it is over.
MissingIsQueued == draft /\ summary = NoSummary /\ ~logged /\ (\A w \in Summarisers : call[w].at = "idle") => outbox # {}
=================================================================================
