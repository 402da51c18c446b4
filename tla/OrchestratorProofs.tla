---------------------------- MODULE OrchestratorProofs ---------------------------
(* What TLAPS proves of two parts of the orchestrator: of RoomSummary for every list *)
(* of messages, every set of calls and any number of failures, its type and its      *)
(* three invariants; and of EventChannels for every set of clients and connections   *)
(* and any number of events, what the newest connection of an app is promised.       *)
EXTENDS RoomSummary, EventState, FiniteSetTheorems, WellFoundedInduction, TLAPS
--------------------------------------------------------------------------------
(* Types.                                                                          *)

All == Summarisers \cup Correctors
CallKinds == {"generate", "summary", "sections", "overall_context"}
Ats == {"idle", "fix", "fixing", "choose", "delete", "normal", "sections", "merge", "overall", "save"}
Section == [from : Nat, to : Messages]
Tables == (UNION {[S -> Section] : S \in SUBSET (Nat \ {0})}) \cup {<<>>, Whole}
Fixes == [at : {"none", "run"}, next : 1..(N + 1), done : SUBSET Messages]
Calls == [at : Ats, kind : CallKinds \cup {"none"}, next : 1..(N + 1), index : Nat \ {0}, seen : Tables]
\* The sections of a room, of which there are finitely many.
Table(s) == \E n \in Nat : \E S \in SUBSET (1..n) : s \in [S -> Section]

TypeOK ==
  /\ long \in BOOLEAN /\ draft \in BOOLEAN /\ messages \in SUBSET Messages
  /\ progress \in [status : {"none", "in_progress", "completed"}, last : 0..N]
  /\ summary \in [by : CallKinds \cup {"none"}, of : Tables] /\ Table(sections)
  /\ outbox \in SUBSET {"summary", "sections", "overall_context"}
  /\ fix \in [All -> Fixes] /\ call \in [Summarisers -> Calls]
  /\ logged \in BOOLEAN /\ stale \in BOOLEAN /\ faults \in Nat /\ calls \in Nat
--------------------------------------------------------------------------------
(* The three invariants, strengthened.                                             *)

\* A correction that runs has corrected, or found corrected, all that it left behind.
Behind(f) == f.at = "run" => 1..(f.next - 1) \subseteq f.done
Corrected == (\A a \in All : Behind(fix[a])) /\ ProgressIsTrue

\* A call is of some kind, one that waits for its correction is at it, and one that has
\* not begun the sections is at the first.
Positioned ==
  \A w \in Summarisers :
    /\ call[w].at # "idle" => call[w].kind \in CallKinds
    /\ fix[w].at = "run" => call[w].at = "fixing"
    /\ call[w].at \in {"fix", "fixing", "choose", "delete"} => call[w].next = 1 /\ call[w].index = 1

\* A room of whose summary nothing says it is missing has the first call still at work.
Generating(w) == call[w].kind = "generate" /\ call[w].at # "idle"
Minded == draft /\ summary = NoSummary /\ ~logged /\ outbox = {} => \E w \in Summarisers : Generating(w)

\* The first n sections join, and a call at the next one goes on where they end.
Partial(s, n) == /\ s \in [1..n -> Section] /\ s[1].from = 1
                 /\ \A i \in 1..(n - 1) : Joins(s[i], s[i + 1])
Follows(next, x) == next = x.to + 1 \/ (next <= x.to /\ next > 1 /\ Stamp[next - 1] = Stamp[x.to])
OnCourse(s, c) == \/ s = None /\ c.next = 1 /\ c.index = 1
                  \/ c.index > 1 /\ Partial(s, c.index - 1) /\ Follows(c.next, s[c.index - 1])
\* What the sections, the call and the summary have in common.
InStep(s, c, made) ==
  /\ s = None \/ \E n \in Nat \ {0} : Partial(s, n)
  /\ c.at = "sections" => OnCourse(s, c)
  /\ c.kind # "overall_context" /\ c.at = "merge" => s = None \/ Covers(s)
  /\ c.kind # "overall_context" /\ c.at \in {"overall", "save"} => Covers(c.seen)
  /\ made.by \in {"generate", "summary", "sections"} => Covers(made.of)
Joined == ~stale => \A w \in Summarisers : InStep(sections, call[w], summary)
--------------------------------------------------------------------------------
(* Smallest and largest numbers.                                                   *)

LEMMA Smallest ==
  ASSUME NEW S, S \subseteq Nat, S # {}
  PROVE  Min(S) \in S /\ \A x \in S : Min(S) <= x
<1> DEFINE R == {rs \in Nat \X Nat : rs[1] < rs[2]}
<1>1. IsWellFoundedOn(R, Nat)
  BY NatLessThanWellFounded DEF OpToRel
<1>2. \A x, y \in Nat : <<x, y>> \in R <=> x < y
  OBVIOUS
<1> HIDE DEF R
<1>3. PICK m \in S : \A y \in S : <<y, m>> \notin R
  BY <1>1, WFMin, Zenon
<1>4. \A y \in S : m <= y
  <2> SUFFICES ASSUME NEW y \in S PROVE m <= y
    OBVIOUS
  <2>1. y \in Nat /\ m \in Nat
    OBVIOUS
  <2>2. ~(y < m)
    BY <1>2, <1>3, <2>1, Zenon
  <2> QED
    BY <2>1, <2>2
<1> QED
  BY <1>4 DEF Min

LEMMA Largest ==
  ASSUME NEW n \in Nat, NEW S, S \subseteq 1..n, S # {}
  PROVE  Max(S) \in S /\ \A x \in S : x <= Max(S)
<1> DEFINE D == {n - x : x \in S}
<1>1. D \subseteq Nat /\ D # {}
  <2>1. \A x \in S : x \in Nat /\ n - x \in Nat
    OBVIOUS
  <2> QED
    BY <2>1
<1> HIDE DEF D
<1>2. Min(D) \in D /\ \A y \in D : Min(D) <= y
  BY <1>1, Smallest
<1>3. PICK m \in S : Min(D) = n - m
  BY <1>2 DEF D
<1>4. \A x \in S : n - m <= n - x
  BY <1>2, <1>3 DEF D
<1>5. \A x \in S : x <= m
  BY <1>4
<1> QED
  BY <1>5 DEF Max

--------------------------------------------------------------------------------
(* Windows of messages.                                                            *)

LEMMA Numbered == N \in Nat /\ Messages = 1..N
<1>1. Messages = 1..Len(Stamp) /\ Len(Stamp) \in Nat
  BY SummaryAssumption DEF Messages
<1>2. Cardinality(1..Len(Stamp)) = Len(Stamp)
  <2>1. PICK n \in Nat : n = Len(Stamp)
    BY <1>1
  <2>2. Cardinality(1..n) = IF 1 > n THEN 0 ELSE n - 1 + 1
    <3>1. 1 \in Int /\ n \in Int
      OBVIOUS
    <3> QED
      BY <3>1, FS_Interval, Zenon
  <2> QED
    BY <2>1, <2>2
<1> QED
  BY <1>1, <1>2 DEF N

LEMMA Stamped == \A i \in Messages : Stamp[i] \in Nat
  BY SummaryAssumption DEF Messages

LEMMA Candidate == ASSUME NEW s \in 1..N, NEW d \in Nat PROVE CandidateEnd(s, d) \in s..(N + 1)
<1> DEFINE S == {e \in s..N : Stamp[e] > Stamp[s] + d} \cup {N + 1}
<1>1. S \subseteq Nat /\ S # {} /\ S \subseteq s..(N + 1)
  BY Numbered
<1> HIDE DEF S
<1>2. Min(S) \in S
  BY <1>1, Smallest
<1> QED
  BY <1>1, <1>2 DEF CandidateEnd, S

\* A section from a message ends at it or at a later one.
LEMMA EndsIn == ASSUME NEW s \in 1..N, NEW e \in Ends(s) PROVE e \in s..N
<1>1. PICK d \in Windows : e \in LET x == SectionEnd(s, d) IN IF x = N + 1 THEN {N} ELSE EndsAt(s, x)
  BY DEF Ends
<1>2. d \in Nat
  BY SummaryAssumption
<1>3. CandidateEnd(s, d) \in s..(N + 1)
  BY <1>2, Candidate
<1>4. SectionEnd(s, d) \in s..(N + 1)
  BY <1>3, Numbered DEF SectionEnd
<1>5. CASE SectionEnd(s, d) = N + 1
  BY <1>1, <1>5, Numbered
<1>6. CASE SectionEnd(s, d) # N + 1
  <2>1. SectionEnd(s, d) \in s..N
    BY <1>4, <1>6, Numbered
  <2>2. e \in s..(SectionEnd(s, d) - 1)
    BY <1>1, <1>6 DEF EndsAt
  <2> QED
    BY <2>1, <2>2, Numbered
<1> QED
  BY <1>5, <1>6

\* process_room resumes at a message the last section may be followed by.
LEMMA Resumes ==
  ASSUME NEW x \in Section
  PROVE  ResumeAfter(x.to) \in 2..(N + 1) /\ Follows(ResumeAfter(x.to), x)
<1> DEFINE S == {i \in Messages : Stamp[i] = Stamp[x.to]}
<1>1. x.to \in Messages /\ x.to \in S
  BY DEF Section
<1>2. S \subseteq Nat
  BY Numbered
<1> HIDE DEF S
<1>3. PICK m \in S : m = Min(S) /\ m <= x.to
  BY <1>1, <1>2, Smallest
<1>4. m \in 1..N /\ Stamp[m] = Stamp[x.to] /\ x.to \in 1..N
  BY <1>1, Numbered DEF S
<1>5. ResumeAfter(x.to) = m + 1
  BY <1>3 DEF ResumeAfter, S
<1>6. m + 1 \in 2..(N + 1) /\ (m + 1) - 1 = m /\ (m + 1 = x.to + 1 \/ m + 1 <= x.to)
  BY <1>3, <1>4, Numbered
<1> QED
  BY <1>4, <1>5, <1>6 DEF Follows

--------------------------------------------------------------------------------
(* What the calls do.                                                              *)

\* A step of call w leaves it at c: nothing is written off that was not queued, logged
\* or done, and what another call relies on stays.
Steps(w, c) ==
  /\ c \in Calls /\ call' = [call EXCEPT ![w] = c] /\ call[w].at # "fixing"
  /\ c.at # "idle" => c.kind \in CallKinds
  /\ c.at \in {"fix", "fixing", "choose", "delete"} => c.next = 1 /\ c.index = 1
  /\ UNCHANGED <<long, messages, progress>> /\ draft' \in BOOLEAN /\ logged' \in BOOLEAN /\ stale' \in BOOLEAN
  /\ summary' \in [by : CallKinds \cup {"none"}, of : Tables] /\ Table(sections)' /\ faults' \in Nat /\ calls' \in Nat
  /\ outbox' \in SUBSET {"summary", "sections", "overall_context"}
  /\ fix' \in [All -> Fixes] /\ \A a \in All \ {w} : fix'[a] = fix[a]
  /\ \/ fix'[w] = fix[w]
     \/ Behind(fix'[w]) /\ c.at \in {"choose", "fixing"} /\ (fix'[w].at = "run" => c.at = "fixing")
  /\ (logged => logged') /\ outbox \subseteq outbox' /\ (summary' = NoSummary => summary = NoSummary)
  /\ draft' /\ ~draft => c.kind = "generate" /\ c.at # "idle"
  /\ Generating(w) /\ c.at = "idle" => logged' \/ outbox' # {} \/ summary' # NoSummary
  /\ Generating(w) /\ c.at # "idle" => c.kind = "generate"

LEMMA Ready == /\ Idle \in Calls /\ Idle.at = "idle" /\ 1 \in 1..(N + 1)
               /\ NotFixing \in Fixes /\ Table(None) /\ NoSummary \in [by : CallKinds \cup {"none"}, of : Tables]
<1>1. 1 \in 1..(N + 1)
  BY Numbered
<1>2. <<>> \in Tables
  BY Zenon DEF Tables
<1>3. None \in [{} -> Section]
  <2>1. \A e, S : [i \in {} |-> e] \in [{} -> S]
    OBVIOUS
  <2>2. [i \in {} |-> <<>>] \in [{} -> Section]
    BY <2>1, Zenon
  <2> QED
    BY <2>2, Zenon DEF None
<1>8. {} \in SUBSET (1..0) /\ 0 \in Nat
  OBVIOUS
<1>4. Table(None)
  BY <1>3, <1>8, Zenon DEF Table
<1>5. Idle \in Calls /\ Idle.at = "idle"
  BY <1>1, <1>2 DEF Idle, Calls, Ats
<1>6. NoSummary \in [by : CallKinds \cup {"none"}, of : Tables]
  BY <1>2 DEF NoSummary
<1>7. NotFixing \in Fixes
  BY <1>1 DEF NotFixing, Fixes
<1> QED
  BY <1>1, <1>4, <1>5, <1>6, <1>7

LEMMA Failing == ASSUME TypeOK, NEW f, Fault(f) PROVE faults' \in Nat
  BY DEF TypeOK, Fault

LEMMA Losing ==
  ASSUME TypeOK, NEW w \in Summarisers, NEW f, NEW type \in {"summary", "sections", "overall_context"},
         Loses(w, f, type), call[w].at # "fixing"
  PROVE  Steps(w, Idle)
<1>1. call' = [call EXCEPT ![w] = Idle] /\ UNCHANGED <<long, draft, messages, progress, summary, sections, fix, stale, calls>>
  BY DEF Loses, Return
<1>2. faults' \in Nat
  BY Failing DEF Loses, TypeOK
<1>3. /\ logged' \in BOOLEAN /\ outbox' \in SUBSET {"summary", "sections", "overall_context"}
      /\ (logged => logged') /\ outbox \subseteq outbox'
      /\ call[w].kind = "generate" => logged' \/ outbox' # {}
  BY DEF Loses, Queue, TypeOK
<1>4. Table(sections)'
  BY <1>1 DEF Table, TypeOK
<1> QED
  <2>1. Idle \in Calls /\ Idle.at = "idle" /\ call' = [call EXCEPT ![w] = Idle] /\ call[w].at # "fixing"
    BY <1>1, Ready
  <2>2. /\ UNCHANGED <<long, messages, progress>> /\ draft' \in BOOLEAN /\ logged' \in BOOLEAN /\ stale' \in BOOLEAN
        /\ summary' \in [by : CallKinds \cup {"none"}, of : Tables] /\ Table(sections)' /\ faults' \in Nat /\ calls' \in Nat
        /\ outbox' \in SUBSET {"summary", "sections", "overall_context"}
        /\ fix' \in [All -> Fixes] /\ fix' = fix /\ summary' = summary /\ draft' = draft
    BY <1>1, <1>2, <1>3, <1>4 DEF TypeOK
  <2> QED
    BY <1>3, <2>1, <2>2 DEF Steps, Generating

\* A call that moves on and changes nothing else but what the hypotheses name.
LEMMA MovesOn ==
  ASSUME TypeOK, Positioned, NEW w \in Summarisers, NEW s \in Ats \ {"idle", "fix", "fixing"}, Move(w, s),
         call[w].at \in Ats \ {"idle", "fixing"}, s \in {"choose", "delete"} => call[w].next = 1 /\ call[w].index = 1,
         UNCHANGED <<long, draft, messages, progress, summary, outbox, fix, logged, calls>>,
         Table(sections)', stale' \in BOOLEAN, faults' \in Nat
  PROVE  Steps(w, [call[w] EXCEPT !.at = s])
<1> DEFINE c == [call[w] EXCEPT !.at = s]
<1>1. call[w] \in Calls
  BY DEF TypeOK
<1>2. /\ c \in Calls /\ c.at = s /\ c.kind = call[w].kind /\ c.next = call[w].next /\ c.index = call[w].index
  BY <1>1 DEF Calls
<1>3. call' = [call EXCEPT ![w] = c]
  BY DEF Move, TypeOK
<1>4. call[w].kind \in CallKinds
  BY DEF Positioned
<1> HIDE DEF c
<1> QED
  <2>1. /\ UNCHANGED <<long, messages, progress>> /\ draft' \in BOOLEAN /\ logged' \in BOOLEAN /\ stale' \in BOOLEAN
        /\ summary' \in [by : CallKinds \cup {"none"}, of : Tables] /\ Table(sections)' /\ faults' \in Nat /\ calls' \in Nat
        /\ outbox' \in SUBSET {"summary", "sections", "overall_context"}
        /\ fix' \in [All -> Fixes] /\ fix' = fix /\ summary' = summary /\ draft' = draft /\ logged' = logged /\ outbox' = outbox
    BY DEF TypeOK
  <2>2. Steps(w, c)
    BY <1>2, <1>3, <1>4, <2>1 DEF Steps, Generating
  <2> QED
    BY <2>2 DEF c

LEMMA Deleting ==
  ASSUME TypeOK, NEW w, NEW s, DeleteSections(w, s)
  PROVE  Move(w, s) /\ Table(sections)' /\ stale' \in BOOLEAN /\ faults' \in Nat
         /\ UNCHANGED <<long, draft, messages, progress, summary, outbox, fix, logged, calls>>
         /\ ((stale' = stale /\ sections' = None) \/ stale')
<1>1. (sections' = None /\ UNCHANGED <<stale, faults>>) \/ (Fault("sections") /\ stale' = TRUE /\ UNCHANGED sections)
  BY DEF DeleteSections
<1>2. Table(sections)'
  <2>1. CASE sections' = None
    <3>1. Table(None)
      BY Ready
    <3> QED
      BY <2>1, <3>1 DEF Table
  <2>2. CASE sections' = sections
    <3>1. Table(sections)
      BY DEF TypeOK
    <3> QED
      BY <2>2, <3>1 DEF Table
  <2> QED
    BY <1>1, <2>1, <2>2
<1> QED
  BY <1>1, <1>2, Failing DEF DeleteSections, TypeOK

\* The last section there is.
LEMMA LastOne ==
  ASSUME Table(sections), sections # None
  PROVE  /\ LastIndex \in DOMAIN sections /\ LastIndex \in Nat \ {0} /\ sections[LastIndex] \in Section
         /\ \A i \in DOMAIN sections : i <= LastIndex
<1>1. PICK n \in Nat : \E T \in SUBSET (1..n) : sections \in [T -> Section]
  BY DEF Table
<1>2. PICK T \in SUBSET (1..n) : sections \in [T -> Section]
  BY <1>1
<1>3. DOMAIN sections = T
  BY <1>2
<1>4. T # {}
  <2>1. ASSUME T = {} PROVE sections = None
    <3>1. sections = [i \in {} |-> sections[i]]
      BY <1>2, <2>1
    <3>2. [i \in {} |-> sections[i]] = [i \in {} |-> <<>>]
      OBVIOUS
    <3> QED
      BY <3>1, <3>2 DEF None
  <2> QED
    BY <2>1
<1>5. Max(T) \in T /\ \A i \in T : i <= Max(T)
  BY <1>4, Largest
<1>6. LastIndex = Max(T)
  BY <1>3 DEF LastIndex
<1>7. \A i \in T : i \in Nat \ {0}
  OBVIOUS
<1>8. Max(T) \in Nat \ {0} /\ sections[Max(T)] \in Section
  BY <1>2, <1>5, <1>7
<1> QED
  BY <1>3, <1>5, <1>6, <1>8

LEMMA GenerateSteps ==
  ASSUME TypeOK, Positioned, NEW w \in Summarisers, Generate(w)
  PROVE  \E c \in Calls : Steps(w, c)
<1>0. call[w] \in Calls /\ call[w].at = "idle" /\ calls' \in Nat
  BY DEF Generate, At, Called, TypeOK
<1>1. UNCHANGED <<long, messages, progress, summary, sections, outbox, fix, stale>> /\ Table(sections)'
  BY DEF Generate, Table, TypeOK
<1> DEFINE c == [Idle EXCEPT !.at = "fix", !.kind = "generate"]
<1>2. Idle \in Calls /\ Idle.next = 1 /\ Idle.index = 1
  BY Ready DEF Idle
<1>3. c \in Calls /\ c.at = "fix" /\ c.kind = "generate" /\ c.next = 1 /\ c.index = 1
  BY <1>2 DEF Calls, Ats, CallKinds
<1>4. CASE draft' = TRUE /\ call' = [call EXCEPT ![w] = c] /\ UNCHANGED <<logged, faults>>
  <2>1. Steps(w, c)
    <3> HIDE DEF c
    <3>1. summary' \in [by : CallKinds \cup {"none"}, of : Tables] /\ fix' \in [All -> Fixes] /\ faults' \in Nat
      BY <1>1, <1>4 DEF TypeOK
    <3>2. c.kind \in CallKinds
      BY <1>3 DEF CallKinds
    <3> QED
      BY <1>0, <1>1, <1>3, <1>4, <3>1, <3>2 DEF Steps, TypeOK, Generating
  <2> QED
    BY <1>3, <2>1
<1>5. CASE call' = call /\ draft' = draft /\ faults' \in Nat /\ logged' \in BOOLEAN /\ (logged => logged')
  <2>1. call' = [call EXCEPT ![w] = call[w]]
    BY <1>5 DEF TypeOK
  <2>2. summary' \in [by : CallKinds \cup {"none"}, of : Tables] /\ fix' \in [All -> Fixes]
    BY <1>1, <1>5 DEF TypeOK
  <2>3. Steps(w, call[w])
    BY <1>0, <1>1, <1>5, <2>1, <2>2 DEF Steps, TypeOK, Generating
  <2> QED
    BY <1>0, <2>3
<1> QED
  <2>1. \/ draft' = TRUE /\ call' = [call EXCEPT ![w] = c] /\ UNCHANGED <<logged, faults>>
        \/ Fault("db") /\ logged' = TRUE /\ UNCHANGED <<draft, call>>
        \/ UNCHANGED <<draft, call, logged, faults>>
    BY DEF Generate
  <2>2. logged \in BOOLEAN /\ faults \in Nat
    BY DEF TypeOK
  <2>3. Fault("db") => faults' \in Nat
    BY Failing
  <2> HIDE DEF c
  <2> QED
    BY <1>4, <1>5, <2>1, <2>2, <2>3

LEMMA GenerateFixSteps ==
  ASSUME TypeOK, Corrected, Positioned, NEW w \in Summarisers, GenerateFix(w)
  PROVE  \E c \in Calls : Steps(w, c)
<1> DEFINE s == IF Skipped(FALSE) THEN "choose" ELSE "fixing"
           c == [call[w] EXCEPT !.at = s]
<1>1. call[w] \in Calls /\ call[w].at = "fix" /\ call[w].kind \in CallKinds /\ call[w].next = 1 /\ call[w].index = 1
  BY DEF GenerateFix, At, TypeOK, Positioned
<1>2. c \in Calls /\ c.at = s /\ c.kind = call[w].kind /\ c.next = 1 /\ c.index = 1
  BY <1>1 DEF Calls, Ats
<1>3. call' = [call EXCEPT ![w] = c]
  BY DEF GenerateFix, Move, TypeOK
<1>4. UNCHANGED <<long, draft, messages, progress, summary, sections, outbox, logged, stale, faults, calls>> /\ Table(sections)'
  BY DEF GenerateFix, rows, Table, TypeOK
<1>5. w \in All
  BY DEF All
<1> DEFINE f == [at |-> "run", next |-> FixFrom(FALSE), done |-> messages]
<1>6. f \in Fixes /\ Behind(f)
  <2>1. progress.last \in 0..N /\ 1..progress.last \subseteq messages /\ messages \in SUBSET Messages
    BY DEF TypeOK, Corrected, ProgressIsTrue
  <2>2. FixFrom(FALSE) \in 1..(N + 1) /\ 1..(FixFrom(FALSE) - 1) \subseteq messages
    BY <2>1, Numbered DEF FixFrom, ResumeFix
  <2> QED
    BY <2>1, <2>2 DEF Fixes, Behind
<1>7. \/ Skipped(FALSE) /\ fix' = fix
      \/ ~Skipped(FALSE) /\ fix' = [fix EXCEPT ![w] = f]
  BY DEF GenerateFix, BeginFix
<1>8. fix \in [All -> Fixes] /\ fix[w].at = "none"
  BY DEF TypeOK, GenerateFix, BeginFix
<1>9. /\ fix' \in [All -> Fixes] /\ \A a \in All \ {w} : fix'[a] = fix[a]
      /\ \/ fix'[w] = fix[w]
         \/ Behind(fix'[w]) /\ s \in {"choose", "fixing"} /\ (fix'[w].at = "run" => s = "fixing")
  <2> HIDE DEF f
  <2> QED
    BY <1>5, <1>6, <1>7, <1>8
<1>10. summary' \in [by : CallKinds \cup {"none"}, of : Tables] /\ faults' \in Nat /\ calls' \in Nat
  BY <1>4 DEF TypeOK
<1>11. s # "idle"
  OBVIOUS
<1> HIDE DEF c, s
<1>12. Steps(w, c)
  BY <1>1, <1>2, <1>3, <1>4, <1>9, <1>10, <1>11 DEF Steps, TypeOK, Generating
<1> QED
  BY <1>2, <1>12

LEMMA RetrySteps ==
  ASSUME TypeOK, NEW w \in Summarisers, NEW kind \in {"summary", "sections", "overall_context"}, Retry(w, kind)
  PROVE  /\ \E c \in Calls : Steps(w, c)
         /\ stale' = stale \/ stale'
<1> DEFINE to == RetryAt(kind)
<1>1. /\ call[w].at = "idle" /\ calls' \in Nat /\ draft
      /\ UNCHANGED <<long, messages, progress, summary, sections, outbox, draft, fix, logged>> /\ Table(sections)'
  BY DEF Retry, At, Called, TypeOK, rows, Table
<1>2. to \in {"normal", "merge", "sections", "delete"} /\ (to = "sections" => sections # None)
  BY DEF RetryAt, TypeOK
<1>3. kind \in CallKinds /\ FirstSection.next = 1 /\ FirstSection.index = 1
  BY DEF CallKinds, FirstSection
<1>4. PICK s \in {"normal", "merge", "sections", "delete"}, from \in {ResumesAt, FirstSection} :
        /\ Begins(w, s, kind, from) /\ (s = "delete" => from = FirstSection)
        /\ from = FirstSection \/ (from = ResumesAt /\ to = "sections")
        /\ faults' \in Nat /\ (stale' = stale \/ stale' = TRUE)
  <2>1. CASE Begins(w, to, kind, IF to = "sections" THEN ResumesAt ELSE FirstSection) /\ UNCHANGED <<stale, faults>>
    <3>1. faults' \in Nat /\ stale' = stale
      BY <2>1 DEF TypeOK
    <3>2. CASE to = "sections"
      <4>1. Begins(w, "sections", kind, ResumesAt)
        BY <2>1, <3>2
      <4> HIDE DEF to
      <4> QED
        BY <3>1, <3>2, <4>1
    <3>3. CASE to # "sections"
      <4>1. Begins(w, to, kind, FirstSection)
        BY <2>1, <3>3
      <4> HIDE DEF to
      <4> QED
        BY <1>2, <3>1, <3>3, <4>1
    <3> QED
      BY <3>2, <3>3
  <2>2. CASE /\ to = "sections" /\ Fault("sections") /\ \E s \in {"delete", "sections"} : Begins(w, s, kind, FirstSection)
             /\ stale' = TRUE
    BY <2>2, Failing DEF TypeOK
  <2> QED
    BY <2>1, <2>2 DEF Retry
<1>5. from.next \in 1..(N + 1) /\ from.index \in Nat \ {0}
  <2>1. CASE from = FirstSection
    BY <1>3, <2>1, Ready
  <2>2. CASE from = ResumesAt /\ to = "sections"
    <3>1. sections[LastIndex] \in Section /\ LastIndex \in Nat \ {0}
      BY <1>2, <2>2, LastOne DEF TypeOK
    <3>2. ResumeAfter(sections[LastIndex].to) \in 2..(N + 1)
      BY <3>1, Resumes
    <3>3. from.next = ResumeAfter(sections[LastIndex].to) /\ from.index = LastIndex + 1
      BY <2>2 DEF ResumesAt
    <3> QED
      BY <3>1, <3>2, <3>3, Numbered
  <2> QED
    BY <1>4, <2>1, <2>2
<1> DEFINE d == [Idle EXCEPT !.at = s, !.kind = kind, !.next = from.next, !.index = from.index]
<1>6. PICK c : /\ c \in Calls /\ c.at = s /\ c.kind = kind /\ c.next = from.next /\ c.index = from.index
               /\ call' = [call EXCEPT ![w] = c]
  <2>1. s \in Ats
    BY DEF Ats
  <2>2. d \in Calls /\ d.at = s /\ d.kind = kind /\ d.next = from.next /\ d.index = from.index
    BY <1>3, <1>5, <2>1, Ready DEF Calls
  <2>3. call' = [call EXCEPT ![w] = d]
    BY <1>4 DEF Begins
  <2> HIDE DEF d
  <2> QED
    BY <2>2, <2>3
<1>7. summary' \in [by : CallKinds \cup {"none"}, of : Tables] /\ fix' \in [All -> Fixes] /\ stale' \in BOOLEAN /\ draft' \in BOOLEAN
  BY <1>1, <1>4 DEF TypeOK
<1>8. Steps(w, c)
  BY <1>1, <1>3, <1>4, <1>6, <1>7 DEF Steps, TypeOK, Generating
<1> QED
  BY <1>4, <1>6, <1>8

\* The sections with one more, or with one replaced.
LEMMA OneMore ==
  ASSUME Table(sections), NEW i \in Nat \ {0}, NEW x \in Section
  PROVE  /\ \E n \in Nat : \E S \in SUBSET (1..n) : With(i, x) \in [S -> Section]
         /\ DOMAIN With(i, x) = DOMAIN sections \cup {i} /\ With(i, x)[i] = x
         /\ \A j \in DOMAIN sections \ {i} : With(i, x)[j] = sections[j]
<1>1. PICK n \in Nat : \E S \in SUBSET (1..n) : sections \in [S -> Section]
  BY DEF Table
<1>2. PICK S \in SUBSET (1..n) : sections \in [S -> Section]
  BY <1>1
<1>3. S \cup {i} \in SUBSET (1..(n + i)) /\ n + i \in Nat
  OBVIOUS
<1>4. DOMAIN sections = S
  BY <1>2
<1>5. With(i, x) = [j \in S \cup {i} |-> IF j = i THEN x ELSE sections[j]]
  BY <1>4 DEF With
<1>6. With(i, x) \in [S \cup {i} -> Section]
  <2>1. \A j \in S \cup {i} : (IF j = i THEN x ELSE sections[j]) \in Section
    BY <1>2
  <2> QED
    BY <1>5, <2>1
<1>7. \E T \in SUBSET (1..(n + i)) : With(i, x) \in [T -> Section]
  BY <1>3, <1>6, Zenon
<1>8. \E m \in Nat : \E T \in SUBSET (1..m) : With(i, x) \in [T -> Section]
  BY <1>3, <1>7, Zenon
<1> QED
  BY <1>4, <1>5, <1>8

LEMMA Listed == ASSUME Table(sections) PROVE sections \in Tables
<1>1. PICK n \in Nat : \E S \in SUBSET (1..n) : sections \in [S -> Section]
  BY DEF Table
<1>2. PICK S \in SUBSET (1..n) : sections \in [S -> Section]
  BY <1>1
<1>3. S \in SUBSET (Nat \ {0})
  BY <1>2
<1>4. [S -> Section] \in {[T -> Section] : T \in SUBSET (Nat \ {0})}
  BY <1>3
<1>5. sections \in UNION {[T -> Section] : T \in SUBSET (Nat \ {0})}
  BY <1>2, <1>4, Zenon
<1> QED
  BY <1>5, Zenon DEF Tables

LEMMA SectionSteps ==
  ASSUME TypeOK, Positioned, NEW w \in Summarisers, Choose(w) \/ Sections(w)
  PROVE  \E c \in Calls : Steps(w, c)
<1>0. call[w] \in Calls
  BY DEF TypeOK
<1> DEFINE Goal == \E c \in Calls : Steps(w, c)
<1>1. ASSUME NEW s \in Ats \ {"idle", "fix", "fixing"}, Steps(w, [call[w] EXCEPT !.at = s]) PROVE Goal
  <2>1. [call[w] EXCEPT !.at = s] \in Calls
    BY <1>0 DEF Calls
  <2> QED
    BY <1>1, <2>1
<1>2. CASE Choose(w)
  <2>1. call[w].at = "choose" /\ call[w].next = 1 /\ call[w].index = 1
    BY <1>2 DEF Choose, At, Positioned
  <2>2. PICK s \in {"delete", "normal"} : Move(w, s)
    BY <1>2 DEF Choose
  <2>3. UNCHANGED <<long, draft, messages, progress, summary, sections, outbox, fix, logged, stale, faults, calls>>
    BY <1>2 DEF Choose, rows
  <2>4. Table(sections)' /\ stale' \in BOOLEAN /\ faults' \in Nat
    BY <2>3 DEF TypeOK, Table
  <2>5. s \in Ats \ {"idle", "fix", "fixing"} /\ call[w].at \in Ats \ {"idle", "fixing"}
    BY <2>1 DEF Ats
  <2>6. Steps(w, [call[w] EXCEPT !.at = s])
    BY <2>1, <2>2, <2>3, <2>4, <2>5, MovesOn
  <2> QED
    BY <1>1, <2>5, <2>6
<1>3. ASSUME NEW s \in {"sections", "normal"}, DeleteSections(w, s), call[w].at \in {"delete", "sections"} PROVE Goal
  <2>1. Move(w, s) /\ Table(sections)' /\ stale' \in BOOLEAN /\ faults' \in Nat
        /\ UNCHANGED <<long, draft, messages, progress, summary, outbox, fix, logged, calls>>
    BY <1>3, Deleting
  <2>2. s \in Ats \ {"idle", "fix", "fixing"} /\ call[w].at \in Ats \ {"idle", "fixing"} /\ s \notin {"choose", "delete"}
    BY <1>3 DEF Ats
  <2>3. Steps(w, [call[w] EXCEPT !.at = s])
    BY <2>1, <2>2, MovesOn
  <2> HIDE DEF Goal
  <2> QED
    BY <1>1, <2>2, <2>3
<1>4. CASE BeginSections(w)
  BY <1>3, <1>4 DEF BeginSections, At
<1>5. CASE TopicNotFound(w)
  BY <1>3, <1>5 DEF TopicNotFound, At
<1>6. CASE SectionsDone(w)
  <2>1. UNCHANGED <<long, draft, messages, progress, summary, sections, outbox, fix, logged, stale, faults, calls>>
    BY <1>6 DEF SectionsDone, rows
  <2>2. Table(sections)' /\ stale' \in BOOLEAN /\ faults' \in Nat /\ Move(w, "merge") /\ call[w].at = "sections"
    BY <1>6, <2>1 DEF TypeOK, Table, SectionsDone, At
  <2>3. "merge" \in Ats \ {"idle", "fix", "fixing"} /\ call[w].at \in Ats \ {"idle", "fixing"}
    BY <2>2 DEF Ats
  <2>4. Steps(w, [call[w] EXCEPT !.at = "merge"])
    BY <2>1, <2>2, <2>3, MovesOn
  <2> QED
    BY <1>1, <2>3, <2>4
<1>7. CASE SectionFails(w)
  <2>1. call[w].at # "fixing"
    BY <1>7 DEF SectionFails, At
  <2>2. Steps(w, Idle)
    BY <1>7, <2>1, Losing DEF SectionFails
  <2> QED
    BY <2>2, Ready
<1>8. CASE SaveSection(w)
  <2>1. PICK e \in Ends(call[w].next) :
          /\ sections' = With(call[w].index, [from |-> call[w].next, to |-> e])
          /\ call' = [call EXCEPT ![w].next = e + 1, ![w].index = @ + 1]
    BY <1>8 DEF SaveSection
  <2>2. call[w].at = "sections" /\ call[w].next \in 1..N /\ call[w].index \in Nat \ {0} /\ call[w].kind \in CallKinds
    BY <1>0, <1>8, Numbered DEF SaveSection, At, Calls, Positioned
  <2>3. e \in 1..N /\ e + 1 \in 1..(N + 1)
    <3>1. e \in (call[w].next)..N
      BY <2>2, EndsIn
    <3> QED
      BY <2>2, <3>1, Numbered
  <2> DEFINE x == [from |-> call[w].next, to |-> e]
             c == [call[w] EXCEPT !.next = e + 1, !.index = call[w].index + 1]
  <2>4. x \in Section
    BY <2>2, <2>3, Numbered DEF Section
  <2>5. Table(sections)'
    <3> HIDE DEF x
    <3>1. \E n \in Nat : \E S \in SUBSET (1..n) : With(call[w].index, x) \in [S -> Section]
      BY <2>2, <2>4, OneMore DEF TypeOK
    <3>2. sections' = With(call[w].index, x)
      BY <2>1 DEF x
    <3> QED
      BY <3>1, <3>2 DEF Table
  <2>6. c \in Calls /\ c.at = "sections" /\ c.kind = call[w].kind
    <3>1. PICK k \in Nat \ {0}, n \in 1..(N + 1) : k = call[w].index + 1 /\ n = e + 1
      BY <2>2, <2>3
    <3>2. c = [call[w] EXCEPT !.next = n, !.index = k]
      BY <3>1
    <3> QED
      BY <1>0, <2>2, <3>2 DEF Calls
  <2>7. call' = [call EXCEPT ![w] = c]
    BY <1>0, <2>1 DEF TypeOK, Calls
  <2>8. UNCHANGED <<long, draft, messages, progress, summary, outbox, fix, logged, stale, faults, calls>>
    BY <1>8 DEF SaveSection
  <2>9. /\ summary' \in [by : CallKinds \cup {"none"}, of : Tables] /\ fix' \in [All -> Fixes] /\ faults' \in Nat /\ calls' \in Nat
        /\ outbox' \in SUBSET {"summary", "sections", "overall_context"}
        /\ draft' \in BOOLEAN /\ logged' \in BOOLEAN /\ stale' \in BOOLEAN
    BY <2>8 DEF TypeOK
  <2> HIDE DEF c, x
  <2>10. Steps(w, c)
    BY <2>2, <2>5, <2>6, <2>7, <2>8, <2>9 DEF Steps, Generating
  <2> QED
    BY <2>6, <2>10
<1> QED
  BY <1>2, <1>4, <1>5, <1>6, <1>7, <1>8 DEF Sections

LEMMA EndSteps ==
  ASSUME TypeOK, Positioned, NEW w \in Summarisers, Merge(w) \/ Normal(w)
  PROVE  \E c \in Calls : Steps(w, c)
<1>0. call[w] \in Calls /\ sections \in Tables /\ Whole \in Tables
  BY Listed DEF TypeOK, Tables
<1>1. CASE ReadSections(w)
  <2> DEFINE c == [call[w] EXCEPT !.at = "overall", !.seen = sections]
  <2>1. call[w].at = "merge" /\ call[w].kind \in CallKinds
    BY <1>1 DEF ReadSections, At, Positioned
  <2>2. c \in Calls /\ c.at = "overall" /\ c.kind = call[w].kind
    BY <1>0 DEF Calls, Ats
  <2>3. call' = [call EXCEPT ![w] = c]
    BY <1>0, <1>1 DEF TypeOK, Calls, ReadSections
  <2>4. UNCHANGED <<long, draft, messages, progress, summary, sections, outbox, fix, logged, stale, faults, calls>>
    BY <1>1 DEF ReadSections, rows
  <2>5. Table(sections)'
    BY <2>4 DEF TypeOK, Table
  <2>6. /\ summary' \in [by : CallKinds \cup {"none"}, of : Tables] /\ fix' \in [All -> Fixes] /\ faults' \in Nat /\ calls' \in Nat
        /\ outbox' \in SUBSET {"summary", "sections", "overall_context"}
        /\ draft' \in BOOLEAN /\ logged' \in BOOLEAN /\ stale' \in BOOLEAN
    BY <2>4 DEF TypeOK
  <2> HIDE DEF c
  <2>7. Steps(w, c)
    BY <2>1, <2>2, <2>3, <2>4, <2>5, <2>6 DEF Steps, Generating
  <2> QED
    BY <2>2, <2>7
<1>2. CASE Overall(w)
  <2>1. UNCHANGED <<long, draft, messages, progress, summary, sections, outbox, fix, logged, stale, faults, calls>>
    BY <1>2 DEF Overall, rows
  <2>2. Table(sections)' /\ stale' \in BOOLEAN /\ faults' \in Nat /\ Move(w, "save") /\ call[w].at = "overall"
    BY <1>2, <2>1 DEF TypeOK, Table, Overall, At
  <2>3. "save" \in Ats \ {"idle", "fix", "fixing"} /\ call[w].at \in Ats \ {"idle", "fixing"}
    BY <2>2 DEF Ats
  <2>4. Steps(w, [call[w] EXCEPT !.at = "save"])
    BY <2>1, <2>2, <2>3, MovesOn
  <2>5. [call[w] EXCEPT !.at = "save"] \in Calls
    BY <1>0 DEF Calls, Ats
  <2> QED
    BY <2>4, <2>5
<1>3. CASE NoSections(w)
  <2>1. call' = [call EXCEPT ![w] = Idle] /\ call[w].at = "merge"
    BY <1>3 DEF NoSections, At, Return
  <2>2. UNCHANGED <<long, draft, messages, progress, summary, sections, fix, stale, faults, calls>>
    BY <1>3 DEF NoSections
  <2>3. Table(sections)'
    BY <2>2 DEF TypeOK, Table
  <2>4. /\ logged' \in BOOLEAN /\ outbox' \in SUBSET {"summary", "sections", "overall_context"}
        /\ (logged => logged') /\ outbox \subseteq outbox'
        /\ call[w].kind = "generate" => outbox' # {}
    BY <1>3 DEF NoSections, Queue, TypeOK
  <2>5. /\ summary' \in [by : CallKinds \cup {"none"}, of : Tables] /\ fix' \in [All -> Fixes] /\ faults' \in Nat /\ calls' \in Nat
        /\ draft' \in BOOLEAN /\ stale' \in BOOLEAN
    BY <2>2 DEF TypeOK
  <2>6. Steps(w, Idle)
    BY <2>1, <2>2, <2>3, <2>4, <2>5, Ready DEF Steps, Generating
  <2> QED
    BY <2>6, Ready
<1>4. CASE OverallFails(w) \/ SaveOverallFails(w) \/ NormalFails(w)
  <2>1. call[w].at # "fixing"
    BY <1>4 DEF OverallFails, SaveOverallFails, NormalFails, At
  <2>2. PICK f \in {"db", "llm"}, type \in {"summary", "sections", "overall_context"} : Loses(w, f, type)
    BY <1>4 DEF OverallFails, SaveOverallFails, NormalFails
  <2>3. Steps(w, Idle)
    BY <2>1, <2>2, Losing
  <2> QED
    BY <2>3, Ready
<1>5. ASSUME NEW of \in Tables, Updates(w, of), call[w].at \in {"save", "normal"} PROVE Steps(w, Idle)
  <2>1. call' = [call EXCEPT ![w] = Idle] /\ call[w].kind \in CallKinds
    BY <1>5 DEF Updates, Return, Positioned
  <2>2. UNCHANGED <<long, draft, messages, progress, sections, outbox, fix, logged, stale, faults, calls>>
    BY <1>5 DEF Updates
  <2>3. Table(sections)'
    BY <2>2 DEF TypeOK, Table
  <2>4. summary' \in [by : CallKinds \cup {"none"}, of : Tables] /\ summary' # NoSummary
    BY <1>5, <2>1 DEF Updates, NoSummary, CallKinds
  <2>5. /\ fix' \in [All -> Fixes] /\ faults' \in Nat /\ calls' \in Nat
        /\ outbox' \in SUBSET {"summary", "sections", "overall_context"}
        /\ draft' \in BOOLEAN /\ logged' \in BOOLEAN /\ stale' \in BOOLEAN
    BY <2>2 DEF TypeOK
  <2> QED
    BY <1>5, <2>1, <2>2, <2>3, <2>4, <2>5, Ready DEF Steps, Generating
<1>6. CASE SaveOverall(w)
  <2>1. Updates(w, call[w].seen) /\ call[w].seen \in Tables /\ call[w].at = "save"
    BY <1>0, <1>6 DEF SaveOverall, Calls, At
  <2> QED
    BY <1>5, <2>1, Ready
<1>7. CASE SaveNormal(w)
  <2>1. Updates(w, Whole) /\ call[w].at = "normal"
    BY <1>7 DEF SaveNormal, At
  <2> QED
    BY <1>0, <1>5, <2>1, Ready
<1>8. CASE SaveNormalFails(w)
  <2>1. call' = [call EXCEPT ![w] = Idle] /\ call[w].at = "normal" /\ logged' = TRUE
    BY <1>8 DEF SaveNormalFails, At, Return
  <2>2. UNCHANGED <<long, draft, messages, progress, summary, sections, outbox, fix, stale, calls>>
    BY <1>8 DEF SaveNormalFails, rows
  <2>3. Table(sections)'
    BY <2>2 DEF TypeOK, Table
  <2>4. faults' \in Nat
    BY <1>8, Failing DEF SaveNormalFails
  <2>5. /\ summary' \in [by : CallKinds \cup {"none"}, of : Tables] /\ fix' \in [All -> Fixes] /\ calls' \in Nat
        /\ outbox' \in SUBSET {"summary", "sections", "overall_context"}
        /\ draft' \in BOOLEAN /\ stale' \in BOOLEAN
    BY <2>2 DEF TypeOK
  <2>6. Steps(w, Idle)
    BY <2>1, <2>2, <2>3, <2>4, <2>5, Ready DEF Steps, Generating
  <2> QED
    BY <2>6, Ready
<1> QED
  BY <1>1, <1>2, <1>3, <1>4, <1>6, <1>7, <1>8 DEF Merge, Normal

LEMMA SummariserSteps ==
  ASSUME TypeOK, Corrected, Positioned, NEW w \in Summarisers, Summariser(w)
  PROVE  \E c \in Calls : Steps(w, c)
<1>1. CASE \E kind \in {"summary", "sections", "overall_context"} : Retry(w, kind)
  BY <1>1, RetrySteps
<1> QED
  BY <1>1, GenerateSteps, GenerateFixSteps, SectionSteps, EndSteps DEF Summariser

\* A step of the correction of call a leaves it at f.
Corrects(a, f) ==
  /\ f \in Fixes /\ fix' = [fix EXCEPT ![a] = f] /\ Behind(f)
  /\ f.at = "run" => fix[a].at = "run" \/ (a \in Correctors /\ fix[a].at = "none")
  /\ \/ call' = call
     \/ a \in Summarisers /\ fix[a].at = "run" /\ f.at = "none" /\ call' = [call EXCEPT ![a].at = "choose"]
  /\ UNCHANGED <<long, draft, summary, sections, outbox, logged, stale>> /\ faults' \in Nat /\ calls' \in Nat
  /\ messages' \in SUBSET Messages /\ progress' \in [status : {"none", "in_progress", "completed"}, last : 0..N]
  /\ 1..progress.last' \subseteq messages' /\ (progress.status' = "completed" => messages' = Messages)

LEMMA CorrectionSteps ==
  ASSUME TypeOK, Corrected, NEW a \in All, Correction(a)
  PROVE  \E f \in Fixes : Corrects(a, f)
<1>0. /\ fix \in [All -> Fixes] /\ fix[a] \in Fixes /\ Behind(fix[a]) /\ faults \in Nat /\ calls \in Nat
      /\ messages \in SUBSET Messages /\ progress \in [status : {"none", "in_progress", "completed"}, last : 0..N]
      /\ 1..progress.last \subseteq messages /\ (progress.status = "completed" => messages = Messages)
  BY DEF TypeOK, Corrected, ProgressIsTrue
<1>1. CASE CorrectTranscript(a)
  <2>1. PICK all \in BOOLEAN : BeginFix(a, all)
    BY <1>1 DEF CorrectTranscript
  <2>2. UNCHANGED <<long, draft, messages, progress, summary, sections, outbox, call, logged, stale, faults>>
        /\ calls' \in Nat /\ a \in Correctors /\ fix[a].at = "none"
    BY <1>0, <1>1, <2>1 DEF CorrectTranscript, BeginFix, rows, Called
  <2>3. FixFrom(all) \in 1..(N + 1) /\ 1..(FixFrom(all) - 1) \subseteq messages
    BY <1>0, Numbered DEF FixFrom, ResumeFix
  <2> DEFINE g == [at |-> "run", next |-> FixFrom(all), done |-> messages]
  <2>4. g \in Fixes /\ Behind(g)
    BY <1>0, <2>3 DEF Fixes, Behind
  <2>5. fix' = fix \/ fix' = [fix EXCEPT ![a] = g]
    BY <2>1 DEF BeginFix
  <2> HIDE DEF g
  <2>6. PICK f \in Fixes : Behind(f) /\ fix' = [fix EXCEPT ![a] = f]
    <3>1. fix = [fix EXCEPT ![a] = fix[a]]
      BY <1>0
    <3> QED
      BY <1>0, <2>4, <2>5, <3>1
  <2>7. Corrects(a, f)
    BY <1>0, <2>2, <2>6 DEF Corrects
  <2> QED
    BY <2>7
<1>2. CASE FixChunk(a)
  <2>1. PICK e : e = CandidateEnd(fix[a].next, ChunkDuration)
    OBVIOUS
  <2>2. PICK done : done = fix[a].done \cup (fix[a].next)..(e - 1)
    OBVIOUS
  <2>3. /\ fix[a].at = "run" /\ fix[a].next \in 1..N
        /\ fix' = [fix EXCEPT ![a].next = e, ![a].done = done]
        /\ messages' = done /\ progress' = [status |-> "in_progress", last |-> e - 1]
        /\ UNCHANGED <<long, draft, summary, sections, outbox, call, logged, stale, faults, calls>>
    <3>1. fix[a].next \in 1..(N + 1)
      BY <1>0 DEF Fixes
    <3> QED
      BY <1>2, <2>1, <2>2, <3>1, Numbered DEF FixChunk
  <2>4. e \in (fix[a].next)..(N + 1)
    BY <2>1, <2>3, Candidate, SummaryAssumption
  <2>5. e \in 1..(N + 1) /\ e - 1 \in 0..N
    BY <2>3, <2>4, Numbered
  <2>6. done \subseteq Messages
    BY <1>0, <2>2, <2>3, <2>4, Numbered DEF Fixes
  <2>7. 1..(e - 1) \subseteq done
    <3>1. 1..(fix[a].next - 1) \subseteq fix[a].done
      BY <1>0, <2>3 DEF Behind
    <3> QED
      BY <2>2, <2>3, <2>4, <3>1, Numbered
  <2> DEFINE f == [fix[a] EXCEPT !.next = e, !.done = done]
  <2>8. f \in Fixes /\ f.next = e /\ f.done = done /\ f.at = "run"
    BY <1>0, <2>3, <2>5, <2>6 DEF Fixes
  <2>9. fix' = [fix EXCEPT ![a] = f]
    BY <1>0, <2>3 DEF Fixes
  <2> HIDE DEF f
  <2>10. Behind(f)
    BY <2>7, <2>8 DEF Behind
  <2>11. /\ progress' \in [status : {"none", "in_progress", "completed"}, last : 0..N]
         /\ progress.last' = e - 1 /\ progress.status' = "in_progress"
    BY <2>3, <2>5
  <2>12. Corrects(a, f)
    BY <1>0, <2>3, <2>6, <2>7, <2>8, <2>9, <2>10, <2>11 DEF Corrects
  <2> QED
    BY <2>8, <2>12
<1>3. ASSUME fix' = [fix EXCEPT ![a] = NotFixing], Goes(a), fix[a].at = "run",
             UNCHANGED <<long, draft, summary, sections, outbox, logged, stale, calls>>, faults' \in Nat,
             UNCHANGED <<messages, progress>> \/ (messages' = Messages /\ progress' = [status |-> "completed", last |-> N])
      PROVE  \E f \in Fixes : Corrects(a, f)
  <2>1. NotFixing \in Fixes /\ Behind(NotFixing) /\ NotFixing.at = "none"
    BY Ready DEF Behind, NotFixing
  <2>2. /\ messages' \in SUBSET Messages /\ progress' \in [status : {"none", "in_progress", "completed"}, last : 0..N]
        /\ 1..progress.last' \subseteq messages' /\ (progress.status' = "completed" => messages' = Messages)
    <3>1. CASE UNCHANGED <<messages, progress>>
      BY <1>0, <3>1
    <3>2. CASE messages' = Messages /\ progress' = [status |-> "completed", last |-> N]
      BY <3>2, Numbered
    <3> QED
      BY <1>3, <3>1, <3>2
  <2>3. \/ call' = call
        \/ a \in Summarisers /\ call' = [call EXCEPT ![a].at = "choose"]
    BY <1>3 DEF Goes
  <2>4. calls' \in Nat
    BY <1>0, <1>3
  <2>5. Corrects(a, NotFixing)
    BY <1>3, <2>1, <2>2, <2>3, <2>4 DEF Corrects
  <2> QED
    BY <2>1, <2>5
<1>4. CASE EndFix(a)
  <2>1. fix[a].done = Messages
    <3>1. 1..(fix[a].next - 1) \subseteq fix[a].done /\ fix[a].next \in 1..(N + 1) /\ fix[a].next > N /\ fix[a].done \subseteq Messages
      BY <1>0, <1>4 DEF Behind, EndFix, Fixes
    <3>2. fix[a].next - 1 = N
      BY <3>1, Numbered
    <3>3. 1..N \subseteq fix[a].done
      BY <3>1, <3>2
    <3> QED
      BY <3>1, <3>3, Numbered
  <2>2. faults' \in Nat
    BY <1>0, <1>4, Failing DEF EndFix
  <2>3. UNCHANGED <<messages, progress>> \/ (messages' = Messages /\ progress' = [status |-> "completed", last |-> N])
    BY <1>4, <2>1 DEF EndFix
  <2>4. fix' = [fix EXCEPT ![a] = NotFixing] /\ Goes(a) /\ fix[a].at = "run" /\ UNCHANGED <<long, draft, summary, sections, outbox, logged, stale, calls>>
    BY <1>4 DEF EndFix
  <2> QED
    BY <1>3, <2>2, <2>3, <2>4
<1>5. CASE FixFails(a)
  <2>1. faults' \in Nat
    BY <1>5, Failing DEF FixFails
  <2>2. fix' = [fix EXCEPT ![a] = NotFixing] /\ Goes(a) /\ fix[a].at = "run"
        /\ UNCHANGED <<long, draft, messages, progress, summary, sections, outbox, logged, stale, calls>>
    BY <1>5 DEF FixFails, rows
  <2> QED
    BY <1>3, <2>1, <2>2
<1> QED
  BY <1>1, <1>2, <1>4, <1>5 DEF Correction

--------------------------------------------------------------------------------
(* The invariants of any number of calls.                                          *)

Inv == TypeOK /\ Corrected /\ Positioned /\ Minded

LEMMA CallSteps ==
  ASSUME Inv, NEW w \in Summarisers, NEW c \in Calls, Steps(w, c)
  PROVE  Inv'
<1>1. /\ long \in BOOLEAN /\ messages \in SUBSET Messages /\ progress \in [status : {"none", "in_progress", "completed"}, last : 0..N]
      /\ call \in [Summarisers -> Calls] /\ fix \in [All -> Fixes] /\ w \in All
  BY DEF Inv, TypeOK, All
<1>2. call' = [call EXCEPT ![w] = c] /\ call' \in [Summarisers -> Calls] /\ call'[w] = c /\ \A v \in Summarisers \ {w} : call'[v] = call[v]
  BY <1>1 DEF Steps
<1>3. TypeOK'
  <2>1. UNCHANGED <<long, messages, progress>> /\ Table(sections)'
    BY DEF Steps
  <2>2. Table(sections')
    BY <2>1 DEF Table
  <2> QED
    BY <1>1, <1>2, <2>1, <2>2 DEF Steps, TypeOK, Table
<1>4. Corrected'
  <2>1. \A a \in All : Behind(fix'[a])
    BY DEF Inv, Corrected, Steps
  <2>2. (1..progress.last \subseteq messages /\ (progress.status = "completed" => messages = Messages))'
    BY DEF Inv, Corrected, ProgressIsTrue, Steps, Messages
  <2> QED
    BY <2>1, <2>2 DEF Corrected, ProgressIsTrue, Behind
<1>5. Positioned'
  <2> SUFFICES ASSUME NEW v \in Summarisers
               PROVE  /\ call'[v].at # "idle" => call'[v].kind \in CallKinds
                      /\ fix'[v].at = "run" => call'[v].at = "fixing"
                      /\ call'[v].at \in {"fix", "fixing", "choose", "delete"} => call'[v].next = 1 /\ call'[v].index = 1
    BY DEF Positioned
  <2>1. CASE v = w
    <3>1. fix[w].at = "run" => FALSE
      BY DEF Inv, Positioned, Steps
    <3>2. fix'[w].at = "run" => c.at = "fixing"
      BY <3>1 DEF Steps
    <3> QED
      BY <1>2, <2>1, <3>2 DEF Steps
  <2>2. CASE v # w
    <3>1. call'[v] = call[v] /\ fix'[v] = fix[v]
      BY <1>2, <2>2 DEF Steps, All
    <3> QED
      BY <3>1 DEF Inv, Positioned
  <2> QED
    BY <2>1, <2>2
<1>6. Minded'
  <2> SUFFICES ASSUME draft', summary' = NoSummary, ~logged', outbox' = {}
               PROVE  \E v \in Summarisers : call'[v].kind = "generate" /\ call'[v].at # "idle"
    BY DEF Minded, Generating, NoSummary
  <2>1. summary = NoSummary /\ ~logged /\ outbox = {}
    BY DEF Steps
  <2>2. CASE draft
    <3>1. PICK v \in Summarisers : Generating(v)
      BY <2>1, <2>2 DEF Inv, Minded
    <3>2. CASE v = w
      <4>1. c.at # "idle" /\ c.kind = "generate"
        BY <3>1, <3>2 DEF Steps
      <4> QED
        BY <1>2, <4>1
    <3>3. CASE v # w
      BY <1>2, <3>1, <3>3 DEF Generating
    <3> QED
      BY <3>2, <3>3
  <2>3. CASE ~draft
    BY <1>2, <2>3 DEF Steps
  <2> QED
    BY <2>2, <2>3
<1> QED
  BY <1>3, <1>4, <1>5, <1>6 DEF Inv

LEMMA FixSteps ==
  ASSUME Inv, NEW a \in All, NEW f \in Fixes, Corrects(a, f)
  PROVE  Inv'
<1>1. call \in [Summarisers -> Calls] /\ fix \in [All -> Fixes]
  BY DEF Inv, TypeOK
<1>2. fix' = [fix EXCEPT ![a] = f] /\ fix' \in [All -> Fixes] /\ fix'[a] = f /\ \A b \in All \ {a} : fix'[b] = fix[b]
  BY <1>1 DEF Corrects
<1>3. \/ call' = call
      \/ a \in Summarisers /\ fix[a].at = "run" /\ f.at = "none" /\ call' = [call EXCEPT ![a].at = "choose"]
  BY DEF Corrects
<1>4. /\ call' \in [Summarisers -> Calls]
      /\ \A v \in Summarisers : call'[v].kind = call[v].kind /\ call'[v].next = call[v].next /\ call'[v].index = call[v].index
                                /\ (call'[v].at = call[v].at \/ (v = a /\ fix[a].at = "run" /\ f.at = "none" /\ call'[v].at = "choose"))
  <2>1. CASE call' = call
    BY <1>1, <2>1
  <2>2. CASE a \in Summarisers /\ fix[a].at = "run" /\ f.at = "none" /\ call' = [call EXCEPT ![a].at = "choose"]
    <3> DEFINE c == [call[a] EXCEPT !.at = "choose"]
    <3>1. c \in Calls /\ c.at = "choose" /\ c.kind = call[a].kind /\ c.next = call[a].next /\ c.index = call[a].index
      BY <1>1, <2>2 DEF Calls, Ats
    <3>2. call' = [call EXCEPT ![a] = c]
      BY <1>1, <2>2
    <3> HIDE DEF c
    <3> QED
      BY <1>1, <2>2, <3>1, <3>2
  <2> QED
    BY <1>3, <2>1, <2>2
<1>5. UNCHANGED <<long, draft, summary, sections, outbox, logged, stale>>
  BY DEF Corrects
<1>6. TypeOK'
  <2>1. Table(sections')
    BY <1>5 DEF Inv, TypeOK, Table
  <2> QED
    BY <1>2, <1>4, <1>5, <2>1 DEF Inv, Corrects, TypeOK, Table
<1>7. Corrected'
  <2>1. \A b \in All : Behind(fix'[b])
    BY <1>2 DEF Inv, Corrected, Corrects
  <2>2. (1..progress.last \subseteq messages /\ (progress.status = "completed" => messages = Messages))'
    BY DEF Corrects, Messages
  <2> QED
    BY <2>1, <2>2 DEF Corrected, ProgressIsTrue, Behind
<1>8. Positioned'
  <2> SUFFICES ASSUME NEW v \in Summarisers
               PROVE  /\ call'[v].at # "idle" => call'[v].kind \in CallKinds
                      /\ fix'[v].at = "run" => call'[v].at = "fixing"
                      /\ call'[v].at \in {"fix", "fixing", "choose", "delete"} => call'[v].next = 1 /\ call'[v].index = 1
    BY DEF Positioned
  <2>1. /\ call[v].at # "idle" => call[v].kind \in CallKinds
        /\ fix[v].at = "run" => call[v].at = "fixing"
        /\ call[v].at \in {"fix", "fixing", "choose", "delete"} => call[v].next = 1 /\ call[v].index = 1
    BY DEF Inv, Positioned
  <2>2. v \in All /\ v \notin Correctors
    BY SummaryAssumption DEF All
  <2>3. fix'[v].at = "run" => fix[v].at = "run" /\ call'[v].at = call[v].at
    <3>1. CASE v = a
      BY <1>2, <1>4, <2>2, <3>1 DEF Corrects
    <3>2. CASE v # a
      BY <1>2, <1>4, <2>2, <3>2
    <3> QED
      BY <3>1, <3>2
  <2> QED
    BY <1>4, <2>1, <2>3
<1>9. Minded'
  <2> SUFFICES ASSUME draft', summary' = NoSummary, ~logged', outbox' = {}
               PROVE  \E v \in Summarisers : call'[v].kind = "generate" /\ call'[v].at # "idle"
    BY DEF Minded, Generating, NoSummary
  <2>1. PICK v \in Summarisers : Generating(v)
    BY <1>5 DEF Inv, Minded
  <2> QED
    BY <1>4, <2>1 DEF Generating
<1> QED
  BY <1>6, <1>7, <1>8, <1>9 DEF Inv

LEMMA InvInit == Init => Inv
<1> SUFFICES ASSUME Init PROVE Inv
  OBVIOUS
<1>1. call = [w \in Summarisers |-> Idle] /\ fix = [a \in All |-> NotFixing]
  BY DEF Init, All
<1>2. call \in [Summarisers -> Calls] /\ fix \in [All -> Fixes]
  BY <1>1, Ready
<1>3. TypeOK
  <2>1. progress \in [status : {"none", "in_progress", "completed"}, last : 0..N]
    BY Numbered DEF Init
  <2> QED
    BY <1>2, <2>1, Ready DEF Init, TypeOK
<1>4. Corrected
  <2>1. \A a \in All : Behind(fix[a])
    BY <1>1 DEF Behind, NotFixing
  <2> QED
    BY <2>1 DEF Init, Corrected, ProgressIsTrue
<1>5. Positioned
  BY <1>1 DEF Positioned, Idle, NotFixing, All
<1>6. Minded
  BY DEF Init, Minded
<1> QED
  BY <1>3, <1>4, <1>5, <1>6 DEF Inv

LEMMA InvCrash == ASSUME Inv, Crash PROVE Inv'
<1>1. UNCHANGED <<long, draft, messages, progress, summary, sections, outbox, stale, calls>> /\ logged' = TRUE /\ faults' \in Nat
  BY Failing DEF Crash, rows, Inv
<1>2. call' = [w \in Summarisers |-> Idle] /\ fix' = [a \in All |-> NotFixing]
  BY DEF Crash, Inv, TypeOK
<1>3. call' \in [Summarisers -> Calls] /\ fix' \in [All -> Fixes]
  BY <1>2, Ready
<1>4. TypeOK'
  <2>1. Table(sections')
    BY <1>1 DEF Inv, TypeOK, Table
  <2> QED
    BY <1>1, <1>3, <2>1 DEF Inv, TypeOK, Table
<1>5. Corrected'
  <2>1. \A a \in All : Behind(fix'[a])
    BY <1>2 DEF Behind, NotFixing
  <2>2. (1..progress.last \subseteq messages /\ (progress.status = "completed" => messages = Messages))'
    BY <1>1 DEF Inv, Corrected, ProgressIsTrue, Messages
  <2> QED
    BY <2>1, <2>2 DEF Corrected, ProgressIsTrue, Behind
<1>6. Positioned'
  BY <1>2 DEF Positioned, Idle, NotFixing, All
<1>7. Minded'
  BY <1>1 DEF Minded
<1> QED
  BY <1>4, <1>5, <1>6, <1>7 DEF Inv

LEMMA InvStep == Inv /\ [Next]_vars => Inv'
<1> SUFFICES ASSUME Inv, [Next]_vars PROVE Inv'
  OBVIOUS
<1>1. ASSUME NEW a \in Summarisers \cup Correctors, Correction(a) PROVE Inv'
  BY <1>1, CorrectionSteps, FixSteps DEF All, Inv
<1>2. ASSUME NEW w \in Summarisers, Summariser(w) PROVE Inv'
  BY <1>2, SummariserSteps, CallSteps DEF Inv
<1>3. CASE UNCHANGED vars
  <2> USE DEF vars, rows
  <2>1. TypeOK'
    BY <1>3 DEF Inv, TypeOK, Table
  <2>2. Corrected' /\ Positioned' /\ Minded'
    BY <1>3 DEF Inv, Corrected, Positioned, Minded, ProgressIsTrue, Behind, Generating
  <2> QED
    BY <2>1, <2>2 DEF Inv
<1> QED
  BY <1>1, <1>2, <1>3, InvCrash DEF Next

\* The room's row, its sections, the outbox and the calls have the types the code gives
\* them, and no call stands behind the message after the last.
THEOREM TypeCorrect == Spec => []TypeOK
<1>1. Inv => TypeOK
  BY DEF Inv
<1> QED
  BY InvInit, InvStep, <1>1, PTL DEF Spec

\* correction_progress never counts a message whose correction is not in the row, whatever
\* calls overlap and wherever they stop.
THEOREM ProgressIsTrueAlways == Spec => []ProgressIsTrue
<1>1. Inv => ProgressIsTrue
  BY DEF Inv, Corrected
<1> QED
  BY InvInit, InvStep, <1>1, PTL DEF Spec

\* A room without a summary has a task in the outbox or a line in the log once the first
\* call is over.
THEOREM MissingIsQueuedAlways == Spec => []MissingIsQueued
<1>1. Inv => MissingIsQueued
  BY DEF Inv, Minded, MissingIsQueued, Generating
<1> QED
  BY InvInit, InvStep, <1>1, PTL DEF Spec

--------------------------------------------------------------------------------
(* The summary of one summariser.                                                  *)

LEMMA PartialCovers ==
  ASSUME NEW n \in Nat \ {0}, NEW s, Partial(s, n), s[n].to = N
  PROVE  Covers(s)
<1>1. DOMAIN s = 1..n /\ n \in 1..n /\ 1 \in 1..n
  BY DEF Partial
<1>2. Max(1..n) \in 1..n /\ \A x \in 1..n : x <= Max(1..n)
  BY <1>1, Largest
<1>3. Max(1..n) = n
  <2>1. PICK m \in 1..n : m = Max(1..n) /\ n <= m
    BY <1>1, <1>2
  <2> QED
    BY <2>1
<1>4. \A i \in 1..n : i + 1 \in 1..n => Joins(s[i], s[i + 1])
  <2> SUFFICES ASSUME NEW i \in 1..n, i + 1 \in 1..n PROVE Joins(s[i], s[i + 1])
    OBVIOUS
  <2>1. i \in 1..(n - 1)
    OBVIOUS
  <2> QED
    BY <2>1 DEF Partial
<1> QED
  BY <1>1, <1>3, <1>4 DEF Covers, Partial

LEMMA WholeCovers == Covers(Whole)
<1>1. DOMAIN Whole = 1..1 /\ Whole[1].from = 1 /\ Whole[1].to = N
  BY DEF Whole
<1>2. 1..1 \subseteq 1..1 /\ 1..1 # {} /\ 1 \in Nat /\ 1..1 = {1}
  OBVIOUS
<1>3. Max(1..1) \in 1..1
  BY <1>2, Largest
<1>4. Max(1..1) = 1
  BY <1>2, <1>3
<1>5. \A i \in 1..1 : i + 1 \notin 1..1
  OBVIOUS
<1> QED
  BY <1>1, <1>4, <1>5 DEF Covers

LEMMA FirstOne ==
  ASSUME Table(sections), sections = None, NEW x \in Section, x.from = 1
  PROVE  Partial(With(1, x), 1)
<1>1. DOMAIN None = {}
  <2>1. \A e : DOMAIN [i \in {} |-> e] = {}
    OBVIOUS
  <2>2. DOMAIN [i \in {} |-> <<>>] = {}
    BY <2>1, Zenon
  <2> QED
    BY <2>2, Zenon DEF None
<1>2. DOMAIN sections \cup {1} = 1..1
  BY <1>1
<1>3. With(1, x) = [j \in 1..1 |-> IF j = 1 THEN x ELSE sections[j]]
  BY <1>2 DEF With
<1>4. With(1, x) \in [1..1 -> Section] /\ With(1, x)[1] = x
  BY <1>3
<1>5. 1..(1 - 1) = {}
  OBVIOUS
<1> QED
  BY <1>4, <1>5 DEF Partial

LEMMA NextOne ==
  ASSUME NEW n \in Nat \ {0}, Partial(sections, n), NEW x \in Section, Joins(sections[n], x)
  PROVE  Partial(With(n + 1, x), n + 1)
<1>1. sections \in [1..n -> Section]
  BY DEF Partial
<1>2. DOMAIN sections \cup {n + 1} = 1..(n + 1)
  BY <1>1
<1>3. With(n + 1, x) = [j \in 1..(n + 1) |-> IF j = n + 1 THEN x ELSE sections[j]]
  BY <1>2 DEF With
<1>4. \A j \in 1..n : With(n + 1, x)[j] = sections[j]
  BY <1>3
<1>5. With(n + 1, x)[n + 1] = x
  BY <1>3
<1>6. With(n + 1, x) \in [1..(n + 1) -> Section]
  BY <1>1, <1>3
<1>7. \A i \in 1..n : Joins(With(n + 1, x)[i], With(n + 1, x)[i + 1])
  <2> SUFFICES ASSUME NEW i \in 1..n PROVE Joins(With(n + 1, x)[i], With(n + 1, x)[i + 1])
    OBVIOUS
  <2>1. CASE i = n
    BY <1>4, <1>5, <2>1
  <2>2. CASE i # n
    <3>1. i \in 1..(n - 1) /\ i + 1 \in 1..n
      BY <2>2
    <3>2. Joins(sections[i], sections[i + 1])
      BY <3>1 DEF Partial
    <3> QED
      BY <1>4, <3>1, <3>2
  <2> QED
    BY <2>1, <2>2
<1>8. (n + 1) - 1 = n /\ 1 \in 1..n
  OBVIOUS
<1>9. With(n + 1, x)[1].from = 1
  BY <1>4, <1>8 DEF Partial
<1> QED
  BY <1>6, <1>7, <1>8, <1>9 DEF Partial

\* Sections that join are some, and their last one is the last there is.
LEMMA PartialLast ==
  ASSUME NEW n \in Nat \ {0}, Partial(sections, n)
  PROVE  sections # None /\ LastIndex = n
<1>1. DOMAIN sections = 1..n /\ n \in 1..n
  BY DEF Partial
<1>2. sections # None
  <2>1. \A e : DOMAIN [i \in {} |-> e] = {}
    OBVIOUS
  <2>2. DOMAIN None = {}
    BY <2>1, Zenon DEF None
  <2> QED
    BY <1>1, <2>2
<1>3. Max(1..n) \in 1..n /\ \A x \in 1..n : x <= Max(1..n)
  BY <1>1, Largest
<1>4. Max(1..n) = n
  <2>1. PICK m \in 1..n : m = Max(1..n) /\ n <= m
    BY <1>1, <1>3
  <2> QED
    BY <2>1
<1> QED
  BY <1>1, <1>2, <1>4 DEF LastIndex

\* What a call that is at none of the later places has in common is the rows.
LEMMA Elsewhere ==
  ASSUME NEW s, NEW c, NEW made, InStep(s, c, made), NEW d, d.at \notin {"sections", "merge", "overall", "save"}
  PROVE  InStep(s, d, made)
  BY DEF InStep

LEMMA Emptied ==
  ASSUME NEW c, NEW made, c.at \notin {"merge", "overall", "save"}, c.at = "sections" => c.next = 1 /\ c.index = 1,
         made.by \in {"generate", "summary", "sections"} => Covers(made.of)
  PROVE  InStep(None, c, made)
  BY DEF InStep, OnCourse

LEMMA JoinedBefore ==
  ASSUME TypeOK, Positioned, Joined, NEW w \in Summarisers, Generate(w) \/ GenerateFix(w) \/ Choose(w) \/ Normal(w), ~stale'
  PROVE  InStep(sections', call'[w], summary')
<1>0. call \in [Summarisers -> Calls] /\ stale' = stale /\ sections' = sections
  BY DEF TypeOK, Generate, GenerateFix, Choose, Normal, SaveNormal, NormalFails, SaveNormalFails, Updates, Loses, rows
<1>1. InStep(sections, call[w], summary)
  BY <1>0 DEF Joined
<1>2. CASE Generate(w)
  <2>1. summary' = summary
    BY <1>2 DEF Generate
  <2> DEFINE c == [Idle EXCEPT !.at = "fix", !.kind = "generate"]
  <2>2. c.at = "fix"
    BY DEF Idle
  <2>3. call' = [call EXCEPT ![w] = c] \/ call' = call
    BY <1>2 DEF Generate
  <2> HIDE DEF c
  <2>4. call'[w] = c \/ call'[w] = call[w]
    BY <1>0, <2>3
  <2> QED
    BY <1>0, <1>1, <2>1, <2>2, <2>4, Elsewhere
<1>3. CASE GenerateFix(w) \/ Choose(w)
  <2>1. summary' = summary
    BY <1>3 DEF GenerateFix, Choose, rows
  <2>2. PICK s \in {"choose", "fixing", "delete", "normal"} : call' = [call EXCEPT ![w].at = s]
    BY <1>3 DEF GenerateFix, Choose, Move
  <2>3. call'[w].at = s
    BY <1>0, <2>2 DEF Calls
  <2>4. call'[w].at \notin {"sections", "merge", "overall", "save"}
    BY <2>3
  <2> QED
    BY <1>0, <1>1, <2>1, <2>4, Elsewhere
<1>4. CASE Normal(w)
  <2>1. call' = [call EXCEPT ![w] = Idle]
    BY <1>4 DEF Normal, SaveNormal, NormalFails, SaveNormalFails, Updates, Loses, Return
  <2>2. call'[w].at = "idle"
    BY <1>0, <2>1, Ready
  <2>3. CASE summary' = summary
    BY <1>0, <1>1, <2>2, <2>3, Elsewhere
  <2>4. CASE summary'.of = Whole
    BY <1>0, <1>1, <2>2, <2>4, WholeCovers DEF InStep
  <2> QED
    BY <1>4, <2>3, <2>4 DEF Normal, SaveNormal, NormalFails, SaveNormalFails, Updates, Loses, rows
<1> QED
  BY <1>2, <1>3, <1>4

LEMMA JoinedRetry ==
  ASSUME TypeOK, Positioned, Joined, NEW w \in Summarisers, NEW kind \in {"summary", "sections", "overall_context"},
         Retry(w, kind), ~stale'
  PROVE  InStep(sections', call'[w], summary')
<1> DEFINE to == RetryAt(kind)
           from == IF to = "sections" THEN ResumesAt ELSE FirstSection
           c == [Idle EXCEPT !.at = to, !.kind = kind, !.next = from.next, !.index = from.index]
<1>0. call \in [Summarisers -> Calls] /\ sections' = sections /\ summary' = summary
  BY DEF TypeOK, Retry, rows
<1>1. stale' = stale /\ call' = [call EXCEPT ![w] = c]
  BY DEF Retry, Begins
<1>2. InStep(sections, call[w], summary)
  BY <1>1 DEF Joined
<1>3. c.at = to /\ c.kind = kind /\ c.next = from.next /\ c.index = from.index
  BY DEF Idle
<1>4. /\ to \in {"normal", "merge", "sections", "delete"}
      /\ to = "sections" => sections # None
      /\ to = "merge" => kind = "overall_context"
  BY DEF RetryAt, TypeOK
<1>5. c.at = "sections" => OnCourse(sections, c)
  <2> SUFFICES ASSUME c.at = "sections" PROVE OnCourse(sections, c)
    OBVIOUS
  <2>1. sections # None /\ c.next = ResumeAfter(sections[LastIndex].to) /\ c.index = LastIndex + 1
    BY <1>3, <1>4 DEF ResumesAt
  <2>2. PICK n \in Nat \ {0} : Partial(sections, n)
    BY <1>2, <2>1 DEF InStep
  <2>3. LastIndex = n
    BY <2>2, PartialLast
  <2>4. sections[n] \in Section
    BY <2>2 DEF Partial
  <2>5. Follows(ResumeAfter(sections[n].to), sections[n])
    BY <2>4, Resumes
  <2>6. c.index > 1 /\ c.index - 1 = n
    BY <2>1, <2>3
  <2> HIDE DEF c
  <2> QED
    BY <2>1, <2>2, <2>3, <2>5, <2>6 DEF OnCourse
<1>6. call'[w] = c
  BY <1>0, <1>1
<1> HIDE DEF c, from, to
<1> QED
  BY <1>0, <1>2, <1>3, <1>4, <1>5, <1>6 DEF InStep

LEMMA JoinedSections ==
  ASSUME TypeOK, Positioned, Joined, NEW w \in Summarisers, Sections(w), ~stale'
  PROVE  InStep(sections', call'[w], summary')
<1>0. call \in [Summarisers -> Calls] /\ call[w] \in Calls /\ Table(sections)
  BY DEF TypeOK
<1>1. ASSUME NEW s \in {"sections", "normal"}, DeleteSections(w, s), s = "sections" => call[w].next = 1 /\ call[w].index = 1
      PROVE  InStep(sections', call'[w], summary')
  <2>1. sections' = None /\ stale' = stale /\ summary' = summary /\ call' = [call EXCEPT ![w].at = s]
    BY <1>1 DEF DeleteSections, Move
  <2>2. call'[w].at = s /\ call'[w].next = call[w].next /\ call'[w].index = call[w].index
    BY <1>0, <2>1 DEF Calls
  <2>3. InStep(sections, call[w], summary)
    BY <2>1 DEF Joined
  <2>4. summary.by \in {"generate", "summary", "sections"} => Covers(summary.of)
    BY <2>3 DEF InStep
  <2>5. call'[w].at \notin {"merge", "overall", "save"} /\ (call'[w].at = "sections" => call'[w].next = 1 /\ call'[w].index = 1)
    BY <1>1, <2>2
  <2> QED
    BY <2>1, <2>4, <2>5, Emptied
<1>2. CASE BeginSections(w)
  <2>1. call[w].next = 1 /\ call[w].index = 1
    BY <1>2 DEF BeginSections, At, Positioned
  <2> QED
    BY <1>1, <1>2, <2>1 DEF BeginSections
<1>3. CASE TopicNotFound(w)
  BY <1>1, <1>3 DEF TopicNotFound
<1>4. CASE SectionFails(w)
  <2>1. call' = [call EXCEPT ![w] = Idle] /\ UNCHANGED <<summary, sections, stale>>
    BY <1>4 DEF SectionFails, Loses, Return
  <2>2. call'[w].at = "idle"
    BY <1>0, <2>1, Ready
  <2>3. InStep(sections, call[w], summary)
    BY <2>1 DEF Joined
  <2> QED
    BY <2>1, <2>2, <2>3, Elsewhere
<1>5. CASE SectionsDone(w)
  <2>1. call' = [call EXCEPT ![w].at = "merge"] /\ UNCHANGED <<summary, sections, stale>> /\ call[w].at = "sections" /\ call[w].next > N
    BY <1>5 DEF SectionsDone, Move, At, rows
  <2>2. call'[w].at = "merge"
    BY <1>0, <2>1 DEF Calls
  <2>3. InStep(sections, call[w], summary)
    BY <2>1 DEF Joined
  <2>4. OnCourse(sections, call[w])
    BY <2>1, <2>3 DEF InStep
  <2>5. sections = None \/ Covers(sections)
    <3> SUFFICES ASSUME sections # None PROVE Covers(sections)
      OBVIOUS
    <3>1. PICK n : n = call[w].index - 1
      OBVIOUS
    <3>2. n \in Nat \ {0} /\ Partial(sections, n) /\ Follows(call[w].next, sections[n])
      BY <1>0, <2>4, <3>1 DEF OnCourse, Calls
    <3>3. PICK x \in Section : x = sections[n]
      BY <3>2 DEF Partial
    <3>4. x.to \in 1..N /\ call[w].next \in 1..(N + 1)
      BY <1>0, Numbered DEF Section, Calls
    <3>5. x.to = N
      <4>1. call[w].next = N + 1
        BY <2>1, <3>4, Numbered
      <4>2. N + 1 = x.to + 1 \/ N + 1 <= x.to
        BY <3>2, <3>3, <4>1 DEF Follows
      <4> QED
        BY <3>4, <4>2, Numbered
    <3> QED
      BY <3>2, <3>3, <3>5, PartialCovers
  <2> QED
    BY <2>1, <2>2, <2>3, <2>5 DEF InStep
<1>6. CASE SaveSection(w)
  <2>1. PICK e \in Ends(call[w].next) :
          /\ sections' = With(call[w].index, [from |-> call[w].next, to |-> e])
          /\ call' = [call EXCEPT ![w].next = e + 1, ![w].index = @ + 1]
    BY <1>6 DEF SaveSection
  <2>2. /\ call[w].at = "sections" /\ call[w].next \in 1..N /\ call[w].index \in Nat \ {0}
        /\ UNCHANGED <<summary, stale>>
    BY <1>0, <1>6, Numbered DEF SaveSection, At, Calls
  <2>3. e \in (call[w].next)..N
    BY <2>2, EndsIn
  <2>4. PICK from, i : from = call[w].next /\ i = call[w].index /\ from \in 1..N /\ i \in Nat \ {0} /\ e \in from..N
    BY <2>2, <2>3
  <2> DEFINE x == [from |-> from, to |-> e]
  <2>5. x \in Section /\ x.from = from /\ x.to = e
    BY <2>4, Numbered DEF Section
  <2>6. sections' = With(i, x)
    BY <2>1, <2>4
  <2>7. call'[w].at = "sections" /\ call'[w].next = e + 1 /\ call'[w].index = i + 1
    BY <1>0, <2>1, <2>2, <2>4 DEF Calls
  <2>8. InStep(sections, call[w], summary) /\ OnCourse(sections, call[w])
    BY <2>2 DEF Joined, InStep
  <2> HIDE DEF x
  <2>9. Partial(With(i, x), i)
    <3>1. CASE sections = None /\ from = 1 /\ i = 1
      BY <1>0, <2>5, <3>1, FirstOne
    <3>2. CASE i > 1 /\ Partial(sections, i - 1) /\ Follows(from, sections[i - 1])
      <4>1. PICK n \in Nat \ {0} : n = i - 1 /\ i = n + 1
        BY <2>4, <3>2
      <4>2. Joins(sections[n], x)
        BY <2>5, <3>2, <4>1 DEF Follows, Joins
      <4>3. Partial(With(n + 1, x), n + 1)
        BY <2>5, <3>2, <4>1, <4>2, NextOne
      <4> QED
        BY <4>1, <4>3
    <3> QED
      BY <2>4, <2>8, <3>1, <3>2 DEF OnCourse
  <2>10. With(i, x)[i] = x
    BY <1>0, <2>4, <2>5, OneMore
  <2>11. OnCourse(With(i, x), call'[w])
    <3>1. i + 1 > 1 /\ (i + 1) - 1 = i
      BY <2>4
    <3> QED
      BY <2>5, <2>7, <2>9, <2>10, <3>1 DEF OnCourse, Follows
  <2> QED
    BY <2>2, <2>4, <2>6, <2>7, <2>8, <2>9, <2>11 DEF InStep
<1> QED
  BY <1>2, <1>3, <1>4, <1>5, <1>6 DEF Sections

LEMMA JoinedMerge ==
  ASSUME TypeOK, Positioned, Joined, NEW w \in Summarisers, Merge(w), ~stale'
  PROVE  InStep(sections', call'[w], summary')
<1>0. /\ call \in [Summarisers -> Calls] /\ call[w] \in Calls /\ stale' = stale /\ sections' = sections
  BY DEF TypeOK, Merge, ReadSections, NoSections, Overall, OverallFails, SaveOverall, SaveOverallFails, Updates, Loses, rows
<1>1. InStep(sections, call[w], summary)
  BY <1>0 DEF Joined
<1>2. CASE ReadSections(w)
  <2>1. /\ call' = [call EXCEPT ![w].at = "overall", ![w].seen = sections] /\ summary' = summary
        /\ call[w].at = "merge" /\ sections # None
    BY <1>2 DEF ReadSections, At, rows
  <2>2. call'[w].at = "overall" /\ call'[w].seen = sections /\ call'[w].kind = call[w].kind
    BY <1>0, <2>1 DEF Calls
  <2> QED
    BY <1>0, <1>1, <2>1, <2>2 DEF InStep
<1>3. CASE Overall(w)
  <2>1. call' = [call EXCEPT ![w].at = "save"] /\ summary' = summary /\ call[w].at = "overall"
    BY <1>3 DEF Overall, Move, At, rows
  <2>2. call'[w].at = "save" /\ call'[w].seen = call[w].seen /\ call'[w].kind = call[w].kind
    BY <1>0, <2>1 DEF Calls
  <2> QED
    BY <1>0, <1>1, <2>1, <2>2 DEF InStep
<1>4. CASE NoSections(w) \/ OverallFails(w) \/ SaveOverallFails(w)
  <2>1. call' = [call EXCEPT ![w] = Idle] /\ summary' = summary
    BY <1>4 DEF NoSections, OverallFails, SaveOverallFails, Loses, Return
  <2>2. call'[w].at = "idle"
    BY <1>0, <2>1, Ready
  <2> QED
    BY <1>0, <1>1, <2>1, <2>2, Elsewhere
<1>5. CASE SaveOverall(w)
  <2>1. /\ summary' = [by |-> call[w].kind, of |-> call[w].seen] /\ call' = [call EXCEPT ![w] = Idle]
        /\ call[w].at = "save"
    BY <1>5 DEF SaveOverall, Updates, Return, At
  <2>2. call'[w].at = "idle" /\ summary'.by = call[w].kind /\ summary'.of = call[w].seen
    BY <1>0, <2>1, Ready
  <2> QED
    BY <1>0, <1>1, <2>1, <2>2 DEF InStep
<1> QED
  BY <1>2, <1>3, <1>4, <1>5 DEF Merge

LEMMA JoinedStep ==
  ASSUME NEW w, Summarisers = {w}, Inv, Joined, [Next]_vars
  PROVE  Joined'
<1> SUFFICES ASSUME ~stale' PROVE InStep(sections', call'[w], summary')
  <2>1. (~stale' => InStep(sections', call'[w], summary')) => Joined'
    BY DEF Joined
  <2> QED
    BY <2>1
<1>0. TypeOK /\ Positioned /\ w \in Summarisers
  BY DEF Inv
<1>1. ASSUME NEW a \in Summarisers \cup Correctors, Correction(a) PROVE InStep(sections', call'[w], summary')
  <2>1. PICK f \in Fixes : Corrects(a, f)
    BY <1>1, CorrectionSteps DEF All, Inv
  <2>2. InStep(sections, call[w], summary) /\ UNCHANGED <<sections, summary>>
    BY <1>0, <2>1 DEF Joined, Corrects
  <2>3. call' = call \/ call' = [call EXCEPT ![a].at = "choose"]
    BY <2>1 DEF Corrects
  <2>4. call'[w] = call[w] \/ call'[w].at = "choose"
    BY <1>0, <2>3 DEF TypeOK, Calls
  <2> QED
    BY <2>2, <2>4, Elsewhere
<1>2. ASSUME NEW v \in Summarisers, Summariser(v) PROVE InStep(sections', call'[w], summary')
  <2>1. Summariser(w)
    BY <1>2
  <2> QED
    BY <1>0, <2>1, JoinedBefore, JoinedRetry, JoinedSections, JoinedMerge DEF Summariser
<1>3. CASE Crash
  <2>1. call' = [v \in Summarisers |-> Idle] /\ UNCHANGED <<sections, summary, stale>>
    BY <1>3 DEF Crash, rows
  <2>2. call'[w].at = "idle" /\ InStep(sections, call[w], summary)
    BY <1>0, <2>1, Ready DEF Joined
  <2> QED
    BY <2>1, <2>2, Elsewhere
<1>4. CASE UNCHANGED vars
  <2>1. UNCHANGED <<sections, summary, stale, call>>
    BY <1>4 DEF vars, rows
  <2> QED
    BY <1>0, <2>1 DEF Joined
<1> QED
  BY <1>1, <1>2, <1>3, <1>4 DEF Next

\* A summary made by a call that ran the sections covers the room, whatever failed before
\* it, as long as no two calls make it at once.
THEOREM SummaryIsWholeAlways ==
  ASSUME NEW w, Summarisers = {w}
  PROVE  Spec => []SummaryIsWhole
<1>1. Init => Joined
  BY DEF Init, Joined, InStep, Idle, NoSummary
<1>2. Inv /\ Joined /\ [Next]_vars => Joined'
  BY JoinedStep
<1>3. Joined => SummaryIsWhole
  BY DEF Joined, InStep, SummaryIsWhole
<1> QED
  BY InvInit, InvStep, <1>1, <1>2, <1>3, PTL DEF Spec
--------------------------------------------------------------------------------
(* EventChannels.                                                                 *)

Events == INSTANCE EventChannels
--------------------------------------------------------------------------------
(* EventChannels: types.                                                           *)

Connections == [at : {"none", "made", "streaming", "ending", "over"}, client : Clients \cup {NoOne}]
EventTypeOK ==
  /\ conn \in [Conns -> Connections] /\ registered \in SUBSET Conns /\ queue \in [Conns -> Seq(Nat)]
  /\ client \in [Clients -> Conns \cup {NoOne}] /\ pos \in [Conns -> Nat] /\ overflowed \in SUBSET Conns
  /\ pushes \in [Topics -> Nat] /\ down \in BOOLEAN
--------------------------------------------------------------------------------
(* EventChannels: the invariant.                                                   *)

Opened(c) == conn[c].at # "none"
Live(c) == conn[c].at \in {"made", "streaming"}

\* Connections are opened in their order, each for a client; one that was not has left
\* no trace.
InOrder == \A c, d \in Conns : d < c /\ Opened(c) => Opened(d)
Unopened(c) == ~Opened(c) => c \notin registered \cup overflowed /\ queue[c] = <<>> /\ \A k \in Clients : client[k] # c
Owned == \A c \in Conns : Unopened(c) /\ (Opened(c) => conn[c].client \in Clients)

\* Only a newer connection of its app, or the end of the server, takes a live connection
\* out of the table or tells it to end; and every event so far is behind it or queued.
Attached(c) ==
  Live(c) /\ Newest(c) /\ ~down =>
    /\ c \in registered /\ Disconnect \notin Range(queue[c])
    /\ Reads(c) /\ c \notin overflowed => pos[c] + Len(queue[c]) = pushes[TopicOf(conn[c].client)]

EventInv == EventTypeOK /\ InOrder /\ Owned /\ \A c \in Conns : Attached(c)

LEMMA SameTerms ==
  /\ \A k : Events!TopicOf(k) = TopicOf(k)
  /\ \A c : Events!Reads(c) = Reads(c)
  /\ Events!Topics = Topics /\ Events!Disconnect = 0 /\ Disconnect = 0
<1>1. \A k : Events!TopicOf(k) = TopicOf(k)
  BY DEF Events!TopicOf, TopicOf, Events!MessageTopic, MessageTopic, Events!RequestTopic, RequestTopic, Events!GlobalTopic, GlobalTopic
<1>2. \A c : Events!Reads(c) = Reads(c)
  BY DEF Events!Reads, Reads
<1>3. Events!Topics = Topics
  BY <1>1 DEF Events!Topics, Topics, Events!GlobalTopic, GlobalTopic
<1> QED
  BY <1>1, <1>2, <1>3 DEF Events!Disconnect, Disconnect

\* put_nowait and get, on a queue.
LEMMA AppendedRange ==
  ASSUME NEW q \in Seq(Nat), NEW m \in Nat
  PROVE  Append(q, m) \in Seq(Nat) /\ Len(Append(q, m)) = Len(q) + 1 /\ Range(Append(q, m)) \subseteq Range(q) \cup {m}
<1>1. Append(q, m) \in Seq(Nat) /\ Len(Append(q, m)) = Len(q) + 1 /\ DOMAIN Append(q, m) = 1..(Len(q) + 1) /\ DOMAIN q = 1..Len(q)
  OBVIOUS
<1>2. Len(q) \in Nat /\ Append(q, m)[Len(q) + 1] = m /\ \A i \in 1..Len(q) : Append(q, m)[i] = q[i]
  OBVIOUS
<1> QED
  BY <1>1, <1>2 DEF Range

LEMMA TailRange ==
  ASSUME NEW q \in Seq(Nat), q # <<>>
  PROVE  Tail(q) \in Seq(Nat) /\ Len(Tail(q)) = Len(q) - 1 /\ Len(q) \in Nat /\ Range(Tail(q)) \subseteq Range(q)
<1>1. Tail(q) \in Seq(Nat) /\ Len(Tail(q)) = Len(q) - 1 /\ Len(q) \in Nat /\ DOMAIN Tail(q) = 1..(Len(q) - 1) /\ DOMAIN q = 1..Len(q)
  OBVIOUS
<1>2. \A i \in 1..(Len(q) - 1) : Tail(q)[i] = q[i + 1]
  OBVIOUS
<1> QED
  BY <1>1, <1>2 DEF Range

\* put_nowait for a set of connections: the others' queues are as they were.
LEMMA PutTyped ==
  ASSUME EventTypeOK, NEW cs, NEW m \in Nat, Events!Put(cs, m)
  PROVE  /\ queue' \in [Conns -> Seq(Nat)]
         /\ \A c \in Conns \ cs : queue'[c] = queue[c]
         /\ \A c \in Conns : IF c \in cs /\ ~Events!Full(c)
                             THEN Len(queue'[c]) = Len(queue[c]) + 1 /\ Range(queue'[c]) \subseteq Range(queue[c]) \cup {m}
                             ELSE queue'[c] = queue[c]
<1>1. queue' = [c \in Conns |-> IF c \in cs /\ ~Events!Full(c) THEN Append(queue[c], m) ELSE queue[c]]
  BY DEF Events!Put
<1>2. \A c \in Conns : queue[c] \in Seq(Nat)
  BY DEF EventTypeOK
<1>3. \A c \in Conns : /\ Append(queue[c], m) \in Seq(Nat) /\ Len(Append(queue[c], m)) = Len(queue[c]) + 1
                       /\ Range(Append(queue[c], m)) \subseteq Range(queue[c]) \cup {m}
  BY <1>2, AppendedRange
<1> QED
  BY <1>1, <1>2, <1>3

\* A step that opens no connection: it leaves the order and the owners alone, and
\* whoever is live and newest after it was so before.
Continues == /\ conn' \in [Conns -> Connections] /\ client' \in [Clients -> Conns \cup {NoOne}]
             /\ registered' \subseteq registered
             /\ \A c \in Conns : /\ conn'[c].client = conn[c].client /\ (Opened(c)' <=> Opened(c)) /\ (Live(c)' => Live(c))
                                 /\ ~Opened(c) => queue'[c] = queue[c] /\ (c \in overflowed' => c \in overflowed)
             /\ \A k \in Clients : client'[k] = client[k] \/ client'[k] = NoOne
             /\ down => down'

LEMMA ContinuesStep ==
  ASSUME EventInv, Continues
  PROVE  /\ InOrder' /\ Owned'
         /\ \A c \in Conns : (Newest(c)' => Newest(c)) /\ (Opened(c) /\ Reads(c)' => Reads(c))
<1>1. InOrder'
  BY DEF EventInv, Continues, InOrder
<1>2. Owned'
  <2>1. ASSUME NEW c \in Conns PROVE Opened(c)' => (conn[c].client \in Clients)'
    BY DEF EventInv, Owned, Continues
  <2>2. ASSUME NEW c \in Conns, ~Opened(c)' PROVE Unopened(c)'
    <3>1. ~Opened(c) /\ Unopened(c)
      BY <2>2 DEF EventInv, Owned, Continues
    <3>2. c \notin registered' \cup overflowed' /\ queue'[c] = <<>>
      BY <3>1 DEF Unopened, Continues
    <3>3. \A k \in Clients : client'[k] # c
      BY <3>1, EventAssumption DEF Unopened, Continues
    <3> QED
      BY <3>2, <3>3 DEF Unopened
  <2> QED
    BY <2>1, <2>2 DEF Owned, Unopened
<1>3. ASSUME NEW c \in Conns PROVE Newest(c)' => Newest(c)
  BY DEF Continues, Newest, Opened
<1>4. ASSUME NEW c \in Conns, Opened(c), Reads(c)' PROVE Reads(c)
  BY <1>4, EventAssumption DEF EventInv, Owned, Continues, Reads
<1> QED
  BY <1>1, <1>2, <1>3, <1>4

\* ... and if the connections that stay live lose nothing by it, the invariant holds.
LEMMA ContinuesInv ==
  ASSUME EventInv, Continues, EventTypeOK',
         ASSUME NEW c \in Conns, Live(c)', Live(c), Newest(c), ~down', ~down, Disconnect \notin Range(queue[c]), c \in registered
         PROVE  /\ c \in registered' /\ Disconnect \notin Range(queue'[c])
                /\ Reads(c) /\ c \notin overflowed' =>
                     c \notin overflowed /\ (pos'[c] + Len(queue'[c])) - pushes'[TopicOf(conn[c].client)] = (pos[c] + Len(queue[c])) - pushes[TopicOf(conn[c].client)]
  PROVE  EventInv'
<1>1. InOrder' /\ Owned' /\ \A c \in Conns : (Newest(c)' => Newest(c)) /\ (Opened(c) /\ Reads(c)' => Reads(c))
  BY ContinuesStep
<1>2. ASSUME NEW c \in Conns PROVE Attached(c)'
  <2>1. SUFFICES ASSUME Live(c)', Newest(c)', ~down'
                 PROVE  /\ c \in registered' /\ Disconnect \notin Range(queue'[c])
                        /\ Reads(c)' /\ c \notin overflowed' => pos'[c] + Len(queue'[c]) = pushes'[TopicOf(conn[c].client)]
    BY DEF Attached, Continues, Disconnect, TopicOf, MessageTopic, RequestTopic, GlobalTopic, Range
  <2>2. Live(c) /\ Newest(c) /\ ~down /\ Opened(c)
    BY <1>1, <2>1 DEF Continues, Live, Opened
  <2>3. /\ c \in registered /\ Disconnect \notin Range(queue[c])
        /\ Reads(c) /\ c \notin overflowed => pos[c] + Len(queue[c]) = pushes[TopicOf(conn[c].client)]
    BY <2>2 DEF EventInv, Attached
  <2>4. /\ c \in registered' /\ Disconnect \notin Range(queue'[c])
        /\ Reads(c) /\ c \notin overflowed' =>
             c \notin overflowed /\ (pos'[c] + Len(queue'[c])) - pushes'[TopicOf(conn[c].client)] = (pos[c] + Len(queue[c])) - pushes[TopicOf(conn[c].client)]
    BY <2>1, <2>2, <2>3
  <2> DEFINE t == TopicOf(conn[c].client)
  <2>5. pos[c] \in Nat /\ pos'[c] \in Nat /\ Len(queue[c]) \in Nat /\ Len(queue'[c]) \in Nat /\ pushes[t] \in Nat /\ pushes'[t] \in Nat
    <3>1. conn[c].client \in Clients
      BY <2>2 DEF EventInv, Owned
    <3>2. t \in Topics
      BY <3>1 DEF Topics
    <3>3. Topics' = Topics
      BY DEF Topics, TopicOf, MessageTopic, RequestTopic, GlobalTopic
    <3>4. queue[c] \in Seq(Nat) /\ queue'[c] \in Seq(Nat)
      BY DEF EventInv, EventTypeOK
    <3> HIDE DEF t
    <3>5. Len(queue[c]) \in Nat /\ Len(queue'[c]) \in Nat
      BY <3>4
    <3> QED
      BY <3>2, <3>3, <3>5 DEF EventInv, EventTypeOK
  <2>6. Reads(c)' => Reads(c)
    BY <1>1, <2>2
  <2>7. ASSUME Reads(c)', c \notin overflowed' PROVE pos'[c] + Len(queue'[c]) = pushes'[t]
    <3>1. (pos'[c] + Len(queue'[c])) - pushes'[t] = (pos[c] + Len(queue[c])) - pushes[t] /\ pos[c] + Len(queue[c]) = pushes[t]
      BY <2>3, <2>4, <2>6, <2>7
    <3> DEFINE a == pos'[c]  b == Len(queue'[c])  e == pushes'[t]  x == pos[c]  y == Len(queue[c])  z == pushes[t]
    <3>2. a \in Nat /\ b \in Nat /\ e \in Nat /\ x \in Nat /\ y \in Nat /\ z \in Nat /\ a + b - e = x + y - z /\ x + y = z
      BY <2>5, <3>1
    <3> HIDE DEF a, b, e, x, y, z
    <3>3. a + b = e
      BY <3>2
    <3> QED
      BY <3>3 DEF a, b, e
  <2> QED
    BY <2>4, <2>7
<1> QED
  BY <1>1, <1>2 DEF EventInv

\* A connection that is opened is the newest of its app, with nothing behind it to read.
LEMMA ConnectStep ==
  ASSUME EventInv, NEW k \in Clients, NEW c \in Conns, Events!Connect(k, c)
  PROVE  EventInv'
<1> DEFINE old == Events!Existing(Events!TopicOf(k), k.app)
           t == TopicOf(k)
<1>1. /\ client[k] = NoOne /\ ~down /\ ~Opened(c) /\ \A d \in Conns : d < c => Opened(d)
      /\ conn' = [conn EXCEPT ![c] = [at |-> "made", client |-> k]]
      /\ client' = [client EXCEPT ![k] = c]
      /\ Events!Put(old, 0) /\ registered' = (registered \ old) \cup {c}
      /\ pos' = [pos EXCEPT ![c] = pushes[t]]
      /\ UNCHANGED <<overflowed, pushes, down>>
  BY SameTerms DEF Events!Connect, Events!Fresh, Opened
<1>2. EventTypeOK /\ t \in Topics /\ pushes[t] \in Nat
  BY DEF EventInv, EventTypeOK, Topics
<1>3. old = {d \in registered : TopicOf(conn[d].client) = t /\ conn[d].client.app = k.app}
  BY SameTerms DEF Events!Existing, Events!Of
<1>4. /\ queue' \in [Conns -> Seq(Nat)]
      /\ \A d \in Conns \ old : queue'[d] = queue[d]
  BY <1>1, <1>2, PutTyped
<1>5. c \notin registered /\ c \notin overflowed /\ queue[c] = <<>> /\ \A j \in Clients : client[j] # c
  BY <1>1 DEF EventInv, Owned, Unopened
<1> HIDE DEF old, t
<1>6. EventTypeOK'
  <2>1. Topics' = Topics
    BY DEF Topics, TopicOf, MessageTopic, RequestTopic, GlobalTopic
  <2>2. conn' \in [Conns -> Connections] /\ client' \in [Clients -> Conns \cup {NoOne}] /\ pos' \in [Conns -> Nat]
    BY <1>1, <1>2 DEF EventTypeOK, Connections
  <2>3. registered' \subseteq Conns
    BY <1>1, <1>2 DEF EventTypeOK
  <2> QED
    BY <1>1, <1>2, <1>4, <2>1, <2>2, <2>3 DEF EventTypeOK
<1>7. /\ conn'[c].at = "made" /\ conn'[c].client = k /\ client'[k] = c /\ pos'[c] = pushes[t]
      /\ \A d \in Conns \ {c} : conn'[d] = conn[d] /\ pos'[d] = pos[d]
      /\ \A j \in Clients \ {k} : client'[j] = client[j]
  BY <1>1, <1>2 DEF EventTypeOK
<1>8. \A d \in Conns : Opened(d) => d < c
  <2>1. \A d \in Conns : Opened(d) /\ c < d => FALSE
    BY <1>1 DEF EventInv, InOrder
  <2> QED
    BY <1>1, <2>1, EventAssumption
<1>9. InOrder'
  <2> SUFFICES ASSUME NEW a \in Conns, NEW b \in Conns, b < a, Opened(a)' PROVE Opened(b)'
    BY DEF InOrder
  <2>1. CASE a = c
    BY <1>1, <1>7, <2>1 DEF Opened
  <2>2. CASE a # c
    BY <1>7, <2>2 DEF Opened, EventInv, InOrder
  <2> QED
    BY <2>1, <2>2
<1>10. Owned'
  <2> SUFFICES ASSUME NEW d \in Conns PROVE Unopened(d)' /\ (Opened(d) => conn[d].client \in Clients)'
    BY DEF Owned
  <2>1. CASE d = c
    BY <1>7, <2>1 DEF Unopened, Opened
  <2>2. CASE d # c
    <3>1. conn'[d] = conn[d] /\ Unopened(d) /\ (Opened(d) => conn[d].client \in Clients)
      BY <1>7, <2>2 DEF EventInv, Owned
    <3>2. d \notin registered => d \notin registered' /\ d \notin old /\ queue'[d] = queue[d]
      BY <1>1, <1>3, <1>4, <2>2
    <3>3. (\A j \in Clients : client[j] # d) => \A j \in Clients : client'[j] # d
      BY <1>7, <2>2
    <3> QED
      BY <1>1, <3>1, <3>2, <3>3 DEF Unopened, Opened
  <2> QED
    BY <2>1, <2>2
<1>11. ASSUME NEW d \in Conns PROVE Attached(d)'
  <2>1. CASE d = c
    <3>1. c \in registered' /\ queue'[c] = <<>> /\ overflowed' = overflowed
      BY <1>1, <1>3, <1>4, <1>5
    <3>2. Disconnect \notin Range(queue'[c]) /\ Len(queue'[c]) = 0
      BY <3>1 DEF Range
    <3>3. pos'[c] + Len(queue'[c]) = pushes'[t]
      BY <1>1, <1>2, <1>7, <3>2
    <3>4. pos'[c] + Len(queue'[c]) = pushes'[TopicOf(conn'[c].client)]
      BY <1>7, <3>3 DEF t
    <3> QED
      BY <2>1, <3>1, <3>2, <3>4 DEF Attached, Disconnect, TopicOf, MessageTopic, RequestTopic, GlobalTopic, Range
  <2>2. CASE d # c
    <3> SUFFICES ASSUME Live(d)', Newest(d)', ~down'
                 PROVE  /\ d \in registered' /\ Disconnect \notin Range(queue'[d])
                        /\ Reads(d)' /\ d \notin overflowed' => pos'[d] + Len(queue'[d]) = pushes'[TopicOf(conn'[d].client)]
      BY DEF Attached, Disconnect, TopicOf, MessageTopic, RequestTopic, GlobalTopic, Range
    <3>1. Live(d) /\ Opened(d) /\ conn'[d] = conn[d] /\ ~down /\ d < c
      BY <1>1, <1>7, <1>8, <2>2 DEF Live, Opened
    <3>2. Newest(d)
      BY <1>1, <1>7, <2>2 DEF Newest, Opened
    <3>3. TopicOf(conn[d].client) # t \/ conn[d].client.app # k.app
      <4>1. \A e \in Conns : e > d /\ Opened(e)' => TopicOf(conn'[e].client) # TopicOf(conn'[d].client) \/ conn'[e].client.app # conn'[d].client.app
        BY DEF Newest, Opened, TopicOf, MessageTopic, RequestTopic, GlobalTopic
      <4>2. c > d
        BY <3>1, EventAssumption
      <4> QED
        BY <1>7, <3>1, <4>1, <4>2 DEF Opened, t
    <3>4. queue'[d] = queue[d] /\ (d \in registered => d \in registered')
      BY <1>1, <1>3, <1>4, <3>3
    <3>5. Reads(d)' => Reads(d)
      <4>1. conn[d].client \in Clients
        BY <3>1 DEF EventInv, Owned
      <4> QED
        BY <1>7, <2>2, <3>1, <4>1 DEF Reads
    <3>6. /\ d \in registered /\ Disconnect \notin Range(queue[d])
          /\ Reads(d) /\ d \notin overflowed => pos[d] + Len(queue[d]) = pushes[TopicOf(conn[d].client)]
      BY <3>1, <3>2 DEF EventInv, Attached
    <3> QED
      BY <1>1, <1>7, <2>2, <3>1, <3>4, <3>5, <3>6
  <2> QED
    BY <2>1, <2>2
<1> QED
  BY <1>6, <1>9, <1>10, <1>11 DEF EventInv

\* broadcast_message: an event is queued for every connection of its topic with room.
LEMMA BroadcastStep ==
  ASSUME EventInv, NEW t \in Topics, Events!Broadcast(t)
  PROVE  EventInv'
<1> DEFINE to == Events!Of(t)
<1>1. /\ ~down /\ pushes' = [pushes EXCEPT ![t] = @ + 1] /\ Events!Put(to, pushes[t] + 1)
      /\ overflowed' = overflowed \cup {c \in to : Events!Full(c)}
      /\ UNCHANGED <<conn, registered, client, pos, down>>
  BY DEF Events!Broadcast
<1>2. EventTypeOK /\ pushes[t] \in Nat /\ pushes[t] + 1 \in Nat
  BY DEF EventInv, EventTypeOK
<1>3. to = {c \in registered : TopicOf(conn[c].client) = t}
  BY SameTerms DEF Events!Of
<1>4. /\ queue' \in [Conns -> Seq(Nat)]
      /\ \A c \in Conns \ to : queue'[c] = queue[c]
      /\ \A c \in Conns : IF c \in to /\ ~Events!Full(c)
                          THEN Len(queue'[c]) = Len(queue[c]) + 1 /\ Range(queue'[c]) \subseteq Range(queue[c]) \cup {pushes[t] + 1}
                          ELSE queue'[c] = queue[c]
  BY <1>1, <1>2, PutTyped
<1> HIDE DEF to
<1>5. EventTypeOK'
  <2>1. Topics' = Topics
    BY DEF Topics, TopicOf, MessageTopic, RequestTopic, GlobalTopic
  <2> QED
    BY <1>1, <1>2, <1>3, <1>4, <2>1 DEF EventTypeOK
<1>6. \A c \in Conns : ~Opened(c) => c \notin registered
  BY DEF EventInv, Owned, Unopened
<1>7. Continues
  BY <1>1, <1>2, <1>3, <1>4, <1>6 DEF Continues, EventTypeOK, Opened, Live
<1>8. ASSUME NEW c \in Conns, Disconnect \notin Range(queue[c]), c \in registered, Live(c)
      PROVE  /\ c \in registered' /\ Disconnect \notin Range(queue'[c])
             /\ c \notin overflowed' =>
                  c \notin overflowed /\ (pos'[c] + Len(queue'[c])) - pushes'[TopicOf(conn[c].client)] = (pos[c] + Len(queue[c])) - pushes[TopicOf(conn[c].client)]
  <2> DEFINE u == TopicOf(conn[c].client)
  <2>1. queue[c] \in Seq(Nat) /\ pos[c] \in Nat /\ u \in Topics
    <3>1. conn[c].client \in Clients
      BY <1>8 DEF EventInv, Owned, Live, Opened
    <3> QED
      BY <1>2, <3>1 DEF EventTypeOK, Topics
  <2>2. Len(queue[c]) \in Nat /\ pushes[u] \in Nat
    BY <1>2, <2>1 DEF EventTypeOK
  <2>3. Disconnect \notin Range(queue'[c])
    BY <1>2, <1>4, <1>8 DEF Disconnect
  <2>4. ASSUME c \notin overflowed'
        PROVE  c \notin overflowed /\ (pos'[c] + Len(queue'[c])) - pushes'[u] = (pos[c] + Len(queue[c])) - pushes[u]
    <3>1. CASE u = t
      <4>1. c \in to /\ ~Events!Full(c)
        BY <1>1, <1>3, <1>8, <2>4, <3>1
      <4>2. Len(queue'[c]) = Len(queue[c]) + 1 /\ pushes'[u] = pushes[u] + 1 /\ pos' = pos /\ c \notin overflowed
        BY <1>1, <1>2, <1>4, <2>4, <3>1, <4>1 DEF EventTypeOK
      <4> HIDE DEF u
      <4>3. (pos[c] + (Len(queue[c]) + 1)) - (pushes[u] + 1) = (pos[c] + Len(queue[c])) - pushes[u]
        <5> DEFINE x == pos[c]  y == Len(queue[c])  z == pushes[u]
        <5>1. x \in Nat /\ y \in Nat /\ z \in Nat
          BY <2>1, <2>2
        <5> HIDE DEF x, y, z
        <5>2. (x + (y + 1)) - (z + 1) = (x + y) - z
          BY <5>1
        <5> QED
          BY <5>2 DEF x, y, z
      <4> QED
        BY <4>2, <4>3
    <3>2. CASE u # t
      <4>1. c \notin to
        BY <1>3, <3>2
      <4>2. queue'[c] = queue[c] /\ pushes'[u] = pushes[u] /\ pos' = pos /\ c \notin overflowed
        BY <1>1, <1>2, <1>4, <2>1, <2>4, <3>2, <4>1 DEF EventTypeOK
      <4> QED
        BY <4>2
    <3> QED
      BY <3>1, <3>2
  <2> QED
    BY <1>1, <1>8, <2>3, <2>4
<1> QED
  BY <1>5, <1>7, <1>8, ContinuesInv

\* Shutdown, and what runs only after it.
LEMMA ShutdownStep ==
  ASSUME EventInv, Events!Shutdown \/ Events!ManagerCleanup
  PROVE  EventInv'
<1>1. EventTypeOK /\ Topics' = Topics
  BY DEF EventInv, Topics, TopicOf, MessageTopic, RequestTopic, GlobalTopic
<1>2. \A c \in Conns : ~Opened(c) => c \notin registered
  BY DEF EventInv, Owned, Unopened
<1>3. /\ queue' \in [Conns -> Seq(Nat)] /\ \A c \in Conns \ registered : queue'[c] = queue[c]
      /\ registered' \subseteq registered /\ down' = TRUE /\ UNCHANGED <<conn, client, pos, overflowed, pushes>>
  <2>1. CASE Events!Shutdown
    <3>1. Events!Put(registered, 0) /\ down' = TRUE /\ UNCHANGED <<conn, registered, client, pos, overflowed, pushes>>
      BY <2>1, SameTerms DEF Events!Shutdown
    <3>2. queue' \in [Conns -> Seq(Nat)] /\ \A c \in Conns \ registered : queue'[c] = queue[c]
      BY <1>1, <3>1, PutTyped
    <3> QED
      BY <3>1, <3>2
  <2>2. CASE Events!ManagerCleanup
    BY <1>1, <2>2 DEF Events!ManagerCleanup, EventTypeOK
  <2> QED
    BY <2>1, <2>2
<1>4. EventTypeOK'
  BY <1>1, <1>3 DEF EventTypeOK
<1>5. Continues
  BY <1>1, <1>2, <1>3 DEF Continues, EventTypeOK, Opened, Live
<1> QED
  BY <1>3, <1>4, <1>5, ContinuesInv

\* event_generator and the client: a connection leaves the table only at its own end.
LEMMA ConnectionStep ==
  ASSUME EventInv, NEW c \in Conns, Opened(c), Events!Connection(c)
  PROVE  EventInv'
<1>1. EventTypeOK /\ Topics' = Topics /\ conn[c] \in Connections /\ conn[c].client \in Clients /\ queue[c] \in Seq(Nat)
  BY DEF EventInv, EventTypeOK, Owned, Topics, TopicOf, MessageTopic, RequestTopic, GlobalTopic
<1>2. UNCHANGED <<overflowed, pushes, down>>
  BY DEF Events!Connection, Events!Start, Events!Yield, Events!YieldDisconnect, Events!Unregister, Events!Notice
<1>3. \/ conn' = conn
      \/ \E s \in {"streaming", "ending", "over"} : conn' = [conn EXCEPT ![c].at = s] /\ (s = "streaming" => Live(c))
  BY DEF Events!Connection, Events!Start, Events!Yield, Events!YieldDisconnect, Events!Unregister, Events!Notice, Events!Ends, Live
<1>4. /\ conn' \in [Conns -> Connections]
      /\ \A d \in Conns : conn'[d].client = conn[d].client /\ (Opened(d)' <=> Opened(d)) /\ (Live(d)' => Live(d))
  <2>1. CASE conn' = conn
    BY <1>1, <2>1 DEF EventTypeOK, Opened, Live
  <2>2. ASSUME NEW s \in {"streaming", "ending", "over"}, conn' = [conn EXCEPT ![c].at = s], s = "streaming" => Live(c)
        PROVE  /\ conn' \in [Conns -> Connections]
               /\ \A d \in Conns : conn'[d].client = conn[d].client /\ (Opened(d)' <=> Opened(d)) /\ (Live(d)' => Live(d))
    <3> DEFINE x == [conn[c] EXCEPT !.at = s]
    <3>1. conn' = [conn EXCEPT ![c] = x]
      BY <1>1, <2>2 DEF EventTypeOK
    <3>2. x \in Connections /\ x.client = conn[c].client /\ x.at = s
      BY <1>1 DEF Connections
    <3> HIDE DEF x
    <3>3. conn' \in [Conns -> Connections] /\ conn'[c] = x /\ \A d \in Conns \ {c} : conn'[d] = conn[d]
      BY <1>1, <3>1, <3>2 DEF EventTypeOK
    <3>4. \A d \in Conns \ {c} : (Opened(d)' <=> Opened(d)) /\ (Live(d)' <=> Live(d))
      BY <3>3 DEF Opened, Live
    <3>5. Opened(c)' /\ (Live(c)' => Live(c))
      BY <2>2, <3>2, <3>3 DEF Opened, Live
    <3> QED
      BY <3>2, <3>3, <3>4, <3>5
  <2> QED
    BY <1>3, <2>1, <2>2
<1>5. CASE Events!Yield(c)
  <2>1. /\ queue[c] # <<>> /\ queue' = [queue EXCEPT ![c] = Tail(@)]
        /\ pos' = (IF Reads(c) THEN [pos EXCEPT ![c] = @ + 1] ELSE pos) /\ UNCHANGED <<conn, registered, client>>
    BY <1>5, SameTerms DEF Events!Yield
  <2>2. Tail(queue[c]) \in Seq(Nat) /\ Len(Tail(queue[c])) = Len(queue[c]) - 1 /\ Len(queue[c]) \in Nat
        /\ Range(Tail(queue[c])) \subseteq Range(queue[c])
    BY <1>1, <2>1, TailRange
  <2>3. EventTypeOK'
    BY <1>1, <1>2, <2>1, <2>2 DEF EventTypeOK
  <2>4. Continues
    BY <1>1, <1>2, <1>4, <2>1 DEF Continues, EventTypeOK
  <2>5. ASSUME Disconnect \notin Range(queue[c]), c \in registered
        PROVE  /\ c \in registered' /\ Disconnect \notin Range(queue'[c])
               /\ Reads(c) => (pos'[c] + Len(queue'[c])) - pushes'[TopicOf(conn[c].client)] = (pos[c] + Len(queue[c])) - pushes[TopicOf(conn[c].client)]
    <3>1. queue'[c] = Tail(queue[c]) /\ (Reads(c) => pos'[c] = pos[c] + 1) /\ pos[c] \in Nat
      BY <1>1, <2>1 DEF EventTypeOK
    <3>2. ASSUME Reads(c) PROVE pos'[c] + Len(queue'[c]) = pos[c] + Len(queue[c])
      <4> DEFINE x == pos[c]  y == Len(queue[c])
      <4>1. x \in Nat /\ y \in Nat /\ Len(queue'[c]) = y - 1 /\ pos'[c] = x + 1
        BY <2>2, <3>1, <3>2
      <4> HIDE DEF x, y
      <4>2. (x + 1) + (y - 1) = x + y
        BY <4>1
      <4> QED
        BY <4>1, <4>2 DEF x, y
    <3>3. Disconnect \notin Range(queue'[c])
      BY <2>2, <2>5, <3>1
    <3>4. registered' = registered /\ pushes' = pushes
      BY <1>2, <2>1
    <3>5. Reads(c) => (pos'[c] + Len(queue'[c])) - pushes'[TopicOf(conn[c].client)] = (pos[c] + Len(queue[c])) - pushes[TopicOf(conn[c].client)]
      <4>1. SUFFICES ASSUME Reads(c)
                     PROVE  (pos'[c] + Len(queue'[c])) - pushes'[TopicOf(conn[c].client)] = (pos[c] + Len(queue[c])) - pushes[TopicOf(conn[c].client)]
        OBVIOUS
      <4>2. pos'[c] + Len(queue'[c]) = pos[c] + Len(queue[c])
        BY <3>2, <4>1, Zenon
      <4>3. pushes'[TopicOf(conn[c].client)] = pushes[TopicOf(conn[c].client)]
        BY <3>4, Zenon
      <4> QED
        BY <4>2, <4>3, Zenon
    <3>6. c \in registered'
      BY <2>5, <3>4, Zenon
    <3> QED
      BY <3>3, <3>5, <3>6, Zenon
  <2>6. ASSUME NEW d \in Conns \ {c}, Disconnect \notin Range(queue[d]), d \in registered
        PROVE  /\ d \in registered' /\ Disconnect \notin Range(queue'[d])
               /\ Reads(d) => (pos'[d] + Len(queue'[d])) - pushes'[TopicOf(conn[d].client)] = (pos[d] + Len(queue[d])) - pushes[TopicOf(conn[d].client)]
    <3>1. queue'[d] = queue[d] /\ pos'[d] = pos[d] /\ registered' = registered /\ pushes' = pushes
      BY <1>1, <1>2, <2>1, <2>6 DEF EventTypeOK
    <3> QED
      BY <2>6, <3>1
  <2>7. ASSUME NEW d \in Conns, Disconnect \notin Range(queue[d]), d \in registered
        PROVE  /\ d \in registered' /\ Disconnect \notin Range(queue'[d])
               /\ Reads(d) => (pos'[d] + Len(queue'[d])) - pushes'[TopicOf(conn[d].client)] = (pos[d] + Len(queue[d])) - pushes[TopicOf(conn[d].client)]
    <3>1. CASE d = c
      BY <2>5, <2>7, <3>1, Zenon
    <3>2. CASE d # c
      BY <2>6, <2>7, <3>2, Zenon
    <3> QED
      BY <3>1, <3>2
  <2> QED
    BY <1>2, <2>3, <2>4, <2>7, ContinuesInv
<1>6. CASE ~Events!Yield(c)
  <2>1. pos' = pos /\ (registered' = registered \/ (registered' = registered \ {c} /\ ~Live(c)')) /\ (queue' = queue \/ (queue' = [queue EXCEPT ![c] = Tail(@)] /\ queue[c] # <<>> /\ ~Live(c)'))
        /\ (client' = client \/ client' = [client EXCEPT ![conn[c].client] = NoOne])
    BY <1>1, <1>6, SameTerms DEF Events!Connection, Events!Start, Events!YieldDisconnect, Events!Unregister, Events!Notice, Events!Gone,
       Events!Ends, Live, EventTypeOK, Connections
  <2>2. queue' \in [Conns -> Seq(Nat)] /\ \A d \in Conns : d # c \/ Live(c)' => queue'[d] = queue[d]
    BY <1>1, <2>1, TailRange DEF EventTypeOK
  <2>3. client' \in [Clients -> Conns \cup {NoOne}] /\ \A k \in Clients : client'[k] = client[k] \/ client'[k] = NoOne
    BY <1>1, <2>1 DEF EventTypeOK
  <2>4. EventTypeOK'
    BY <1>1, <1>2, <1>4, <2>1, <2>2, <2>3 DEF EventTypeOK
  <2>5. Continues
    BY <1>1, <1>2, <1>4, <2>1, <2>2, <2>3 DEF Continues, EventTypeOK
  <2>6. \A d \in Conns : Live(d)' /\ d \in registered => d \in registered' /\ queue'[d] = queue[d]
    BY <2>1, <2>2
  <2> QED
    BY <1>2, <2>1, <2>4, <2>5, <2>6, ContinuesInv
<1> QED
  BY <1>5, <1>6

\* The client's side of a connection breaks.
LEMMA BreakStep ==
  ASSUME EventInv, NEW k \in Clients, Events!Break(k)
  PROVE  EventInv'
<1>1. client' = [client EXCEPT ![k] = NoOne] /\ UNCHANGED <<conn, registered, queue, pos, overflowed, pushes, down>>
  BY DEF Events!Break
<1>2. EventTypeOK /\ Topics' = Topics
  BY DEF EventInv, Topics, TopicOf, MessageTopic, RequestTopic, GlobalTopic
<1>3. EventTypeOK'
  BY <1>1, <1>2 DEF EventTypeOK
<1>4. Continues
  BY <1>1, <1>2 DEF Continues, EventTypeOK, Opened, Live
<1> QED
  BY <1>1, <1>3, <1>4, ContinuesInv

LEMMA EventRest ==
  ASSUME EventInv, UNCHANGED <<conn, registered, queue, client, pos, overflowed, pushes, down>>
  PROVE  EventInv'
<1>1. EventTypeOK' /\ InOrder' /\ Owned'
  BY DEF EventInv, EventTypeOK, Topics, TopicOf, MessageTopic, RequestTopic, GlobalTopic, InOrder, Owned, Unopened, Opened
<1>2. Continues
  BY DEF EventInv, EventTypeOK, Continues, Opened, Live
<1> QED
  BY <1>1, <1>2, ContinuesInv

LEMMA EventInit == Events!Init => EventInv
<1> SUFFICES ASSUME Events!Init PROVE EventInv
  OBVIOUS
<1>1. /\ conn = [c \in Conns |-> [at |-> "none", client |-> NoOne]] /\ registered = {} /\ queue = [c \in Conns |-> <<>>]
      /\ client = [k \in Clients |-> NoOne] /\ pos = [c \in Conns |-> 0] /\ overflowed = {} /\ pushes = [t \in Topics |-> 0]
      /\ down = FALSE
  BY SameTerms DEF Events!Init
<1>2. EventTypeOK
  <2>1. <<>> \in Seq(Nat) /\ [at |-> "none", client |-> NoOne] \in Connections
    BY DEF Connections
  <2> QED
    BY <1>1, <2>1 DEF EventTypeOK
<1>3. \A c \in Conns : ~Opened(c) /\ ~Live(c)
  BY <1>1 DEF Opened, Live
<1>4. InOrder /\ Owned /\ \A c \in Conns : Attached(c)
  BY <1>1, <1>3, EventAssumption DEF InOrder, Owned, Unopened, Attached
<1> QED
  BY <1>2, <1>4 DEF EventInv

LEMMA EventStep == EventInv /\ [Events!Next]_(Events!vars) => EventInv'
<1> SUFFICES ASSUME EventInv, [Events!Next]_(Events!vars) PROVE EventInv'
  OBVIOUS
<1>1. ASSUME NEW k \in Clients, Events!Break(k) \/ \E c \in Conns : Events!Open(k, c) PROVE EventInv'
  BY <1>1, BreakStep, ConnectStep DEF Events!Open, Events!ConnectMessages, Events!ConnectAgent, Events!ConnectMetadata, Events!ConnectChat
<1>2. ASSUME NEW c \in Conns, Events!Connection(c) PROVE EventInv'
  <2>1. Opened(c)
    BY <1>2 DEF Events!Connection, Events!Start, Events!Yield, Events!YieldDisconnect, Events!Unregister, Events!Notice, Opened
  <2> QED
    BY <1>2, <2>1, ConnectionStep
<1>3. CASE Events!Push
  <2>1. PICK t \in Topics : Events!Broadcast(t)
    BY <1>3, SameTerms DEF Events!Push, Events!PushMessage, Events!SendRequest, Events!PushChatEvent, Events!PushRoomEvent, Events!PushMetadata
  <2> QED
    BY <2>1, BroadcastStep
<1>4. CASE Events!SaveEvent
  BY <1>4, EventRest DEF Events!SaveEvent
<1>5. CASE Events!Shutdown \/ Events!ManagerCleanup
  BY <1>5, ShutdownStep
<1>6. CASE UNCHANGED Events!vars
  BY <1>6, EventRest DEF Events!vars
<1> QED
  BY <1>1, <1>2, <1>3, <1>4, <1>5, <1>6 DEF Events!Next

LEMMA EventInvAlways == Events!Spec => []EventInv
<1> QED
  BY EventInit, EventStep, PTL DEF Events!Spec

\* SSEManager: the newest connection of an app is told nothing but its events and misses
\* none while its queue has room, for any number of clients, connections and events,
\* whichever connections are replaced, break or end around it.
THEOREM NewestMissesNothingAlways == Events!Spec => []NewestMissesNothing
<1>1. EventInv => NewestMissesNothing
  BY DEF EventInv, Attached, Live, NewestMissesNothing
<1> QED
  BY <1>1, EventInvAlways, PTL
================================================================================
