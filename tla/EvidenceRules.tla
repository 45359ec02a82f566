---------------------------- MODULE EvidenceRules ----------------------------
(***************************************************************************)
(* The rules of package domain that judge a list: overlapping intervals    *)
(* that were listened to or are marked defective, the pauses of a          *)
(* recording, the segments of a file, the tasks of a plan, the climate     *)
(* readings before playback; and the pages of an audit that grows while a  *)
(* client walks it.                                                        *)
(*                                                                         *)
(* A behaviour writes down one list, entry by entry in any order: every    *)
(* state is a list a client may send.  The rules are the loops of the code *)
(* as folds; the properties compare what they compute with what the list   *)
(* says, instant by instant.  Instants are units of time, a digest is the  *)
(* sequence of what it was computed from.  Texts and names are left out.   *)
(***************************************************************************)
EXTENDS Integers, FiniteSets, SequencesExt

CONSTANTS
    Duration,       \* of the audio
    Ended,          \* when a recording that starts at 0 ends
    Tolerance,      \* between the audio and the unpaused recording
    Stable,         \* how long the climate has to be stable
    Facets,         \* of the carrier
    Playable,       \* the facets that can be played
    Entries,        \* what each list may consist of
    MaxEntries,     \* bound: entries of each list
    Limits          \* page sizes

Lists == {"intervals", "operations", "segments", "tasks", "readings", "audit"}

ASSUME RulesAssumption ==
    /\ {Duration, Ended, Tolerance, Stable} \subseteq Nat
    /\ Playable \subseteq Facets
    /\ Limits \subseteq Nat \ {0}
    /\ DOMAIN Entries = Lists \ {"audit"} /\ MaxEntries \in [Lists -> Nat]

(* What the code asks of one entry, before it looks at the list.           *)
ASSUME EntriesAssumption ==
    /\ \A s \in Entries["intervals"] :
         s \in [start : Nat, end : Nat] /\ s.start < s.end
    /\ \A e \in Entries["operations"] :
         e \in [type : {"pause", "resume", "splice_repair", "operator_note"},
               at : 0..Ended]
    /\ \A s \in Entries["segments"] : {s.start, s.end} \subseteq Int
    /\ \A x \in Entries["tasks"] : x.order \in Nat
    /\ \A r \in Entries["readings"] : r.at \in Int /\ r.inside \in BOOLEAN

VARIABLES
    list,       \* which list this is
    entries,    \* its entries, as submitted; the events of an audit
    revision,   \* of the case whose audit it is
    cursor,     \* next_after_revision of the last page
    seen,       \* the revisions the pages have shown
    trusted     \* all pages said integrity_status = verified

walk == <<revision, cursor, seen, trusted>>
vars == <<list, entries, walk>>

LengthOf(s) == s.end - s.start
Instants(s) == s.start..(s.end - 1)
Heard(s) == UNION {Instants(s[i]) : i \in DOMAIN s}

(***************************************************************************)
(* A loop over a list: its state after each of the first i entries.  A     *)
(* list sorted by the two fields that matter of what the code compares;    *)
(* entries that agree in both stay as submitted.                           *)
(***************************************************************************)
Loop(Step(_, _), first, s) ==
    LET after[i \in 0..Len(s)] ==
            IF i = 0 THEN first ELSE Step(after[i - 1], s[i])
    IN  after

Less(k, l) == k[1] < l[1] \/ (k[1] = l[1] /\ k[2] < l[2])

Preceding(keys, i) ==
    {j \in DOMAIN keys : Less(keys[j], keys[i]) \/ (keys[j] = keys[i] /\ j < i)}

Sorted(s, keys) ==
    [n \in DOMAIN s |->
        s[CHOOSE i \in DOMAIN s : Cardinality(Preceding(keys, i)) = n - 1]]

(***************************************************************************)
(* Listened intervals of one channel, merged in the order of their starts. *)
(***************************************************************************)
ByStart(s) == Sorted(s, [i \in DOMAIN s |-> <<s[i].start, s[i].end>>])

(* Fault: the end of the last interval wins                              *)
MergeLastEnd(merged, s) ==
    IF merged # <<>> /\ s.start =< Last(merged).end
    THEN [merged EXCEPT ![Len(merged)].end = s.end]
    ELSE Append(merged, s)

Merge(merged, s) ==
    IF merged # <<>> /\ s.start =< Last(merged).end
    THEN [merged EXCEPT ![Len(merged)].end = IF s.end > @ THEN s.end ELSE @]
    ELSE Append(merged, s)

Merged(s) == Loop(Merge, <<>>, ByStart(s))[Len(s)]

Add(n, s) == n + LengthOf(s)

Covered(merged) == Loop(Add, 0, merged)[Len(merged)]

(* Full coverage, or a sample: a tenth of it, with its beginning, its      *)
(* middle and its end.                                                     *)
Sufficient(merged, duration, full) ==
    IF full THEN Covered(merged) >= duration
    ELSE /\ 10 * Covered(merged) >= duration
         /\ \E i \in DOMAIN merged : merged[i].start = 0
         /\ \E i \in DOMAIN merged : /\ merged[i].start =< duration \div 2
                                     /\ merged[i].end > duration \div 2
         /\ \E i \in DOMAIN merged : merged[i].end = duration

InsideInterval(merged, m) ==
    \E i \in DOMAIN merged : m.start >= merged[i].start /\ m.end =< merged[i].end

(* Fault: what overlaps is reported twice                                *)
CoverageOfAll(s) == Covered(s)

Coverage(s) == Covered(Merged(s))

(* Too little coverage fails the generation, and anomalies are not looked  *)
(* at; an anomaly outside what was heard rejects the request.              *)
Verdict(s, merged, anomalies, duration, full) ==
    IF \E i \in DOMAIN s : s[i].end > duration THEN "invalid"
    ELSE IF ~Sufficient(merged, duration, full) THEN "insufficient"
    ELSE IF \E m \in anomalies : ~InsideInterval(merged, m) THEN "invalid"
    ELSE "covered"

Review(s, anomalies, duration, full) ==
    LET merged == Merged(s)
        verdict == Verdict(s, merged, anomalies, duration, full)
    IN  [verdict |-> verdict, covered |-> Coverage(s), of |-> duration,
         intervals |-> IF verdict = "invalid" THEN <<>> ELSE merged]

(* A review measures the last capture of its generation, the seal looks at *)
(* what was kept of it and measures the first.                             *)
ReviewDuration(durations) == Last(durations)
SealDuration(durations) == durations[1]

SealRepeats(s, anomalies, durations, full) ==
    LET review == Review(s, anomalies, ReviewDuration(durations), full)
        again == Review(review.intervals, anomalies, SealDuration(durations), full)
    IN  review.verdict # "invalid" =>
            /\ again.verdict # "invalid" /\ again.intervals = review.intervals
            /\ again.covered = review.covered
            /\ again.covered * review.of = review.covered * again.of

(***************************************************************************)
(* Defect markers of one type and channel: their summed impact.            *)
(***************************************************************************)
AddMarker(impact, s) ==
    [affected |->
        IF s.start >= impact.maxEnd THEN impact.affected + LengthOf(s)
        ELSE IF s.end > impact.maxEnd
             THEN impact.affected + (s.end - impact.maxEnd)
             ELSE impact.affected,
     maxEnd |-> IF s.end > impact.maxEnd THEN s.end ELSE impact.maxEnd]

Affected(s) ==
    Loop(AddMarker, [affected |-> 0, maxEnd |-> -1], ByStart(s))[Len(s)].affected

(***************************************************************************)
(* Pauses of a recording, and what was done to the carrier in them.        *)
(***************************************************************************)
Rank(type) == CASE type = "pause" -> 0 [] type = "resume" -> 2 [] OTHER -> 1

ByTime(s) == Sorted(s, [i \in DOMAIN s |-> <<s[i].at, Rank(s[i].type)>>])

NotPaused == -1

Scan(log, e) ==
    CASE e.type = "pause" ->
           [log EXCEPT !.valid = @ /\ log.pauseAt = NotPaused, !.pauseAt = e.at]
      [] e.type = "resume" ->
           [log EXCEPT !.valid = @ /\ log.pauseAt # NotPaused
                                   /\ e.at > log.pauseAt,
                       !.paused = @ + (e.at - log.pauseAt),
                       !.pauseAt = NotPaused]
      [] e.type = "splice_repair" ->
           [log EXCEPT !.valid = @ /\ log.pauseAt # NotPaused]
      [] OTHER -> log

Scanned(s) ==
    Loop(Scan, [valid |-> TRUE, pauseAt |-> NotPaused, paused |-> 0],
         ByTime(s))[Len(s)]

AsLongAs(duration, net) == duration - net \in (-Tolerance)..Tolerance

(* Fault: the last pause may stay open                                   *)
AcceptedWhilePaused(s) ==
    LET log == Scanned(s)
    IN  log.valid /\ AsLongAs(Duration, Ended - log.paused)

OperationsAccepted(s) ==
    LET log == Scanned(s)
    IN  /\ log.valid /\ log.pauseAt = NotPaused
        /\ AsLongAs(Duration, Ended - log.paused)

(***************************************************************************)
(* Segments of a file, which the client numbers.                           *)
(***************************************************************************)

(* Fault: a segment is not compared with the one before                  *)
AcceptedOneByOne(s) ==
    /\ s # <<>> /\ Covered(s) = Duration /\ Last(s).end = Duration
    /\ \A i \in DOMAIN s :
         /\ s[i].sequence = i /\ s[i].start < s[i].end
         /\ \A j \in 1..(i - 1) : s[j].digest # s[i].digest

SegmentsAccepted(s) ==
    /\ s # <<>> /\ Covered(s) = Duration /\ Last(s).end = Duration
    /\ \A i \in DOMAIN s :
         /\ s[i].sequence = i /\ s[i].start < s[i].end
         /\ \A j \in 1..(i - 1) : s[j].digest # s[i].digest
         /\ s[i].start = IF i = 1 THEN 0 ELSE s[i - 1].end

(***************************************************************************)
(* Tasks of a plan and the facets it skips, which have order 0 here.       *)
(***************************************************************************)
TasksOf(s) == {i \in DOMAIN s : s[i].order # 0}
SkipsOf(s) == DOMAIN s \ TasksOf(s)
FacetList(s) == [i \in DOMAIN s |-> s[i].facet]
Orders(s) == [i \in TasksOf(s) |-> s[i].order]

TasksAccepted(s) ==
    /\ \A i \in TasksOf(s) : s[i].facet \in Playable
    /\ \A i \in SkipsOf(s) : s[i].facet \in Facets \ Playable
    /\ IsInjective(FacetList(s)) /\ IsInjective(Orders(s))
    /\ \A n \in 1..Cardinality(TasksOf(s)) : \E i \in TasksOf(s) : s[i].order = n
    /\ {s[i].facet : i \in DOMAIN s} = Facets

(***************************************************************************)
(* Climate readings before playback: the code looks back from the last one *)
(* for as long as the climate was in its range.                            *)
(***************************************************************************)
LookBack(window, r) ==
    IF window.open /\ r.inside THEN [open |-> TRUE, from |-> r.at]
    ELSE [window EXCEPT !.open = FALSE]

StableFrom(s) ==
    Loop(LookBack, [open |-> TRUE, from |-> Last(s).at + 1],
         Reverse(s))[Len(s)].from

ReadingsAccepted(s) ==
    /\ Len(s) >= 2
    /\ \A i \in 2..Len(s) : s[i - 1].at =< s[i].at
    /\ Last(s).at - StableFrom(s) >= Stable

(***************************************************************************)
(* Pages of an audit.  Search and update hold the mutex of the case, but   *)
(* an append may fail, and a registered case is visible before its first   *)
(* event is appended.                                                      *)
(***************************************************************************)
Event(n, wanted) == [revision |-> n, wanted |-> wanted]

Register ==
    /\ list = "audit" /\ revision = 0
    /\ revision' = 1
    /\ UNCHANGED <<list, entries, cursor, seen, trusted>>

AppendRegistration(wanted) ==
    /\ list = "audit" /\ revision > 0
    /\ \A i \in DOMAIN entries : entries[i].revision # 1
    /\ entries' = Append(entries, Event(1, wanted))
    /\ UNCHANGED <<list, walk>>

Update(wanted, appended) ==
    /\ list = "audit" /\ revision \in 1..(MaxEntries[list] - 1)
    /\ revision' = revision + 1
    /\ entries' = IF appended THEN Append(entries, Event(revision + 1, wanted))
                  ELSE entries
    /\ UNCHANGED <<list, cursor, seen, trusted>>

(* Fault: only the events are looked at, not their number                *)
InOrder == \A i \in DOMAIN entries : entries[i].revision = i

Verified ==
    /\ Len(entries) = revision
    /\ \A i \in DOMAIN entries : entries[i].revision = i

(* The page shows the first of the events after the last page.           *)
Show(page, e) ==
    IF ~e.wanted \/ e.revision =< page.after \/ page.more THEN page
    ELSE IF Len(page.shown) < page.limit
         THEN [page EXCEPT !.shown = Append(@, e.revision)]
         ELSE [page EXCEPT !.more = TRUE]

Page(after, limit) ==
    Loop(Show, [after |-> after, limit |-> limit, shown |-> <<>>, more |-> FALSE],
         entries)[Len(entries)]

Search(limit) ==
    LET page == Page(cursor, limit)
    IN  /\ list = "audit" /\ revision > 0
        /\ seen' = seen \o page.shown
        /\ cursor' = IF page.more THEN Last(page.shown) ELSE revision
        /\ trusted' = (trusted /\ Verified)
        /\ UNCHANGED <<list, entries, revision>>

(***************************************************************************)
Init ==
    /\ list \in Lists /\ entries = <<>>
    /\ revision = 0 /\ cursor = 0 /\ seen = <<>> /\ trusted = TRUE

WriteDown(entry) ==
    /\ Len(entries) < MaxEntries[list]
    /\ entries' = Append(entries, entry)
    /\ UNCHANGED <<list, walk>>

Next ==
    \/ /\ list # "audit"
       /\ \E entry \in Entries[list] : WriteDown(entry)
    \/ Register
    \/ \E wanted \in BOOLEAN :
         \/ AppendRegistration(wanted)
         \/ \E appended \in BOOLEAN : Update(wanted, appended)
    \/ \E limit \in Limits : Search(limit)

Spec == Init /\ [][Next]_vars

(***************************************************************************)
(* Properties.                                                             *)
(***************************************************************************)

(* However intervals overlap or touch, an instant counts once: listening   *)
(* intervals and defect markers measure the instants they name, the merged *)
(* intervals are apart, an anomaly lies in one of them exactly when all of *)
(* it was heard, and full coverage means that everything was.              *)
OverlapsCountOnce ==
    list = "intervals" =>
        LET merged == Merged(entries)
        IN  /\ Covered(merged) = Cardinality(Heard(entries))
            /\ Affected(entries) = Cardinality(Heard(entries))
            /\ \A i \in 2..Len(merged) : merged[i - 1].end < merged[i].start
            /\ \A m \in Entries[list] :
                 InsideInterval(merged, m) <=> Instants(m) \subseteq Heard(entries)
            /\ \A duration \in 1..Duration :
                 (\A i \in DOMAIN entries : entries[i].end =< duration) =>
                     (Sufficient(merged, duration, TRUE)
                         <=> Heard(entries) = 0..(duration - 1))

(* A review of listening intervals, once accepted, is accepted again when  *)
(* the case is sealed, from what was kept of it and with the same result,  *)
(* if all captures of the generation are of the same length.               *)
SealRepeatsReview ==
    list = "intervals" =>
        \A full \in BOOLEAN, anomaly \in Entries[list] :
            SealRepeats(entries, {anomaly}, <<Duration, Duration>>, full)

(* The same of a generation whose captures differ in length.               *)
SealRepeatsAnyReview ==
    list = "intervals" =>
        \A full \in BOOLEAN, first \in 1..Duration, last \in 1..Duration :
            SealRepeats(entries, {}, <<first, last>>, full)

(* In an accepted recording the carrier was paused exactly in the instants *)
(* that follow a pause and no resume, repairs were made only in pauses,    *)
(* and what is left is as long as the audio.                               *)
PausesAddUp ==
    list = "operations" /\ OperationsAccepted(entries) =>
        LET Times(type) == {entries[i].at : i \in {j \in DOMAIN entries :
                                                      entries[j].type = type}}
            Paused(t) == \E p \in Times("pause") :
                            p =< t /\ Times("resume") \cap (p + 1)..t = {}
            running == {t \in 0..(Ended - 1) : ~Paused(t)}
        IN  /\ Scanned(entries).paused = Ended - Cardinality(running)
            /\ \A t \in Times("splice_repair") : Paused(t) \/ Paused(t - 1)
            /\ AsLongAs(Duration, Cardinality(running))
            /\ OperationsAccepted(Reverse(entries))

(* What is accepted is proven by its list: each instant of a file is in    *)
(* one segment, each facet is captured once or skipped and tasks have an   *)
(* order, and before playback the climate was stable for long enough.      *)
AcceptedIsProven ==
    /\ list = "segments" /\ SegmentsAccepted(entries) =>
         \A t \in 0..(Duration - 1) :
            Cardinality({i \in DOMAIN entries : t \in Instants(entries[i])}) = 1
    /\ list = "tasks" /\ TasksAccepted(entries) =>
         /\ \A f \in Facets :
              Cardinality({i \in DOMAIN entries : entries[i].facet = f}) = 1
         /\ \A i \in DOMAIN entries :
              entries[i].facet \in Playable <=> entries[i].order # 0
         /\ {entries[i].order : i \in DOMAIN entries} \ {0}
              = 1..Cardinality(Playable)
    /\ list = "readings" /\ ReadingsAccepted(entries) =>
         \E i \in DOMAIN entries :
            /\ entries[i].at =< Last(entries).at - Stable
            /\ \A j \in i..Len(entries) : entries[j].inside

(* A client that walks the audit while it grows sees every event it asked  *)
(* for, once and in order, if every page said the audit was verified.      *)
PagesComplete ==
    list = "audit" /\ trusted =>
        /\ {seen[i] : i \in DOMAIN seen} =
               {entries[i].revision : i \in {j \in DOMAIN entries :
                   entries[j].wanted /\ entries[j].revision =< cursor}}
        /\ \A i \in 2..Len(seen) : seen[i - 1] < seen[i]
=============================================================================
