------------------------------ MODULE Reduction ------------------------------
(***************************************************************************)
(* How tool-summary shortens one oversized tool result: whether it is to   *)
(* be shortened (policy.ts), what a summary without a model consists of    *)
(* (policy.ts), whether it is stored (index.ts), and what an exact recall  *)
(* of the original returns (recall.ts).  ToolSummary has when this is done.*)
(*                                                                         *)
(* A text is a sequence of lines.  Of a line its length matters, whether   *)
(* it is required evidence, and its spots: the places PRIORITY_MATCH       *)
(* matches, with what makes them important.  Sizes are the code's own; the *)
(* shares of a budget are computed without rounding errors.                *)
(***************************************************************************)
EXTENDS Integers, Sequences, SequencesExt, FiniteSetsExt

CONSTANTS Items,                 \* the tool results
          Retention,             \* config.imageRetention
          Standard, High,        \* config.standardThreshold, highFidelityThreshold
          MaxOutput, MaxLines, MaxMatches    \* MAX_RECALL_OUTPUT_CHARS, ..._LINES, MAX_SEARCH_MATCHES

VARIABLES item,       \* the result, with its images and how many newer images there are
          fate,       \* new, raw, candidate, summary, not-worthwhile, required-evidence-overflow
          stored,     \* the summary
          recalled    \* the answer of tool_result_recall

vars == <<item, fate, stored, recalled>>

AtLeast(n, m) == Max({n, m})
AtMost(n, m) == Min({n, m})
Digits(n) == 1 + Cardinality({d \in {10, 100, 1000, 10000} : n >= d})

\* Characters of a text, whose lines are joined by newlines.
Length(text) == MapThenSumSet(LAMBDA n : text[n].len + 1, DOMAIN text) - 1

\* A minified JSON value is one line; lexicallyFormatJson gives every member a line of its
\* own, with a newline, two blanks of indentation and one behind the colon.
Original(i) == IF i.shape = "json" THEN <<[len |-> Length(i.lines) - 4 * Len(i.lines), need |-> "none", spots |-> <<>>]>>
          ELSE i.lines
RawChars(i) == Length(Original(i))

-----------------------------------------------------------------------------
(* resolvePolicy *)

\* ageToolResultImages leaves the newest images of all results.
ImagesLeft(i) == AtLeast(0, AtMost(i.images, Retention - i.newer))

Exempt(i) == ImagesLeft(i) > 0 \/ i.tool = "control"

\* Reports and extracted prose are for the model, logs and searches are not; the rest is
\* judged by its looks.
Deterministic(i) ==
  \/ i.error
  \/ i.tool \in {"bash", "search"}
  \/ i.tool \in {"api", "custom"} /\ i.shape \in {"json", "log"}

Threshold(i) == IF i.tool = "report" THEN High ELSE Standard

Candidate(i) == ~Exempt(i) /\ RawChars(i) > Threshold(i)

\* findSourceEntryId looks for the hash of what the provider is given, in which aged
\* images are texts, among the stored contents, in which they are images.
Found(i) == ImagesLeft(i) = i.images

-----------------------------------------------------------------------------
(* deterministicReduce *)

\* A header of an old file counts only before one of a new file.
Evidence(text) ==
  {n \in DOMAIN text :
     \/ text[n].need = "line"
     \/ text[n].need = "old" /\ n < Len(text) /\ text[n + 1].need = "new"
     \/ text[n].need = "new" /\ n > 1 /\ text[n - 1].need = "old"}

EvidenceChars(text) ==
  IF Evidence(text) = {} THEN 0
  ELSE 65 + MapThenSumSet(LAMBDA n : text[n].len + Digits(n) + 4, Evidence(text))

Marker == 38   \* REDUCTION_CLIPPED_MARKER

CanPreserve(i, max) ==
  \/ RawChars(i) <= max
  \/ EvidenceChars(i.lines) = 0
  \/ EvidenceChars(i.lines) + Marker + 2 <= max

\* priorityScore, by the kinds of the spots in a fragment.
Weight == [exit |-> 100, id |-> 50, error |-> 20, other |-> 0]
Within(line, start, end) ==
  {s \in Range(line.spots) : s.at >= start /\ s.at + s.len <= end}
Score(spots) == AtLeast(1, MapThenSumSet(LAMBDA k : Weight[k], {s.kind : s \in spots}))

\* The most characters of a fragment, and of an excerpt in it.
FragmentCap(max) == AtLeast(80, AtMost(320, max \div 2))
ContentCap(max) == AtLeast(40, FragmentCap(max) - 48)

\* priorityFragments: what is around each spot of a long line, joined while it fits.
Excerpt(line, s, cap) ==
  LET spare == AtLeast(0, cap - s.len) IN
  [start |-> AtLeast(0, s.at - (35 * spare) \div 100),
   end   |-> AtMost(line.len, s.at + s.len + (65 * spare + 99) \div 100)]

Excerpts(line, cap) ==
  LET Join(es, s) ==
        LET e == Excerpt(line, s, cap)
            end == AtLeast(Last(es).end, e.end)
        IN IF es # <<>> /\ e.start <= Last(es).end + 20 /\ end - Last(es).start <= cap
           THEN Append(Front(es), [Last(es) EXCEPT !.end = end])
           ELSE Append(es, e)
  IN FoldLeft(Join, <<>>, line.spots)

Fragment(line, n, start, end, chars) ==
  [line |-> n, at |-> start, chars |-> chars, score |-> Score(Within(line, start, end))]

Fragments(text, max) ==
  UNION {LET line == text[n]
             whole == line.len + Digits(n) + 3
         IN IF whole <= FragmentCap(max) THEN {Fragment(line, n, 0, line.len, whole)}
            ELSE {Fragment(line, n, e.start, e.end,
                           e.end - e.start + 11 + Digits(n) + Digits(e.start + 1) + Digits(e.end)) :
                  e \in Range(Excerpts(line, ContentCap(max)))} :
         n \in {m \in DOMAIN text : text[m].spots # <<>>}}

Before(f, g) ==
  \/ f.score > g.score
  \/ f.score = g.score /\ f.line > g.line
  \/ f.score = g.score /\ f.line = g.line /\ f.at < g.at

First(fs) == CHOOSE f \in fs : \A g \in fs \ {f} : Before(f, g)

Used(fs) == MapThenSumSet(LAMBDA f : f.chars + 1, fs)

\* priorityText takes what fits, the most important first.
Shown(text, max) ==
  LET all == Fragments(text, max)
      Take(taken, n) ==
        LET f == First(taken.left) IN
        [left |-> taken.left \ {f},
         got  |-> IF Used(taken.got) + f.chars + 1 > max THEN taken.got ELSE taken.got \union {f}]
  IN FoldLeft(Take, [left |-> all, got |-> {}], [n \in 1 .. Cardinality(all) |-> n]).got

\* The percentages of the beginning and of the important lines.
Shares == [tail |-> <<15, 35>>, head |-> <<50, 35>>, structured |-> <<25, 55>>, balanced |-> <<30, 40>>]

\* reducerFlavor, and deterministicReduce on JSON.
Flavor(i) ==
  IF i.shape = "json" \/ i.tool = "api" THEN "structured"
  ELSE IF i.tool = "bash" THEN "tail" ELSE IF i.tool = "search" THEN "head" ELSE "balanced"

Section(label, chars) == IF chars = 0 THEN 0 ELSE label + chars

\* reduceByAllocation: how long the reduction is, whether all evidence is in it, the
\* budget of important fragments and which of them it is sure to have.  What is too long
\* after all is cut off at its end; the evidence comes first.
Reduce(text, max, flavor) ==
  LET evidence  == EvidenceChars(text)
      available == AtLeast(0, max - 160 - Section(2, evidence))
      head      == (available * Shares[flavor][1]) \div 100
      priority  == (available * Shares[flavor][2]) \div 100
      shown     == Shown(text, priority)
      pieces    == SelectSeq(<<evidence, Section(12, AtMost(head, Length(text))), Section(23, Used(shown)),
                               Section(6, AtMost(available - head - priority, Length(text))),
                               85 + Digits(AtLeast(0, Length(text) - max))>>, LAMBDA p : p > 0)
      rendered  == FoldLeft(LAMBDA sum, p : sum + p + 2, 0, pieces) - 2
  IN IF max <= 0 THEN [chars |-> 0, evidence |-> evidence = 0, budget |-> 0, shown |-> {}]
     ELSE IF Length(text) <= max
     THEN [chars |-> Length(text), evidence |-> TRUE, budget |-> 0, shown |-> {}]
     ELSE [chars    |-> AtMost(rendered, max),
           evidence |-> rendered <= max \/ evidence = 0 \/ evidence <= max - Marker,
           budget   |-> priority, shown |-> IF rendered <= max THEN shown ELSE {}]

-----------------------------------------------------------------------------
(* The job of a candidate, startSummary *)

\* summaryReplacementParts are frame characters, which depend on the names in them.
Saved(i) == (60 * RawChars(i)) \div 100
BodyBudget(i) == AtLeast(0, Min({3000, 4000 - i.frame, Saved(i) - i.frame}))

Nothing == [chars |-> 0, evidence |-> FALSE, budget |-> 0, shown |-> {}]

\* makeSummaryReplacement with persistCompleted.
Complete(body) ==
  LET chars == item.frame + body.chars IN
  IF chars <= 4000 /\ chars <= Saved(item)
  THEN fate' = "summary" /\ stored' = [body EXCEPT !.chars = chars]
  ELSE fate' = "not-worthwhile" /\ stored' = Nothing

Init == item \in Items /\ fate = "new" /\ stored = Nothing /\ recalled = [op |-> "none", chars |-> 0]

\* The context handler: only what is found on the branch becomes a job.
Context ==
  /\ fate = "new"
  /\ fate' = IF Candidate(item) /\ Found(item) THEN "candidate" ELSE "raw"
  /\ UNCHANGED <<item, stored, recalled>>

ReduceIt ==
  /\ fate = "candidate" /\ Deterministic(item)
  /\ IF CanPreserve(item, BodyBudget(item))
     THEN Complete(Reduce(item.lines, BodyBudget(item), Flavor(item)))
     ELSE fate' = "required-evidence-overflow" /\ stored' = Nothing
  /\ UNCHANGED <<item, recalled>>

\* The model answers with any text, which is cut like any other.
ModelAnswers ==
  /\ fate = "candidate" /\ ~Deterministic(item)
  /\ \E n \in {1, AtLeast(1, BodyBudget(item)), 3000} :
       Complete([Nothing EXCEPT !.chars = AtMost(n, BodyBudget(item))])
  /\ UNCHANGED <<item, recalled>>

-----------------------------------------------------------------------------
(* executeRecall *)

Footer == 19
Room(i) == MaxOutput - i.frame - Footer

Answer(op, chars, first, last) == [op |-> op, chars |-> chars, first |-> first, last |-> last]
Refused == [op |-> "refused", chars |-> 0]

\* exactLineRange: the lines with their newlines.
RangeChars(text, first, last) ==
  MapThenSumSet(LAMBDA n : text[n].len + 1, first .. last) - (IF last = Len(text) THEN 1 ELSE 0)

Slice(op, first, last) ==
  recalled' = IF Room(item) < 500 \/ RangeChars(Original(item), first, last) > Room(item) THEN Refused
              ELSE Answer(op, item.frame + RangeChars(Original(item), first, last) + Footer, first, last)

LineCount(n) == AtLeast(1, AtMost(MaxLines, n))

FirstLines(n) == Slice("head", 1, AtMost(Len(Original(item)), LineCount(n)))
LastLines(n) == Slice("tail", AtLeast(1, Len(Original(item)) - LineCount(n) + 1), Len(Original(item)))
LineRange(first, last) ==
  IF first < 1 \/ last < first \/ last - first + 1 > MaxLines \/ last > Len(Original(item))
  THEN recalled' = Refused
  ELSE Slice("line-range", first, last)

\* The characters of an answer that returns the lines got of the matches.
SearchChars(matches, got) ==
  item.frame + Footer
  + (IF got # {} THEN MapThenSumSet(LAMBDA n : Original(item)[n].len + 31 + Digits(n), got) - 2
     ELSE IF matches = {} THEN 26 ELSE 56)
  + (IF got = matches THEN 0 ELSE 81 + Digits(Cardinality(matches \ got)))

\* The first matches, but for those that do not fit.
Search(matches) ==
  LET tried == {n \in matches : Cardinality({m \in matches : m < n}) < MaxMatches}
      Select(got, n) == IF n \in tried /\ SearchChars(matches, got \union {n}) <= MaxOutput THEN got \union {n} ELSE got
      got == FoldLeft(Select, {}, [n \in DOMAIN Original(item) |-> n])
  IN recalled' = IF Room(item) < 500 THEN Refused
                 ELSE [op |-> "search", chars |-> SearchChars(matches, got), got |-> got, of |-> matches]

Recall ==
  /\ recalled.op = "none" /\ fate \notin {"new", "candidate"}
  /\ \/ \E n \in 0 .. MaxLines + 1 : FirstLines(n) \/ LastLines(n)
     \/ \E first, last \in 0 .. MaxLines + 2 : LineRange(first, last)
     \/ \E matches \in SUBSET DOMAIN Original(item) : Search(matches)
  /\ UNCHANGED <<item, fate, stored>>

Next == Context \/ ReduceIt \/ ModelAnswers \/ Recall

Spec == Init /\ [][Next]_vars

-----------------------------------------------------------------------------
\* The values the variables take.
TypeOK ==
  /\ fate \in {"new", "raw", "candidate", "summary", "not-worthwhile", "required-evidence-overflow"}
  /\ DOMAIN stored = {"chars", "evidence", "budget", "shown"} /\ recalled.chars \in Nat

\* README of tool-summary: a summary without a model has room for every failed status, file
\* header and exact value, or the result stays as it is ("required-evidence-overflow").
EvidenceKept == fate = "summary" /\ Deterministic(item) => stored.evidence

\* "Bound every priority fragment so one padded decoy cannot ... hide a later exit code":
\* of the budget every fragment takes 320 characters and a newline at most, unless a single
\* match is longer, so as many of the most important ones are shown as that leaves room for.
ImportantShown ==
  stored.budget > 0 /\ (\A n \in DOMAIN item.lines : \A s \in Range(item.lines[n].spots) : s.len <= 272) =>
    \A f \in Fragments(item.lines, stored.budget) \ stored.shown :
      Cardinality({g \in stored.shown : g.score >= f.score}) >= stored.budget \div 321

\* summaryBodyBudget and replacementIsWorthwhile agree: a summary is refused only when its
\* frame alone is too long.
BudgetSuffices == fate = "not-worthwhile" => item.frame > AtMost(4000, Saved(item))

\* An answer keeps to the guard, notes about what it omits included.
RecallFits == recalled.chars <= MaxOutput

\* A search leaves out a line only if it found too many, or the line would not have fitted.
SearchComplete ==
  recalled.op = "search" /\ Cardinality(recalled.of) <= MaxMatches =>
    \A n \in recalled.of \ recalled.got : SearchChars(recalled.of, recalled.got \union {n}) > MaxOutput

Sound == EvidenceKept /\ ImportantShown /\ BudgetSuffices /\ RecallFits /\ SearchComplete
==============================================================================
