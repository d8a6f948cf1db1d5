------------------------------ MODULE Downsample -------------------------------
(***************************************************************************)
(* downsample_min_max of lantern-app/src/telemetry/downsample.rs: which    *)
(* points of a history a chart of a given width draws.  A history is a     *)
(* sequence of points that have a number or are a gap; the chart is the    *)
(* increasing sequence of the indices that are kept.                       *)
(***************************************************************************)
EXTENDS Integers, Sequences, SequencesExt, FiniteSets, FiniteSetsExt

CONSTANTS
    Values,         \* numbers a sample renders to
    MaxPoints, MaxWidth     \* bounds of the histories and the charts

VARIABLES points, width, chart, drawn

chartVars == <<points, width, chart, drawn>>

\* renderable_value: a Good sample with a finite number; anything else is a gap
Point == [gap : {FALSE}, value : Values] \cup [gap : {TRUE}, value : {0}]

Renderable(h) == {i \in DOMAIN h : ~h[i].gap}

CeilDiv(a, b) == (a + b - 1) \div b

\* the maximal runs of renderable points, in order, as pairs of indices
Segments(h) ==
    LET from == {i \in Renderable(h) : i = 1 \/ h[i - 1].gap}
        Stop(i) == Max({j \in i .. Len(h) : i .. j \subseteq Renderable(h)})
    IN  SetToSortSeq({<<i, Stop(i)>> : i \in from}, LAMBDA a, b : a[1] < b[1])

Abs(v) == IF v < 0 THEN -v ELSE v

\* the first point of the set for which no other point is Better
FirstBest(S, Better(_, _)) ==
    Min({i \in S : \A j \in S : ~Better(j, i)})

\* mutant: of a single point the largest is kept, not the strongest
Strongest_Signed(h, S) == {FirstBest(S, LAMBDA i, j : h[i].value > h[j].value)}

Strongest(h, S) == {FirstBest(S, LAMBDA i, j : Abs(h[i].value) > Abs(h[j].value))}

\* the extrema of each chunk, and the last point if there is room
Extrema(h, S, budget) ==
    LET first == Min(S)
        size == CeilDiv(Cardinality(S), Max({budget \div 2, 1}))
        chunks == {{i \in S : (i - first) \div size = k} : k \in {(i - first) \div size : i \in S}}
        picked == UNION {{FirstBest(c, LAMBDA i, j : h[i].value < h[j].value),
                          FirstBest(c, LAMBDA i, j : h[i].value > h[j].value)} : c \in chunks}
    IN  IF Cardinality(picked) < budget THEN picked \cup {Max(S)} ELSE picked

\* downsample_segment
DownsampleSegment(h, S, budget) ==
    IF budget = 0 THEN {}
    ELSE IF Cardinality(S) <= budget THEN S
    ELSE IF budget = 1 THEN Strongest(h, S)
    ELSE Extrema(h, S, budget)

\* the share of a segment of the points that are left
Share(rest, length) ==
    IF rest.values = 0 THEN 0
    ELSE Min({Max({CeilDiv(rest.budget * length, rest.values), 1}), rest.budget})

\* one segment after another, while there is room
Draw(h, budget) ==
    LET AddSegment(rest, s) ==
            IF rest.budget = 0 THEN rest
            ELSE LET S == s[1] .. s[2]
                     chosen == DownsampleSegment(h, S, Share(rest, Cardinality(S)))
                 IN  [budget |-> rest.budget - Cardinality(chosen),
                      values |-> rest.values - Cardinality(S),
                      chosen |-> rest.chosen \cup chosen]
    IN  FoldLeft(AddSegment, [budget |-> budget, values |-> Cardinality(Renderable(h)), chosen |-> {}],
                 Segments(h)).chosen

\* downsample_min_max; more gaps than the chart is wide leave the oldest gaps
DownsampleMinMax(h, w) ==
    LET gaps == DOMAIN h \ Renderable(h)
        all == IF Cardinality(gaps) >= w THEN gaps ELSE gaps \cup Draw(h, w - Cardinality(gaps))
        sorted == SetToSortSeq(all, <)
    IN  SubSeq(sorted, 1, Min({w, Len(sorted)}))

\* render_history with any history and any width
ChartInit ==
    /\ points \in UNION {[1 .. n -> Point] : n \in 0 .. MaxPoints}
    /\ width \in 0 .. MaxWidth
    /\ chart = <<>> /\ drawn = FALSE

ChartIdle == points = <<>> /\ width = 0 /\ chart = <<>> /\ drawn = TRUE

RenderHistory ==
    /\ ~drawn
    /\ chart' = DownsampleMinMax(points, width)
    /\ drawn' = TRUE
    /\ UNCHANGED <<points, width>>

\* A chart never exceeds its width, keeps every gap there is room for, so that
\* no line joins two points a gap separates, and of every stretch it draws at
\* all it keeps the value furthest from zero and, where two points of a longer
\* stretch are drawn, its minimum and its maximum.
ChartIsHonest ==
    drawn =>
        LET kept == {chart[i] : i \in DOMAIN chart}
            gaps == DOMAIN points \ Renderable(points)
        IN  /\ Len(chart) <= width
            /\ Cardinality(gaps) < width => gaps \subseteq kept
            /\ Cardinality(gaps) >= width => kept \subseteq gaps
            /\ \A k \in DOMAIN Segments(points) :
                  LET S == Segments(points)[k][1] .. Segments(points)[k][2]
                      shown == {points[i].value : i \in S \cap kept}
                      all == {points[i].value : i \in S}
                  IN  /\ shown # {} => Max({Abs(v) : v \in all}) \in {Abs(v) : v \in shown}
                      /\ Cardinality(S \cap kept) > 1 => {Min(all), Max(all)} \subseteq shown
================================================================================
