--------------------------- MODULE ScrollColumns ---------------------------
(***************************************************************************)
(* The Scroll projection: the windows of a workspace form a strip of       *)
(* columns that a viewport slides over.  Columns are not stored; they are  *)
(* read off the leaf order of the workspace's tree and the set of stacked  *)
(* windows, the first window of a column (its head) carries the width, and *)
(* every operation of the registry has to keep the three consistent.       *)
(*                                                                         *)
(* A length is a number of viewport fractions (Viewport of them to a       *)
(* screen), a row of a column a number of rows (RowsShown fit).  Gaps, row *)
(* weights, floating windows, groups and fullscreen extents are left out.  *)
(***************************************************************************)
EXTENDS Integers, FiniteSets, Sequences
LOCAL INSTANCE SequencesExt
LOCAL INSTANCE FiniteSetsExt
LOCAL INSTANCE TLC

CONSTANTS
    Tile,       \* windows
    Screen,     \* outputs
    Desk,       \* workspace numbers
    Viewport,   \* length of the usable area
    Widths,     \* the widths width commands choose from, Viewport the largest
    RowsShown,  \* rows of a column that fit in its height
    Modes,      \* the scroll { } sections a reload may install
    NoTile, NoSwipe

ASSUME StripAssumption ==
    /\ Desk \subseteq Nat \ {0}
    /\ Viewport \in Nat \ {0} /\ Viewport \in Widths /\ Widths \subseteq 1 .. Viewport
    /\ RowsShown \in Nat \ {0}
    /\ NoTile \notin Tile

PAGE_WINDOWS == 2

\* One scroll { } section: `on` says that the engine shows the Scroll
\* projection, `center` is center_focused, `single` always_center_single,
\* `tall` a stack mode that lets columns outgrow the screen.
Mode == [on : BOOLEAN, sections : BOOLEAN, pages : BOOLEAN, tall : BOOLEAN, single : BOOLEAN,
         center : {"never", "always", "overflow"}, usual : 1 .. Viewport]

Strip == Screen \X Desk
ViewKey == Screen \X (Desk \cup {0})

\* The registry and its scroll state: leaves in tree order per workspace,
\* and, with 0 for an absent entry, the explicit widths, the widths a
\* maximized column returns to, the stack cameras and the views.
VARIABLE scroll

\* A view or a camera is clamped between two bounds.
Clamp(x, low, high) == IF x < low THEN low ELSE IF x > high THEN high ELSE x
Larger(a, b) == IF a > b THEN a ELSE b
Smaller(a, b) == IF a < b THEN a ELSE b

Empty == [leaves |-> [k \in Strip |-> <<>>], stacked |-> {},
          width |-> [w \in Tile |-> 0], restore |-> [w \in Tile |-> 0],
          camera |-> [w \in Tile |-> 0],
          offset |-> [k \in ViewKey |-> 0], margins |-> {},
          shown |-> [p \in Screen |-> CHOOSE d \in Desk : \A e \in Desk : d <= e],
          asked |-> {}, drag |-> NoTile, swipe |-> NoSwipe,
          mode |-> CHOOSE mode \in Modes : TRUE]

StInit == \E mode \in Modes : scroll = [Empty EXCEPT !.mode = mode]

-----------------------------------------------------------------------------
(* Columns.                                                                *)

OnStrip(s) == UNION {Range(s.leaves[k]) : k \in Strip}
Where(s, w) == CHOOSE k \in Strip : w \in Range(s.leaves[k])
Inhabited(s) == {k \in Strip : s.leaves[k] # <<>>}
WidthOf(s, w) == IF s.width[w] = 0 THEN s.mode.usual ELSE s.width[w]
KeyFor(s, k) == IF s.mode.on /\ s.mode.sections THEN <<k[1], 0>> ELSE k

\* A column: its windows from head to foot.
Runs(s, k) ==
    LET order == s.leaves[k]
        runs[i \in 0 .. Len(order)] ==
            IF i = 0 THEN <<>>
            ELSE IF i > 1 /\ order[i] \in s.stacked
                 THEN Append(Front(runs[i - 1]), Append(Last(runs[i - 1]), order[i]))
            ELSE Append(runs[i - 1], <<order[i]>>)
    IN  runs[Len(order)]

Widened(s, runs) == [i \in DOMAIN runs |-> [rows |-> runs[i], width |-> WidthOf(s, Head(runs[i]))]]
Columns(s, k) == Widened(s, Runs(s, k))

Rows(columns) == FlattenSeq([i \in DOMAIN columns |-> columns[i].rows])
ColumnAt(columns, w) == CHOOSE i \in DOMAIN columns : w \in Range(columns[i].rows)
RowAt(columns, w) == LET rows == columns[ColumnAt(columns, w)].rows
                     IN  CHOOSE r \in DOMAIN rows : rows[r] = w

\* Rewrites the order and the stacking of one workspace; refuses a list of
\* columns that does not hold the same windows.
SetColumns(s, k, columns) ==
    LET kept == SelectSeq(columns, LAMBDA c : c.rows # <<>>)
        order == Rows(kept)
        heads == {Head(kept[i].rows) : i \in DOMAIN kept}
    IN  IF Len(order) # Len(s.leaves[k]) \/ Range(order) # Range(s.leaves[k]) THEN s
        ELSE [s EXCEPT !.leaves[k] = order,
                       !.stacked = (@ \cup Range(order)) \ heads,
                       !.width = [w \in Range(order) |-> IF w \in heads THEN kept[ColumnAt(kept, w)].width ELSE 0] @@ @]

\* A bug: the heir of a closed head falls back to the usual width.
DetachForgetful(s, w) ==
    LET order == s.leaves[Where(s, w)]
        i == CHOOSE j \in DOMAIN order : order[j] = w
    IN  IF w \in s.stacked \/ i = Len(order) THEN s ELSE [s EXCEPT !.stacked = @ \ {order[i + 1]}]

\* The head of a column leaves: the window below takes its place.
Detach(s, w) ==
    LET order == s.leaves[Where(s, w)]
        i == CHOOSE j \in DOMAIN order : order[j] = w
        next == IF i < Len(order) THEN order[i + 1] ELSE NoTile
    IN  IF w \in s.stacked THEN s
        ELSE IF next \in s.stacked
             THEN [s EXCEPT !.stacked = @ \ {next},
                            !.width[next] = IF s.width[w] # 0 THEN s.width[w] ELSE @,
                            !.camera = [@ EXCEPT ![next] = IF s.camera[w] # 0 THEN s.camera[w] ELSE @,
                                                 ![w] = 0]]
             ELSE [s EXCEPT !.camera[w] = 0]

Forget(s, w) == [s EXCEPT !.stacked = @ \ {w}, !.width[w] = 0, !.restore[w] = 0, !.camera[w] = 0]

\* Views of strips nothing is tiled on any more.
Prune(s) ==
    LET live == {key \in ViewKey : \E k \in Inhabited(s) : k[1] = key[1] /\ key[2] \in {0, k[2]}}
    IN  [s EXCEPT !.offset = [key \in ViewKey \ live |-> 0] @@ @,
                  !.margins = @ \cap live]

RemoveTile(s, w) ==
    LET k == Where(s, w)
    IN  Prune(Forget([Detach(s, w) EXCEPT !.leaves[k] = SelectSeq(@, LAMBDA v : v # w)], w))

\* A new window opens its own column, behind the whole column of `target`.
InsertTarget(s, k, target) ==
    IF target = NoTile \/ target \notin Range(s.leaves[k]) THEN NoTile
    ELSE IF s.mode.on THEN LET c == Columns(s, k) IN Last(c[ColumnAt(c, target)].rows)
         ELSE target

InsertTile(s, k, w, target) ==
    LET t == InsertTarget(s, k, target)
        at == IF t = NoTile THEN Len(s.leaves[k])
              ELSE CHOOSE j \in DOMAIN s.leaves[k] : s.leaves[k][j] = t
    IN  [s EXCEPT !.leaves[k] = InsertAt(@, at + 1, w), !.stacked = @ \ {w}]

\* Exchanges the entries of two windows.
Crossed(f, a, b) == [f EXCEPT ![a] = f[b], ![b] = f[a]]

\* Two windows of one workspace trade places, each into the other's slot.
SwapTiles(s, a, b) ==
    LET k == Where(s, a)
        Other(w) == IF w = a THEN b ELSE IF w = b THEN a ELSE w
    IN  [s EXCEPT !.leaves[k] = [i \in DOMAIN @ |-> Other(s.leaves[k][i])],
                  !.stacked = {Other(w) : w \in @},
                  !.width = Crossed(@, a, b), !.camera = Crossed(@, a, b)]

\* A window takes over the leaf of another: a tab, or a swallowed parent.
ReplaceTile(s, old, new) ==
    LET k == Where(s, old)
    IN  [s EXCEPT !.leaves[k] = [i \in DOMAIN @ |-> IF s.leaves[k][i] = old THEN new ELSE s.leaves[k][i]],
                  !.stacked = IF old \in @ THEN @ \cup {new} ELSE @ \ {new},
                  !.width[new] = s.width[old],
                  !.camera = [@ EXCEPT ![new] = IF s.camera[old] # 0 THEN s.camera[old] ELSE @,
                                       ![old] = 0]]

-----------------------------------------------------------------------------
(* Views.                                                                  *)

\* The columns a view slides over, in strip order: those of one workspace,
\* or, with sections, of every workspace of the output that has a tree and
\* of the one shown; an empty workspace takes a whole screen.
Spanned(c, d) ==
    IF c = <<>> THEN <<[rows |-> <<>>, width |-> Viewport, desk |-> d]>>
    ELSE [i \in DOMAIN c |-> [rows |-> c[i].rows, width |-> c[i].width, desk |-> d]]

Placed(columns) ==
    LET start[i \in DOMAIN columns] == IF i = 1 THEN 0 ELSE start[i - 1] + columns[i - 1].width
    IN  [i \in DOMAIN columns |-> [rows |-> columns[i].rows, desk |-> columns[i].desk,
                                   start |-> start[i], extent |-> columns[i].width]]

InOrder(s, p, desks) ==
    Placed(FlattenSeq([i \in DOMAIN desks |-> Spanned(Columns(s, <<p, desks[i]>>), desks[i])]))

Spans(s, k) ==
    InOrder(s, k[1], SetToSortSeq({k[2]} \cup (IF s.mode.on /\ s.mode.sections
                                               THEN {d \in Desk : <<k[1], d>> \in Inhabited(s)}
                                               ELSE {}), <))

Seen(s, p) == <<p, s.shown[p]>>
End(c) == c.start + c.extent

\* Centering permits empty margins at either end of the strip.
Margin(s, c, key) ==
    IF s.mode.center # "never" \/ s.mode.single \/ key \in s.margins
    THEN Larger((Viewport - c.extent) \div 2, 0) ELSE 0
Between(low, high) == [low |-> low, high |-> Larger(high, low)]
Bounds(s, spans, key) ==
    Between(spans[1].start - Margin(s, spans[1], key),
            End(Last(spans)) - Viewport + Margin(s, Last(spans), key))

\* A bug: only the near end of the strip holds the view.
WithinStart(x, bounds) == Larger(x, bounds.low)

Within(x, bounds) == Clamp(x, bounds.low, bounds.high)

Centers(s, spans, c, overflows) ==
    \/ s.mode.single /\ Cardinality({i \in DOMAIN spans : spans[i].rows # <<>>}) = 1
    \/ s.mode.center = "always"
    \/ s.mode.center = "overflow" /\ overflows

Overflows(c, offset) == c.start < offset \/ End(c) > offset + Viewport

\* The smallest movement that reveals a column, or the centered view.
Reveal(offset, c, center) ==
    IF c.extent >= Viewport THEN c.start
    ELSE IF center THEN c.start - (Viewport - c.extent) \div 2
    ELSE IF c.start < offset THEN c.start
    ELSE IF End(c) > offset + Viewport THEN Larger(End(c) - Viewport, 0)
    ELSE offset

\* The view that shows each page whole.
PageView(s, spans, c) == Reveal(c.start, c, Centers(s, spans, c, TRUE))

\* Clamps the view of one output before layout, jumps to a section that was
\* asked for and, with pages, settles on the nearest page unless a swipe
\* owns the output.
Nearest(views, at) ==
    LET Far(i) == IF views[i] > at THEN views[i] - at ELSE at - views[i]
    IN  views[CHOOSE i \in DOMAIN views :
                  \A j \in DOMAIN views : Far(i) < Far(j) \/ (Far(i) = Far(j) /\ i <= j)]

SectionView(s, spans, c) == Reveal(0, c, Centers(s, spans, c, Overflows(c, 0)))
Section(s, spans, d) ==
    SectionView(s, spans, spans[CHOOSE i \in DOMAIN spans :
                                    spans[i].desk = d /\ \A j \in 1 .. i - 1 : spans[j].desk # d])

Settled(s, p, spans, at) ==
    IF s.mode.pages /\ (s.swipe = NoSwipe \/ s.swipe.screen # p)
    THEN Nearest([i \in DOMAIN spans |-> PageView(s, spans, spans[i])], at)
    ELSE at

Prepared(s, p, key, spans, bounds) ==
    [s EXCEPT !.asked = @ \ {p},
              !.offset[key] = Within(Settled(s, p, spans, Within(
                  IF p \in s.asked /\ s.mode.sections THEN Section(s, spans, s.shown[p]) ELSE @,
                  bounds)), bounds)]

PrepareOn(s, p, key, spans) == Prepared(s, p, key, spans, Bounds(s, spans, key))

PrepareScroll(s, p) ==
    IF s.mode.on THEN PrepareOn(s, p, KeyFor(s, Seen(s, p)), Spans(s, Seen(s, p))) ELSE s

Retile(s) ==
    LET order == SetToSeq(Screen)
        laid[i \in 0 .. Len(order)] == IF i = 0 THEN s ELSE PrepareScroll(laid[i - 1], order[i])
    IN  laid[Len(order)]

\* What the stack camera of a window's column can show.  With sections the
\* columns are those of the visible workspace, whichever holds the window.
Metrics(s, w, own, c) ==
    IF ~s.mode.on \/ s.mode.pages \/ ~s.mode.tall \/ ColumnAt(own, w) > Len(c) THEN {}
    ELSE {[head |-> Head(d.rows), row |-> RowAt(own, w), rows |-> Len(d.rows),
           most |-> Larger(Len(d.rows) - RowsShown, 0)] : d \in {c[ColumnAt(own, w)]}}
StackMetrics(s, w) ==
    Metrics(s, w, Columns(s, Where(s, w)),
            Columns(s, IF s.mode.sections THEN Seen(s, Where(s, w)[1]) ELSE Where(s, w)))

\* Moves the camera of w's column to where Move puts it; the rows of the
\* column and the camera as it stands bound it.
MoveCamera(s, m, Move(_, _)) ==
    [s EXCEPT !.camera[m.head] = Clamp(Move(m, Smaller(@, m.most)), 0, m.most)]
MoveAny(s, metrics, Move(_, _)) ==
    IF metrics = {} THEN s ELSE MoveCamera(s, CHOOSE m \in metrics : TRUE, Move)
MoveStack(s, w, Move(_, _)) == MoveAny(s, StackMetrics(s, w), Move)

RevealStack(s, w) ==
    LET Shown(m, camera) ==
            LET top == Smaller(m.row - 1, m.rows)
                foot == IF m.row <= m.rows THEN m.row ELSE m.rows
                up == IF top < camera THEN top ELSE camera
            IN  IF foot > up + RowsShown THEN foot - RowsShown ELSE up
    IN  MoveStack(s, w, Shown)

\* Reveals a window, centered, uncentered or as configured.
ViewOf(s, w) == IF s.mode.on /\ s.mode.sections THEN Seen(s, Where(s, w)[1]) ELSE Where(s, w)

RevealIn(s, key, spans, c, centered) ==
    [s EXCEPT !.offset[key] = Within(Reveal(@, c, centered \/ Centers(s, spans, c, Overflows(c, @))),
                                     Bounds(s, spans, key))]

RevealColumn(s, w, key, spans, centered) ==
    RevealIn([s EXCEPT !.margins = IF centered THEN @ \cup {key} ELSE @ \ {key}], key, spans,
             spans[CHOOSE i \in DOMAIN spans : w \in Range(spans[i].rows)], centered)

RevealWith(s, w, centered) ==
    RevealStack(RevealColumn(s, w, KeyFor(s, Where(s, w)), Spans(s, ViewOf(s, w)), centered), w)

\* Only a reveal that moves the view or the camera lays the output out again.
Moved(s, t, w) == s.offset # t.offset \/ \E m \in StackMetrics(s, w) :
                                            t.camera[m.head] # Smaller(s.camera[m.head], m.most)

Relaid(s, t, w) == IF Moved(s, t, w) THEN PrepareScroll(t, Where(s, w)[1]) ELSE t

RevealWindow(s, w) ==
    IF ~s.mode.on \/ w \notin OnStrip(s) THEN s
    ELSE Relaid(s, RevealWith(s, w, FALSE), w)

\* What every column command does when it changed something.
ColumnsChanged(s, w) == RevealWindow(Retile(s), w)

-----------------------------------------------------------------------------
(* Column commands on the focused window w.                                *)

On == scroll.mode.on
\* The focused window sits on a visible workspace.
Focusable(w) == w \in OnStrip(scroll) /\ scroll.shown[Where(scroll, w)[1]] = Where(scroll, w)[2]
Strips(w) == Columns(scroll, Where(scroll, w))

\* Command lists of columns.  `fresh` opens a column of the usual width.
Fresh(w) == [rows |-> <<w>>, width |-> scroll.mode.usual]
WithRows(c, i, rows) ==
    [j \in DOMAIN c |-> [rows |-> IF j = i THEN rows ELSE c[j].rows, width |-> c[j].width]]
WithoutRow(c, i, w) == WithRows(c, i, SelectSeq(c[i].rows, LAMBDA v : v # w))
Joined(c, i, w) == WithRows(c, i, Append(c[i].rows, w))
Full(c, i) == scroll.mode.pages /\ Len(c[i].rows) >= PAGE_WINDOWS

\* Each command has the lists it may leave, none when it is refused.
\* A window that shares its column leaves it for a new one on that side; a
\* window alone joins the neighbour column.
ConsumeOrExpel(c, i, w, forward) ==
    LET n == IF forward THEN i + 1 ELSE i - 1
    IN  IF Len(c[i].rows) > 1 THEN {InsertAt(WithoutRow(c, i, w), IF forward THEN i + 1 ELSE i, Fresh(w))}
        ELSE {Joined(WithoutRow(c, i, w), m, w) : m \in {m \in {n} \cap DOMAIN c : ~Full(c, m)}}

\* Pulls the first window of the next column into this one.
ConsumeInto(c, i) ==
    {Joined(WithoutRow(c, n, Head(c[n].rows)), i, Head(c[n].rows)) :
        n \in {n \in {i + 1} \cap DOMAIN c : ~Full(c, i)}}

Expel(c, i, w) ==
    {InsertAt(WithoutRow(c, i, w), n + 1, Fresh(w)) : n \in {n \in {i} : Len(c[n].rows) > 1}}

\* The whole column goes to place n: a step, an end or an index.
MoveColumn(c, i, n) == {InsertAt(RemoveAt(c, i), m, c[i]) : m \in {n} \cap (DOMAIN c \ {i})}

SwapAt(rows, r, q) ==
    [j \in DOMAIN rows |-> rows[IF j = r THEN q ELSE IF j = q THEN r ELSE j]]

\* A window moves inside its column; the width stays with the head.
MoveInColumn(c, i, r, q) ==
    {WithRows(c, i, SwapAt(c[i].rows, r, m)) : m \in {q} \cap DOMAIN c[i].rows}

\* A window alone on its page goes to the neighbour page, or trades places
\* with it when it is full.
JoinPage(c, i, w, step) ==
    {IF Len(c[n].rows) >= PAGE_WINDOWS THEN SwapAt(c, i, n)
     ELSE WithRows(WithoutRow(c, i, w), n, IF step > 0 THEN <<w>> \o c[n].rows ELSE Append(c[n].rows, w)) :
        n \in {i + step} \cap DOMAIN c}

\* swap-* along a paged strip.
PageMove(c, i, r, w, step) ==
    IF r + step \in DOMAIN c[i].rows THEN MoveInColumn(c, i, r, r + step)
    ELSE IF Len(c[i].rows) > 1
         THEN {InsertAt(WithoutRow(c, i, w), IF step > 0 THEN i + 1 ELSE i, Fresh(w))}
    ELSE JoinPage(c, i, w, step)

SwapAlong(c, i, r, w, step) ==
    IF scroll.mode.pages THEN PageMove(c, i, r, w, step) ELSE MoveColumn(c, i, i + step)

\* What the column commands of w make of the columns c, w in row r of
\* column i.
Rearranged(c, i, r, w) ==
    UNION {ConsumeOrExpel(c, i, w, forward) : forward \in BOOLEAN}
    \cup ConsumeInto(c, i) \cup Expel(c, i, w)
    \cup UNION {MoveColumn(c, i, n) : n \in DOMAIN c}
    \cup UNION {SwapAlong(c, i, r, w, step) : step \in {-1, 1}}
    \cup UNION {MoveInColumn(c, i, r, r + step) : step \in IF scroll.mode.pages THEN {} ELSE {-1, 1}}

\* Installs an edit and shows the window.
Rearrange(w) ==
    /\ On
    /\ \E columns \in Rearranged(Strips(w), ColumnAt(Strips(w), w), RowAt(Strips(w), w), w) :
         scroll' = ColumnsChanged(SetColumns(scroll, Where(scroll, w), columns), w)

\* A dragged tile is dropped on another: beside its column, inside it, or in
\* exchange for it.  A full page cannot take another window.
Put(rest, at, row, w, lone, zone) ==
    IF zone = "columnBefore" \/ (zone = "before" /\ Full(rest, at)) THEN InsertAt(rest, at, lone)
    ELSE IF zone = "columnAfter" \/ (zone = "after" /\ Full(rest, at)) THEN InsertAt(rest, at + 1, lone)
    ELSE WithRows(rest, at, InsertAt(rest[at].rows, IF zone = "before" THEN row ELSE row + 1, w))
PutBeside(rest, w, target, lone, zone) ==
    Put(rest, ColumnAt(rest, target), RowAt(rest, target), w, lone, zone)

Dropped(c, i, w, target, zone) ==
    PutBeside(SelectSeq(WithoutRow(c, i, w), LAMBDA d : d.rows # <<>>), w, target,
              [rows |-> <<w>>, width |-> IF Len(c[i].rows) = 1 THEN c[i].width ELSE scroll.mode.usual], zone)

Drop(w, target, zone) ==
    /\ On /\ w # target /\ Where(scroll, w) = Where(scroll, target)
    /\ scroll' = Retile(
           IF zone = "swap" THEN SwapTiles(scroll, w, target)
           ELSE SetColumns(scroll, Where(scroll, w),
                           Dropped(Strips(w), ColumnAt(Strips(w), w), w, target, zone)))

Zones == {"columnBefore", "columnAfter", "before", "after", "swap"}

-----------------------------------------------------------------------------
(* Widths and views.                                                       *)

HeadOf(s, w) == LET c == Columns(s, Where(s, w)) IN Head(c[ColumnAt(c, w)].rows)

\* switch-preset-width, set-column-width and expand-column give the column
\* of w one of the widths.
SetWidth(w, width) ==
    On /\ scroll' = ColumnsChanged([scroll EXCEPT !.width[HeadOf(scroll, w)] = width], w)

\* Toggles between full width and the width remembered.
Maximize(w) ==
    LET h == HeadOf(scroll, w)
        back == scroll.restore[h] # 0 /\ WidthOf(scroll, h) >= Viewport
    IN  On /\ scroll' = ColumnsChanged([scroll EXCEPT
                 !.width[h] = IF back THEN scroll.restore[h] ELSE Viewport,
                 !.restore[h] = IF back THEN 0 ELSE WidthOf(scroll, h)], w)

\* resize-* along the strip: the width it changes is that of w itself.
KeyboardResize(w, width) ==
    /\ On /\ ~scroll.mode.pages
    /\ scroll' = ColumnsChanged([scroll EXCEPT !.width[w] = width], w)

\* A modifier drag on w: the head is looked up once, when the button goes
\* down, and written on every motion.
PressResize(w) == On /\ scroll.drag = NoTile /\ scroll' = [scroll EXCEPT !.drag = [tile |-> w, head |-> HeadOf(scroll, w)]]
DragResize(width) ==
    /\ scroll.drag # NoTile /\ ~scroll.mode.pages
    /\ {scroll.drag.tile, scroll.drag.head} \subseteq OnStrip(scroll)
    /\ scroll' = ColumnsChanged([scroll EXCEPT !.width[scroll.drag.head] = width], scroll.drag.tile)
ReleaseResize == scroll.drag # NoTile /\ scroll' = [scroll EXCEPT !.drag = NoTile]

\* center-column and center-visible-columns.
CenterColumn(w) ==
    LET t == RevealWith(scroll, w, TRUE)
    IN  On /\ scroll' = IF Moved(scroll, t, w) THEN Retile(t) ELSE t

Centered(s, key, to) == IF to = s.offset[key] THEN s ELSE Retile([s EXCEPT !.offset[key] = to])
CenterWhole(s, key, spans, whole) ==
    Centered(s, key, Within((spans[Min(whole)].start + End(spans[Max(whole)]) - Viewport) \div 2,
                            Bounds(s, spans, key)))
Whole(spans, offset) == {i \in DOMAIN spans : spans[i].rows # <<>> /\ ~Overflows(spans[i], offset)}

CenterVisible(w) ==
    \E key \in {KeyFor(scroll, Where(scroll, w))}, spans \in {Spans(scroll, ViewOf(scroll, w))} :
        /\ On /\ Whole(spans, scroll.offset[key]) # {}
        /\ scroll' = CenterWhole([scroll EXCEPT !.margins = @ \cup {key}], key, spans,
                                 Whole(spans, scroll.offset[key]))

\* Moves the view of an output and drops the margins.
Pan(s, p, delta) ==
    LET key == KeyFor(s, Seen(s, p))
        free == [s EXCEPT !.margins = @ \ {key}]
    IN  [free EXCEPT !.offset[key] = Within(@ + delta, Bounds(free, Spans(free, Seen(free, p)), key))]

FlipPage(s, p, forward) ==
    LET key == KeyFor(s, Seen(s, p))
        free == [s EXCEPT !.margins = @ \ {key}]
        spans == Spans(free, Seen(free, p))
        views == {Within(PageView(free, spans, spans[i]), Bounds(free, spans, key)) : i \in DOMAIN spans}
        on == {v \in views : IF forward THEN v > s.offset[key] ELSE v < s.offset[key]}
    IN  IF on = {} THEN free
        ELSE [free EXCEPT !.offset[key] = IF forward THEN Min(on) ELSE Max(on)]

\* scroll-left and scroll-right.
ScrollView(p, forward) ==
    /\ On
    /\ scroll' = PrepareScroll(IF scroll.mode.pages THEN FlipPage(scroll, p, forward)
                               ELSE Pan(scroll, p, IF forward THEN Viewport \div 2 ELSE -(Viewport \div 2)), p)

\* scroll-up, scroll-down and the wheel over a column.
StackPan(w, rows) ==
    LET t == MoveStack(scroll, w, LAMBDA m, camera : camera + rows)
    IN  On /\ scroll' = IF Moved(scroll, t, w) THEN Retile(t) ELSE t

\* Hiding windows gives the focus to the one used last of those an output
\* still shows, and that one is revealed; NoTile stands for a floating window
\* or none.
Refocused(s, next) == IF next = NoTile THEN s ELSE RevealWindow(s, next)
Heirs(s, k) == Range(s.leaves[k]) \cup {NoTile}

Show(s, p, d) ==
    Retile([s EXCEPT !.shown[p] = d, !.asked = IF s.mode.on /\ s.mode.sections THEN @ \cup {p} ELSE @])

\* Activating a window shows its workspace first, then the window.
Activated(s, w) ==
    LET k == Where(s, w)
    IN  IF s.shown[k[1]] = k[2] THEN {RevealWindow(s, w)}
        ELSE {RevealWindow(Refocused(Show(s, k[1], k[2]), next), w) : next \in Heirs(s, k)}

\* A touchpad swipe pans the visible strip freely, and is put back or
\* settles on the column that shows most when the fingers leave.
BeginSwipe(p) ==
    /\ On /\ scroll.swipe = NoSwipe
    /\ scroll' = [scroll EXCEPT !.swipe = [screen |-> p, desk |-> scroll.shown[p],
                                           from |-> scroll.offset[KeyFor(scroll, Seen(scroll, p))]]]

Swiped == scroll.mode.on /\ scroll.shown[scroll.swipe.screen] = scroll.swipe.desk

UpdateSwipe(delta) ==
    /\ scroll.swipe # NoSwipe /\ Swiped
    /\ scroll' = PrepareScroll(Pan(scroll, scroll.swipe.screen, delta), scroll.swipe.screen)

\* How much of a window an output shows: its share of what the view shows
\* of its column or, with pages, of the part of the page it fills.
Cut(from, to, offset) == Larger(Smaller(to, offset + Viewport) - Larger(from, offset), 0)
Showing(s, c, r, offset) ==
    LET n == Len(c.rows)
        page(i) == c.start + (c.extent * i) \div n
        camera == Smaller(s.camera[Head(c.rows)], Larger(n - RowsShown, 0))
    IN  IF s.mode.pages THEN n * Cut(page(r - 1), page(r), offset)
        ELSE IF ~s.mode.tall \/ n <= RowsShown THEN (RowsShown * Cut(c.start, End(c), offset)) \div n
        ELSE IF r \in camera + 1 .. camera + RowsShown THEN Cut(c.start, End(c), offset)
        ELSE 0

\* Every window in view with what shows of it, in the order of the strip.
Slots(s, spans, offset) ==
    FlattenSeq([i \in DOMAIN spans |->
        [r \in DOMAIN spans[i].rows |-> [tile |-> spans[i].rows[r], area |-> Showing(s, spans[i], r, offset)]]])

\* The window that shows most, the last of several.
MostShown(slots) ==
    LET lit == {i \in DOMAIN slots : slots[i].area > 0}
    IN  {slots[i].tile : i \in {i \in lit : \A j \in lit :
             slots[j].area < slots[i].area \/ (slots[j].area = slots[i].area /\ j <= i)}}

Ended(over, p, cancelled) ==
    LET key == KeyFor(over, Seen(over, p))
    IN  IF cancelled THEN {PrepareScroll([over EXCEPT !.offset[key] = scroll.swipe.from], p)}
        ELSE UNION {Activated(over, w) : w \in MostShown(Slots(over, Spans(over, Seen(over, p)), over.offset[key]))}

EndSwipe(cancelled) ==
    /\ scroll.swipe # NoSwipe
    /\ \E over \in {[scroll EXCEPT !.swipe = NoSwipe]} :
         scroll' \in IF Swiped /\ Ended(over, scroll.swipe.screen, cancelled) # {}
                     THEN Ended(over, scroll.swipe.screen, cancelled) ELSE {over}

-----------------------------------------------------------------------------
(* Windows and workspaces.                                                 *)

\* A window is mapped, opened by a rule elsewhere, or takes its place again.
OpenTile(w, k, target, focused) ==
    LET s == Retile(InsertTile(scroll, k, w, target))
    IN  /\ w \notin OnStrip(scroll)
        /\ target = NoTile \/ target \in Range(scroll.leaves[k])
        /\ scroll' = IF focused /\ s.shown[k[1]] = k[2] THEN RevealWindow(s, w) ELSE s

CloseTile(w) == scroll' = Retile(RemoveTile(scroll, w))

\* A tab change and a swallow put another window into the leaf.
\* The focus follows where it may.
HandOverLeaf(old, new, focused) ==
    LET s == Retile(ReplaceTile(scroll, old, new))
    IN  /\ new \notin OnStrip(scroll)
        /\ scroll' = IF focused /\ Focusable(old) THEN RevealWindow(s, new) ELSE s

FocusWindow(w) == scroll' \in Activated(scroll, w)

SwitchTo(p, d) ==
    /\ d # scroll.shown[p]
    /\ \E next \in Heirs(scroll, <<p, d>>) : scroll' = Refocused(Show(scroll, p, d), next)

\* One window, and a whole column, to another workspace of the output; the
\* focused window keeps the focus until it goes itself.
Sent(s, w, d, next) ==
    LET k == Where(s, w)
    IN  Refocused(Retile(InsertTile(RemoveTile(s, w), <<k[1], d>>, w, NoTile)), next)

SendTile(w, d) ==
    /\ d # Where(scroll, w)[2]
    /\ \E next \in Heirs(scroll, Where(scroll, w)) \ {w} : scroll' = Sent(scroll, w, d, next)

SendColumn(w, d) ==
    LET c == Strips(w)
        column == c[ColumnAt(c, w)]
        rows == column.rows
        left(i) == Heirs(scroll, Where(scroll, w)) \ {rows[j] : j \in 1 .. i}
        Focuses == {f \in [DOMAIN rows -> Tile \cup {NoTile}] :
                        \A i \in DOMAIN rows : f[i] \in IF w \in left(i) THEN {w} ELSE left(i)}
    IN  /\ On /\ d # Where(scroll, w)[2]
        /\ \E next \in Focuses :
             LET sent[i \in 0 .. Len(rows)] ==
                     IF i = 0 THEN scroll ELSE Sent(sent[i - 1], rows[i], d, next[i])
                 all == sent[Len(rows)]
             IN  scroll' = ColumnsChanged([all EXCEPT !.stacked = @ \cup (Range(rows) \ {rows[1]}),
                                                      !.width[rows[1]] = column.width], rows[1])

\* A column goes to the visible workspace of another output, behind column
\* number n there, with its width and its camera.
SendColumnTo(w, q, n) ==
    LET c == Strips(w)
        column == c[ColumnAt(c, w)]
        to == Seen(scroll, q)
        there == Columns(scroll, to)
        Transfer(s, v) == InsertTile(RemoveTile(s, v), to, v, NoTile)
        sent[i \in 0 .. Len(column.rows)] == IF i = 0 THEN scroll ELSE Transfer(sent[i - 1], column.rows[i])
        put == SetColumns(sent[Len(column.rows)], to, InsertAt(there, n + 1, column))
        kept == [put EXCEPT !.camera[Head(column.rows)] = scroll.camera[Head(column.rows)]]
    IN  /\ On /\ q # Where(scroll, w)[1] /\ n \in 0 .. Len(there)
        /\ scroll' = RevealWindow(Retile(kept), w)

\* The visible workspace of p moves to the empty slot e of q.
MoveStrip(s, from, to) ==
    [s EXCEPT !.offset = [@ EXCEPT ![to] = s.offset[from], ![from] = 0],
              !.margins = (@ \ {from, to}) \cup (IF from \in s.margins THEN {to} ELSE {})]

ForgetStrip(s, k) == IF KeyFor(s, k) # k THEN s
                     ELSE [s EXCEPT !.offset[k] = 0, !.margins = @ \ {k}]

Carried(s, from, to) ==
    LET moved == [s EXCEPT !.leaves = [@ EXCEPT ![to] = s.leaves[from], ![from] = <<>>]]
    IN  IF KeyFor(s, from) = from THEN MoveStrip(moved, from, to) ELSE moved

\* With sections the focus goes to a window of the workspace carried.
Arrived(s, from, next) ==
    ForgetStrip(IF s.mode.sections THEN Refocused(s, next) ELSE s, from)

CarryStrip(p, q, e) ==
    /\ p # q /\ scroll.leaves[<<q, e>>] = <<>>
    /\ \E s \in {Show(Carried(scroll, Seen(scroll, p), <<q, e>>), q, e)} : \E next \in Heirs(s, <<q, e>>) :
         scroll' \in {IF s.leaves[<<q, e>>] = <<>> THEN ForgetStrip(t, <<q, e>>) ELSE t :
                         t \in {Arrived(s, Seen(scroll, p), next)}}

\* Two outputs exchange what they show; the views stay with the slots.
TradeScreens(p, q) ==
    LET a == Seen(scroll, p)
        b == Seen(scroll, q)
    IN  /\ p # q
        /\ scroll' = Retile([scroll EXCEPT !.leaves = [@ EXCEPT ![a] = scroll.leaves[b], ![b] = scroll.leaves[a]]])

\* A reload, or a switch between Scroll and Classic, lays the strips out
\* again; a strip that remembers a view keeps it.
Reload(mode, focused) ==
    LET s == Retile([scroll EXCEPT !.mode = mode])
        saved == focused # NoTile /\ s.offset[KeyFor(s, Where(s, focused))] # 0
    IN  /\ mode # scroll.mode /\ focused \in OnStrip(scroll) \cup {NoTile}
        /\ scroll' = IF focused = NoTile \/ saved THEN s ELSE RevealWindow(s, focused)

-----------------------------------------------------------------------------
\* The commands of each kind, for a focused window.
Size(w) ==
    \/ \E width \in Widths : SetWidth(w, width)
    \/ Maximize(w)
    \/ \E width \in Widths : KeyboardResize(w, width)
    \/ PressResize(w)

Look(w) == CenterColumn(w) \/ CenterVisible(w) \/ \E rows \in {-1, 1} : StackPan(w, rows)

Relocate(w) ==
    \/ \E d \in Desk : SendTile(w, d) \/ SendColumn(w, d)
    \/ \E q \in Screen, n \in 0 .. Cardinality(Tile) : SendColumnTo(w, q, n)

ColumnCommand == \E w \in Tile : Focusable(w) /\ (Rearrange(w) \/ Size(w) \/ Look(w) \/ Relocate(w))

\* The steps a drag of a width takes after the press.
Dragging == (\E width \in Widths : DragResize(width)) \/ ReleaseResize

Swiping ==
    \/ \E p \in Screen : BeginSwipe(p)
    \/ \E delta \in {-(Viewport \div 4), Viewport \div 4} : UpdateSwipe(delta)
    \/ \E cancelled \in BOOLEAN : EndSwipe(cancelled)

TileStep ==
    \/ \E w \in Tile, k \in Strip, target \in Tile \cup {NoTile}, focused \in BOOLEAN :
           OpenTile(w, k, target, focused)
    \/ \E w \in Tile : w \in OnStrip(scroll) /\ (CloseTile(w) \/ FocusWindow(w))
    \/ \E old \in Tile, new \in Tile : old \in OnStrip(scroll) /\ \E focused \in BOOLEAN : HandOverLeaf(old, new, focused)
    \/ \E w \in Tile, target \in Tile, zone \in Zones :
           {w, target} \subseteq OnStrip(scroll) /\ Drop(w, target, zone)

WorkspaceStep ==
    \/ \E p \in Screen, d \in Desk : SwitchTo(p, d)
    \/ \E p \in Screen, q \in Screen, e \in Desk : CarryStrip(p, q, e)
    \/ \E p \in Screen, q \in Screen : TradeScreens(p, q)
    \/ \E p \in Screen, forward \in BOOLEAN : ScrollView(p, forward)

Reloading == \E mode \in Modes, focused \in Tile \cup {NoTile} : Reload(mode, focused)

StNext == ColumnCommand \/ Dragging \/ Swiping \/ TileStep \/ WorkspaceStep \/ Reloading
StSpec == StInit /\ [][StNext]_scroll

-----------------------------------------------------------------------------
(* Properties.                                                             *)

\* The columns of all strips with what their head carries for them.
Cols(s) == UNION {Range(Columns(s, k)) : k \in Strip}

\* With Scroll on, one step edits at most two columns, a window that opens
\* edits none, one that closes takes nothing of its column with it but its
\* own row (the heir of a head without a width of its own may have one), and
\* no page grows past two windows: leaf order, stacking and widths of a strip
\* stay consistent whatever operation of the registry edits them.
ColumnsAreKept ==
    [][ (scroll.mode.on /\ scroll'.mode = scroll.mode) =>
          LET lost == Cols(scroll) \ Cols(scroll')
              here == OnStrip(scroll')
              Rest(c) == SelectSeq(c.rows, LAMBDA v : v \in here)
          IN  /\ Cardinality(lost) <= IF OnStrip(scroll) \subseteq here /\ here # OnStrip(scroll) THEN 0 ELSE 2
              /\ here \subseteq OnStrip(scroll) => \A c \in Cols(scroll) :
                     \/ Range(c.rows) \subseteq here \/ Rest(c) = <<>>
                     \/ [c EXCEPT !.rows = Rest(c)] \in Cols(scroll')
                     \/ scroll.width[Head(c.rows)] = 0 /\ scroll.width[Head(Rest(c))] # 0
              /\ scroll.mode.pages => \A d \in Cols(scroll') :
                     Len(d.rows) <= PAGE_WINDOWS \/ \E c \in Cols(scroll) : Len(c.rows) >= Len(d.rows)
      ]_scroll

\* What the view of an output shows of a window's column is all of it, or
\* all the screen; of a tall column the window's own row.
InView(s, w) ==
    LET k == Where(s, w)
        key == KeyFor(s, k)
        spans == Spans(s, Seen(s, k[1]))
        c == spans[CHOOSE i \in DOMAIN spans : w \in Range(spans[i].rows)]
        camera == Smaller(s.camera[Head(c.rows)], Larger(Len(c.rows) - RowsShown, 0))
        row == CHOOSE r \in DOMAIN c.rows : c.rows[r] = w
    IN  /\ ~Overflows(c, s.offset[key])
        /\ (s.mode.tall /\ ~s.mode.pages /\ Len(c.rows) > RowsShown) => row \in camera + 1 .. camera + RowsShown

\* No output shows what lies beyond the ends of its strip, and revealing a
\* window of a shown workspace brings its column into view whole, and of a
\* tall column its own row, whatever moved the views and cameras before.
ViewIsKept ==
    scroll.mode.on =>
      /\ \A p \in Screen :
           LET key == KeyFor(scroll, Seen(scroll, p))
               bounds == Bounds(scroll, Spans(scroll, Seen(scroll, p)), key)
           IN  scroll.offset[key] \in bounds.low .. bounds.high
      /\ \A w \in Tile : Focusable(w) => InView(RevealWindow(scroll, w), w)
=============================================================================
