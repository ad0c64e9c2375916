------------------------------- MODULE Editor -------------------------------
(***************************************************************************)
(* The text editor vix, src/src/bin/editor.c: what editor_input does to    *)
(* the editor's state e for every key, as operators on that state.         *)
(* Offsets count from 0 as in the code; e.text is the buffer up to length. *)
(* The module Console runs them.                                           *)
(***************************************************************************)
EXTENDS Integers, Sequences, SequencesExt

CONSTANTS MaxFile,    \* MAX_FILE_SIZE - 1: characters that fit the buffer
          Wrap,       \* EDITOR_WIDTH - 4: where get_buffer_pos breaks a line
          Cols,       \* columns render_text has right of the gutter
          Height,     \* VISIBLE_HEIGHT
          TabSize,    \* TAB_SIZE
          MaxTerm,    \* SEARCH_TERM_MAX
          MaxClip     \* CLIPBOARD_SIZE - 1

Printable == {"a", "2", "y", "n", " ", "v"}

MaxOf(S, default) == IF S = {} THEN default ELSE CHOOSE i \in S : \A j \in S : j <= i
MinOf(S, default) == IF S = {} THEN default ELSE CHOOSE i \in S : \A j \in S : i <= j

(***************************************************************************)
(* Lines and positions.                                                    *)
(***************************************************************************)
Breaks(t) == {i \in 1 .. Len(t) : t[i] = "nl"}
Break(t, n) == MinOf({i \in Breaks(t) : Cardinality({j \in Breaks(t) : j <= i}) = n}, Len(t) + 1)
count_lines(t) == 1 + Cardinality(Breaks(t))
line_start(t, line) == IF line = 0 THEN 0 ELSE IF Break(t, line) > Len(t) THEN Len(t) ELSE Break(t, line)
line_end(t, line) == Break(t, line + 1) - 1
line_length(t, line) == line_end(t, line) - line_start(t, line)

(* The coordinates of offset i, the lines from line skip on broken at width. *)
Column(t, i) == i - MaxOf({b \in Breaks(t) : b <= i}, 0)
LineOf(t, i) == Cardinality({b \in Breaks(t) : b <= i})
Wraps(t, i, width, skip) == {j \in 1 .. i : t[j] # "nl" /\ LineOf(t, j) >= skip /\ Column(t, j) % width = 0}
Coordinates(t, i, width, skip) == <<Column(t, i) % width, LineOf(t, i) + Cardinality(Wraps(t, i, width, skip))>>

BufferPosEarly(t, x, y) == \* mutant: the walk stops as soon as it is on the line
    MinOf({i \in 0 .. Len(t) - 1 : Coordinates(t, i, Wrap, 0) = <<x, y>> \/ Coordinates(t, i + 1, Wrap, 0)[2] >= y}, Len(t))
get_buffer_pos(t, x, y) ==
    MinOf({i \in 0 .. Len(t) - 1 : Coordinates(t, i, Wrap, 0) = <<x, y>> \/ Coordinates(t, i + 1, Wrap, 0)[2] > y}, Len(t))
PosOf(e) == get_buffer_pos(e.text, e.x, e.y)

(* render_text: the offset drawn in column x of screen row y, none if -1.   *)
(* The lines above scroll_y are not drawn, but take their rows all the same.*)
Drawn(t, scroll, x, y) ==
    LET visible == {i \in 0 .. Len(t) - 1 : LineOf(t, i) >= scroll /\ t[i + 1] # "nl"}
    IN MinOf({i \in visible : Coordinates(t, i, Cols, scroll) = <<x, y>> /\ y < Height}, -1)

AtMost(n, m) == IF n > m THEN m ELSE n
AtLeast(n, m) == IF n < m THEN m ELSE n
ClampX(e) == [e EXCEPT !.x = AtLeast(AtMost(@, line_length(e.text, e.y)), 0)]
clamp_cursor(e) == ClampX([e EXCEPT !.y = AtLeast(AtMost(@, count_lines(e.text) - 1), 0)])
MoveTo(e, x, y) == [e EXCEPT !.x = x, !.y = y, !.want = x]
EnsureVisible(e) ==
    [e EXCEPT !.scroll = CASE e.y < e.scroll -> e.y
                           [] e.y >= e.scroll + Height -> e.y - Height + 1
                           [] OTHER -> e.scroll]

(***************************************************************************)
(* Undo.  mem: kmalloc finds room for the copy.  e.bufs counts the buffers *)
(* allocated; undo.ptr says that saved_buffer points to one.               *)
(***************************************************************************)
Odd(e, hazards) == [e EXCEPT !.odd = @ \cup hazards]
NoUndo == [has |-> FALSE, ptr |-> FALSE, text |-> <<>>, x |-> 0, y |-> 0, scroll |-> 0]

Snapshot(e) == [has |-> TRUE, ptr |-> TRUE, text |-> e.text, x |-> e.x, y |-> e.y, scroll |-> e.scroll]
save_undo_snapshot(e, mem) ==
    IF e.undo.has THEN e
    ELSE [e EXCEPT !.undo = IF mem THEN Snapshot(e) ELSE NoUndo,
                   !.bufs = @ + IF mem THEN 1 ELSE 0]
perform_undo(e) ==
    IF ~ e.undo.has THEN e
    ELSE [MoveTo(e, e.undo.x, e.undo.y) EXCEPT
            !.text = e.undo.text, !.scroll = e.undo.scroll, !.dirty = TRUE,
            !.undo = [NoUndo EXCEPT !.ptr = TRUE]]
DropUndo(e) == IF e.undo.has THEN [e EXCEPT !.undo = NoUndo, !.bufs = @ - 1] ELSE e

(***************************************************************************)
(* Editing.                                                                *)
(***************************************************************************)
Splice(t, pos, s) == SubSeq(t, 1, pos) \o s \o SubSeq(t, pos + 1, Len(t))
buffer_insert_char(e, c) ==
    IF Len(e.text) >= MaxFile THEN Odd(e, {"full"}) ELSE [e EXCEPT !.text = Splice(@, PosOf(e), <<c>>)]
buffer_delete_at(t, pos) == IF pos >= Len(t) THEN t ELSE SubSeq(t, 1, pos) \o SubSeq(t, pos + 2, Len(t))

Typed(e) == [MoveTo(e, e.x + 1, e.y) EXCEPT !.dirty = TRUE]
InsertSpaces(e, n) == LET ins[i \in 0 .. n] == IF i = 0 THEN e ELSE Typed(buffer_insert_char(ins[i - 1], " ")) IN ins[n]
WrapCursor(e) == IF e.x >= Wrap THEN MoveTo(e, 0, e.y + 1) ELSE e
InsertChar(e, c) == WrapCursor(Typed(buffer_insert_char(e, c)))

get_indent_count(t, line) ==
    MinOf({i \in 0 .. line_length(t, line) - 1 : t[line_start(t, line) + i + 1] # " "}, line_length(t, line))
NewLine(e) == [MoveTo(e, 0, e.y + 1) EXCEPT !.dirty = TRUE]
InsertLine(e) == InsertSpaces(NewLine(buffer_insert_char(e, "nl")), get_indent_count(e.text, e.y))

Backspace(e) ==
    LET pos == PosOf(e)
        deleted == [e EXCEPT !.text = buffer_delete_at(@, pos - 1), !.dirty = TRUE]
    IN CASE pos = 0 -> e
         [] e.x > 0 -> MoveTo(deleted, e.x - 1, e.y)
         [] e.x = 0 /\ e.y > 0 -> MoveTo(deleted, line_length(e.text, e.y - 1), e.y - 1)
         [] OTHER -> [e EXCEPT !.dirty = TRUE]

Clipped(e) ==
    LET start == line_start(e.text, e.y)
    IN SubSeq(e.text, start + 1, AtMost(line_end(e.text, e.y), start + MaxClip))
copy_line(e) == [e EXCEPT !.clip = Clipped(e)]
WithoutLine(t, line) == SubSeq(t, 1, line_start(t, line)) \o SubSeq(t, line_end(t, line) + 2, Len(t))
AfterCut(e) == MoveTo([e EXCEPT !.dirty = TRUE], 0, AtMost(e.y, count_lines(e.text) - 1))
cut_line(e) == AfterCut([e EXCEPT !.clip = Clipped(e), !.text = WithoutLine(@, e.y)])

Pasted(e) == [MoveTo(e, e.x + Len(e.clip), e.y) EXCEPT !.text = Splice(@, PosOf(e), e.clip), !.dirty = TRUE]
paste_clipboard(e, mem) ==
    IF e.clip = <<>> THEN e
    ELSE IF Len(e.text) + Len(e.clip) > MaxFile THEN save_undo_snapshot(e, mem)
    ELSE Pasted(save_undo_snapshot(e, mem))

(***************************************************************************)
(* Search and goto.                                                        *)
(***************************************************************************)
find_next(t, term, from) ==
    MinOf({i \in from .. Len(t) - Len(term) : SubSeq(t, i + 1, i + Len(term)) = term}, -1)
FindFrom(e) == IF find_next(e.text, e.term, PosOf(e)) >= 0 THEN find_next(e.text, e.term, PosOf(e))
               ELSE find_next(e.text, e.term, 0)
MoveToOffset(e, pos) == EnsureVisible(MoveTo(e, Column(e.text, pos), LineOf(e.text, pos)))
Normal(e) == [e EXCEPT !.mode = "normal", !.term = <<>>] \* the next prompt clears the term
perform_search(e) == IF e.term = <<>> \/ FindFrom(e) < 0 THEN Normal(e) ELSE Normal(MoveToOffset(e, FindFrom(e)))

Digits(term) == MinOf({i \in 0 .. Len(term) - 1 : term[i + 1] # "2"}, Len(term))
Number(term) == LET n[i \in 0 .. Digits(term)] == IF i = 0 THEN 0 ELSE 10 * n[i - 1] + 2 IN n[Digits(term)]
perform_goto(e) ==
    Normal(EnsureVisible(MoveTo(e, 0, AtMost(AtLeast(Number(e.term), 1), count_lines(e.text)) - 1)))

SubModeInput(e, key) ==
    CASE key = "esc" -> Normal(e)
      [] key = "nl" -> IF e.mode = "search" THEN perform_search(e) ELSE perform_goto(e)
      [] key = "bs" -> [e EXCEPT !.term = SubSeq(@, 1, Len(@) - 1)]
      [] key \in Printable /\ Len(e.term) < MaxTerm -> [e EXCEPT !.term = Append(@, key)]
      [] OTHER -> e

(***************************************************************************)
(* Navigation.                                                             *)
(***************************************************************************)
ToRow(e, y) == clamp_cursor([e EXCEPT !.y = AtLeast(AtMost(y, count_lines(e.text) - 1), 0), !.x = e.want])
Navigation == {"up", "down", "left", "right", "home", "end", "pgup", "pgdn"}
Navigate(e, key) ==
    CASE key = "up" -> ToRow(e, e.y - 1)
      [] key = "down" -> ToRow(e, e.y + 1)
      [] key = "left" /\ e.x > 0 -> MoveTo(e, e.x - 1, e.y)
      [] key = "left" /\ e.x <= 0 /\ e.y > 0 -> MoveTo(e, line_length(e.text, e.y - 1), e.y - 1)
      [] key = "right" /\ e.x < line_length(e.text, e.y) -> MoveTo(e, e.x + 1, e.y)
      [] key = "right" /\ e.x >= line_length(e.text, e.y) /\ e.y + 1 < count_lines(e.text) -> MoveTo(e, 0, e.y + 1)
      [] key = "home" -> MoveTo(e, 0, e.y)
      [] key = "end" -> MoveTo(e, line_length(e.text, e.y), e.y)
      [] key = "pgup" -> LET up == ToRow(e, e.y - (Height \div 2)) IN [up EXCEPT !.scroll = up.y]
      [] key = "pgdn" -> LET down == ToRow(e, e.y + (Height \div 2))
                         IN [down EXCEPT !.scroll = IF down.y >= @ + Height THEN down.y - Height + 1 ELSE @]
      [] OTHER -> MoveTo(e, e.x, e.y)

(***************************************************************************)
(* The file.  written: what fs_write returns, a negative error included.   *)
(* The file keeps the part beyond what is written.                         *)
(***************************************************************************)
Overwrite(file, text, written) ==
    IF written <= 0 THEN file ELSE SubSeq(text, 1, written) \o SubSeq(file, written + 1, Len(file))
Saved(e, written) == e.name /\ written = Len(e.text)
save_file_internal(e, written) == [e EXCEPT !.dirty = @ /\ ~ Saved(e, written)]

(* A line that fills the screen, and one get_buffer_pos breaks. *)
LineHazards(t) ==
    LET longest == Max({line_length(t, l) : l \in 0 .. count_lines(t) - 1})
    IN (IF longest >= Cols THEN {"wide_line"} ELSE {}) \cup (IF longest >= Wrap THEN {"long_line"} ELSE {})

(* Init and launch: what is left of an earlier edit and what is not. *)
start_editor(e, text) ==
    [DropUndo(e) EXCEPT !.name = TRUE, !.text = text, !.x = 0, !.y = 0, !.want = 0, !.scroll = 0,
                        !.dirty = FALSE, !.confirm = FALSE, !.running = TRUE, !.mode = "normal", !.term = <<>>,
                        !.bufs = AtLeast(@, 1), !.odd = @ \cup LineHazards(text)]
NewFile(e) ==
    [DropUndo(e) EXCEPT !.name = FALSE, !.text = <<>>, !.x = 0, !.y = 0, !.want = 0, !.scroll = 0,
                        !.dirty = FALSE]
(* The text and the cursor stay behind and are replaced by the next start: *)
(* they are forgotten.  The copy for undo and the clipboard are not.       *)
Leave(e) ==
    [e EXCEPT !.confirm = FALSE, !.running = FALSE, !.name = FALSE, !.text = <<>>, !.x = 0, !.y = 0,
              !.want = 0, !.scroll = 0, !.dirty = FALSE]

(***************************************************************************)
(* editor_input.                                                           *)
(***************************************************************************)
Editing == {"bs", "nl", "tab"} \cup Printable
Edit(e, key) ==
    CASE key = "bs" -> Backspace(e)
      [] key = "nl" -> InsertLine(e)
      [] key = "tab" -> InsertSpaces(e, TabSize)
      [] OTHER -> InsertChar(e, key)

ConfirmInput(e, key, written) ==
    CASE key = "y" -> Odd(Leave(save_file_internal(e, written)), IF Saved(e, written) THEN {} ELSE {"lost"})
      [] key = "n" -> Leave(e)
      [] OTHER -> [e EXCEPT !.confirm = FALSE]

CtrlQUnasked(e) == Leave(e) \* mutant: unsaved changes are not asked about
CtrlQ(e) == IF e.dirty THEN [e EXCEPT !.confirm = TRUE] ELSE Leave(e)
CtrlS(e, written) ==
    IF Saved(e, written) THEN DropUndo(save_file_internal(e, written))
    ELSE save_file_internal(e, written)

editor_input(e, key, mem, written) ==
    CASE e.mode # "normal" -> SubModeInput(e, key)
      [] e.mode = "normal" /\ e.confirm -> ConfirmInput(e, key, written)
      [] OTHER ->
         CASE key = "^Q" -> CtrlQ(e)
           [] key = "^S" -> CtrlS(e, written)
           [] key = "^B" -> save_file_internal(e, written)
           [] key = "^Z" -> perform_undo(e)
           [] key = "^F" -> [e EXCEPT !.mode = "search", !.term = <<>>]
           [] key = "^G" -> [e EXCEPT !.mode = "goto", !.term = <<>>]
           [] key = "^N" -> Odd(NewFile(e), IF e.dirty THEN {"new_drops"} ELSE {})
           [] key = "^X" -> clamp_cursor(cut_line(save_undo_snapshot(e, mem)))
           [] key = "^C" -> copy_line(e)
           [] key = "^V" -> clamp_cursor(paste_clipboard(e, mem))
           [] key \in Navigation -> Navigate(e, key)
           [] key \in Editing -> Edit(save_undo_snapshot(e, mem), key)
           [] OTHER -> e

(* Whether the key makes editor_input write the file. *)
Writes(e, key) == e.mode = "normal" /\ e.name /\ IF e.confirm THEN key = "y" ELSE key \in {"^S", "^B"}

NoEditor ==
    [running |-> FALSE, name |-> FALSE, text |-> <<>>, x |-> 0, y |-> 0, want |-> 0, scroll |-> 0,
     dirty |-> FALSE, confirm |-> FALSE, mode |-> "normal", term |-> <<>>, clip |-> <<>>, undo |-> NoUndo,
     bufs |-> 0, odd |-> {}]

=============================================================================
