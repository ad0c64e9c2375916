------------------------------- MODULE Console -------------------------------
(***************************************************************************)
(* The console of Jex-OS: the keyboard interrupt and its ring buffer       *)
(* (src/src/drivers/keyboard.c), the shell's loop, command line, tab       *)
(* completion and history with the file it is kept in                      *)
(* (src/src/bin/shell.c), and the editor the shell hands its keys to       *)
(* (module Editor).  The user types, the power may fail.                   *)
(***************************************************************************)
EXTENDS Editor

CONSTANTS KbdSize,      \* KBD_BUF_SIZE
          HistSize,     \* HIST_SIZE
          LineMax,      \* SHELL_BUFFER_SIZE - 1
          MatchMax,     \* the entries of matches[]
          Commands,     \* shell_commands[], spelled with the keys
          Files,        \* the names in the current directory
          Sessions,     \* what is done at the console, see KeysOf
          MaxKeys,      \* bound: keys pressed in a session
          MaxFailures,  \* bound: power failures
          Halts         \* hazards no behaviour is followed beyond

ASSUME Bounds == KbdSize > 1 /\ HistSize > 0 /\ LineMax > 0 /\ MatchMax > 0 /\ Sessions # {}

VARIABLES session,  \* bound: the kind of keys pressed in this behaviour
          kbd,      \* kbd_buffer, kbd_head and kbd_tail; keys are the decoded ones
          queue,    \* history: the keys accepted and not yet handled, in order
          pc,       \* where the shell is, and the key it has read
          line,     \* shell_buffer and cursor_pos
          hist,     \* history, hist_head, hist_count, hist_pos
          disk,     \* the file being edited and .history
          ed,       \* the EditorState
          entered,  \* history: the last HistSize command lines entered
          odd,      \* history: hazards met outside the editor
          used      \* bound: keys pressed and power failures so far

vars == <<session, kbd, queue, pc, line, hist, disk, ed, entered, odd, used>>

NoFile == <<"no file">>
NoHistory == [count |-> -1, rows |-> <<>>]
NewHistory == [count |-> 0, rows |-> <<>>]
Garbage == <<"?">>
Inside(hazards) == (odd \cup ed.odd) \cap hazards = {}

(* The keys of a session; a hasty user types before the last key is handled. *)
KeysOf(s) ==
    CASE s = "prompt" -> {"a", "v", "nl", "bs", "up", "down", "left", "right", "tab", " "}
      [] s = "hasty" -> {"a", "bs", "nl"}
      [] s = "files" -> {"v", "nl", "up", "^Q", "^S", "^B", "^N", "a", "bs", "y", "n"}
      [] s = "edit" -> {"a", " ", "nl", "bs", "tab", "left", "up", "^X", "^C", "^V", "^Z", "^S"}
      [] s = "move" -> {"a", "nl", "up", "down", "left", "right", "home", "end", "pgup", "pgdn"}
      [] s = "find" -> {"a", "2", "nl", "bs", "esc", "down", "^F", "^G"}
InEditor(s) == s \in {"edit", "move", "find"}
Texts(s) == CASE s = "edit" -> {<<>>, <<"a", "nl", " ">>}
              [] s = "move" -> {<<"a", "nl", "a", "a", "nl", "a">>}
              [] s = "find" -> {<<"2", "nl", "a", "2", "nl", "a">>, <<"a", "a", "a", "a", "2">>}
              [] s = "files" -> {NoFile, <<"a">>}
              [] OTHER -> {<<>>}

(***************************************************************************)
(* The keyboard.                                                           *)
(***************************************************************************)
keyboard_callback_full(key) == \* mutant: the last free slot is used too
    /\ kbd' = [kbd EXCEPT !.buf[kbd.head] = key, !.head = (@ + 1) % KbdSize]
    /\ queue' = Append(queue, key)
keyboard_callback(key) ==
    LET next == (kbd.head + 1) % KbdSize
    IN IF next # kbd.tail
       THEN /\ kbd' = [kbd EXCEPT !.buf[kbd.head] = key, !.head = next]
            /\ queue' = Append(queue, key)
       ELSE UNCHANGED <<kbd, queue>>

keyboard_has_data == kbd.head # kbd.tail

Press ==
    /\ Inside(Halts)
    /\ used.keys < MaxKeys /\ pc.at # "off"
    /\ session = "hasty" \/ (~ keyboard_has_data /\ pc.at = "poll")
    /\ \E key \in KeysOf(session) : keyboard_callback(key)
    /\ used' = [used EXCEPT !.keys = @ + 1]
    /\ UNCHANGED <<session, pc, line, hist, disk, ed, entered, odd>>

(***************************************************************************)
(* The history: a ring in memory, its lines oldest first in the file.      *)
(***************************************************************************)
EmptyHist == [rows |-> [i \in 0 .. HistSize - 1 |-> <<>>], head |-> 0, count |-> 0, pos |-> 0]
HistAtHead(h, i) == h.rows[(h.head + i) % HistSize] \* mutant: as if the ring were always full
HistAt(h, i) == h.rows[(h.head - h.count + i + HistSize) % HistSize]
Recent(h) == [i \in 1 .. h.count |-> HistAt(h, i - 1)]
Enqueue(h, cmd) == [h EXCEPT !.rows[h.head] = cmd, !.head = (@ + 1) % HistSize, !.count = AtMost(@ + 1, HistSize)]
AtEnd(h) == [h EXCEPT !.pos = h.count]
hist_add(h, cmd) == IF cmd = <<>> THEN h ELSE AtEnd(Enqueue(h, cmd))
LastOf(s) == SubSeq(s, AtLeast(Len(s) - HistSize, 0) + 1, Len(s))

(* shell_load_history from a list of lines; it adds to what is there. *)
LoadRows(h, rows) == LET add[i \in 0 .. Len(rows)] == IF i = 0 THEN h ELSE Enqueue(add[i - 1], rows[i]) IN AtEnd(add[Len(rows)])

(* Without the file fs_open's error is taken for a descriptor and the count *)
(* is whatever the stack holds, and so are the lines.  A line missing from  *)
(* the file is what the stack held or the line read before.                 *)
FileRows(fill) == [i \in 1 .. disk.hist.count |-> IF i <= Len(disk.hist.rows) THEN disk.hist.rows[i] ELSE fill]
LoadedRows ==
    IF disk.hist = NoHistory THEN {[i \in 1 .. n |-> Garbage] : n \in 0 .. HistSize}
    ELSE {FileRows(fill) : fill \in {Garbage} \cup Range(disk.hist.rows)}
LoadHazard(h, rows) == (IF Garbage \in Range(rows) THEN {"no_history"} ELSE {}) \cup (IF h.count > 0 /\ rows # <<>> THEN {"reload"} ELSE {})

(***************************************************************************)
(* The command line.                                                       *)
(***************************************************************************)
NoLine == [text |-> <<>>, cur |-> 0]
LineInsert(l, s) == [text |-> Splice(l.text, l.cur, s), cur |-> l.cur + Len(s)]
Recall(h) == [text |-> HistAt(h, h.pos), cur |-> Len(HistAt(h, h.pos))]

Word(l) ==
    LET spaces == {i \in 1 .. l.cur : l.text[i] = " "}
    IN SubSeq(l.text, (IF spaces = {} THEN 0 ELSE CHOOSE i \in spaces : \A j \in spaces : j <= i) + 1, l.cur)
Matches(l) ==
    {c \in IF Len(Word(l)) = l.cur THEN Commands ELSE Files : SubSeq(c, 1, AtMost(Len(Word(l)), Len(c))) = Word(l)}
Completed(l) ==
    LET match == CHOOSE c \in Matches(l) : TRUE
        suffix == SubSeq(match, Len(Word(l)) + 1, Len(match))
    IN LineInsert(l, SubSeq(suffix, 1, AtMost(Len(suffix), LineMax - Len(l.text))))
shell_autocomplete(l) == IF l.text # <<>> /\ Cardinality(Matches(l)) = 1 THEN Completed(l) ELSE l
TabHazard(l) ==
    IF l.text # <<>> /\ Len(Word(l)) = l.cur /\ Cardinality(Matches(l)) > MatchMax
    THEN {"overrun"} ELSE {}

LineRoom(l) == Len(l.text) < LineMax
LineKey(l, key) ==
    CASE key = "tab" -> shell_autocomplete(l)
      [] key = "left" -> [l EXCEPT !.cur = AtLeast(@ - 1, 0)]
      [] key = "right" -> [l EXCEPT !.cur = AtMost(@ + 1, Len(l.text))]
      [] key = "bs" -> IF l.cur = 0 THEN l ELSE [text |-> buffer_delete_at(l.text, l.cur - 1), cur |-> l.cur - 1]
      [] OTHER -> IF LineRoom(l) THEN LineInsert(l, <<key>>) ELSE l

(***************************************************************************)
(* The shell.                                                              *)
(***************************************************************************)
Off == [at |-> "off", key |-> "nl", ring |-> FALSE, row |-> 0]
Poll == [Off EXCEPT !.at = "poll"]
EmptyKbd == [buf |-> [i \in 0 .. KbdSize - 1 |-> "nl"], head |-> 0, tail |-> 0]

Init ==
    /\ session \in Sessions
    /\ kbd = EmptyKbd /\ queue = <<>> /\ pc = IF InEditor(session) THEN Poll ELSE Off
    /\ line = NoLine /\ hist = EmptyHist /\ entered = <<>> /\ odd = {}
    /\ \E text \in Texts(session), saved \in {NoHistory, NewHistory} :
          /\ disk = [f |-> text, hist |-> saved]
          /\ InEditor(session) => saved # NoHistory
          /\ ed = IF InEditor(session) THEN start_editor(NoEditor, text) ELSE NoEditor
    /\ used = [keys |-> 0, failures |-> 0]

(* shell_init: at boot, and each time the editor is left. *)
shell_init(h) ==
    \E rows \in LoadedRows :
       /\ hist' = LoadRows(h, rows)
       /\ odd' = odd \cup LoadHazard(h, rows)

Boot ==
    /\ Inside(Halts) /\ pc.at = "off"
    /\ shell_init(EmptyHist)
    /\ pc' = Poll
    /\ UNCHANGED <<session, kbd, queue, line, disk, ed, entered, used>>

PowerFailure ==
    /\ Inside(Halts) /\ pc.at # "off" /\ used.failures < MaxFailures /\ ~ InEditor(session)
    /\ kbd' = EmptyKbd /\ queue' = <<>> /\ pc' = Off /\ line' = NoLine
    /\ hist' = EmptyHist /\ ed' = NoEditor
    /\ odd' = odd \cup (IF pc.at = "save" THEN {"torn"} ELSE {})
    /\ used' = [used EXCEPT !.failures = @ + 1]
    /\ UNCHANGED <<session, disk, entered>>

(* shell_loop: a key from the ring; keyboard_read takes the character first *)
(* and then moves kbd_tail, here as part of the handler's step.             *)
Fetch ==
    /\ Inside(Halts) /\ pc.at = "poll" /\ keyboard_has_data
    /\ pc' = [Poll EXCEPT !.at = "input", !.key = kbd.buf[kbd.tail], !.ring = TRUE]
    /\ UNCHANGED <<session, kbd, queue, line, hist, disk, ed, entered, odd, used>>

(* A carriage return from the serial line, polled once the ring is empty. *)
Serial ==
    /\ Inside(Halts) /\ pc.at = "poll" /\ ~ keyboard_has_data
    /\ session = "hasty" /\ used.keys < MaxKeys
    /\ pc' = [Poll EXCEPT !.at = "input", !.key = "nl"]
    /\ used' = [used EXCEPT !.keys = @ + 1]
    /\ UNCHANGED <<session, kbd, queue, line, hist, disk, ed, entered, odd>>

(* The key left in the slot is forgotten: it is overwritten before it can be *)
(* read again.                                                               *)
TakeKey ==
    IF pc.ring THEN kbd' = [kbd EXCEPT !.tail = (@ + 1) % KbdSize, !.buf[kbd.tail] = "nl"] /\ queue' = Tail(queue)
    ELSE UNCHANGED <<kbd, queue>>

(* What fs_write may return for the text: all of it, less, or an error. *)
Written == IF Writes(ed, pc.key) THEN {Len(ed.text), -1} \cup (1 .. Len(ed.text)) ELSE {0}
EditorKey ==
    /\ Inside(Halts) /\ pc.at = "input" /\ ed.running
    /\ TakeKey /\ pc' = Poll
    /\ \E mem \in BOOLEAN, written \in Written :
          LET e == editor_input(ed, pc.key, mem, written)
              writes == Writes(ed, pc.key)
          IN /\ ed' = Odd(e, LineHazards(e.text))
             /\ disk' = [disk EXCEPT !.f = IF writes THEN Overwrite(@, ed.text, written) ELSE @]
             /\ IF e.running THEN UNCHANGED <<hist, odd>> ELSE shell_init(hist)
    /\ UNCHANGED <<session, line, entered, used>>

LineEdit ==
    /\ Inside(Halts) /\ pc.at = "input" /\ ~ ed.running /\ pc.key \notin {"nl", "up", "down"}
    /\ TakeKey /\ pc' = Poll
    /\ line' = LineKey(line, pc.key)
    /\ odd' = odd \cup (IF pc.key = "tab" THEN TabHazard(line) ELSE {})
    /\ UNCHANGED <<session, hist, disk, ed, entered, used>>

Browse ==
    /\ Inside(Halts) /\ pc.at = "input" /\ ~ ed.running /\ pc.key \in {"up", "down"}
    /\ TakeKey /\ pc' = Poll
    /\ LET h == [hist EXCEPT !.pos = IF pc.key = "up" THEN AtLeast(@ - 1, 0) ELSE AtMost(@ + 1, hist.count)]
       IN /\ hist' = h
          /\ line' = CASE h = hist -> line [] h # hist /\ h.pos = h.count -> NoLine [] OTHER -> Recall(h)
    /\ UNCHANGED <<session, disk, ed, entered, odd, used>>

(* execute_command up to the saving of the history; fs_create may fail. *)
Enter ==
    /\ Inside(Halts) /\ pc.at = "input" /\ ~ ed.running /\ pc.key = "nl"
    /\ TakeKey
    /\ hist' = hist_add(hist, line.text)
    /\ entered' = IF line.text = <<>> THEN entered ELSE LastOf(Append(entered, line.text))
    /\ \E created \in BOOLEAN :
          LET saves == line.text # <<>> /\ (disk.hist # NoHistory \/ created)
          IN /\ pc' = [Poll EXCEPT !.at = IF saves THEN "save" ELSE "run"]
             /\ disk' = IF saves /\ disk.hist = NoHistory THEN [disk EXCEPT !.hist = NewHistory] ELSE disk
             /\ odd' = odd \cup (IF line.text # <<>> /\ ~ saves THEN {"unsaved"} ELSE {})
    /\ UNCHANGED <<session, line, ed, used>>

AllSaved(row, h) == row = h.count

(* shell_save_history: the count, then the lines, one fs_write each. *)
SaveRow ==
    /\ Inside(Halts) /\ pc.at = "save"
    /\ \E ok \in BOOLEAN :
          /\ disk' = CASE ~ ok -> disk
                       [] ok /\ pc.row = 0 -> [disk EXCEPT !.hist.count = hist.count]
                       [] OTHER -> [disk EXCEPT !.hist.rows = SubSeq(@, 1, pc.row - 1) \o <<HistAt(hist, pc.row - 1)>>
                                                               \o SubSeq(@, pc.row + 1, Len(@))]
          /\ odd' = odd \cup (IF ok THEN {} ELSE {"unsaved"})
    /\ pc' = IF AllSaved(pc.row, hist) THEN [Poll EXCEPT !.at = "run"] ELSE [pc EXCEPT !.row = @ + 1]
    /\ UNCHANGED <<session, kbd, queue, line, hist, ed, entered, used>>

(* The rest of execute_command.  Only vix changes the console's state; the *)
(* editor's buffer may not be had, and a file that is not there leaves it   *)
(* with a negative length.                                                  *)
Execute ==
    /\ Inside(Halts) /\ pc.at = "run"
    /\ \/ line.text # <<"v">> /\ UNCHANGED <<ed, odd>>
       \/ line.text = <<"v">> /\ ed.bufs = 0 /\ UNCHANGED <<ed, odd>>
       \/ line.text = <<"v">> /\ disk.f # NoFile /\ ed' = start_editor(ed, disk.f) /\ UNCHANGED odd
       \/ line.text = <<"v">> /\ disk.f = NoFile /\ UNCHANGED ed /\ odd' = odd \cup {"missing"}
    /\ line' = NoLine /\ pc' = Poll
    /\ UNCHANGED <<session, kbd, queue, hist, disk, entered, used>>

Shell == Boot \/ Fetch \/ EditorKey \/ LineEdit \/ Browse \/ Enter \/ SaveRow \/ Execute
Next == Press \/ PowerFailure \/ Serial \/ Shell

Spec == Init /\ [][Next]_vars

(***************************************************************************)
(* Properties.                                                             *)
(***************************************************************************)
Chars == UNION {KeysOf(s) : s \in Sessions} \cup {"?"}

(* The variables have their types: indices of both rings, the cursor of the *)
(* command line and the place in the history stay in range.                 *)
TypeOK ==
    /\ kbd.head \in 0 .. KbdSize - 1 /\ kbd.tail \in 0 .. KbdSize - 1
    /\ Range(kbd.buf) \subseteq Chars
    /\ Range(line.text) \subseteq Chars /\ Len(line.text) <= LineMax /\ line.cur \in 0 .. Len(line.text)
    /\ hist.head \in 0 .. HistSize - 1 /\ hist.count \in 0 .. HistSize /\ hist.pos \in 0 .. hist.count
    /\ Len(ed.text) <= MaxFile /\ Len(ed.clip) <= MaxClip /\ Len(ed.term) <= MaxTerm
    /\ pc.at \in {"off", "poll", "input", "save", "run"}

(* The interrupt and the shell share the ring without a lock: at every      *)
(* moment it holds the keys accepted and not yet taken, in order, although  *)
(* the interrupt may fill it between the read of a key and the move of      *)
(* kbd_tail.                                                                *)
RingIsQueue ==
    /\ Len(queue) = (kbd.head - kbd.tail + KbdSize) % KbdSize
    /\ \A i \in 1 .. Len(queue) : kbd.buf[(kbd.tail + i - 1) % KbdSize] = queue[i]
    /\ pc.at = "input" /\ pc.ring => queue # <<>> /\ pc.key = queue[1]

(* The history is the last HIST_SIZE command lines entered, over reboots    *)
(* too, unless leaving the editor loaded the file once more, there was no   *)
(* file to load, the file could not be written, or the power failed while   *)
(* it was.                                                                  *)
HistoryIsEntered ==
    Inside({"reload", "no_history", "unsaved", "torn"}) /\ pc.at # "off" => Recent(hist) = entered

(* The place where the next character goes, the line helpers' idea of the   *)
(* cursor and, as long as nothing is scrolled and no line fills the screen, *)
(* the cell under the screen's cursor are the same: render_text and         *)
(* get_buffer_pos walk the text separately and break long lines at          *)
(* different columns.                                                       *)
CursorIsOnePlace ==
    ed.running /\ Inside({"full", "long_line"})
        => /\ PosOf(ed) = line_start(ed.text, ed.y) + ed.x
           /\ Inside({"wide_line"}) /\ ed.scroll = 0 /\ ed.y < Height /\ ed.x < line_length(ed.text, ed.y)
                 => Drawn(ed.text, 0, ed.x, ed.y) = PosOf(ed)

(* Changes are given up only by the answer n: by any other key the editor   *)
(* goes on with the text or the file has it, unless Ctrl+N dropped them or  *)
(* the answer y could not save them.                                        *)
ChangesAreKept ==
    [][ed.running /\ ed.dirty /\ pc.at = "input" /\ pc'.at = "poll" /\ ~ (ed'.running /\ ed'.name = ed.name)
         => \/ ed.confirm /\ pc.key = "n"
            \/ IsPrefix(ed.text, disk'.f)
            \/ ed'.odd \cap {"new_drops", "lost"} # {}]_vars

=============================================================================
