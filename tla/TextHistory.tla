---------------------------- MODULE TextHistory ----------------------------
(***************************************************************************)
(* The text of one file with its undo history: the buffer of               *)
(* kvim-core/src/buffer.rs, transaction.rs and history.rs, the modified    *)
(* mark that kvim-workspace/src/buffer.rs adds to it, and the undo file of *)
(* kvim-workspace/src/undo_file.rs, which carries the history over a       *)
(* restart.                                                                *)
(*                                                                         *)
(* A text is a sequence of characters; "n" is a line feed and "r" a        *)
(* carriage return, which also ends a line.  Every character is one byte.  *)
(* Another program may write the file between a save and a reload; a save  *)
(* that would overwrite what nobody has read is refused (see DurableSave). *)
(***************************************************************************)
EXTENDS Integers, Sequences, FiniteSets, SequencesExt

CONSTANTS
  Files,            \* the contents the file has at the start or from outside
  Replacements,     \* the texts an edit inserts besides a line ending
  RangeMax,         \* the longest range that one change replaces
  BytesMax,         \* BufferBytesMax
  EntriesMax,       \* UNDO_HISTORY_ENTRIES_MAX
  HistoryBytesMax,  \* UNDO_HISTORY_BYTES_MAX
  StepsMax,         \* UNDO_FILE_STEPS_MAX
  StepBytesMax,     \* UNDO_FILE_CHANGE_BYTES_MAX
  Budgets           \* the edits, the steps of undo and redo, the events from
                    \* outside and the changes of one transaction in one behaviour

VARIABLES
  buffer,     \* the text with its line ending, its history and its revision
  baseline,   \* HistoryBaseline: FALSE while a stale save invalidated it
  written,    \* the content that the buffer was last loaded or saved with
  disk,       \* the content of the file
  foreign,    \* another program wrote the file since it was read
  undoFile,   \* the record on disk
  saving,     \* the save under way
  states,     \* the texts of the history, in order, as they were seen
  budget      \* what is left of the bounds

historyVars == <<buffer, baseline, written, disk, foreign, undoFile, saving, states, budget>>

Nowhere == -1
NoRecord == [content |-> <<>>, base |-> <<>>, steps |-> <<>>, chain |-> <<>>]
NoSave == [stage |-> "none"]

LineBreaks == {"n", "r"}
Longest(lengths) == CHOOSE k \in lengths : \A other \in lengths : other <= k

-----------------------------------------------------------------------------
(* Texts. *)

Between(text, start, end) == SubSeq(text, start + 1, end)
Spliced(text, start, end, new) == SubSeq(text, 1, start) \o new \o SubSeq(text, end + 1, Len(text))

\* The first line feed decides the line ending; a lone carriage return does not.
Detect(text) ==
  LET feeds == {i \in 1..Len(text) : text[i] = "n"}
  IN IF \E i \in feeds : i > 1 /\ text[i - 1] = "r" /\ \A j \in feeds : i <= j THEN <<"r", "n">> ELSE <<"n">>
EndsLine(text) == text # <<>> /\ Last(text) \in LineBreaks

Synthetic(b) == IF b.final THEN 0 ELSE Len(b.lineEnding)
LogicalBytes(b) == Len(b.text) - Synthetic(b)

NewBuffer(content) ==
  [text |-> content \o (IF EndsLine(content) THEN <<>> ELSE Detect(content)),
   lineEnding |-> Detect(content), final |-> EndsLine(content), generation |-> 0, version |-> 0,
   entries |-> <<>>, position |-> 0, saved |-> 0]

\* The content a save writes: every line feed gets the line ending of the
\* buffer, and a terminator that the file did not have is left out.
Ended(text, lineEnding) ==
  FoldLeft(LAMBDA out, c :
             Append(IF c = "n" /\ lineEnding = <<"r", "n">> /\ (out = <<>> \/ Last(out) # "r")
                    THEN Append(out, "r") ELSE out, c),
           <<>>, text)
Rendered(b) ==
  LET content == Ended(b.text, b.lineEnding)
  IN IF ~b.final /\ IsSuffix(b.lineEnding, content)
     THEN SubSeq(content, 1, Len(content) - Len(b.lineEnding)) ELSE content

-----------------------------------------------------------------------------
(* Transactions and their history. *)

Change(start, end, new) == [start |-> start, end |-> end, new |-> new]

\* Where a change starts in the text that the whole transaction gives.
\* Mutant: the text that earlier changes remove is not counted.
NewStartOfInserted(changes, i) ==
  changes[i].start + FoldLeft(LAMBDA sum, c : sum + Len(c.new), 0, SubSeq(changes, 1, i - 1))
NewStart(changes, i) ==
  changes[i].start + FoldLeft(LAMBDA sum, c : sum + Len(c.new) - (c.end - c.start), 0, SubSeq(changes, 1, i - 1))

Entry(text, cursor, changes) ==
  [cursor |-> cursor,
   changes |-> [i \in 1..Len(changes) |->
     [start |-> changes[i].start, newStart |-> NewStart(changes, i),
      removed |-> Between(text, changes[i].start, changes[i].end), inserted |-> changes[i].new]]]

\* Forward and backward, each from the last change to the first.
Replayed(text, entry) ==
  FoldRight(LAMBDA c, t : Spliced(t, c.start, c.start + Len(c.removed), c.inserted), entry.changes, text)
Unwound(text, entry) ==
  FoldRight(LAMBDA c, t : Spliced(t, c.newStart, c.newStart + Len(c.inserted), c.removed), entry.changes, text)

Retained(entries) ==
  FoldLeft(LAMBDA sum, e : FoldLeft(LAMBDA s, c : s + Len(c.removed) + Len(c.inserted), sum, e.changes), 0, entries)

\* The oldest entries that leave the history until both bounds hold.
Evicted(entries) ==
  CHOOSE k \in 0..Len(entries) :
    /\ Len(entries) - k <= EntriesMax
    /\ Len(entries) - k <= 1 \/ Retained(SubSeq(entries, k + 1, Len(entries))) <= HistoryBytesMax
    /\ \A less \in 0..(k - 1) :
         \/ Len(entries) - less > EntriesMax
         \/ Len(entries) - less > 1 /\ Retained(SubSeq(entries, less + 1, Len(entries))) > HistoryBytesMax

\* A new entry drops the redo entries; a saved state among them, or among the
\* evicted ones, cannot be reached again.
PushedFrom(b, entries, gone) ==
  [b EXCEPT !.entries = SubSeq(entries, gone + 1, Len(entries)), !.position = Len(entries) - gone,
            !.saved = IF @ > b.position \/ @ < gone THEN Nowhere ELSE @ - gone]
Pushed(b, entry) ==
  LET entries == Append(SubSeq(b.entries, 1, b.position), entry)
  IN PushedFrom(b, entries, Evicted(entries))

\* The final terminator stays; an absent one stays the exact line ending.
Terminated(b, text) ==
  IF b.final THEN EndsLine(text) ELSE IsSuffix(b.lineEnding, text)

Valid(b, changes) ==
  /\ changes # <<>>
  /\ \A i \in 1..Len(changes) : changes[i].start <= changes[i].end /\ changes[i].end <= Len(b.text)
  /\ \A i \in 2..Len(changes) : changes[i - 1].end <= changes[i].start
Accepted(b, text) == Terminated(b, text) /\ Len(text) - Synthetic(b) <= BytesMax

\* A transaction is staged as a whole; a rejected one changes nothing.
Staged(b, entry, text) ==
  IF ~Accepted(b, text) THEN b
  ELSE [Pushed(b, entry) EXCEPT !.text = text, !.version = @ + 1]
Applied(b, cursor, changes) ==
  LET entry == Entry(b.text, cursor, changes) IN Staged(b, entry, Replayed(b.text, entry))

UndoneOnce(b) ==
  [b EXCEPT !.position = @ - 1, !.text = Unwound(@, b.entries[b.position]), !.version = @ + 1]
RedoneOnce(b) ==
  [b EXCEPT !.position = @ + 1, !.text = Replayed(@, b.entries[b.position + 1]), !.version = @ + 1]

Saved(b) == [b EXCEPT !.saved = b.position]
IsModified == ~baseline \/ buffer.saved # buffer.position

\* The texts of the history up to the current one, oldest first.
RECURSIVE TextsBelow(_)
TextsBelow(b) == IF b.position = 0 THEN <<b.text>> ELSE Append(TextsBelow(UndoneOnce(b)), b.text)
RECURSIVE TextsAbove(_)
TextsAbove(b) ==
  IF b.position = Len(b.entries) THEN <<>> ELSE <<RedoneOnce(b).text>> \o TextsAbove(RedoneOnce(b))

-----------------------------------------------------------------------------
(* The undo file. *)

\* The one change between two texts: what is left after the longest common
\* prefix and the longest common suffix behind it.
Derived(older, newer) ==
  LET prefix == Longest({k \in 0..Len(older) : IsPrefix(SubSeq(older, 1, k), newer)})
      rest == Between(older, prefix, Len(older))
      new == Between(newer, prefix, Len(newer))
      suffix == Longest({k \in 0..Len(rest) : IsSuffix(Between(rest, Len(rest) - k, Len(rest)), new)})
  IN Change(prefix, Len(older) - suffix, Between(newer, prefix, Len(newer) - suffix))

\* The steps from the newest back, until a bound ends them.
StepsOf(b, texts) ==
  [i \in 1..b.position |-> [cursor |-> b.entries[i].cursor, change |-> Derived(texts[i], texts[i + 1])]]
KeptSteps(steps) ==
  Longest({k \in 0..Len(steps) :
    /\ k <= StepsMax
    /\ FoldLeft(LAMBDA sum, s : sum + Len(s.change.new), 0, SubSeq(steps, Len(steps) - k + 1, Len(steps))) <= StepBytesMax})
RecordOf(texts, steps, kept, content) ==
  IF kept = 0 THEN NoRecord
  ELSE [content |-> content, base |-> texts[Len(texts) - kept],
        steps |-> SubSeq(steps, Len(steps) - kept + 1, Len(steps)), chain |-> texts]
Captured(b, content) ==
  \E texts \in {TextsBelow(b)} : \E steps \in {StepsOf(b, texts)} :
    undoFile' = RecordOf(texts, steps, KeptSteps(steps), content)

\* The steps are applied as edits of the base; each of them must be accepted.
Chained(base, steps) ==
  FoldLeft(LAMBDA b, s :
             IF Valid(b, <<s.change>>) /\ s.cursor <= Len(b.text) /\ b.version < b.generation + Len(steps)
             THEN Applied(b, s.cursor, <<s.change>>) ELSE b,
           base, steps)
Restored(record, content) ==
  Chained([NewBuffer(record.base) EXCEPT !.final = EndsLine(content)], record.steps)
\* restore refuses a base above the limit; the terminator that a file lacks counts.
IsRestored(record, content, b) ==
  /\ record # NoRecord /\ record.content = content
  /\ Detect(record.base) = Detect(content)
  /\ Len(record.base) <= BytesMax
  /\ b.version = Len(record.steps)
  /\ Rendered(b) = content
Opened(content) ==
  IF IsRestored(undoFile, content, Restored(undoFile, content)) THEN Saved(Restored(undoFile, content))
  ELSE NewBuffer(content)

-----------------------------------------------------------------------------
(* The actions. *)

Spend(kind) == budget[kind] > 0 /\ budget' = [budget EXCEPT ![kind] = @ - 1]

HistoryInit ==
  /\ disk \in Files
  /\ buffer = NewBuffer(disk) /\ written = Rendered(buffer) /\ states = <<buffer.text>>
  /\ baseline = TRUE /\ foreign = FALSE /\ undoFile = NoRecord /\ saving = NoSave
  /\ budget \in Budgets

TextChanges ==
  {c \in [start : 0..Len(buffer.text), end : 0..Len(buffer.text), new : Replacements \cup {buffer.lineEnding}] :
     /\ c.start <= c.end /\ c.end - c.start <= RangeMax
     /\ c.start < c.end \/ c.new # <<>>}
Transactions == {t \in UNION {[1..k -> TextChanges] : k \in 1..budget.changes} : Valid(buffer, t)}

\* The history as it was seen: what an edit and the bounds keep of it.
Seen(next) ==
  Between(Append(SubSeq(states, 1, buffer.position + 1), next.text),
          buffer.position + 1 - next.position, buffer.position + 2)

Edit ==
  /\ Spend("edits")
  /\ \E t \in Transactions : buffer' = Applied(buffer, t[1].start, t)
  /\ buffer' # buffer
  /\ states' = Seen(buffer')
  /\ UNCHANGED <<baseline, written, disk, foreign, undoFile, saving>>

Undo ==
  /\ Spend("steps")
  /\ buffer.position > 0 /\ buffer' = UndoneOnce(buffer)
  /\ UNCHANGED <<baseline, written, disk, foreign, undoFile, saving, states>>

Redo ==
  /\ Spend("steps")
  /\ buffer.position < Len(buffer.entries) /\ buffer' = RedoneOnce(buffer)
  /\ UNCHANGED <<baseline, written, disk, foreign, undoFile, saving, states>>

Event == Spend("events")
Revision(b) == <<b.generation, b.version>>

StartSave ==
  /\ Event /\ saving = NoSave /\ ~foreign
  /\ saving' = [stage |-> "content", snapshot |-> buffer, content |-> Rendered(buffer)]
  /\ UNCHANGED <<buffer, baseline, written, disk, foreign, undoFile, states>>

\* The content is durable before the undo file follows it.
WriteContent ==
  /\ saving.stage = "content" /\ ~foreign
  /\ disk' = saving.content /\ saving' = [saving EXCEPT !.stage = "record"]
  /\ UNCHANGED <<buffer, baseline, written, foreign, undoFile, states, budget>>

\* An answer for another revision leaves the buffer modified for good, until
\* the next save or reload.
FinishSave ==
  /\ saving.stage = "record"
  /\ Captured(saving.snapshot, saving.content)
  /\ written' = saving.content /\ foreign' = FALSE
  /\ baseline' = (Revision(saving.snapshot) = Revision(buffer))
  /\ buffer' = IF baseline' THEN Saved(buffer) ELSE buffer
  /\ saving' = NoSave
  /\ UNCHANGED <<disk, states, budget>>

RefuseSave ==
  /\ saving.stage = "content" /\ foreign
  /\ saving' = NoSave
  /\ UNCHANGED <<buffer, baseline, written, disk, foreign, undoFile, states, budget>>

ForeignWrite ==
  /\ Event /\ saving.stage # "record"
  /\ \E content \in Files : disk' = content
  /\ foreign' = TRUE
  /\ UNCHANGED <<buffer, baseline, written, undoFile, saving, states>>

Shown(b) ==
  /\ buffer' = b /\ written' = Rendered(b) /\ states' = TextsBelow(b)
  /\ baseline' = TRUE /\ foreign' = FALSE

\* A file above the limit is not loaded.
Loads == Len(disk) <= BytesMax

\* A reload keeps the identity of the buffer and starts a new generation.
Reload ==
  /\ Event /\ saving.stage # "record" /\ Loads
  /\ Shown([Opened(disk) EXCEPT !.generation = buffer.generation + 1, !.version = 0])
  /\ UNCHANGED <<disk, undoFile, saving>>

\* The program ends at any point and opens the file again.
Restart ==
  /\ Event /\ Loads /\ Shown(Opened(disk)) /\ saving' = NoSave
  /\ UNCHANGED <<disk, undoFile>>

HistoryNext ==
  \/ Edit \/ Undo \/ Redo
  \/ StartSave \/ WriteContent \/ FinishSave \/ RefuseSave
  \/ ForeignWrite \/ Reload \/ Restart

HistorySpec == HistoryInit /\ [][HistoryNext]_historyVars

-----------------------------------------------------------------------------
(* What the history promises. *)

\* docs/text-model.md: "One undo step reverses one transaction. One redo step
\* reapplies one reversed transaction": undo and redo visit exactly the texts
\* that were seen, whatever was saved, evicted or restored in between.
HistoryIsWhatWasSeen == TextsBelow(buffer) \o TextsAbove(buffer) = states

\* Every text of the history ends its last line and fits the limit, so no undo
\* and no redo leaves a text that an edit could not have made.
HistoryIsValid == \A i \in 1..Len(states) : Accepted(buffer, states[i])

\* A buffer that is not modified holds what was last written or read, whatever
\* redo entries were dropped, entries evicted or answers were stale.
CleanIsWritten == ~IsModified => Rendered(buffer) = written

\* Both bounds hold and the positions stay inside the history.
HistoryIsBounded ==
  /\ Len(buffer.entries) <= EntriesMax
  /\ Len(buffer.entries) <= 1 \/ Retained(buffer.entries) <= HistoryBytesMax
  /\ buffer.position <= Len(buffer.entries) /\ buffer.saved \in -1..Len(buffer.entries)

\* undo_file.rs: a file that is opened again shows its own text, unmodified,
\* and undo goes back through the newest texts of the history that was saved
\* with it, and through no other.
UndoFileIsTheHistory ==
  LET opened == Opened(disk)
  IN Loads =>
     /\ opened.position = opened.saved
     /\ opened.position > 0 =>
          /\ Rendered(opened) = disk
          /\ IsSuffix(TextsBelow(opened), undoFile.chain)

TextHistoryInvariant ==
  HistoryIsWhatWasSeen /\ HistoryIsValid /\ CleanIsWritten /\ HistoryIsBounded /\ UndoFileIsTheHistory

\* docs/text-model.md: a file with mixed line endings "keeps existing lines
\* unchanged", and "A save that changes nothing writes the bytes that the file
\* held".  Not so where the first line ends with "\r\n" and a later one with
\* "\n": render_content rewrites every line.
SaveKeepsTheBytes == (~foreign /\ ~IsModified /\ saving = NoSave) => Rendered(buffer) = disk
=============================================================================
