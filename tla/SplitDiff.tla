----------------------------- MODULE SplitDiff -----------------------------
(***************************************************************************)
(* split_diff of src/loopzero/runners.py: the parts of a diff that a       *)
(* reviewer gets when it rejects the whole of it.                          *)
(*                                                                         *)
(* A character is its number of bytes in UTF-8, a line is a sequence of    *)
(* characters, a block (one file of the diff) has lines and may be marked  *)
(* as deleted, a diff is a sequence of blocks.  A text is a sequence of    *)
(* characters.                                                             *)
(*                                                                         *)
(* A block is marked when its text holds a line that begins with "deleted  *)
(* file mode " or with "+++ /dev/null": that of every deleted file does,   *)
(* and that of a changed file to which a line "++ /dev/null" is added.     *)
(***************************************************************************)
EXTENDS Integers, Sequences, SequencesExt

CONSTANT
    Summary    \* the lines that replace a marked block

Char == 1..4
Block == [marked : BOOLEAN, lines : Seq(Seq(Char))]

ASSUME SummaryAssumption == Summary \in Seq(Seq(Char))

Bytes(text) ==
    LET sum[i \in 0..Len(text)] == IF i = 0 THEN 0 ELSE sum[i - 1] + text[i]
    IN  sum[Len(text)]
Text(block) == FlattenSeq(block.lines)
WholeDiff(diff) == FlattenSeq([i \in DOMAIN diff |-> Text(diff[i])])

\* The pieces closed so far, and the one being filled.
Empty == [closed |-> <<>>, open |-> <<>>]
Close(pack) ==
    IF pack.open = <<>> THEN pack ELSE [closed |-> Append(pack.closed, pack.open), open |-> <<>>]

\* Units are packed greedily; a piece that a unit would overfill is closed.
Add(budget, pack, unit) ==
    LET room == pack.open = <<>> \/ Bytes(pack.open \o unit) <= budget
        into == IF room THEN pack ELSE Close(pack)
    IN  [into EXCEPT !.open = @ \o unit]
Pack(units, budget) ==
    LET packed[i \in 0..Len(units)] ==
            IF i = 0 THEN Empty ELSE Add(budget, packed[i - 1], units[i])
    IN  Close(packed[Len(units)]).closed

\* _split_bytes cuts a line over the budget between characters; its pieces are
\* not joined to the lines around it.
CutLine(line, budget) == Pack([i \in DOMAIN line |-> <<line[i]>>], budget)

\* Mutant: the lines before an oversized one are kept for after it.
AddLineUnflushed(budget, pack, line) ==
    IF Bytes(line) <= budget THEN Add(budget, pack, line)
    ELSE [pack EXCEPT !.closed = @ \o CutLine(line, budget)]

AddLine(budget, pack, line) ==
    IF Bytes(line) <= budget THEN Add(budget, pack, line)
    ELSE LET flushed == Close(pack)
         IN  [flushed EXCEPT !.closed = @ \o CutLine(line, budget)]

SplitBytes(block, budget) ==
    IF Bytes(Text(block)) <= budget THEN <<Text(block)>>
    ELSE LET packed[i \in 0..Len(block.lines)] ==
                 IF i = 0 THEN Empty ELSE AddLine(budget, packed[i - 1], block.lines[i])
         IN  Close(packed[Len(block.lines)]).closed

\* Over the budget, the blocks marked as deleted are summarised first.
Summarized(diff, budget) ==
    IF Bytes(WholeDiff(diff)) <= budget THEN diff
    ELSE [i \in DOMAIN diff |-> IF diff[i].marked THEN [diff[i] EXCEPT !.lines = Summary] ELSE diff[i]]

\* There is always a part, if only an empty one.
Parts(diff, budget) ==
    LET kept  == Summarized(diff, budget)
        parts == Pack(FlattenSeq([i \in DOMAIN kept |-> SplitBytes(kept[i], budget)]), budget)
    IN  IF parts = <<>> THEN <<<<>>>> ELSE parts
=============================================================================
