------------------------------- MODULE Redactor -------------------------------
(***************************************************************************)
(* The fail-closed size guards of the redactor (internal/redact/           *)
(* redactor.go): Redact, the loop over the log lines of one payload, and   *)
(* RedactString, for one free-text field.                                  *)
(*                                                                         *)
(* A text is its length, its length after all patterns have been applied   *)
(* (a replacement may be longer or shorter than what it replaces) and the  *)
(* number of matches; what the patterns match is not modelled.  One step   *)
(* of the loop is one action.                                              *)
(***************************************************************************)
EXTENDS Integers, Sequences, FiniteSets

CONSTANTS
    Texts,              \* [raw, red, hits] of the texts considered
    MaxLines,           \* bound: lines of a payload
    MaxFields,          \* bound: fields over their cap that are counted
    MaxLineConfig,      \* REDACT_MAX_LINE_BYTES as configured, any integer
    MaxTotalConfig,     \* REDACT_MAX_TOTAL_BYTES
    MaxStringConfig,    \* REDACT_MAX_STRING_BYTES
    DefaultMaxLine,     \* defaultMaxLineBytes
    DefaultMaxTotal,    \* defaultMaxTotalBytes
    DefaultMaxString    \* defaultMaxStringBytes

ASSUME RedactorAssumption ==
    /\ Texts \subseteq [raw : Nat, red : Nat, hits : Nat]
    /\ \A t \in Texts : t.hits = 0 => t.red = t.raw
    /\ MaxLines \in Nat /\ MaxFields \in Nat
    /\ MaxLineConfig \in Int /\ MaxTotalConfig \in Int /\ MaxStringConfig \in Int
    /\ DefaultMaxLine \in Nat /\ DefaultMaxTotal \in Nat /\ DefaultMaxString \in Nat

VARIABLES
    lines,      \* the lines Redact was called with
    result,     \* what it has produced: one entry per line looked at
    totalBytes, \* redacted bytes kept so far
    stats,      \* [RedactedLines, DroppedLines, Replacements]
    metric,     \* LinesDropped by reason
    pc,         \* "loop" or "done"
    field       \* last call of RedactString: <<text, entry>>

vars == <<lines, result, totalBytes, stats, metric, pc, field>>

\* New: a non-positive guard falls back to its default.
Guard(configured, default) == IF configured <= 0 THEN default ELSE configured

maxLineBytes == Guard(MaxLineConfig, DefaultMaxLine)
maxTotalBytes == Guard(MaxTotalConfig, DefaultMaxTotal)
maxStringBytes == Guard(MaxStringConfig, DefaultMaxString)

\* What is forwarded for a line or a field: its redacted bytes, the marker of
\* a text over its cap, or the marker that says how many lines were dropped.
Text(n) == [kind |-> "text", n |-> n]
Oversize == [kind |-> "oversize", n |-> 0]
Budget(n) == [kind |-> "budget", n |-> n]

Entry == [kind : {"text", "oversize", "budget"}, n : Nat]

TypeOK ==
    /\ lines \in Seq(Texts)
    /\ result \in Seq(Entry)
    /\ Len(result) <= Len(lines)
    /\ totalBytes \in Nat
    /\ stats \in [RedactedLines : Nat, DroppedLines : Nat, Replacements : Nat]
    /\ metric \in [oversize : Nat, budget : Nat, string : Nat]
    /\ pc \in {"loop", "done"}
    /\ field \in Texts \X Entry

Init ==
    /\ lines \in UNION {[1..n -> Texts] : n \in 0..MaxLines}
    /\ result = <<>>
    /\ totalBytes = 0
    /\ stats = [RedactedLines |-> 0, DroppedLines |-> 0, Replacements |-> 0]
    /\ metric = [oversize |-> 0, budget |-> 0, string |-> 0]
    /\ pc = "loop"
    /\ field \in {<<t, Text(t.red)>> : t \in {u \in Texts : u.raw = 0}}

-----------------------------------------------------------------------------
(* Redact *)

\* The loop is at a line it has not looked at.
Looping == pc = "loop" /\ Len(result) < Len(lines)

Line == lines[Len(result) + 1]

Fits == totalBytes + Line.red <= maxTotalBytes

\* The line is over the cap: its content is dropped unseen.
DropOversize ==
    /\ Looping
    /\ Line.raw > maxLineBytes
    /\ result' = Append(result, Oversize)
    /\ stats' = [stats EXCEPT !.DroppedLines = @ + 1]
    /\ metric' = [metric EXCEPT !.oversize = @ + 1]
    /\ UNCHANGED <<lines, totalBytes, pc, field>>

\* Mutant: the current line is not among the dropped ones.
DropRestShort ==
    /\ Looping
    /\ Line.raw <= maxLineBytes
    /\ ~Fits
    /\ stats' = [stats EXCEPT !.Replacements = @ + Line.hits,
                              !.DroppedLines = @ + Len(lines) - Len(result) - 1]
    /\ metric' = [metric EXCEPT !.budget = @ + 1]
    /\ result' = Append(result, Budget(Len(lines) - Len(result) - 1))
    /\ pc' = "done"
    /\ UNCHANGED <<lines, totalBytes, field>>

\* The payload is full: this line and all that follow are dropped behind one
\* marker, the metric is incremented once, and the loop ends.
DropRest ==
    /\ Looping
    /\ Line.raw <= maxLineBytes
    /\ ~Fits
    /\ stats' = [stats EXCEPT !.Replacements = @ + Line.hits,
                              !.DroppedLines = @ + Len(lines) - Len(result)]
    /\ metric' = [metric EXCEPT !.budget = @ + 1]
    /\ result' = Append(result, Budget(Len(lines) - Len(result)))
    /\ pc' = "done"
    /\ UNCHANGED <<lines, totalBytes, field>>

\* Mutant: the bytes of the line as it came are counted.
KeepRaw ==
    /\ Looping
    /\ Line.raw <= maxLineBytes
    /\ Fits
    /\ totalBytes' = totalBytes + Line.raw
    /\ result' = Append(result, Text(Line.red))
    /\ stats' = [stats EXCEPT !.Replacements = @ + Line.hits,
                              !.RedactedLines = IF Line.hits > 0 THEN @ + 1 ELSE @]
    /\ UNCHANGED <<lines, metric, pc, field>>

\* Mutant: the cap is applied to the line as redacted.
KeepShrunk ==
    /\ Looping
    /\ Line.red <= maxLineBytes
    /\ Fits
    /\ totalBytes' = totalBytes + Line.red
    /\ result' = Append(result, Text(Line.red))
    /\ stats' = [stats EXCEPT !.Replacements = @ + Line.hits,
                              !.RedactedLines = IF Line.hits > 0 THEN @ + 1 ELSE @]
    /\ UNCHANGED <<lines, metric, pc, field>>

\* The redacted line is kept and its bytes are counted.
Keep ==
    /\ Looping
    /\ Line.raw <= maxLineBytes
    /\ Fits
    /\ totalBytes' = totalBytes + Line.red
    /\ result' = Append(result, Text(Line.red))
    /\ stats' = [stats EXCEPT !.Replacements = @ + Line.hits,
                              !.RedactedLines = IF Line.hits > 0 THEN @ + 1 ELSE @]
    /\ UNCHANGED <<lines, metric, pc, field>>

\* Every line has been looked at.
Finish ==
    /\ pc = "loop"
    /\ Len(result) = Len(lines)
    /\ pc' = "done"
    /\ UNCHANGED <<lines, result, totalBytes, stats, metric, field>>

-----------------------------------------------------------------------------
(* RedactString *)

\* An empty string is returned as it is, one over the cap becomes a marker.
\* Any worker may call it while another one is in Redact.
RedactString(t) ==
    /\ metric.string < MaxFields
    /\ field' = <<t, IF t.raw > maxStringBytes THEN Oversize ELSE Text(t.red)>>
    /\ metric' = [metric EXCEPT !.string = IF t.raw > maxStringBytes THEN @ + 1 ELSE @]
    /\ UNCHANGED <<lines, result, totalBytes, stats, pc>>

Next ==
    \/ DropOversize \/ DropRest \/ Keep \/ Finish
    \/ \E t \in Texts : RedactString(t)

Spec == Init /\ [][Next]_vars

-----------------------------------------------------------------------------
(* Properties *)

Entries(kind) == {i \in 1..Len(result) : result[i].kind = kind}

\* "content that cannot be safely bounded is dropped, never forwarded raw":
\* every entry stands at the place of its line; it is the line's redacted
\* text only if the line is within the cap, also when redaction shrinks it
\* below; the budget marker can only be last.  The same holds of a field.
\* Since the guards "can be tuned but never disabled", this is so for every
\* configured value.
FailsClosed ==
    /\ \A i \in 1..Len(result) :
          \/ /\ result[i] = Text(lines[i].red)
             /\ lines[i].raw <= maxLineBytes
          \/ /\ result[i] = Oversize
             /\ lines[i].raw > maxLineBytes
          \/ /\ result[i].kind = "budget"
             /\ i = Len(result)
             /\ pc = "done"
    /\ \/ field[2] = Text(field[1].red) /\ field[1].raw <= maxStringBytes
       \/ field[2] = Oversize /\ field[1].raw > maxStringBytes

\* Sum of the bytes of the lines kept among the first i entries.
Kept[i \in 0..Len(result)] ==
    IF i = 0 THEN 0
    ELSE Kept[i - 1] + IF result[i].kind = "text" THEN result[i].n ELSE 0

\* "caps the cumulative redacted payload" (New): the log text forwarded is
\* within the budget, and is cut at the first line that does not fit and at
\* no earlier one.
BudgetRespected ==
    /\ Kept[Len(result)] = totalBytes
    /\ totalBytes <= maxTotalBytes
    /\ Entries("budget") # {} =>
          totalBytes + lines[Len(result)].red > maxTotalBytes

\* When Redact returns, each line is kept or counted as dropped (DroppedLines),
\* the marker names the number of lines it stands for, and only kept lines
\* count as redacted.
EveryLineAccounted ==
    pc = "done" =>
        /\ Cardinality(Entries("text")) + stats.DroppedLines = Len(lines)
        /\ stats.RedactedLines <= Cardinality(Entries("text"))
        /\ \A i \in Entries("budget") : result[i].n = Len(lines) - i + 1

===============================================================================
