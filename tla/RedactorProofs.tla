---------------------------- MODULE RedactorProofs ----------------------------
(***************************************************************************)
(* The redactor fails closed, keeps to its byte budget and accounts for    *)
(* every line, for every configuration and every payload.                  *)
(***************************************************************************)
EXTENDS Redactor, FiniteSetTheorems, TLAPS

\* The caps are natural numbers whatever was configured (New).
LEMMA GuardsAreNat ==
    maxLineBytes \in Nat /\ maxTotalBytes \in Nat /\ maxStringBytes \in Nat
BY RedactorAssumption DEF maxLineBytes, maxTotalBytes, maxStringBytes, Guard

\* What New and the loop guards rely on: the current line is one of Texts.
LEMMA LineType ==
    ASSUME TypeOK, Looping
    PROVE  /\ Line \in Texts
           /\ Line.raw \in Nat /\ Line.red \in Nat /\ Line.hits \in Nat
<1>1. Len(result) + 1 \in 1..Len(lines)
  BY DEF TypeOK, Looping
<1>2. Line \in Texts
  BY <1>1 DEF TypeOK, Line
<1> QED
  BY <1>2, RedactorAssumption

LEMMA EntryTypes ==
    \A n \in Nat : Text(n) \in Entry /\ Oversize \in Entry /\ Budget(n) \in Entry
BY DEF Entry, Text, Oversize, Budget

LEMMA TypeInit == Init => TypeOK
<1> SUFFICES ASSUME Init PROVE TypeOK
  OBVIOUS
<1>1. lines \in Seq(Texts)
  <2>1. PICK n \in 0..MaxLines : lines \in [1..n -> Texts]
    BY DEF Init
  <2>2. n \in Nat
    BY RedactorAssumption, <2>1
  <2> QED
    BY <2>1, <2>2
<1>2. field \in Texts \X Entry
  BY RedactorAssumption, EntryTypes DEF Init
<1>3. result \in Seq(Entry) /\ Len(result) = 0
  BY DEF Init
<1>4. Len(lines) \in Nat
  BY <1>1
<1> QED
  BY <1>1, <1>2, <1>3, <1>4 DEF Init, TypeOK

\* Counting keeps a record of counters one (two fields at once, for stats).
LEMMA CountMetric ==
    ASSUME NEW m \in [oversize : Nat, budget : Nat, string : Nat], NEW n \in Nat
    PROVE  /\ [m EXCEPT !.oversize = n] \in [oversize : Nat, budget : Nat, string : Nat]
           /\ [m EXCEPT !.budget = n] \in [oversize : Nat, budget : Nat, string : Nat]
           /\ [m EXCEPT !.string = n] \in [oversize : Nat, budget : Nat, string : Nat]
           /\ m.oversize \in Nat /\ m.budget \in Nat /\ m.string \in Nat
OBVIOUS

LEMMA CountStats ==
    ASSUME NEW s \in [RedactedLines : Nat, DroppedLines : Nat, Replacements : Nat],
           NEW n \in Nat, NEW k \in Nat
    PROVE  /\ [s EXCEPT !.DroppedLines = n]
                  \in [RedactedLines : Nat, DroppedLines : Nat, Replacements : Nat]
           /\ [s EXCEPT !.Replacements = n, !.DroppedLines = k]
                  \in [RedactedLines : Nat, DroppedLines : Nat, Replacements : Nat]
           /\ [s EXCEPT !.Replacements = n, !.RedactedLines = k]
                  \in [RedactedLines : Nat, DroppedLines : Nat, Replacements : Nat]
           /\ s.RedactedLines \in Nat /\ s.DroppedLines \in Nat
           /\ s.Replacements \in Nat
OBVIOUS

LEMMA TypeNext == TypeOK /\ [Next]_vars => TypeOK'
<1> SUFFICES ASSUME TypeOK, [Next]_vars PROVE TypeOK'
  OBVIOUS
<1>0. /\ Len(lines) \in Nat /\ Len(result) \in Nat
      /\ metric \in [oversize : Nat, budget : Nat, string : Nat]
      /\ stats \in [RedactedLines : Nat, DroppedLines : Nat, Replacements : Nat]
  BY DEF TypeOK
<1>c. /\ metric.oversize \in Nat /\ metric.budget \in Nat /\ metric.string \in Nat
      /\ stats.RedactedLines \in Nat /\ stats.DroppedLines \in Nat
      /\ stats.Replacements \in Nat
  BY <1>0
<1>1. CASE DropOversize
  <2>1. Looping
    BY <1>1 DEF DropOversize
  <2>2. result' \in Seq(Entry) /\ Len(result') <= Len(lines)
    BY <1>0, <1>1, <2>1, EntryTypes DEF DropOversize, TypeOK, Looping
  <2>3. metric' = [metric EXCEPT !.oversize = metric.oversize + 1]
    BY <1>1 DEF DropOversize
  <2>4. metric' \in [oversize : Nat, budget : Nat, string : Nat]
    BY <1>0, <1>c, <2>3, CountMetric
  <2>5. stats' = [stats EXCEPT !.DroppedLines = stats.DroppedLines + 1]
    BY <1>1 DEF DropOversize
  <2>6. stats' \in [RedactedLines : Nat, DroppedLines : Nat, Replacements : Nat]
    <3>1. stats.DroppedLines + 1 \in Nat
      BY <1>c
    <3> QED
      BY <1>0, <2>5, <3>1
  <2> QED
    BY <1>1, <2>2, <2>4, <2>6 DEF DropOversize, TypeOK
<1>2. CASE DropRest
  <2>1. Looping /\ Line.hits \in Nat
    BY <1>2, LineType DEF DropRest
  <2>2. Len(lines) - Len(result) \in Nat
    BY <1>0, <2>1 DEF Looping
  <2>3. Budget(Len(lines) - Len(result)) \in Entry
    BY <2>2, EntryTypes
  <2>4. result' \in Seq(Entry) /\ Len(result') <= Len(lines)
    BY <1>0, <1>2, <2>1, <2>3 DEF DropRest, TypeOK, Looping
  <2>5. stats' = [stats EXCEPT
                     !.Replacements = stats.Replacements + Line.hits,
                     !.DroppedLines = stats.DroppedLines + Len(lines) - Len(result)]
    BY <1>2 DEF DropRest
  <2>6. /\ stats.Replacements + Line.hits \in Nat
        /\ stats.DroppedLines + Len(lines) - Len(result) \in Nat
    BY <1>0, <1>c, <2>1, <2>2
  <2>7. stats' \in [RedactedLines : Nat, DroppedLines : Nat, Replacements : Nat]
    BY <1>0, <2>5, <2>6, CountStats
  <2>8. metric' = [metric EXCEPT !.budget = metric.budget + 1]
    BY <1>2 DEF DropRest
  <2>9. metric' \in [oversize : Nat, budget : Nat, string : Nat]
    BY <1>0, <1>c, <2>8, CountMetric
  <2> QED
    BY <1>2, <2>4, <2>7, <2>9 DEF DropRest, TypeOK
<1>3. CASE Keep
  <2>1. Looping /\ Line.hits \in Nat /\ Line.red \in Nat
    BY <1>3, LineType DEF Keep
  <2>2. Text(Line.red) \in Entry
    BY <2>1, EntryTypes
  <2>3. result' \in Seq(Entry) /\ Len(result') <= Len(lines)
    BY <1>0, <1>3, <2>1, <2>2 DEF Keep, TypeOK, Looping
  <2> DEFINE k == IF Line.hits > 0 THEN stats.RedactedLines + 1 ELSE stats.RedactedLines
  <2>4. stats' = [stats EXCEPT !.Replacements = stats.Replacements + Line.hits,
                               !.RedactedLines = k]
    BY <1>3 DEF Keep
  <2>5. stats.Replacements + Line.hits \in Nat /\ k \in Nat
    BY <1>c, <2>1
  <2>6. stats' \in [RedactedLines : Nat, DroppedLines : Nat, Replacements : Nat]
    <3> HIDE DEF k
    <3> QED
      BY <1>0, <2>4, <2>5, CountStats
  <2>7. totalBytes' \in Nat
    BY <1>3, <2>1 DEF Keep, TypeOK
  <2> QED
    BY <1>3, <2>3, <2>6, <2>7 DEF Keep, TypeOK
<1>4. CASE Finish
  BY <1>4 DEF Finish, TypeOK
<1>5. CASE \E t \in Texts : RedactString(t)
  <2>1. PICK t \in Texts : RedactString(t)
    BY <1>5
  <2>2. field' \in Texts \X Entry
    BY <2>1, EntryTypes, RedactorAssumption DEF RedactString
  <2> DEFINE k == IF t.raw > maxStringBytes THEN metric.string + 1 ELSE metric.string
  <2>3. metric' = [metric EXCEPT !.string = k] /\ k \in Nat
    BY <1>c, <2>1 DEF RedactString
  <2>4. metric' \in [oversize : Nat, budget : Nat, string : Nat]
    <3> HIDE DEF k
    <3> QED
      BY <1>0, <2>3, CountMetric
  <2> QED
    BY <2>1, <2>2, <2>4 DEF RedactString, TypeOK
<1>6. CASE UNCHANGED vars
  BY <1>6 DEF vars, TypeOK
<1> QED
  BY <1>1, <1>2, <1>3, <1>4, <1>5, <1>6 DEF Next

\* Type correctness of Redact and RedactString, for every payload and every
\* configured guard; never more entries than lines.
THEOREM TypeCorrect == Spec => []TypeOK
BY TypeInit, TypeNext, PTL DEF Spec

-----------------------------------------------------------------------------
\* FailsClosed is inductive once one knows that no budget marker has been
\* written while the loop runs, which FailsClosed itself says: a marker is
\* last and pc is "done".
LEMMA ClosedInit == Init => FailsClosed
<1> SUFFICES ASSUME Init PROVE FailsClosed
  OBVIOUS
<1>1. PICK t \in Texts : t.raw = 0 /\ field = <<t, Text(t.red)>>
  BY DEF Init
<1> QED
  BY <1>1, GuardsAreNat DEF Init, FailsClosed

\* An entry for the current line is appended; the others stay as they are.
LEMMA ClosedAppend ==
    ASSUME TypeOK, FailsClosed, Looping, NEW e \in Entry,
           result' = Append(result, e), lines' = lines, field' = field,
           \/ e = Text(Line.red) /\ Line.raw <= maxLineBytes
           \/ e = Oversize /\ Line.raw > maxLineBytes
           \/ e.kind = "budget" /\ pc' = "done"
    PROVE  FailsClosed'
<1>1. Len(result) \in Nat /\ Len(result') = Len(result) + 1
  BY DEF TypeOK
<1>2. result'[Len(result')] = e /\ Line = lines'[Len(result')]
  BY <1>1 DEF TypeOK, Line
<1>3. ASSUME NEW i \in 1..Len(result')
      PROVE  \/ /\ result'[i] = Text(lines'[i].red)
                /\ lines'[i].raw <= maxLineBytes
             \/ /\ result'[i] = Oversize
                /\ lines'[i].raw > maxLineBytes
             \/ /\ result'[i].kind = "budget"
                /\ i = Len(result')
                /\ pc' = "done"
  <2>1. CASE i = Len(result')
    BY <1>2, <2>1
  <2>2. CASE i # Len(result')
    <3>1. i \in 1..Len(result)
      BY <1>1, <2>2
    <3>2. result'[i] = result[i]
      BY <3>1 DEF TypeOK
    <3>3. pc # "done"
      BY DEF Looping
    <3> QED
      BY <3>1, <3>2, <3>3 DEF FailsClosed
  <2> QED
    BY <2>1, <2>2
<1> QED
  BY <1>3 DEF FailsClosed, Text, Oversize, maxLineBytes, maxStringBytes, Guard

LEMMA ClosedNext == TypeOK /\ FailsClosed /\ [Next]_vars => FailsClosed'
<1> SUFFICES ASSUME TypeOK, FailsClosed, [Next]_vars PROVE FailsClosed'
  OBVIOUS
<1>1. CASE DropOversize
  <2>1. Oversize \in Entry
    BY DEF Oversize, Entry
  <2> QED
    BY <1>1, <2>1, ClosedAppend DEF DropOversize
<1>2. CASE DropRest
  <2>1. Looping /\ Len(lines) - Len(result) \in Nat
    BY <1>2 DEF DropRest, Looping, TypeOK
  <2>2. /\ Budget(Len(lines) - Len(result)) \in Entry
        /\ Budget(Len(lines) - Len(result)).kind = "budget"
    BY <2>1 DEF Budget, Entry
  <2> QED
    BY <1>2, <2>1, <2>2, ClosedAppend DEF DropRest
<1>3. CASE Keep
  <2>1. Looping /\ Text(Line.red) \in Entry
    BY <1>3, LineType, EntryTypes DEF Keep
  <2> QED
    BY <1>3, <2>1, ClosedAppend DEF Keep
<1>4. CASE Finish
  BY <1>4 DEF Finish, FailsClosed, Text, Oversize, maxLineBytes, maxStringBytes, Guard
<1>5. CASE \E t \in Texts : RedactString(t)
  <2>1. PICK t \in Texts : RedactString(t)
    BY <1>5
  <2>2. t.raw \in Nat /\ maxStringBytes \in Nat
    BY RedactorAssumption, GuardsAreNat
  <2>3. \/ field'[2] = Text(field'[1].red) /\ field'[1].raw <= maxStringBytes
        \/ field'[2] = Oversize /\ field'[1].raw > maxStringBytes
    BY <2>1, <2>2 DEF RedactString
  <2> QED
    BY <2>1, <2>3 DEF RedactString, FailsClosed, Text, Oversize, maxLineBytes,
       maxStringBytes, Guard
<1>6. CASE UNCHANGED vars
  BY <1>6 DEF vars, FailsClosed, Text, Oversize, maxLineBytes, maxStringBytes, Guard
<1> QED
  BY <1>1, <1>2, <1>3, <1>4, <1>5, <1>6 DEF Next

\* Redact and RedactString forward the redacted text of a line or field only
\* if it is within its cap, at its own place, for every payload and every
\* configured value of the guards.
THEOREM NeverForwardsOversize == Spec => []FailsClosed
BY TypeInit, TypeNext, ClosedInit, ClosedNext, PTL DEF Spec

-----------------------------------------------------------------------------
(***************************************************************************)
(* The byte budget.  totalBytes is a running sum; that it is the sum of    *)
(* what was kept is shown for every function that satisfies the equation   *)
(* of Kept, together with the existence of one, as entries are appended.   *)
(***************************************************************************)

Bytes(e) == IF e.kind = "text" THEN e.n ELSE 0

\* f satisfies the recursive equation of Kept for the entries r.
Sums(f, r) == f = [i \in 0..Len(r) |-> IF i = 0 THEN 0 ELSE f[i - 1] + Bytes(r[i])]

SumIsTotal ==
    /\ \E f : Sums(f, result)
    /\ \A f : Sums(f, result) => f[Len(result)] = totalBytes

\* Kept is one of these functions.
LEMMA KeptSums == ASSUME NEW f, Sums(f, result) PROVE Sums(Kept, result)
BY DEF Sums, Kept, Bytes

\* An entry is appended and its bytes are counted.
LEMMA SumAppend ==
    ASSUME TypeOK, SumIsTotal, NEW e \in Entry,
           result' = Append(result, e), totalBytes' = totalBytes + Bytes(e)
    PROVE  SumIsTotal'
<1> DEFINE n == Len(result)
<1>1. /\ n \in Nat /\ Len(result') = n + 1 /\ result'[n + 1] = e
      /\ \A i \in 1..n : result'[i] = result[i]
  BY DEF TypeOK
<1> HIDE DEF n
<1>2. ASSUME NEW f, Sums(f, result)
      PROVE  /\ f[0] = 0 /\ f[n] = totalBytes
             /\ \A i \in 1..n : f[i] = f[i - 1] + Bytes(result[i])
  <2>1. f = [i \in 0..n |-> IF i = 0 THEN 0 ELSE f[i - 1] + Bytes(result[i])]
    BY <1>2 DEF Sums, n
  <2>2. f[n] = totalBytes
    BY <1>2 DEF SumIsTotal, n
  <2> QED
    BY <1>1, <2>1, <2>2
<1>3. \E f : Sums(f, result')
  <2>1. PICK f : Sums(f, result)
    BY DEF SumIsTotal
  <2>2. /\ f[0] = 0 /\ f[n] = totalBytes
        /\ \A i \in 1..n : f[i] = f[i - 1] + Bytes(result[i])
    BY <1>2, <2>1
  <2> DEFINE g == [i \in 0..(n + 1) |-> IF i = n + 1 THEN totalBytes + Bytes(e) ELSE f[i]]
  <2>3. ASSUME NEW i \in 0..(n + 1)
        PROVE  g[i] = IF i = 0 THEN 0 ELSE g[i - 1] + Bytes(result'[i])
    <3>1. CASE i = 0
      BY <1>1, <2>2, <3>1
    <3>2. CASE i = n + 1
      BY <1>1, <2>2, <3>2
    <3>3. CASE i \in 1..n
      <4>1. g[i] = f[i] /\ g[i - 1] = f[i - 1]
        BY <1>1, <3>3
      <4> QED
        BY <1>1, <2>2, <3>3, <4>1
    <3> QED
      BY <1>1, <3>1, <3>2, <3>3
  <2>4. g = [i \in 0..(n + 1) |-> g[i]]
    OBVIOUS
  <2> HIDE DEF g
  <2>5. Sums(g, result')
    BY <1>1, <2>3, <2>4 DEF Sums
  <2> QED
    BY <2>5
<1>4. ASSUME NEW f, Sums(f, result') PROVE f[n + 1] = totalBytes'
  <2>1. f = [i \in 0..(n + 1) |-> IF i = 0 THEN 0 ELSE f[i - 1] + Bytes(result'[i])]
    BY <1>1, <1>4 DEF Sums
  <2> DEFINE g == [i \in 0..n |-> f[i]]
  <2>2. ASSUME NEW i \in 0..n
        PROVE  g[i] = IF i = 0 THEN 0 ELSE g[i - 1] + Bytes(result[i])
    <3>1. f[i] = IF i = 0 THEN 0 ELSE f[i - 1] + Bytes(result'[i])
      BY <1>1, <2>1
    <3>2. i # 0 => g[i - 1] = f[i - 1] /\ result'[i] = result[i]
      BY <1>1
    <3> QED
      BY <3>1, <3>2
  <2>3. g = [i \in 0..n |-> g[i]]
    OBVIOUS
  <2>4. g[n] = f[n]
    BY <1>1
  <2> HIDE DEF g
  <2>5. Sums(g, result)
    BY <2>2, <2>3 DEF Sums, n
  <2>6. f[n] = totalBytes
    BY <1>2, <2>4, <2>5
  <2>7. f[n + 1] = f[n] + Bytes(result'[n + 1])
    BY <1>1, <2>1
  <2> QED
    BY <1>1, <2>6, <2>7
<1> QED
  BY <1>1, <1>3, <1>4 DEF SumIsTotal

\* The budget is kept, and used up to the first line that does not fit.
CutAtBudget ==
    /\ totalBytes <= maxTotalBytes
    /\ Entries("budget") # {} =>
          totalBytes + lines[Len(result)].red > maxTotalBytes

\* While the loop runs no budget marker has been written.
LEMMA NoMarkerYet == ASSUME FailsClosed, Looping PROVE Entries("budget") = {}
<1>1. ASSUME NEW i \in 1..Len(result) PROVE result[i].kind # "budget"
  <2>1. result[i] = Text(lines[i].red) \/ result[i] = Oversize
    BY DEF FailsClosed, Looping
  <2> QED
    BY <2>1 DEF Text, Oversize
<1> QED
  BY <1>1 DEF Entries

\* What appending an entry does to the entries of a kind.
LEMMA EntriesAppend ==
    ASSUME TypeOK, NEW e \in Entry, result' = Append(result, e), NEW k
    PROVE  /\ Entries(k)' = IF e.kind = k THEN Entries(k) \cup {Len(result) + 1} ELSE Entries(k)
           /\ Len(result) + 1 \notin Entries(k)
           /\ Len(result') = Len(result) + 1 /\ result'[Len(result) + 1] = e
           /\ \A i \in 1..Len(result) : result'[i] = result[i]
<1>1. /\ Len(result) \in Nat /\ Len(result') = Len(result) + 1
      /\ result'[Len(result) + 1] = e
      /\ \A i \in 1..Len(result) : result'[i] = result[i]
  BY DEF TypeOK
<1> QED
  BY <1>1 DEF Entries

\* The kinds and the bytes of the entries Redact appends.
LEMMA EntryBytes ==
    ASSUME NEW m \in Nat
    PROVE  /\ Text(m) \in Entry /\ Text(m).kind = "text" /\ Bytes(Text(m)) = m
           /\ Oversize \in Entry /\ Oversize.kind = "oversize" /\ Bytes(Oversize) = 0
           /\ Budget(m) \in Entry /\ Budget(m).kind = "budget" /\ Bytes(Budget(m)) = 0
           /\ Budget(m).n = m
BY DEF Text, Oversize, Budget, Entry, Bytes

LEMMA BudgetInit == Init => SumIsTotal /\ CutAtBudget
<1> SUFFICES ASSUME Init PROVE SumIsTotal /\ CutAtBudget
  OBVIOUS
<1>1. result = <<>> /\ Len(result) = 0 /\ totalBytes = 0 /\ 0..0 = {0}
  BY DEF Init
<1>2. Sums([i \in {0} |-> 0], result)
  BY <1>1 DEF Sums
<1>3. ASSUME NEW f, Sums(f, result) PROVE f[Len(result)] = 0
  BY <1>1, <1>3 DEF Sums
<1>4. CutAtBudget
  BY <1>1, GuardsAreNat DEF CutAtBudget, Entries
<1> QED
  BY <1>1, <1>2, <1>3, <1>4 DEF SumIsTotal

LEMMA BudgetNext ==
    ASSUME TypeOK, FailsClosed, SumIsTotal, CutAtBudget, [Next]_vars
    PROVE  (SumIsTotal /\ CutAtBudget)'
<1>0. /\ totalBytes \in Nat /\ maxTotalBytes \in Nat /\ maxTotalBytes' = maxTotalBytes
      /\ Len(result) \in Nat /\ Len(lines) \in Nat
  BY GuardsAreNat DEF TypeOK, maxTotalBytes, Guard
<1>1. CASE DropOversize
  <2>1. /\ Looping /\ result' = Append(result, Oversize)
        /\ totalBytes' = totalBytes + Bytes(Oversize)
        /\ Oversize \in Entry /\ Oversize.kind = "oversize"
    BY <1>0, <1>1, EntryBytes DEF DropOversize
  <2>2. SumIsTotal'
    BY <2>1, SumAppend
  <2>3. Entries("budget")' = {}
    BY <2>1, NoMarkerYet, EntriesAppend
  <2>4. CutAtBudget'
    BY <1>0, <1>1, <2>3 DEF CutAtBudget, DropOversize
  <2> QED
    BY <2>2, <2>4
<1>2. CASE DropRest
  <2> DEFINE m == Len(lines) - Len(result)
  <2>1. Looping /\ m \in Nat /\ ~Fits /\ Line.red \in Nat
    BY <1>0, <1>2, LineType DEF DropRest, Looping
  <2>2. /\ result' = Append(result, Budget(m)) /\ totalBytes' = totalBytes /\ lines' = lines
        /\ Budget(m) \in Entry /\ Bytes(Budget(m)) = 0
    BY <1>2, <2>1, EntryBytes DEF DropRest
  <2>3. SumIsTotal'
    BY <1>0, <2>2, SumAppend
  <2>4. Line = lines'[Len(result')]
    BY <2>2, EntriesAppend DEF Line
  <2>5. CutAtBudget'
    BY <1>0, <2>1, <2>2, <2>4 DEF CutAtBudget, Fits
  <2> QED
    BY <2>3, <2>5
<1>3. CASE Keep
  <2>1. Looping /\ Fits /\ Line.red \in Nat
    BY <1>3, LineType DEF Keep
  <2>2. /\ result' = Append(result, Text(Line.red)) /\ totalBytes' = totalBytes + Line.red
        /\ Text(Line.red) \in Entry /\ Bytes(Text(Line.red)) = Line.red
        /\ Text(Line.red).kind = "text"
    BY <1>3, <2>1, EntryBytes DEF Keep
  <2>3. SumIsTotal'
    BY <2>2, SumAppend
  <2>4. Entries("budget")' = {}
    BY <2>1, <2>2, NoMarkerYet, EntriesAppend
  <2>5. CutAtBudget'
    BY <1>0, <2>1, <2>2, <2>4 DEF CutAtBudget, Fits
  <2> QED
    BY <2>3, <2>5
<1>4. CASE UNCHANGED <<lines, result, totalBytes>>
  BY <1>0, <1>4 DEF SumIsTotal, CutAtBudget, Entries
<1> QED
  BY <1>1, <1>2, <1>3, <1>4 DEF Next, Finish, RedactString, vars

\* Redact: the bytes of the lines kept are the counted ones, within the budget
\* and cut no earlier than they must, for every payload and configured guard.
THEOREM BudgetIsRespected == Spec => []BudgetRespected
<1>1. TypeOK /\ SumIsTotal /\ CutAtBudget => BudgetRespected
  <2> SUFFICES ASSUME TypeOK, SumIsTotal, CutAtBudget PROVE BudgetRespected
    OBVIOUS
  <2>1. Sums(Kept, result)
    BY KeptSums DEF SumIsTotal
  <2>2. Kept[Len(result)] = totalBytes
    BY <2>1 DEF SumIsTotal
  <2> QED
    BY <2>2 DEF BudgetRespected, CutAtBudget
<1> QED
  BY <1>1, TypeInit, TypeNext, ClosedInit, ClosedNext, BudgetInit, BudgetNext, PTL DEF Spec

-----------------------------------------------------------------------------
(* The counters *)

\* EveryLineAccounted is about the end of the loop; along the way the entries
\* stand for the lines looked at.
Accounted ==
    /\ IsFiniteSet(Entries("text"))
    /\ stats.RedactedLines <= Cardinality(Entries("text"))
    /\ Cardinality(Entries("text")) + stats.DroppedLines =
          IF pc = "loop" THEN Len(result) ELSE Len(lines)
    /\ \A i \in Entries("budget") : result[i].n = Len(lines) - i + 1

\* Two counters are written at once.
LEMMA StatsFields ==
    ASSUME NEW s \in [RedactedLines : Nat, DroppedLines : Nat, Replacements : Nat],
           NEW n, NEW k
    PROVE  /\ [s EXCEPT !.DroppedLines = n].DroppedLines = n
           /\ [s EXCEPT !.DroppedLines = n].RedactedLines = s.RedactedLines
           /\ [s EXCEPT !.Replacements = n, !.DroppedLines = k].DroppedLines = k
           /\ [s EXCEPT !.Replacements = n, !.DroppedLines = k].RedactedLines = s.RedactedLines
           /\ [s EXCEPT !.Replacements = n, !.RedactedLines = k].DroppedLines = s.DroppedLines
           /\ [s EXCEPT !.Replacements = n, !.RedactedLines = k].RedactedLines = k
OBVIOUS

LEMMA AccountedInit == Init => Accounted
<1> SUFFICES ASSUME Init PROVE Accounted
  OBVIOUS
<1>1. Entries("text") = {} /\ Entries("budget") = {} /\ Len(result) = 0
  BY DEF Init, Entries
<1>2. IsFiniteSet(Entries("text")) /\ Cardinality(Entries("text")) = 0
  BY <1>1, FS_EmptySet
<1>3. stats.RedactedLines = 0 /\ stats.DroppedLines = 0 /\ pc = "loop"
  BY DEF Init
<1> QED
  BY <1>1, <1>2, <1>3 DEF Accounted

LEMMA AccountedNext ==
    ASSUME TypeOK, FailsClosed, Accounted, [Next]_vars
    PROVE  Accounted'
<1> DEFINE kept == Cardinality(Entries("text"))
<1>0. /\ Len(result) \in Nat /\ Len(lines) \in Nat /\ kept \in Nat
      /\ stats \in [RedactedLines : Nat, DroppedLines : Nat, Replacements : Nat]
      /\ stats.RedactedLines \in Nat /\ stats.DroppedLines \in Nat
  BY FS_CardinalityType DEF TypeOK, Accounted
<1>1. CASE DropOversize
  <2>1. /\ Looping /\ result' = Append(result, Oversize) /\ UNCHANGED <<lines, pc>>
        /\ Oversize \in Entry /\ Oversize.kind = "oversize"
    BY <1>1, EntryBytes DEF DropOversize
  <2>2. /\ Entries("text")' = Entries("text") /\ Entries("budget")' = {}
        /\ Len(result') = Len(result) + 1
    BY <2>1, NoMarkerYet, EntriesAppend
  <2>3. stats' = [stats EXCEPT !.DroppedLines = stats.DroppedLines + 1]
    BY <1>1 DEF DropOversize
  <2>4. /\ stats'.DroppedLines = stats.DroppedLines + 1
        /\ stats'.RedactedLines = stats.RedactedLines
    BY <1>0, <2>3, StatsFields
  <2> QED
    BY <1>0, <2>1, <2>2, <2>4 DEF Accounted, Looping
<1>2. CASE DropRest
  <2> DEFINE m == Len(lines) - Len(result)
  <2>1. Looping /\ m \in Nat
    BY <1>0, <1>2 DEF DropRest, Looping
  <2>2. /\ result' = Append(result, Budget(m)) /\ lines' = lines /\ pc' = "done"
        /\ Budget(m) \in Entry /\ Budget(m).kind = "budget" /\ Budget(m).n = m
    BY <1>2, <2>1, EntryBytes DEF DropRest
  <2>3. /\ Entries("text")' = Entries("text") /\ Entries("budget")' = {Len(result) + 1}
        /\ result'[Len(result) + 1] = Budget(m)
    BY <2>1, <2>2, NoMarkerYet, EntriesAppend
  <2>4. stats' = [stats EXCEPT
                     !.Replacements = stats.Replacements + Line.hits,
                     !.DroppedLines = stats.DroppedLines + Len(lines) - Len(result)]
    BY <1>2 DEF DropRest
  <2>5. /\ stats'.DroppedLines = stats.DroppedLines + Len(lines) - Len(result)
        /\ stats'.RedactedLines = stats.RedactedLines
    BY <1>0, <2>4, StatsFields
  <2> QED
    BY <1>0, <2>1, <2>2, <2>3, <2>5, SMTT(30) DEF Accounted, Looping
<1>3. CASE Keep
  <2>1. Looping /\ Line.red \in Nat
    BY <1>3, LineType DEF Keep
  <2>2. /\ result' = Append(result, Text(Line.red)) /\ UNCHANGED <<lines, pc>>
        /\ Text(Line.red) \in Entry /\ Text(Line.red).kind = "text"
    BY <1>3, <2>1, EntryBytes DEF Keep
  <2>3. /\ Entries("text")' = Entries("text") \cup {Len(result) + 1}
        /\ Len(result) + 1 \notin Entries("text")
        /\ Entries("budget")' = {} /\ Len(result') = Len(result) + 1
    BY <2>1, <2>2, NoMarkerYet, EntriesAppend
  <2>4. IsFiniteSet(Entries("text")') /\ Cardinality(Entries("text")') = kept + 1
    BY <2>3, FS_AddElement DEF Accounted
  <2> DEFINE k == IF Line.hits > 0 THEN stats.RedactedLines + 1 ELSE stats.RedactedLines
  <2>5. stats' = [stats EXCEPT !.Replacements = stats.Replacements + Line.hits,
                               !.RedactedLines = k]
    BY <1>3 DEF Keep
  <2>6. k <= stats.RedactedLines + 1 /\ k \in Nat
    BY <1>0
  <2> HIDE DEF k
  <2>7. stats'.DroppedLines = stats.DroppedLines /\ stats'.RedactedLines = k
    BY <1>0, <2>5, StatsFields
  <2> QED
    BY <1>0, <2>1, <2>2, <2>3, <2>4, <2>6, <2>7 DEF Accounted, Looping
<1>4. CASE Finish
  BY <1>0, <1>4 DEF Finish, Accounted, Entries
<1>5. CASE UNCHANGED <<lines, result, stats, pc>>
  BY <1>5 DEF Accounted, Entries
<1> QED
  BY <1>1, <1>2, <1>3, <1>4, <1>5 DEF Next, RedactString, vars

\* Redact: when it returns, kept and dropped lines add up to the lines it was
\* given, however many were oversize and wherever the budget ended.
THEOREM LinesAccounted == Spec => []EveryLineAccounted
<1>1. TypeOK /\ Accounted => EveryLineAccounted
  BY DEF Accounted, EveryLineAccounted
<1> QED
  BY <1>1, TypeInit, TypeNext, ClosedInit, ClosedNext, AccountedInit, AccountedNext, PTL DEF Spec

==============================================================================
