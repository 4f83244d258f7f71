------------------------------ MODULE DeployProofs ------------------------------
(***************************************************************************)
(* A boot entry never leads to a file that is not there, and no deployment *)
(* loses the state of another: for any containers, jobs and processes,     *)
(* killed at any time.                                                     *)
(***************************************************************************)
EXTENDS DeploySafety, FiniteSetTheorems, DataLemmas

-------------------------------------------------------------------------------
(* Folds, step by step *)

\* What a fold comes through, from its base to its result.
Relocates(after, t1, entry_id, n) ==
  /\ after[0] = [t1 EXCEPT !.filename = entry_id \o ".conf"]
  /\ \A i \in 1 .. n : after[i] = RelocateLine(after[i - 1], entry_id, i)
  /\ relocate(t1, entry_id) = after[n]

Adjusts(after, lines, root_id, insecure, q, n) ==
  /\ after[0] = add_cmdline(lines, make_cmdline_composefs(root_id, insecure))
  /\ \A i \in 1 .. n : after[i] = add_cmdline(after[i - 1], q[i])
  /\ adjust_cmdline(lines, root_id, insecure, q) = after[n]

LEMMA RelocationSteps ==
  ASSUME NEW t1, NEW entry_id, NEW n \in Nat, DOMAIN t1.lines = 1 .. n
  PROVE  \E after : Relocates(after, t1, entry_id, n)
<1> DEFINE base == [t1 EXCEPT !.filename = entry_id \o ".conf"]
           q == [i \in 1 .. n |-> i]
           Is(it, k) == it = [s \in SUBSET (1 .. k) |->
                               IF s = {} THEN base ELSE RelocateLine(it[s \ {Max(s)}], entry_id, q[Max(s)])]
           G == {k \in 0 .. n : \E it : Is(it, k)}
<1>1. DOMAIN q = 1 .. n /\ \A i \in 1 .. n : q[i] = i
  OBVIOUS
<1>2. relocate(t1, entry_id) = FoldLeft(LAMBDA t, i : RelocateLine(t, entry_id, i), base, q)
  BY DEF relocate
<1> HIDE DEF base, q
<1>3. FoldLeft(LAMBDA t, i : RelocateLine(t, entry_id, i), base, q)
      = (CHOOSE it : it = [s \in SUBSET DOMAIN q |->
            IF s = {} THEN base ELSE RelocateLine(it[s \ {Max(s)}], entry_id, q[Max(s)])])[DOMAIN q]
  BY DEF FoldLeft, MapThenFoldSet
<1>4. 0 \in G
  <2> DEFINE it == [s \in SUBSET (1 .. 0) |-> base]
  <2>1. \A s \in SUBSET (1 .. 0) : s = {}
    OBVIOUS
  <2>2. Is(it, 0)
    BY <2>1
  <2> HIDE DEF it, Is
  <2>3. QED BY <2>2
<1>5. ASSUME NEW k \in 1 .. n, k - 1 \in G PROVE k \in G
  <2>1. PICK old : Is(old, k - 1)
    BY <1>5
  <2> DEFINE it == [s \in SUBSET (1 .. k) |->
                      IF k \in s THEN RelocateLine(old[s \ {k}], entry_id, q[k]) ELSE old[s]]
  <2>2. ASSUME NEW s \in SUBSET (1 .. k), k \notin s
        PROVE  s \in SUBSET (1 .. (k - 1)) /\ it[s] = old[s]
    BY <2>2
  <2>3. ASSUME NEW s \in SUBSET (1 .. k)
        PROVE  it[s] = IF s = {} THEN base ELSE RelocateLine(it[s \ {Max(s)}], entry_id, q[Max(s)])
    <3>1. CASE k \in s
      <4>1. Max(s) = k
        BY <3>1, GreatestNumber
      <4>2. s \ {k} \in SUBSET (1 .. k) /\ k \notin s \ {k}
        OBVIOUS
      <4>3. it[s \ {k}] = old[s \ {k}]
        BY <2>2, <4>2
      <4>4. it[s] = RelocateLine(old[s \ {k}], entry_id, q[k])
        BY <3>1
      <4>5. QED BY <3>1, <4>1, <4>3, <4>4
    <3>2. CASE k \notin s /\ s # {}
      <4>1. Max(s) \in s
        BY <3>2, GreatestNumber
      <4>2. s \ {Max(s)} \in SUBSET (1 .. k) /\ k \notin s \ {Max(s)}
        BY <3>2
      <4>3. it[s \ {Max(s)}] = old[s \ {Max(s)}] /\ it[s] = old[s] /\ s \in SUBSET (1 .. (k - 1))
        BY <2>2, <3>2, <4>2
      <4> HIDE DEF it
      <4>4. old[s] = RelocateLine(old[s \ {Max(s)}], entry_id, q[Max(s)])
        BY <2>1, <3>2, <4>3
      <4>5. QED BY <3>2, <4>3, <4>4
    <3>3. CASE s = {}
      <4>1. it[s] = old[s] /\ s \in SUBSET (1 .. (k - 1))
        BY <2>2, <3>3
      <4> HIDE DEF it
      <4>2. QED BY <2>1, <3>3, <4>1
    <3>4. QED BY <3>1, <3>2, <3>3
  <2>4. Is(it, k)
    <3> DEFINE r == [s \in SUBSET (1 .. k) |->
                      IF s = {} THEN base ELSE RelocateLine(it[s \ {Max(s)}], entry_id, q[Max(s)])]
    <3>1. DOMAIN it = SUBSET (1 .. k) /\ it = [s \in SUBSET (1 .. k) |-> it[s]]
      OBVIOUS
    <3> HIDE DEF it
    <3>2. \A s \in SUBSET (1 .. k) : it[s] = r[s]
      BY <2>3
    <3>3. it = r
      BY <3>1, <3>2
    <3>4. QED BY <3>3
  <2> HIDE DEF it, Is
  <2>5. QED BY <2>4
<1>6. n \in G
  <2> HIDE DEF G
  <2>1. 0 .. n \subseteq G
    BY <1>4, <1>5, IndexInduction
  <2>2. QED BY <2>1
<1>7. \E it : it = [s \in SUBSET DOMAIN q |->
            IF s = {} THEN base ELSE RelocateLine(it[s \ {Max(s)}], entry_id, q[Max(s)])]
  BY <1>1, <1>6
<1>8. PICK it : /\ Is(it, n)
                /\ relocate(t1, entry_id) = it[1 .. n]
  BY <1>1, <1>2, <1>3, <1>7
<1> DEFINE after == [i \in 0 .. n |-> it[1 .. i]]
<1>9. after[0] = base
  <2>1. 1 .. 0 = {} /\ {} \in SUBSET (1 .. n)
    OBVIOUS
  <2>2. QED BY <1>8, <2>1
<1>10. ASSUME NEW i \in 1 .. n PROVE after[i] = RelocateLine(after[i - 1], entry_id, i)
  <2>1. /\ 1 .. i \in SUBSET (1 .. n) /\ 1 .. i \in SUBSET (1 .. i) /\ i \in 1 .. i
        /\ (1 .. i) \ {i} = 1 .. (i - 1) /\ i - 1 \in 0 .. n
    OBVIOUS
  <2>2. Max(1 .. i) = i
    <3> DEFINE T == 1 .. i
    <3>1. T \in SUBSET (1 .. i) /\ T # {} /\ i \in T /\ i \in Nat
      BY <2>1
    <3> HIDE DEF T
    <3>2. Max(T) = i
      BY <3>1, GreatestNumber
    <3>3. QED BY <3>2 DEF T
  <2>3. it[1 .. i] = RelocateLine(it[1 .. (i - 1)], entry_id, q[i])
    BY <1>8, <2>1, <2>2
  <2>4. QED BY <1>1, <2>1, <2>3
<1>11. after[n] = relocate(t1, entry_id)
  BY <1>8
<1> HIDE DEF after
<1>12. QED BY <1>9, <1>10, <1>11 DEF base, Relocates

LEMMA AddingSteps ==
  ASSUME NEW lines, NEW root_id, NEW insecure, NEW q, NEW n \in Nat, DOMAIN q = 1 .. n
  PROVE  \E after : Adjusts(after, lines, root_id, insecure, q, n)
<1> DEFINE base == add_cmdline(lines, make_cmdline_composefs(root_id, insecure))
           Is(it, k) == it = [s \in SUBSET (1 .. k) |->
                               IF s = {} THEN base ELSE add_cmdline(it[s \ {Max(s)}], q[Max(s)])]
           G == {k \in 0 .. n : \E it : Is(it, k)}
<1>1. DOMAIN q = 1 .. n
  OBVIOUS
<1>2. adjust_cmdline(lines, root_id, insecure, q) = FoldLeft(add_cmdline, base, q)
  BY DEF adjust_cmdline
<1> HIDE DEF base
<1>3. FoldLeft(add_cmdline, base, q)
      = (CHOOSE it : it = [s \in SUBSET DOMAIN q |->
            IF s = {} THEN base ELSE add_cmdline(it[s \ {Max(s)}], q[Max(s)])])[DOMAIN q]
  BY DEF FoldLeft, MapThenFoldSet
<1>4. 0 \in G
  <2> DEFINE it == [s \in SUBSET (1 .. 0) |-> base]
  <2>1. \A s \in SUBSET (1 .. 0) : s = {}
    OBVIOUS
  <2>2. Is(it, 0)
    BY <2>1
  <2> HIDE DEF it, Is
  <2>3. QED BY <2>2
<1>5. ASSUME NEW k \in 1 .. n, k - 1 \in G PROVE k \in G
  <2>1. PICK old : Is(old, k - 1)
    BY <1>5
  <2> DEFINE it == [s \in SUBSET (1 .. k) |->
                      IF k \in s THEN add_cmdline(old[s \ {k}], q[k]) ELSE old[s]]
  <2>2. ASSUME NEW s \in SUBSET (1 .. k), k \notin s
        PROVE  s \in SUBSET (1 .. (k - 1)) /\ it[s] = old[s]
    BY <2>2
  <2>3. ASSUME NEW s \in SUBSET (1 .. k)
        PROVE  it[s] = IF s = {} THEN base ELSE add_cmdline(it[s \ {Max(s)}], q[Max(s)])
    <3>1. CASE k \in s
      <4>1. Max(s) = k
        BY <3>1, GreatestNumber
      <4>2. s \ {k} \in SUBSET (1 .. k) /\ k \notin s \ {k}
        OBVIOUS
      <4>3. it[s \ {k}] = old[s \ {k}]
        BY <2>2, <4>2
      <4>4. it[s] = add_cmdline(old[s \ {k}], q[k])
        BY <3>1
      <4>5. QED BY <3>1, <4>1, <4>3, <4>4
    <3>2. CASE k \notin s /\ s # {}
      <4>1. Max(s) \in s
        BY <3>2, GreatestNumber
      <4>2. s \ {Max(s)} \in SUBSET (1 .. k) /\ k \notin s \ {Max(s)}
        BY <3>2
      <4>3. it[s \ {Max(s)}] = old[s \ {Max(s)}] /\ it[s] = old[s] /\ s \in SUBSET (1 .. (k - 1))
        BY <2>2, <3>2, <4>2
      <4> HIDE DEF it
      <4>4. old[s] = add_cmdline(old[s \ {Max(s)}], q[Max(s)])
        BY <2>1, <3>2, <4>3
      <4>5. QED BY <3>2, <4>3, <4>4
    <3>3. CASE s = {}
      <4>1. it[s] = old[s] /\ s \in SUBSET (1 .. (k - 1))
        BY <2>2, <3>3
      <4> HIDE DEF it
      <4>2. QED BY <2>1, <3>3, <4>1
    <3>4. QED BY <3>1, <3>2, <3>3
  <2>4. Is(it, k)
    <3> DEFINE r == [s \in SUBSET (1 .. k) |->
                      IF s = {} THEN base ELSE add_cmdline(it[s \ {Max(s)}], q[Max(s)])]
    <3>1. DOMAIN it = SUBSET (1 .. k) /\ it = [s \in SUBSET (1 .. k) |-> it[s]]
      OBVIOUS
    <3> HIDE DEF it
    <3>2. \A s \in SUBSET (1 .. k) : it[s] = r[s]
      BY <2>3
    <3>3. it = r
      BY <3>1, <3>2
    <3>4. QED BY <3>3
  <2> HIDE DEF it, Is
  <2>5. QED BY <2>4
<1>6. n \in G
  <2> HIDE DEF G
  <2>1. 0 .. n \subseteq G
    BY <1>4, <1>5, IndexInduction
  <2>2. QED BY <2>1
<1>7. \E it : it = [s \in SUBSET DOMAIN q |->
            IF s = {} THEN base ELSE add_cmdline(it[s \ {Max(s)}], q[Max(s)])]
  BY <1>1, <1>6
<1>8. PICK it : /\ Is(it, n)
                /\ adjust_cmdline(lines, root_id, insecure, q) = it[1 .. n]
  BY <1>1, <1>2, <1>3, <1>7
<1> DEFINE after == [i \in 0 .. n |-> it[1 .. i]]
<1>9. after[0] = base
  <2>1. 1 .. 0 = {} /\ {} \in SUBSET (1 .. n)
    OBVIOUS
  <2>2. QED BY <1>8, <2>1
<1>10. ASSUME NEW i \in 1 .. n PROVE after[i] = add_cmdline(after[i - 1], q[i])
  <2>1. /\ 1 .. i \in SUBSET (1 .. n) /\ 1 .. i \in SUBSET (1 .. i) /\ i \in 1 .. i
        /\ (1 .. i) \ {i} = 1 .. (i - 1) /\ i - 1 \in 0 .. n
    OBVIOUS
  <2>2. Max(1 .. i) = i
    <3> DEFINE T == 1 .. i
    <3>1. T \in SUBSET (1 .. i) /\ T # {} /\ i \in T /\ i \in Nat
      BY <2>1
    <3> HIDE DEF T
    <3>2. Max(T) = i
      BY <3>1, GreatestNumber
    <3>3. QED BY <3>2 DEF T
  <2>3. it[1 .. i] = add_cmdline(it[1 .. (i - 1)], q[i])
    BY <1>8, <2>1, <2>2
  <2>4. QED BY <1>1, <2>1, <2>3
<1>11. after[n] = adjust_cmdline(lines, root_id, insecure, q)
  <2>1. n \in 0 .. n
    OBVIOUS
  <2>2. QED BY <1>8, <2>1
<1> HIDE DEF after
<1>12. QED BY <1>9, <1>10, <1>11 DEF base, Adjusts

-------------------------------------------------------------------------------
(* Changing an entry *)

LEMMA LinesAre ==
  ASSUME NEW lines, IsLines(lines)
  PROVE  /\ Len(lines) \in Nat /\ DOMAIN lines = 1 .. Len(lines)
         /\ \A i \in DOMAIN lines : /\ "key" \in DOMAIN lines[i]
                                    /\ lines[i].key \in FileKeys => DOMAIN lines[i] = {"key", "value"}
                                    /\ lines[i].key \notin FileKeys => DOMAIN lines[i] = {"key", "args"}
<1>1. lines \in Seq(Range(lines))
  BY DEF IsLines
<1>2. Len(lines) \in Nat /\ DOMAIN lines = 1 .. Len(lines)
  BY <1>1
<1>3. ASSUME NEW i \in DOMAIN lines
      PROVE  DOMAIN lines[i] = IF lines[i].key \in FileKeys THEN {"key", "value"} ELSE {"key", "args"}
  BY DEF IsLines
<1>4. QED BY <1>2, <1>3

\* An argument more, or another one in its place, leaves the paths of an entry alone.
LEMMA ArgumentKeepsPaths ==
  ASSUME NEW lines, IsLines(lines), NEW arg
  PROVE  IsLines(add_cmdline(lines, arg)) /\ PathsIn(add_cmdline(lines, arg)) = PathsIn(lines)
<1> DEFINE options == LinesWith(lines, {"options"})
           n == Len(lines)
           now == add_cmdline(lines, arg)
<1>1. n \in Nat /\ DOMAIN lines = 1 .. n /\ lines \in Seq(Range(lines))
  BY LinesAre DEF IsLines
<1>2. CASE options = {}
  <2> DEFINE line == [key |-> "options", args |-> <<arg>>]
  <2>1. now = Append(lines, line)
    BY <1>2 DEF add_cmdline
  <2>2. line.key = "options" /\ DOMAIN line = {"key", "args"}
    OBVIOUS
  <2> HIDE DEF line, now
  <2>3. /\ DOMAIN now = 1 .. n + 1 /\ now[n + 1] = line
        /\ \A i \in 1 .. n : now[i] = lines[i]
        /\ now \in Seq(Range(lines) \cup {line})
    BY <1>1, <2>1
  <2>4. now \in Seq(Range(now))
    <3>1. n + 1 \in Nat /\ DOMAIN now = 1 .. n + 1
      BY <1>1, <2>3
    <3>2. now = [i \in DOMAIN now |-> now[i]]
      BY <2>3
    <3> HIDE DEF n
    <3>3. QED BY <3>1, <3>2, SequenceOfRange
  <2>5. IsLines(now)
    <3>1. \A i \in DOMAIN now : DOMAIN now[i] = {"key", IF now[i].key \in FileKeys THEN "value" ELSE "args"}
      BY <1>1, <2>2, <2>3 DEF IsLines, FileKeys
    <3>2. QED BY <2>4, <3>1 DEF IsLines
  <2>6. LinesWith(now, FileKeys) = LinesWith(lines, FileKeys)
    BY <1>1, <2>2, <2>3 DEF LinesWith, FileKeys
  <2>7. PathsIn(now) = PathsIn(lines)
    BY <1>1, <2>3, <2>6 DEF PathsIn, LinesWith
  <2>8. QED BY <2>5, <2>7 DEF now
<1>3. CASE options # {}
  <2> DEFINE k == Min(options)
             args == SetArgument(lines[k].args, arg)
  <2>1. options \in SUBSET Nat /\ options \subseteq DOMAIN lines
    BY <1>1 DEF LinesWith
  <2>2. PICK x \in options : \A y \in options : x <= y
    BY <1>3, <2>1, LeastNumber
  <2>3. k \in options
    BY <2>2 DEF Min
  <2>4. k \in DOMAIN lines /\ lines[k].key = "options"
    BY <2>3 DEF LinesWith
  <2>5. now = [lines EXCEPT ![k].args = args]
    BY <1>3 DEF add_cmdline
  <2> HIDE DEF k, args, now
  <2>6. DOMAIN lines[k] = {"key", "args"}
    BY <2>4, LinesAre DEF FileKeys
  <2>7. /\ DOMAIN now = 1 .. n
        /\ \A i \in 1 .. n : i # k => now[i] = lines[i]
        /\ DOMAIN now[k] = {"key", "args"} /\ now[k].key = "options"
    BY <1>1, <2>4, <2>5, <2>6
  <2>8. now \in Seq(Range(now))
    BY <1>1, <2>5, <2>7, SequenceOfRange
  <2>9. IsLines(now)
    <3>1. \A i \in DOMAIN now : DOMAIN now[i] = {"key", IF now[i].key \in FileKeys THEN "value" ELSE "args"}
      BY <1>1, <2>7 DEF IsLines, FileKeys
    <3>2. QED BY <2>8, <3>1 DEF IsLines
  <2>10. LinesWith(now, FileKeys) = LinesWith(lines, FileKeys)
    BY <1>1, <2>4, <2>7 DEF LinesWith, FileKeys
  <2>11. \A i \in LinesWith(lines, FileKeys) : now[i] = lines[i]
    BY <1>1, <2>4, <2>7 DEF LinesWith, FileKeys
  <2>12. PathsIn(now) = PathsIn(lines)
    BY <2>10, <2>11 DEF PathsIn
  <2>13. QED BY <2>9, <2>12 DEF now
<1>4. QED BY <1>2, <1>3

LEMMA AdjustKeepsPaths ==
  ASSUME NEW lines, IsLines(lines), NEW root_id, NEW insecure, NEW extra, extra \in Seq(Range(extra))
  PROVE  PathsIn(adjust_cmdline(lines, root_id, insecure, extra)) = PathsIn(lines)
<1> DEFINE n == Len(extra)
<1>1. n \in Nat /\ DOMAIN extra = 1 .. n
  OBVIOUS
<1> HIDE DEF n
<1>2. PICK after : Adjusts(after, lines, root_id, insecure, extra, n)
  BY <1>1, AddingSteps
<1> DEFINE G == {k \in 0 .. n : IsLines(after[k]) /\ PathsIn(after[k]) = PathsIn(lines)}
<1>3. 0 \in G
  BY <1>1, <1>2, ArgumentKeepsPaths DEF Adjusts
<1>4. ASSUME NEW k \in 1 .. n, k - 1 \in G PROVE k \in G
  BY <1>1, <1>2, <1>4, ArgumentKeepsPaths DEF Adjusts
<1>5. n \in G
  <2> HIDE DEF G
  <2>1. 0 .. n \subseteq G
    BY <1>1, <1>3, <1>4, IndexInduction
  <2>2. QED BY <1>1, <2>1
<1>6. QED BY <1>2, <1>5 DEF Adjusts

\* An entry of type 1 that can be written: it comes with the files that its lines name.
IsType1(t) ==
  /\ DOMAIN t = {"filename", "lines", "files"}
  /\ IsLines(t.lines)
  /\ PathsIn(t.lines) \subseteq DOMAIN t.files
  /\ \A f \in DOMAIN t.files : t.files[f] # Partial /\ ~IsLoaderEntry(f)

\* Where relocating has come to: the files of the first k lines are at their now places,
\* and those of the others where they have been or, by an earlier line, where they go.
Relocating(t, entry_id, n, k) ==
  /\ DOMAIN t = {"filename", "lines", "files"}
  /\ IsLines(t.lines) /\ DOMAIN t.lines = 1 .. n
  /\ \A f \in DOMAIN t.files : t.files[f] # Partial /\ ~IsLoaderEntry(f)
  /\ \A j \in LinesWith(t.lines, FileKeys) :
       LET value == t.lines[j].value
           path  == <<entry_id, FileName(value)>>
       IN  /\ j <= k => value \in DOMAIN t.files /\ value = path
           /\ j > k => value \in DOMAIN t.files \/ path \in DOMAIN t.files

LEMMA LineRelocates ==
  ASSUME NEW t, NEW entry_id, NEW n \in Nat, NEW k \in 1 .. n, Relocating(t, entry_id, n, k - 1)
  PROVE  Relocating(RelocateLine(t, entry_id, k), entry_id, n, k)
<1> DEFINE old == t.lines[k].value
           path == <<entry_id, FileName(old)>>
           rest == [f \in DOMAIN t.files \ {old} |-> t.files[f]]
           now == RelocateLine(t, entry_id, k)
           changed == [t EXCEPT !.lines[k].value = path,
                                !.files = IF old \notin DOMAIN @ THEN @
                                          ELSE [f \in DOMAIN rest \cup {path} |->
                                                  IF f = path THEN @[old] ELSE rest[f]]]
<1>1. /\ DOMAIN t = {"filename", "lines", "files"}
      /\ IsLines(t.lines) /\ DOMAIN t.lines = 1 .. n
      /\ \A f \in DOMAIN t.files : t.files[f] # Partial /\ ~IsLoaderEntry(f)
  BY DEF Relocating
<1>2. ASSUME NEW j \in 1 .. n, t.lines[j].key \in FileKeys
      PROVE  LET value == t.lines[j].value
             IN  /\ j < k => value \in DOMAIN t.files /\ value = <<entry_id, FileName(value)>>
                 /\ j >= k => value \in DOMAIN t.files \/ <<entry_id, FileName(value)>> \in DOMAIN t.files
  <2>1. j \in LinesWith(t.lines, FileKeys)
    BY <1>1, <1>2 DEF LinesWith
  <2>2. (j < k <=> j <= k - 1) /\ (j >= k <=> j > k - 1)
    OBVIOUS
  <2>3. QED BY <2>1, <2>2 DEF Relocating
<1>3. CASE t.lines[k].key \notin FileKeys
  <2>1. now = t
    BY <1>3 DEF RelocateLine
  <2>2. \A j \in LinesWith(t.lines, FileKeys) : j \in 1 .. n /\ j # k /\ t.lines[j].key \in FileKeys
    BY <1>1, <1>3 DEF LinesWith
  <2> HIDE DEF now
  <2>3. QED BY <1>1, <1>2, <2>1, <2>2 DEF Relocating, now
<1>4. CASE t.lines[k].key \in FileKeys
  <2>1. now = changed
    BY <1>4 DEF RelocateLine
  <2>2. /\ DOMAIN t.lines[k] = {"key", "value"} /\ t.lines \in Seq(Range(t.lines))
        /\ k \in DOMAIN t.lines
    BY <1>1, <1>4, LinesAre DEF IsLines
  <2>3. Len(path) = 2 /\ FileName(path) = FileName(old)
    BY DEF FileName
  <2> DEFINE lines == [t.lines EXCEPT ![k].value = path]
             files == IF old \notin DOMAIN t.files THEN t.files
                      ELSE [f \in DOMAIN rest \cup {path} |-> IF f = path THEN t.files[old] ELSE rest[f]]
  <2>4. DOMAIN now = {"filename", "lines", "files"} /\ now.lines = lines /\ now.files = files
    BY <1>1, <2>1
  <2>5. /\ DOMAIN lines = 1 .. n
        /\ \A j \in 1 .. n : j # k => lines[j] = t.lines[j]
        /\ DOMAIN lines[k] = {"key", "value"} /\ lines[k].key = t.lines[k].key /\ lines[k].value = path
    BY <1>1, <2>2
  <2>6. lines \in Seq(Range(lines))
    <3>1. lines = [i \in DOMAIN lines |-> lines[i]]
      BY <1>1
    <3> HIDE DEF lines
    <3>2. QED BY <2>5, <3>1, SequenceOfRange
  <2>7. path \in DOMAIN files
    BY <1>2, <1>4
  <2>8. ASSUME NEW f \in DOMAIN t.files, f # old \/ f = path PROVE f \in DOMAIN files
    BY <2>8
  <2>9. ASSUME NEW f \in DOMAIN files PROVE files[f] # Partial /\ ~IsLoaderEntry(f)
    <3>1. CASE old \notin DOMAIN t.files
      BY <1>1, <3>1
    <3>2. CASE old \in DOMAIN t.files
      BY <1>1, <2>3, <3>2 DEF IsLoaderEntry
    <3>3. QED BY <3>1, <3>2
  <2> HIDE DEF lines, files, now, changed, rest
  <2>10. IsLines(lines)
    <3>1. \A i \in DOMAIN lines : DOMAIN lines[i] = {"key", IF lines[i].key \in FileKeys THEN "value" ELSE "args"}
      BY <1>1, <1>4, <2>5 DEF IsLines
    <3>2. QED BY <2>6, <3>1 DEF IsLines
  <2>11. ASSUME NEW j \in LinesWith(lines, FileKeys)
         PROVE  LET value == lines[j].value
                    place == <<entry_id, FileName(value)>>
                IN  /\ j <= k => value \in DOMAIN files /\ value = place
                    /\ j > k => value \in DOMAIN files \/ place \in DOMAIN files
    <3>1. j \in 1 .. n /\ lines[j].key \in FileKeys
      BY <2>5 DEF LinesWith
    <3>2. CASE j = k
      BY <2>3, <2>5, <2>7, <3>2
    <3>3. CASE j # k
      <4> DEFINE value == t.lines[j].value
      <4>1. lines[j] = t.lines[j]
        BY <2>5, <3>1, <3>3
      <4>2. /\ j < k => value \in DOMAIN t.files /\ value = <<entry_id, FileName(value)>>
            /\ j >= k => value \in DOMAIN t.files \/ <<entry_id, FileName(value)>> \in DOMAIN t.files
        BY <1>2, <3>1, <4>1
      <4> HIDE DEF value
      <4>3. value \in DOMAIN t.files /\ value # old => value \in DOMAIN files
        BY <2>8
      <4>4. value = old => <<entry_id, FileName(value)>> = path
        OBVIOUS
      <4>5. <<entry_id, FileName(value)>> \in DOMAIN t.files =>
              \/ <<entry_id, FileName(value)>> \in DOMAIN files
              \/ <<entry_id, FileName(value)>> = old
        BY <2>8
      <4>6. <<entry_id, FileName(value)>> = old => <<entry_id, FileName(value)>> = path
        <5> DEFINE there == <<entry_id, FileName(value)>>
        <5>1. FileName(there) = FileName(value)
          BY DEF FileName
        <5> HIDE DEF there
        <5>2. there = old => FileName(old) = FileName(value)
          BY <5>1
        <5>3. QED BY <5>2 DEF there
      <4>7. /\ j < k => value \in DOMAIN files /\ value = <<entry_id, FileName(value)>>
            /\ j > k => value \in DOMAIN files \/ <<entry_id, FileName(value)>> \in DOMAIN files
        BY <2>7, <3>1, <4>2, <4>3, <4>4, <4>5, <4>6
      <4>8. QED BY <3>1, <3>3, <4>1, <4>7 DEF value
    <3>4. QED BY <3>2, <3>3
  <2>12. QED BY <2>4, <2>5, <2>9, <2>10, <2>11 DEF Relocating, now
<1>5. QED BY <1>3, <1>4

\* Relocating an entry moves its files to where its lines lead, also where several have
\* the same name.
LEMMA RelocateKeepsFiles ==
  ASSUME NEW t1, NEW entry_id, IsType1(t1)
  PROVE  IsType1(relocate(t1, entry_id))
<1> DEFINE n == Len(t1.lines)
           start == [t1 EXCEPT !.filename = entry_id \o ".conf"]
<1>1. n \in Nat /\ DOMAIN t1.lines = 1 .. n
  BY LinesAre DEF IsType1
<1> HIDE DEF n
<1>2. PICK after : Relocates(after, t1, entry_id, n)
  BY <1>1, RelocationSteps
<1>3. DOMAIN start = {"filename", "lines", "files"} /\ start.lines = t1.lines /\ start.files = t1.files
  BY DEF IsType1
<1>4. after[0] = start
  BY <1>2 DEF Relocates
<1> HIDE DEF start
<1> DEFINE G == {k \in 0 .. n : Relocating(after[k], entry_id, n, k)}
<1>5. 0 \in G
  <2>1. \A j \in LinesWith(t1.lines, FileKeys) :
          /\ j \in 1 .. n /\ ~(j <= 0) /\ t1.lines[j].value \in PathsIn(t1.lines)
    BY <1>1 DEF LinesWith, PathsIn
  <2>2. \A j \in LinesWith(t1.lines, FileKeys) : t1.lines[j].value \in DOMAIN t1.files
    BY <2>1 DEF IsType1
  <2>3. Relocating(start, entry_id, n, 0)
    BY <1>1, <1>3, <2>1, <2>2 DEF Relocating, IsType1
  <2>4. QED BY <1>1, <1>4, <2>3
<1>6. ASSUME NEW k \in 1 .. n, k - 1 \in G PROVE k \in G
  <2>1. after[k] = RelocateLine(after[k - 1], entry_id, k)
    BY <1>2 DEF Relocates
  <2>2. Relocating(after[k - 1], entry_id, n, k - 1)
    BY <1>6
  <2>3. Relocating(after[k], entry_id, n, k)
    BY <1>1, <2>1, <2>2, LineRelocates
  <2>4. QED BY <1>1, <2>3
<1>7. n \in G
  <2> HIDE DEF G
  <2>1. 0 .. n \subseteq G
    BY <1>1, <1>5, <1>6, IndexInduction
  <2>2. QED BY <1>1, <2>1
<1>8. Relocating(relocate(t1, entry_id), entry_id, n, n)
  BY <1>2, <1>7 DEF Relocates
<1> DEFINE t == relocate(t1, entry_id)
<1> HIDE DEF t
<1>9. PathsIn(t.lines) \subseteq DOMAIN t.files
  <2>1. ASSUME NEW j \in LinesWith(t.lines, FileKeys) PROVE t.lines[j].value \in DOMAIN t.files
    <3>1. j \in 1 .. n /\ j <= n
      BY <1>1, <1>8 DEF Relocating, LinesWith, t
    <3>2. QED BY <1>8, <2>1, <3>1 DEF Relocating, t
  <2>2. QED BY <2>1 DEF PathsIn
<1>10. QED BY <1>8, <1>9 DEF Relocating, IsType1, t

-------------------------------------------------------------------------------
(* What there is to boot from *)

IsSeq(s) == s \in Seq(Range(s))

LEMMA SeqHasRange ==
  ASSUME NEW X, NEW s \in Seq(X)
  PROVE  IsSeq(s)
<1>1. Len(s) \in Nat /\ DOMAIN s = 1 .. Len(s) /\ s = [i \in DOMAIN s |-> s[i]]
  OBVIOUS
<1>2. QED BY <1>1, SequenceOfRange DEF IsSeq

LEMMA JoinIs ==
  ASSUME NEW results, IsSeq(results),
         \A i \in DOMAIN results : results[i] = Error \/ IsSeq(results[i])
  PROVE  LET joined == Join(results)
         IN  \/ joined = Error
             \/ IsSeq(joined) /\ \A k \in DOMAIN joined : \E i \in DOMAIN results : joined[k] \in Range(results[i])
<1> DEFINE X == UNION {Range(results[i]) : i \in DOMAIN results}
           joined == Join(results)
<1>1. CASE Error \in Range(results)
  BY <1>1 DEF Join
<1>2. CASE Error \notin Range(results)
  <2>1. joined = FlattenSeq(results)
    BY <1>2 DEF Join
  <2>2. ASSUME NEW i \in DOMAIN results PROVE results[i] \in Seq(X)
    <3>1. results[i] # Error
      BY <1>2 DEF Range
    <3>2. results[i] \in Seq(Range(results[i])) /\ Range(results[i]) \subseteq X
      BY <3>1 DEF IsSeq
    <3> HIDE DEF X
    <3>3. QED BY <3>2
  <2>3. results \in Seq(Seq(X))
    <3> HIDE DEF X
    <3>1. Len(results) \in Nat /\ DOMAIN results = 1 .. Len(results) /\ results = [i \in DOMAIN results |-> results[i]]
      BY DEF IsSeq
    <3>2. results \in [1 .. Len(results) -> Seq(X)]
      BY <2>2, <3>1
    <3>3. QED BY <3>1, <3>2
  <2>4. joined \in Seq(X)
    <3> HIDE DEF X
    <3>1. QED BY <2>1, <2>3, FlattenedSeq
  <2> HIDE DEF joined
  <2>5. IsSeq(joined) /\ \A k \in DOMAIN joined : joined[k] \in X
    BY <2>4, SeqHasRange
  <2>6. QED BY <2>5 DEF joined
<1>3. QED BY <1>1, <1>2

LEMMA SortedIs ==
  ASSUME NEW S, IsFiniteSet(S)
  PROVE  Cardinality(S) \in Nat /\ DOMAIN Sorted(S) = 1 .. Cardinality(S)
BY FS_CardinalityType DEF Sorted, InOrder

\* For what there may be in a directory.
LEMMA InDirectoryIs ==
  ASSUME NEW t, NEW p, NEW none, NEW found
  PROVE  InDirectory(t, p, none, found) \in {none, found, Error}
<1>1. QED BY Zenon DEF InDirectory

LEMMA Loaded ==
  ASSUME NEW c \in DOMAIN Containers
  PROVE  \/ Entries1(Containers[c]) = Error
         \/ /\ IsSeq(Entries1(Containers[c]))
            /\ \A i \in DOMAIN Entries1(Containers[c]) :
                 LET t == Entries1(Containers[c])[i]
                 IN  /\ DOMAIN t = {"filename", "lines", "files"}
                     /\ DOMAIN t.files = PathsIn(t.lines)
                     /\ \A f \in DOMAIN t.files : t.files[f] # Partial
<1> DEFINE t == Containers[c]
           dir == <<"boot", "loader", "entries">>
           S == {p \in Entries(t, dir) : FileName(p) \in Conf}
           found == Sorted(S)
           loaded == [i \in DOMAIN found |-> IF IsFile(t, found[i]) THEN load(t, found[i]) ELSE Error]
           result == IF Error \in Range(loaded) THEN Error ELSE loaded
<1>1. IsFiniteSet(S)
  <2>1. S \subseteq DOMAIN t /\ IsFiniteSet(DOMAIN t)
    BY DeployConstants DEF Entries
  <2>2. QED BY <2>1, FS_Subset
<1>2. Entries1(t) \in {<<>>, result, Error}
  <2>1. Entries1(t) = InDirectory(t, dir, <<>>, result)
    BY DEF Entries1
  <2> HIDE DEF result, dir
  <2>2. QED BY <2>1, InDirectoryIs
<1> HIDE DEF S
<1>3. IsSeq(loaded)
  <2>1. Cardinality(S) \in Nat /\ DOMAIN found = 1 .. Cardinality(S)
    BY <1>1, SortedIs
  <2>2. DOMAIN loaded = 1 .. Cardinality(S) /\ loaded = [i \in DOMAIN loaded |-> loaded[i]]
    BY <2>1
  <2> HIDE DEF loaded
  <2>3. QED BY <2>1, <2>2, SequenceOfRange DEF IsSeq
<1>4. ASSUME Error \notin Range(loaded), NEW i \in DOMAIN loaded
      PROVE  /\ DOMAIN loaded[i] = {"filename", "lines", "files"}
             /\ DOMAIN loaded[i].files = PathsIn(loaded[i].lines)
             /\ \A f \in DOMAIN loaded[i].files : loaded[i].files[f] # Partial
  <2> DEFINE p == found[i]
             lines == read_file(t, p)
             entry == [filename |-> FileName(p), lines |-> lines,
                       files |-> [f \in PathsIn(lines) |-> read_file(t, f)]]
  <2>1. loaded[i] # Error
    BY <1>4 DEF Range
  <2>2. loaded[i] = load(t, p)
    BY <2>1
  <2>3. load(t, p) = IF \A f \in PathsIn(lines) : split(t, f) /\ IsFile(t, f) THEN entry ELSE Error
    BY DEF load
  <2>4. loaded[i] = entry /\ \A f \in PathsIn(lines) : IsFile(t, f)
    BY <2>1, <2>2, <2>3
  <2>5. \A f \in PathsIn(lines) : read_file(t, f) # Partial
    BY <2>4, DeployConstants DEF IsFile, lookup
  <2> HIDE DEF loaded
  <2>6. QED BY <2>4, <2>5
<1>5. IsSeq(<<>>) /\ DOMAIN <<>> = {}
  BY DEF IsSeq
<1> HIDE DEF loaded, t
<1>6. QED BY <1>2, <1>3, <1>4, <1>5 DEF t

\* What a UKI or addon has, and what a list of them, or the failure to make one.
IsUki(u) == DOMAIN u = {"file_path", "data", "addon"} /\ u.addon = (Len(u.file_path) > 1)

AreUkis(found) == found = Error \/ (IsSeq(found) /\ \A u \in Range(found) : IsUki(u))

LEMMA JoinedUkis ==
  ASSUME NEW results, IsSeq(results), \A i \in DOMAIN results : AreUkis(results[i])
  PROVE  AreUkis(Join(results))
<1> DEFINE joined == Join(results)
<1>1. CASE joined = Error
  BY <1>1 DEF AreUkis
<1>2. CASE joined # Error
  <2>1. \A i \in DOMAIN results : results[i] = Error \/ IsSeq(results[i])
    BY DEF AreUkis
  <2>2. IsSeq(joined) /\ \A k \in DOMAIN joined : \E i \in DOMAIN results : joined[k] \in Range(results[i])
    BY <1>2, <2>1, JoinIs
  <2>3. \A i \in DOMAIN results : results[i] # Error
    BY <1>2 DEF Join, Range
  <2> HIDE DEF joined
  <2>4. \A k \in DOMAIN joined : IsUki(joined[k])
    BY <2>2, <2>3 DEF AreUkis
  <2>5. \A u \in Range(joined) : IsUki(u)
    BY <2>4 DEF Range
  <2>6. QED BY <2>2, <2>5 DEF AreUkis, joined
<1>3. QED BY <1>1, <1>2

LEMMA UkisFound ==
  ASSUME NEW c \in DOMAIN Containers
  PROVE  AreUkis(Entries2(Containers[c]))
<1> DEFINE t == Containers[c]
           linux == <<"boot", "EFI", "Linux">>
           modules == <<"usr", "lib", "modules">>
           each == [i \in DOMAIN Modules(t) |-> find_uki_components(t, Modules(t)[i])]
           first == InDirectory(t, linux, <<>>, find_uki_components(t, linux))
           second == InDirectory(t, modules, <<>>, Join(each))
<1>1. IsFiniteSet(DOMAIN t)
  BY DeployConstants
<1>2. ASSUME NEW dir PROVE AreUkis(find_uki_components(t, dir))
  <2> DEFINE S == {p \in DOMAIN t : Below(dir, p) /\ ~t[p].dir /\ FileName(p) \in Efi}
             found == Sorted(S)
             rel(p) == SubSeq(p, Len(dir) + 1, Len(p))
             list == [i \in DOMAIN found |-> [file_path |-> rel(found[i]), data |-> read_file(t, found[i]),
                                              addon |-> Len(rel(found[i])) > 1]]
  <2>1. IsFiniteSet(S)
    BY <1>1, FS_Subset
  <2>2. find_uki_components(t, dir) \in {list, Error}
    BY DEF find_uki_components
  <2> HIDE DEF S
  <2>3. Cardinality(S) \in Nat /\ DOMAIN found = 1 .. Cardinality(S)
    BY <2>1, SortedIs
  <2>4. DOMAIN list = 1 .. Cardinality(S) /\ list = [i \in DOMAIN list |-> list[i]]
    BY <2>3
  <2>5. \A u \in Range(list) : IsUki(u)
    <3> HIDE DEF rel
    <3>1. \A i \in DOMAIN list : IsUki(list[i])
      BY DEF IsUki
    <3> HIDE DEF list
    <3>2. QED BY <3>1 DEF Range
  <2> HIDE DEF list
  <2>6. IsSeq(list)
    BY <2>3, <2>4, SequenceOfRange DEF IsSeq
  <2>7. QED BY <2>2, <2>5, <2>6 DEF AreUkis
<1>3. IsSeq(each)
  <2> DEFINE S == {p \in Entries(t, modules) : t[p].dir}
  <2>1. IsFiniteSet(S)
    BY <1>1, FS_Subset DEF Entries
  <2>2. Modules(t) = Sorted(S)
    BY DEF Modules
  <2> HIDE DEF S
  <2>3. Cardinality(S) \in Nat /\ DOMAIN Modules(t) = 1 .. Cardinality(S)
    BY <2>1, <2>2, SortedIs
  <2>4. DOMAIN each = 1 .. Cardinality(S) /\ each = [i \in DOMAIN each |-> each[i]]
    BY <2>3
  <2> HIDE DEF each
  <2>5. QED BY <2>3, <2>4, SequenceOfRange DEF IsSeq
<1>4. \A i \in DOMAIN each : AreUkis(each[i])
  BY <1>2
<1> HIDE DEF each
<1>5. AreUkis(Join(each))
  BY <1>3, <1>4, JoinedUkis
<1>6. AreUkis(<<>>) /\ AreUkis(Error)
  BY DEF AreUkis, IsSeq, Range
<1>7. AreUkis(first) /\ AreUkis(second)
  <2>1. first \in {<<>>, find_uki_components(t, linux), Error}
    BY InDirectoryIs
  <2>2. second \in {<<>>, Join(each), Error}
    BY InDirectoryIs
  <2>3. QED BY <1>2, <1>5, <1>6, <2>1, <2>2
<1>8. Entries2(t) = Join(<<first, second>>)
  BY DEF Entries2, each
<1> HIDE DEF first, second
<1>9. IsSeq(<<first, second>>) /\ \A i \in DOMAIN <<first, second>> : AreUkis(<<first, second>>[i])
  <2>1. <<first, second>> \in Seq({first, second})
    OBVIOUS
  <2>2. IsSeq(<<first, second>>)
    BY <2>1, SeqHasRange
  <2>3. QED BY <1>7, <2>2
<1>10. QED BY <1>8, <1>9, JoinedUkis

LEMMA KernelsFound ==
  ASSUME NEW c \in DOMAIN Containers
  PROVE  LET found == Entries3(Containers[c])
         IN  \/ found = Error
             \/ /\ IsSeq(found)
                /\ \A i \in DOMAIN found : found[i].vmlinuz # Partial /\ found[i].initramfs # Partial
<1> DEFINE t == Containers[c]
           modules == <<"usr", "lib", "modules">>
           S == {p \in Entries(t, modules) : t[p].dir /\ IsFile(t, Append(p, "vmlinuz"))}
           kernels == Sorted(S)
           file(p, name) == IF IsFile(t, Append(p, name)) THEN read_file(t, Append(p, name)) ELSE None
           list == [i \in DOMAIN kernels |-> [kver |-> FileName(kernels[i]), vmlinuz |-> file(kernels[i], "vmlinuz"),
                                              initramfs |-> file(kernels[i], "initramfs.img")]]
<1>1. IsFiniteSet(S)
  <2>1. S \subseteq DOMAIN t /\ IsFiniteSet(DOMAIN t)
    BY DeployConstants DEF Entries
  <2>2. QED BY <2>1, FS_Subset
<1>2. Entries3(t) \in {<<>>, list, Error}
  <2>1. Entries3(t) = InDirectory(t, modules, <<>>, list)
    BY DEF Entries3
  <2> HIDE DEF list, modules
  <2>2. QED BY <2>1, InDirectoryIs
<1>3. ASSUME NEW p, NEW name PROVE file(p, name) # Partial
  <2> DEFINE q == Append(p, name)
  <2>1. IsFile(t, q) => q \in DOMAIN t
    BY DEF IsFile, lookup
  <2> HIDE DEF q
  <2>2. IsFile(t, q) => read_file(t, q) # Partial
    BY <2>1, DeployConstants
  <2>3. QED BY <2>2, DeployConstants DEF q
<1> HIDE DEF S, file
<1>4. Cardinality(S) \in Nat /\ DOMAIN kernels = 1 .. Cardinality(S)
  BY <1>1, SortedIs
<1>5. /\ DOMAIN list = 1 .. Cardinality(S) /\ list = [i \in DOMAIN list |-> list[i]]
      /\ \A i \in DOMAIN list : list[i].vmlinuz # Partial /\ list[i].initramfs # Partial
  BY <1>3, <1>4
<1> HIDE DEF list
<1>6. IsSeq(list)
  BY <1>4, <1>5, SequenceOfRange DEF IsSeq
<1>7. IsSeq(<<>>) /\ DOMAIN <<>> = {}
  BY DEF IsSeq
<1>8. QED BY <1>2, <1>5, <1>6, <1>7

\* What can be written to the boot partition, whatever its type.
CanBeWritten(found) ==
  \/ found.type = 1 /\ IsType1(found.entry) /\ HasArgs(found.entry.lines)
  \/ /\ found.type = 2 /\ IsUki(found.entry) /\ IsSeq(found.entry.file_path)
     /\ \A job \in Jobs : FileOf(Renamed(found.entry, job)) # Error
  \/ found.type = 3 /\ found.entry.vmlinuz # Partial /\ found.entry.initramfs # Partial

Typed(n, found) == IF Failed(found) THEN Error ELSE [i \in DOMAIN found |-> [type |-> n, entry |-> found[i]]]

LEMMA TypedIs ==
  ASSUME NEW n, NEW found, found = Error \/ IsSeq(found)
  PROVE  \/ Typed(n, found) = Error
         \/ /\ IsSeq(Typed(n, found))
            /\ \A x \in Range(Typed(n, found)) : \E i \in DOMAIN found : x = [type |-> n, entry |-> found[i]]
<1>1. CASE found = Error
  BY <1>1 DEF Typed, Failed
<1>2. CASE found # Error
  <2> DEFINE list == [i \in DOMAIN found |-> [type |-> n, entry |-> found[i]]]
  <2>1. Typed(n, found) = list
    BY <1>2 DEF Typed, Failed
  <2>2. Len(found) \in Nat /\ DOMAIN found = 1 .. Len(found)
    BY <1>2 DEF IsSeq
  <2>3. DOMAIN list = 1 .. Len(found) /\ list = [i \in DOMAIN list |-> list[i]]
    BY <2>2
  <2>4. \A x \in Range(list) : \E i \in DOMAIN found : x = [type |-> n, entry |-> found[i]]
    BY DEF Range
  <2> HIDE DEF list
  <2>5. IsSeq(list)
    BY <2>2, <2>3, SequenceOfRange DEF IsSeq
  <2>6. QED BY <2>1, <2>4, <2>5
<1>3. QED BY <1>1, <1>2

LEMMA FirstCanBeWritten ==
  ASSUME NEW c \in DOMAIN Containers, ~Failed(Resources[c]), Resources[c] # <<>>
  PROVE  CanBeWritten(Resources[c][1])
<1> DEFINE t == Containers[c]
           results == <<Typed(1, Entries1(t)), Typed(2, Entries2(t)), Typed(3, Entries3(t))>>
           R == Resources[c]
           x == R[1]
<1>1. R = Join(results) /\ R # Error
  BY DEF Resources, get_boot_resources, Typed, Failed
<1>2. /\ Entries1(t) = Error \/ IsSeq(Entries1(t))
      /\ Entries2(t) = Error \/ IsSeq(Entries2(t))
      /\ Entries3(t) = Error \/ IsSeq(Entries3(t))
  BY Loaded, UkisFound, KernelsFound DEF AreUkis
<1>3. \A i \in DOMAIN results : results[i] = Error \/ IsSeq(results[i])
  BY <1>2, TypedIs
<1>4. IsSeq(results)
  <2>1. results \in Seq({results[1], results[2], results[3]})
    OBVIOUS
  <2> HIDE DEF results
  <2>2. QED BY <2>1, SeqHasRange
<1>5. DOMAIN results = 1 .. 3
  OBVIOUS
<1>6. results[1] = Typed(1, Entries1(t)) /\ results[2] = Typed(2, Entries2(t)) /\ results[3] = Typed(3, Entries3(t))
  OBVIOUS
<1> HIDE DEF results
<1>7. IsSeq(R) /\ \A k \in DOMAIN R : \E i \in DOMAIN results : R[k] \in Range(results[i])
  BY <1>1, <1>3, <1>4, JoinIs
<1>8. 1 \in DOMAIN R
  BY <1>7 DEF IsSeq
<1>9. PICK i \in 1 .. 3 : x \in Range(results[i])
  BY <1>5, <1>7, <1>8
<1>10. results[i] # Error
  BY <1>1, <1>5 DEF Join, Range
<1>11. /\ x.type = 1 => /\ IsLines(x.entry.lines)
                        /\ \A f \in PathsIn(x.entry.lines) : ~IsLoaderEntry(f)
                        /\ HasArgs(x.entry.lines)
       /\ x.type = 2 => /\ IsSeq(x.entry.file_path)
                        /\ \A job \in Jobs : FileOf(Renamed(x.entry, job)) # Error
  BY <1>1, <1>8, EntriesAreEntries DEF Failed, IsSeq
<1> HIDE DEF R, x
<1>12. CASE i = 1
  <2>1. results[1] # Error /\ Entries1(t) # Error
    BY <1>6, <1>10, <1>12 DEF Typed, Failed
  <2>2. PICK k \in DOMAIN Entries1(t) : x = [type |-> 1, entry |-> Entries1(t)[k]]
    BY <1>2, <1>6, <1>9, <1>12, <2>1, TypedIs
  <2>3. x.type = 1 /\ x.entry = Entries1(t)[k]
    BY <2>2
  <2>4. /\ DOMAIN x.entry = {"filename", "lines", "files"}
        /\ DOMAIN x.entry.files = PathsIn(x.entry.lines)
        /\ \A f \in DOMAIN x.entry.files : x.entry.files[f] # Partial
    BY <2>1, <2>3, Loaded
  <2>5. IsType1(x.entry)
    BY <1>11, <2>3, <2>4 DEF IsType1
  <2>6. QED BY <1>11, <2>3, <2>5 DEF CanBeWritten, x, R
<1>13. CASE i = 2
  <2>1. results[2] # Error /\ Entries2(t) # Error
    BY <1>6, <1>10, <1>13 DEF Typed, Failed
  <2>2. PICK k \in DOMAIN Entries2(t) : x = [type |-> 2, entry |-> Entries2(t)[k]]
    BY <1>2, <1>6, <1>9, <1>13, <2>1, TypedIs
  <2>3. x.type = 2 /\ x.entry = Entries2(t)[k]
    BY <2>2
  <2>4. IsUki(x.entry)
    BY <2>1, <2>3, UkisFound DEF AreUkis, Range
  <2>5. QED BY <1>11, <2>3, <2>4 DEF CanBeWritten, x, R
<1>14. CASE i = 3
  <2>1. results[3] # Error /\ Entries3(t) # Error
    BY <1>6, <1>10, <1>14 DEF Typed, Failed
  <2>2. PICK k \in DOMAIN Entries3(t) : x = [type |-> 3, entry |-> Entries3(t)[k]]
    BY <1>2, <1>6, <1>9, <1>14, <2>1, TypedIs
  <2>3. x.type = 3 /\ x.entry = Entries3(t)[k]
    BY <2>2
  <2>4. x.entry.vmlinuz # Partial /\ x.entry.initramfs # Partial
    BY <2>1, <2>3, KernelsFound
  <2>5. QED BY <2>3, <2>4 DEF CanBeWritten, x, R
<1>15. QED BY <1>9, <1>12, <1>13, <1>14

-------------------------------------------------------------------------------
(* What is written *)

\* A plan's files are complete when they are written, no file of it is an entry, and its
\* entry leads to files of its own.
Planned(pl) ==
  /\ DOMAIN pl = {"files", "path", "data"}
  /\ \A f \in DOMAIN pl.files : pl.files[f] # Partial /\ ~IsLoaderEntry(f)
  /\ pl.path \notin DOMAIN pl.files
  /\ IsLoaderEntry(pl.path) => PathsIn(pl.data) \subseteq DOMAIN pl.files

LEMMA Type1Planned ==
  ASSUME NEW t1, IsType1(t1), NEW root_id, NEW job \in Jobs
  PROVE  Planned(write_t1_simple(t1, root_id, job))
<1> DEFINE data == adjust_cmdline(t1.lines, root_id, job.insecure, job.cmdline)
           path == <<"loader", "entries", t1.filename>>
           pl == [files |-> t1.files, path |-> path, data |-> data]
<1>1. PathsIn(data) = PathsIn(t1.lines)
  BY AdjustKeepsPaths, DeployConstants DEF IsType1
<1>2. IsLoaderEntry(path)
  BY DEF IsLoaderEntry
<1> HIDE DEF data, path
<1>3. DOMAIN pl = {"files", "path", "data"} /\ pl.files = t1.files /\ pl.path = path /\ pl.data = data
  OBVIOUS
<1> HIDE DEF pl
<1>4. Planned(pl)
  BY <1>1, <1>2, <1>3 DEF Planned, IsType1
<1>5. QED BY <1>4 DEF write_t1_simple, pl, data, path

LEMMA Type2Planned ==
  ASSUME NEW t2, IsSeq(t2.file_path), NEW root_id, write_t2_simple(t2, root_id) # Error
  PROVE  Planned(write_t2_simple(t2, root_id))
<1> DEFINE path == <<"EFI", "Linux">> \o t2.file_path
           pl == [files |-> Nothing, path |-> path, data |-> t2.data]
<1>1. write_t2_simple(t2, root_id) = pl
  BY DEF write_t2_simple, FileOf, Failed
<1>2. path[1] = "EFI"
  BY DEF IsSeq
<1> HIDE DEF path
<1>3. ~IsLoaderEntry(path)
  BY <1>2 DEF IsLoaderEntry
<1>4. DOMAIN pl = {"files", "path", "data"} /\ pl.files = <<>> /\ pl.path = path /\ DOMAIN <<>> = {}
  BY DEF Nothing
<1> HIDE DEF pl
<1>5. QED BY <1>1, <1>3, <1>4 DEF Planned

LEMMA RelocatedIs ==
  ASSUME NEW t1, IsType1(t1), NEW job
  PROVE  IsType1(Relocated(t1, job))
BY RelocateKeepsFiles DEF Relocated

LEMMA KernelIsType1 ==
  ASSUME NEW entry, NEW entry_id, entry.vmlinuz # Partial, entry.initramfs # Partial,
         into_type1(entry, entry_id) # Error
  PROVE  IsType1(into_type1(entry, entry_id))
<1> DEFINE kid == IF entry_id = None THEN entry.kver ELSE entry_id
           vmlinuz == <<kid, "vmlinuz">>
           initramfs == <<kid, "initramfs.img">>
           lines == <<[key |-> "linux", value |-> vmlinuz], [key |-> "initrd", value |-> initramfs]>>
           files == [f \in {vmlinuz, initramfs} |-> IF f = vmlinuz THEN entry.vmlinuz ELSE entry.initramfs]
           filename == kid \o ".conf"
           t == [filename |-> filename, lines |-> lines, files |-> files]
<1>1. into_type1(entry, entry_id) = t
  BY DEF into_type1
<1>2. Len(vmlinuz) = 2 /\ Len(initramfs) = 2
  OBVIOUS
<1> HIDE DEF kid, vmlinuz, initramfs, filename
<1>3. /\ DOMAIN lines = {1, 2} /\ IsSeq(lines)
      /\ lines[1] = [key |-> "linux", value |-> vmlinuz] /\ lines[2] = [key |-> "initrd", value |-> initramfs]
  <2>1. lines \in Seq({lines[1], lines[2]})
    OBVIOUS
  <2>2. DOMAIN lines = {1, 2} /\ lines[1] = [key |-> "linux", value |-> vmlinuz]
        /\ lines[2] = [key |-> "initrd", value |-> initramfs]
    OBVIOUS
  <2> HIDE DEF lines
  <2>3. QED BY <2>1, <2>2, SeqHasRange
<1>4. /\ DOMAIN files = {vmlinuz, initramfs}
      /\ \A f \in DOMAIN files : files[f] # Partial /\ ~IsLoaderEntry(f)
  BY <1>2 DEF IsLoaderEntry
<1>5. DOMAIN t = {"filename", "lines", "files"} /\ t.lines = lines /\ t.files = files
  OBVIOUS
<1> HIDE DEF lines, files, t
<1>6. IsLines(lines)
  BY <1>3 DEF IsLines, IsSeq, FileKeys
<1>7. PathsIn(lines) \subseteq {vmlinuz, initramfs}
  BY <1>3 DEF PathsIn, LinesWith
<1>8. QED BY <1>1, <1>4, <1>5, <1>6, <1>7 DEF IsType1

\* A UKI that is given another name has a path, too.
LEMMA RenamedIsSeq ==
  ASSUME NEW t2, IsUki(t2), IsSeq(t2.file_path), NEW job
  PROVE  /\ IsSeq(Renamed(t2, job).file_path) /\ Renamed(t2, job).data = t2.data
         /\ Len(t2.file_path) <= 1 => Len(Renamed(t2, job).file_path) <= 1
<1>1. CASE job.entry_id = None
  BY <1>1 DEF Renamed
<1>2. CASE job.entry_id # None
  <2> DEFINE path == t2.file_path
             name == job.entry_id \o ".efi"
             parent == SubSeq(path, 1, Len(path) - 1)
             now == Renamed(t2, job)
  <2>1. now = [t2 EXCEPT !.file_path = Append(Parent(path), name)]
    BY <1>2 DEF Renamed, rename
  <2>2. now.file_path = Append(parent, name) /\ now.data = t2.data
    BY <2>1 DEF IsUki, Parent
  <2>3. path \in Seq(Range(path))
    BY DEF IsSeq
  <2> HIDE DEF path, name, now
  <2>4. parent \in Seq(Range(path) \cup {name}) /\ (Len(path) <= 1 => Len(parent) <= 0)
    BY <2>3
  <2> HIDE DEF parent
  <2>5. Append(parent, name) \in Seq(Range(path) \cup {name}) /\ (Len(path) <= 1 => Len(Append(parent, name)) <= 1)
    BY <2>4
  <2>6. IsSeq(Append(parent, name))
    BY <2>5, SeqHasRange
  <2>7. QED BY <2>2, <2>5, <2>6 DEF path, now
<1>3. QED BY <1>1, <1>2

\* Whatever a container has to boot from first, what is planned for it is sound.
LEMMA PlanIsSound ==
  ASSUME NEW c \in DOMAIN Containers, NEW root_id, NEW job \in Jobs,
         Plan(Resources[c], root_id, job) # Error
  PROVE  Planned(Plan(Resources[c], root_id, job))
<1> DEFINE found == Resources[c][1]
           pl == Plan(Resources[c], root_id, job)
<1>1. /\ ~Failed(Resources[c]) /\ Resources[c] # <<>>
      /\ pl = write_boot_simple(found, root_id, job)
  BY DEF Plan, Failed
<1>2. CanBeWritten(found)
  BY <1>1, FirstCanBeWritten
<1> HIDE DEF found, pl
<1>3. pl # Error
  BY DEF pl
<1>4. CASE found.type = 1
  <2>1. pl = write_t1_simple(Relocated(found.entry, job), root_id, job)
    <3>1. found.type # 2 /\ found.type # 3
      BY <1>4
    <3>2. QED BY <1>1, <1>4, <3>1, Zenon DEF write_boot_simple
  <2>2. IsType1(Relocated(found.entry, job))
    BY <1>2, <1>4, RelocatedIs DEF CanBeWritten
  <2>3. QED BY <2>1, <2>2, Type1Planned DEF pl
<1>5. CASE found.type = 2
  <2> DEFINE t2 == Renamed(found.entry, job)
             r == IF job.cmdline # <<>> THEN Error ELSE write_t2_simple(t2, root_id)
  <2>1. pl = r
    <3>1. found.type # 1 /\ found.type # 3
      BY <1>5
    <3>2. QED BY <1>1, <1>5, <3>1, Zenon DEF write_boot_simple
  <2>2. IsSeq(t2.file_path)
    BY <1>2, <1>5, RenamedIsSeq DEF CanBeWritten
  <2> HIDE DEF t2
  <2>3. QED BY <1>3, <2>1, <2>2, Type2Planned DEF pl
<1>6. CASE found.type = 3
  <2> DEFINE t1 == into_type1(found.entry, job.entry_id)
             r == IF Failed(t1) THEN Error ELSE write_t1_simple(Relocated(t1, job), root_id, job)
  <2>1. pl = r
    <3>1. found.type # 1 /\ found.type # 2
      BY <1>6
    <3>2. QED BY <1>1, <1>6, <3>1, Zenon DEF write_boot_simple
  <2>2. ~Failed(t1) /\ pl = write_t1_simple(Relocated(t1, job), root_id, job)
    BY <1>3, <2>1
  <2>3. IsType1(Relocated(t1, job))
    BY <1>2, <1>6, <2>2, KernelIsType1, RelocatedIs DEF CanBeWritten, Failed
  <2> HIDE DEF t1
  <2>4. QED BY <2>2, <2>3, Type1Planned DEF pl
<1>7. QED BY <1>2, <1>4, <1>5, <1>6 DEF CanBeWritten

-------------------------------------------------------------------------------
(* The invariant *)

\* What each process has and where it is.
ProcessesAgree ==
  /\ jobs \in [Process -> Jobs] /\ conf \in SetupConfs
  /\ pc \in [Process -> {"start", "write", "var", "upper", "work", "done", "failed", "killed"}]
  /\ DOMAIN id = Process /\ DOMAIN plan = Process /\ DOMAIN todo = Process /\ DOMAIN writing = Process
  /\ \A p \in Process :
       /\ pc[p] = "start" => plan[p] = Error /\ id[p] = None
       /\ pc[p] \notin {"start", "failed"} => plan[p] # Error /\ id[p] # None
       /\ plan[p] # Error => Planned(plan[p]) /\ todo[p] \subseteq DOMAIN plan[p].files

\* A file is being written by who has it to do, and the entry by who has nothing else to.
WritersAgree ==
  \A p \in Process : writing[p] # None =>
    /\ pc[p] = "write" /\ writing[p] \in DOMAIN bootdir
    /\ writing[p] \in todo[p] \/ (writing[p] = plan[p].path /\ todo[p] = {})
    /\ bootdir[writing[p]] # Partial => \E q \in Process \ {p} : writing[p] \in PathsOf(q)

\* What a process has written is there, and is complete if nobody else writes there.
FilesWritten ==
  \A p \in Process : plan[p] # Error => \A f \in DOMAIN plan[p].files \ todo[p] :
    /\ f \in DOMAIN bootdir
    /\ bootdir[f] = Partial => \E q \in Process \ {p} : f \in PathsOf(q)

\* An entry is one that somebody has written after all of its files.
EntriesWritten ==
  \A e \in DOMAIN bootdir : IsLoaderEntry(e) /\ bootdir[e] # Partial =>
    \E p \in Process : plan[p] # Error /\ plan[p].path = e /\ plan[p].data = bootdir[e] /\ todo[p] = {}

\* State is kept for images, and each has what was changed in its own.
StateAgrees ==
  /\ repo = Range(id) \ {None} /\ DOMAIN state \subseteq repo
  /\ \A image \in DOMAIN state : DOMAIN state[image] = {"dirs", "etc"} /\ state[image].etc \subseteq {image}
  /\ \/ system = Down
     \/ DOMAIN system = {"up", "root", "insecure", "etc"} /\ system.root \in DOMAIN state

IInv == ProcessesAgree /\ WritersAgree /\ FilesWritten /\ EntriesWritten /\ StateAgrees

LEMMA Start ==
  ASSUME Init
  PROVE  IInv
<1>1. ProcessesAgree
  BY DEF Init, ProcessesAgree
<1>2. WritersAgree /\ FilesWritten /\ EntriesWritten
  BY DEF Init, WritersAgree, FilesWritten, EntriesWritten, Nothing
<1>3. StateAgrees
  <2>1. Range(id) \ {None} = {} /\ DOMAIN state = {}
    BY DEF Init, Range, Nothing
  <2>2. QED BY <2>1 DEF Init, StateAgrees
<1>4. QED BY <1>1, <1>2, <1>3 DEF IInv

LEMMA PrepareBootKeeps ==
  ASSUME IInv, NEW p \in Process, PrepareBoot(p)
  PROVE  IInv'
<1> DEFINE job == jobs[p]
           x == id'[p]
           pl == plan'[p]
<1>1. /\ job \in Jobs /\ job.config \in DOMAIN Containers
      /\ DOMAIN id = Process /\ DOMAIN plan = Process /\ DOMAIN todo = Process /\ DOMAIN writing = Process
      /\ pc \in [Process -> {"start", "write", "var", "upper", "work", "done", "failed", "killed"}]
      /\ plan[p] = Error /\ id[p] = None /\ pc[p] = "start"
  BY DeployConstants DEF IInv, ProcessesAgree, PrepareBoot
<1>2. /\ id' = [id EXCEPT ![p] = x] /\ plan' = [plan EXCEPT ![p] = pl]
      /\ pl = IF x = None THEN Error ELSE Plan(Resources[job.config], x, job)
      /\ repo' = repo \cup ({x} \ {None})
      /\ pc' = [pc EXCEPT ![p] = IF pl = Error THEN "failed" ELSE "write"]
      /\ todo' = [todo EXCEPT ![p] = IF pl = Error THEN {} ELSE DOMAIN pl.files]
      /\ UNCHANGED <<conf, fsverity, jobs, writing, bootdir, state, system>>
  BY <1>1 DEF PrepareBoot, Failed
<1> HIDE DEF job, x, pl
<1>3. pl # Error => x # None /\ Planned(pl)
  <2>1. SUFFICES ASSUME pl # Error PROVE x # None /\ Planned(pl)
    OBVIOUS
  <2>2. x # None /\ pl = Plan(Resources[job.config], x, job)
    BY <1>2, <2>1
  <2>3. Planned(Plan(Resources[job.config], x, job))
    BY <1>1, <2>1, <2>2, PlanIsSound
  <2>4. QED BY <2>2, <2>3
<1>4. /\ DOMAIN id' = Process /\ DOMAIN plan' = Process /\ DOMAIN todo' = Process
      /\ id'[p] = x /\ plan'[p] = pl /\ pc'[p] = (IF pl = Error THEN "failed" ELSE "write")
      /\ todo'[p] = IF pl = Error THEN {} ELSE DOMAIN pl.files
      /\ \A q \in Process : q # p => id'[q] = id[q] /\ plan'[q] = plan[q] /\ pc'[q] = pc[q] /\ todo'[q] = todo[q]
  BY <1>1, <1>2
<1>5. \A q \in Process : PathsOf(q) \subseteq PathsOf(q)'
  BY <1>1, <1>4 DEF PathsOf, Failed
<1>6. ProcessesAgree'
  <2>1. pc' \in [Process -> {"start", "write", "var", "upper", "work", "done", "failed", "killed"}]
    BY <1>1, <1>2
  <2>2. ASSUME NEW q \in Process
        PROVE  /\ pc'[q] = "start" => plan'[q] = Error /\ id'[q] = None
               /\ pc'[q] \notin {"start", "failed"} => plan'[q] # Error /\ id'[q] # None
               /\ plan'[q] # Error => Planned(plan'[q]) /\ todo'[q] \subseteq DOMAIN plan'[q].files
    <3>1. CASE q = p
      BY <1>3, <1>4, <3>1
    <3>2. CASE q # p
      BY <1>4, <3>2 DEF IInv, ProcessesAgree
    <3>3. QED BY <3>1, <3>2
  <2>3. jobs' \in [Process -> Jobs] /\ conf' \in SetupConfs /\ DOMAIN writing' = Process
    BY <1>2 DEF IInv, ProcessesAgree
  <2>4. QED BY <1>4, <2>1, <2>2, <2>3 DEF ProcessesAgree, Planned, IsLoaderEntry
<1>7. WritersAgree'
  <2>1. ASSUME NEW q \in Process, writing[q] # None PROVE q # p
    BY <1>1, <2>1 DEF IInv, WritersAgree
  <2>2. QED BY <1>2, <1>4, <1>5, <2>1 DEF IInv, WritersAgree
<1>8. FilesWritten'
  <2>1. ASSUME NEW q \in Process, plan'[q] # Error, NEW f \in DOMAIN plan'[q].files \ todo'[q] PROVE q # p
    BY <1>4, <2>1
  <2>2. QED BY <1>2, <1>4, <1>5, <2>1 DEF IInv, FilesWritten
<1>9. EntriesWritten'
  BY <1>1, <1>2, <1>4 DEF IInv, EntriesWritten, IsLoaderEntry
<1>10. StateAgrees'
  <2>1. Range(id') \ {None} = (Range(id) \ {None}) \cup ({x} \ {None})
    BY <1>1, <1>4 DEF Range
  <2>2. repo' = Range(id') \ {None} /\ DOMAIN state' \subseteq repo'
    BY <1>2, <2>1 DEF IInv, StateAgrees
  <2>3. QED BY <1>2, <2>2 DEF IInv, StateAgrees, Down
<1>11. QED BY <1>6, <1>7, <1>8, <1>9, <1>10 DEF IInv

LEMMA OpenFileKeeps ==
  ASSUME IInv, NEW p \in Process, OpenFile(p)
  PROVE  IInv'
<1>1. PICK path \in IF todo[p] = {} THEN {plan[p].path} ELSE todo[p] :
        /\ writing' = [writing EXCEPT ![p] = path]
        /\ bootdir' = Put(path, Partial)
  BY DEF OpenFile
<1>2. /\ pc[p] = "write" /\ UNCHANGED <<conf, fsverity, jobs, pc, id, plan, todo, repo, state, system>>
      /\ DOMAIN writing = Process /\ plan[p] # Error
      /\ Planned(plan[p]) /\ todo[p] \subseteq DOMAIN plan[p].files
  BY DEF OpenFile, IInv, ProcessesAgree
<1>3. path \in todo[p] \/ (path = plan[p].path /\ todo[p] = {})
  BY <1>1
<1>4. path \in PathsOf(p)
  BY <1>2, <1>3 DEF PathsOf, Failed
<1>5. /\ DOMAIN bootdir' = DOMAIN bootdir \cup {path} /\ bootdir'[path] = Partial
      /\ \A f \in DOMAIN bootdir : f # path => bootdir'[f] = bootdir[f]
      /\ DOMAIN writing' = Process /\ writing'[p] = path
      /\ \A q \in Process : q # p => writing'[q] = writing[q]
      /\ \A q \in Process : PathsOf(q)' = PathsOf(q)
  BY <1>1, <1>2 DEF Put, PathsOf, Failed
<1>6. ProcessesAgree'
  BY <1>2, <1>5 DEF IInv, ProcessesAgree, Planned, IsLoaderEntry
<1>7. WritersAgree'
  <2>1. ASSUME NEW q \in Process, writing'[q] # None
        PROVE  /\ pc'[q] = "write" /\ writing'[q] \in DOMAIN bootdir'
               /\ writing'[q] \in todo'[q] \/ (writing'[q] = plan'[q].path /\ todo'[q] = {})
               /\ bootdir'[writing'[q]] # Partial => \E r \in Process \ {q} : writing'[q] \in PathsOf(r)'
    <3>1. CASE q = p
      BY <1>2, <1>3, <1>5, <3>1
    <3>2. CASE q # p
      BY <1>2, <1>5, <2>1, <3>2 DEF IInv, WritersAgree
    <3>3. QED BY <3>1, <3>2
  <2>2. QED BY <2>1 DEF WritersAgree
<1>8. FilesWritten'
  <2>1. ASSUME NEW q \in Process, plan[q] # Error, NEW f \in DOMAIN plan[q].files \ todo[q]
        PROVE  /\ f \in DOMAIN bootdir'
               /\ bootdir'[f] = Partial => \E r \in Process \ {q} : f \in PathsOf(r)
    <3>1. /\ f \in DOMAIN bootdir
          /\ bootdir[f] = Partial => \E r \in Process \ {q} : f \in PathsOf(r)
      BY <2>1 DEF IInv, FilesWritten
    <3>2. f = path => q # p
      BY <1>2, <1>3 DEF Planned
    <3>3. QED BY <1>4, <1>5, <3>1, <3>2
  <2>2. QED BY <1>2, <1>5, <2>1 DEF FilesWritten
<1>9. EntriesWritten'
  BY <1>2, <1>5 DEF IInv, EntriesWritten
<1>10. StateAgrees'
  BY <1>2 DEF IInv, StateAgrees, Down
<1>11. QED BY <1>6, <1>7, <1>8, <1>9, <1>10 DEF IInv

LEMMA FillFileKeeps ==
  ASSUME IInv, NEW p \in Process, FillFile(p)
  PROVE  IInv'
<1> DEFINE path == writing[p]
           entry == path = plan[p].path
           shared == bootdir[path] # Partial \/ \E q \in Process \ {p} : writing[q] = path
           content == IF entry THEN plan[p].data ELSE plan[p].files[path]
<1>1. PICK data \in {content} \cup IF shared THEN {Partial} ELSE {} : bootdir' = Put(path, data)
  BY DEF FillFile
<1>2. /\ pc[p] = "write" /\ path # None
      /\ UNCHANGED <<conf, fsverity, jobs, id, plan, repo, state, system>>
      /\ todo' = [todo EXCEPT ![p] = @ \ {path}]
      /\ pc' = [pc EXCEPT ![p] = IF entry THEN "var" ELSE @]
      /\ writing' = [writing EXCEPT ![p] = None]
  BY DEF FillFile
<1>3. /\ DOMAIN writing = Process /\ DOMAIN todo = Process /\ plan[p] # Error
      /\ pc \in [Process -> {"start", "write", "var", "upper", "work", "done", "failed", "killed"}]
      /\ Planned(plan[p]) /\ todo[p] \subseteq DOMAIN plan[p].files
  BY <1>2 DEF IInv, ProcessesAgree
<1>4. /\ path \in DOMAIN bootdir
      /\ path \in todo[p] \/ (path = plan[p].path /\ todo[p] = {})
      /\ bootdir[path] # Partial => \E q \in Process \ {p} : path \in PathsOf(q)
  BY <1>2 DEF IInv, WritersAgree
<1>5. shared => \E q \in Process \ {p} : path \in PathsOf(q)
  <2>1. ASSUME NEW q \in Process \ {p}, writing[q] = path PROVE path \in PathsOf(q)
    <3>1. /\ pc[q] = "write"
          /\ path \in todo[q] \/ path = plan[q].path
      BY <1>2, <2>1 DEF IInv, WritersAgree
    <3>2. plan[q] # Error /\ todo[q] \subseteq DOMAIN plan[q].files
      BY <3>1 DEF IInv, ProcessesAgree
    <3>3. QED BY <3>1, <3>2 DEF PathsOf, Failed
  <2>2. QED BY <1>4, <2>1
<1>6. path \in PathsOf(p)
  BY <1>3, <1>4 DEF PathsOf, Failed
<1>7. entry <=> path = plan[p].path
  OBVIOUS
<1>8. data = content \/ (shared /\ data = Partial)
  OBVIOUS
<1>9. path \in todo[p] => ~entry /\ content # Partial /\ path \in DOMAIN plan[p].files
  BY <1>3 DEF Planned
<1>10. path \notin todo[p] => entry /\ todo[p] = {} /\ content = plan[p].data
  BY <1>4
<1> HIDE DEF path, entry, shared, content
<1>11. /\ DOMAIN bootdir' = DOMAIN bootdir /\ bootdir'[path] = data
       /\ \A f \in DOMAIN bootdir : f # path => bootdir'[f] = bootdir[f]
       /\ DOMAIN writing' = Process /\ writing'[p] = None
       /\ DOMAIN todo' = Process /\ todo'[p] = todo[p] \ {path}
       /\ \A q \in Process : q # p => writing'[q] = writing[q] /\ todo'[q] = todo[q] /\ pc'[q] = pc[q]
       /\ pc'[p] = IF entry THEN "var" ELSE "write"
       /\ \A q \in Process : PathsOf(q)' = PathsOf(q)
  BY <1>1, <1>2, <1>3, <1>4 DEF Put, PathsOf, Failed
<1>12. ProcessesAgree'
  <2>1. pc' \in [Process -> {"start", "write", "var", "upper", "work", "done", "failed", "killed"}]
    BY <1>2, <1>3
  <2>2. ASSUME NEW q \in Process
        PROVE  /\ pc'[q] = "start" => plan[q] = Error /\ id[q] = None
               /\ pc'[q] \notin {"start", "failed"} => plan[q] # Error /\ id[q] # None
               /\ plan[q] # Error => Planned(plan[q]) /\ todo'[q] \subseteq DOMAIN plan[q].files
    <3>1. CASE q = p
      <4>1. id[p] # None
        BY <1>2 DEF IInv, ProcessesAgree
      <4>2. QED BY <1>3, <1>11, <3>1, <4>1
    <3>2. CASE q # p
      BY <1>11, <3>2 DEF IInv, ProcessesAgree
    <3>3. QED BY <3>1, <3>2
  <2>3. QED BY <1>2, <1>11, <2>1, <2>2 DEF IInv, ProcessesAgree, Planned, IsLoaderEntry
<1>13. WritersAgree'
  <2>1. ASSUME NEW q \in Process, writing'[q] # None
        PROVE  /\ pc'[q] = "write" /\ writing'[q] \in DOMAIN bootdir'
               /\ writing'[q] \in todo'[q] \/ (writing'[q] = plan'[q].path /\ todo'[q] = {})
               /\ bootdir'[writing'[q]] # Partial => \E r \in Process \ {q} : writing'[q] \in PathsOf(r)'
    <3>1. q # p /\ writing'[q] = writing[q] /\ writing[q] # None
      BY <1>11, <2>1
    <3>2. /\ pc[q] = "write" /\ writing[q] \in DOMAIN bootdir
          /\ writing[q] \in todo[q] \/ (writing[q] = plan[q].path /\ todo[q] = {})
          /\ bootdir[writing[q]] # Partial => \E r \in Process \ {q} : writing[q] \in PathsOf(r)
      BY <3>1 DEF IInv, WritersAgree
    <3>3. QED BY <1>2, <1>6, <1>11, <3>1, <3>2
  <2>2. QED BY <2>1 DEF WritersAgree
<1>14. FilesWritten'
  <2>1. ASSUME NEW q \in Process, plan[q] # Error, NEW f \in DOMAIN plan[q].files \ todo'[q]
        PROVE  /\ f \in DOMAIN bootdir'
               /\ bootdir'[f] = Partial => \E r \in Process \ {q} : f \in PathsOf(r)
    <3>1. CASE f = path /\ q = p
      <4>1. path \in todo[p]
        BY <1>3, <1>7, <1>10, <3>1 DEF Planned
      <4>2. QED BY <1>4, <1>5, <1>8, <1>9, <1>11, <3>1, <4>1
    <3>2. CASE f = path /\ q # p
      BY <1>4, <1>6, <1>11, <3>2
    <3>3. CASE f # path
      <4>1. f \in DOMAIN plan[q].files \ todo[q]
        BY <1>11, <3>3
      <4>2. /\ f \in DOMAIN bootdir
            /\ bootdir[f] = Partial => \E r \in Process \ {q} : f \in PathsOf(r)
        BY <2>1, <4>1 DEF IInv, FilesWritten
      <4>3. QED BY <1>11, <3>3, <4>2
    <3>4. QED BY <3>1, <3>2, <3>3
  <2>2. QED BY <1>2, <1>11, <2>1 DEF FilesWritten
<1>15. EntriesWritten'
  <2>1. ASSUME NEW e \in DOMAIN bootdir', IsLoaderEntry(e), bootdir'[e] # Partial
        PROVE  \E q \in Process : plan[q] # Error /\ plan[q].path = e /\ plan[q].data = bootdir'[e] /\ todo'[q] = {}
    <3>1. CASE e = path
      <4>1. path \notin todo[p]
        BY <1>3, <1>9, <2>1, <3>1 DEF Planned
      <4>2. QED BY <1>3, <1>7, <1>8, <1>10, <1>11, <2>1, <3>1, <4>1
    <3>2. CASE e # path
      <4>1. PICK q \in Process : plan[q] # Error /\ plan[q].path = e /\ plan[q].data = bootdir[e] /\ todo[q] = {}
        BY <1>11, <2>1, <3>2 DEF IInv, EntriesWritten
      <4>2. todo'[q] = {}
        BY <1>11, <4>1
      <4>3. QED BY <1>11, <2>1, <3>2, <4>1, <4>2
    <3>3. QED BY <3>1, <3>2
  <2>2. QED BY <1>2, <2>1 DEF EntriesWritten, IsLoaderEntry
<1>16. StateAgrees'
  BY <1>2 DEF IInv, StateAgrees, Down
<1>17. QED BY <1>12, <1>13, <1>14, <1>15, <1>16 DEF IInv

\* A step that writes nothing to the boot partition, but for what it ends.
LEMMA OthersKeep ==
  ASSUME IInv, UNCHANGED <<conf, fsverity, jobs, id, plan, todo, bootdir>>, DOMAIN writing' = Process,
         pc' \in [Process -> {"start", "write", "var", "upper", "work", "done", "failed", "killed"}],
         \A q \in Process :
           \/ pc'[q] = pc[q] /\ writing'[q] = writing[q]
           \/ pc[q] \notin {"start", "failed"} /\ pc'[q] # "start" /\ writing'[q] = None
  PROVE  ProcessesAgree' /\ WritersAgree' /\ FilesWritten' /\ EntriesWritten'
<1>1. \A q \in Process : PathsOf(q)' = PathsOf(q)
  BY DEF PathsOf, Failed
<1>2. ProcessesAgree'
  <2>1. ASSUME NEW q \in Process
        PROVE  /\ pc'[q] = "start" => plan[q] = Error /\ id[q] = None
               /\ pc'[q] \notin {"start", "failed"} => plan[q] # Error /\ id[q] # None
    BY DEF IInv, ProcessesAgree
  <2>2. QED BY <2>1 DEF IInv, ProcessesAgree, Planned, IsLoaderEntry
<1>3. WritersAgree'
  <2>1. ASSUME NEW q \in Process, writing'[q] # None
        PROVE  pc'[q] = pc[q] /\ writing'[q] = writing[q]
    BY <2>1
  <2>2. QED BY <1>1, <2>1 DEF IInv, WritersAgree
<1>4. FilesWritten' /\ EntriesWritten'
  <2>1. FilesWritten'
    BY <1>1 DEF IInv, FilesWritten
  <2>2. EntriesWritten'
    BY DEF IInv, EntriesWritten, IsLoaderEntry
  <2>3. QED BY <2>1, <2>2
<1>5. QED BY <1>2, <1>3, <1>4

\* Nothing of an image's state is taken away, and what is changed belongs to it.
Kept ==
  \A image \in DOMAIN state :
    /\ image \in DOMAIN state'
    /\ state[image].dirs \subseteq state'[image].dirs
    /\ state[image].etc \subseteq state'[image].etc /\ state'[image].etc \subseteq {image}

\* Directories are added to the state of an image, which may be new.
LEMMA MoreDirs ==
  ASSUME IInv, NEW image \in repo, NEW more,
         state' = PutState(image, [StateOf(image) EXCEPT !.dirs = @ \cup more])
  PROVE  /\ Kept
         /\ DOMAIN state' = DOMAIN state \cup {image}
         /\ \A i \in DOMAIN state' : DOMAIN state'[i] = {"dirs", "etc"} /\ state'[i].etc \subseteq {i}
<1> DEFINE old == StateOf(image)
           st == [old EXCEPT !.dirs = @ \cup more]
<1>1. /\ DOMAIN old = {"dirs", "etc"} /\ old.etc \subseteq {image}
      /\ image \in DOMAIN state => old = state[image]
  BY DEF IInv, StateAgrees, StateOf
<1> HIDE DEF old
<1>2. DOMAIN st = {"dirs", "etc"} /\ st.dirs = old.dirs \cup more /\ st.etc = old.etc
  BY <1>1
<1> HIDE DEF st
<1>3. state' = [i \in DOMAIN state \cup {image} |-> IF i = image THEN st ELSE state[i]]
  BY DEF PutState, st, old
<1>4. /\ DOMAIN state' = DOMAIN state \cup {image} /\ state'[image] = st
      /\ \A i \in DOMAIN state : i # image => state'[i] = state[i]
  BY <1>3
<1>5. \A i \in DOMAIN state : DOMAIN state[i] = {"dirs", "etc"} /\ state[i].etc \subseteq {i}
  BY DEF IInv, StateAgrees
<1>6. QED BY <1>1, <1>2, <1>4, <1>5 DEF Kept

LEMMA MakeStateKeeps ==
  ASSUME IInv, NEW p \in Process, MakeState(p)
  PROVE  IInv' /\ Kept
<1>1. /\ pc[p] \in {"var", "upper", "work"} /\ pc' = [pc EXCEPT ![p] = NextDir[@]]
      /\ state' = PutState(id[p], [StateOf(id[p]) EXCEPT !.dirs = @ \cup {pc[p]}])
      /\ UNCHANGED <<conf, fsverity, jobs, id, plan, todo, writing, repo, bootdir, system>>
  BY DEF MakeState, NextDir
<1>2. NextDir[pc[p]] \in {"upper", "work", "done"}
  BY <1>1 DEF NextDir
<1>3. id[p] \in repo
  <2>1. id[p] # None /\ DOMAIN id = Process
    BY <1>1 DEF IInv, ProcessesAgree
  <2>2. QED BY <2>1 DEF IInv, StateAgrees, Range
<1>4. writing[p] = None
  BY <1>1 DEF IInv, WritersAgree
<1>5. /\ pc \in [Process -> {"start", "write", "var", "upper", "work", "done", "failed", "killed"}]
      /\ DOMAIN writing = Process
  BY DEF IInv, ProcessesAgree
<1>6. /\ pc'[p] \in {"upper", "work", "done"}
      /\ \A q \in Process : q # p => pc'[q] = pc[q]
      /\ pc' \in [Process -> {"start", "write", "var", "upper", "work", "done", "failed", "killed"}]
  BY <1>1, <1>2, <1>5
<1>7. ProcessesAgree' /\ WritersAgree' /\ FilesWritten' /\ EntriesWritten'
  <2>1. \A q \in Process :
           \/ pc'[q] = pc[q] /\ writing'[q] = writing[q]
           \/ pc[q] \notin {"start", "failed"} /\ pc'[q] # "start" /\ writing'[q] = None
    BY <1>1, <1>4, <1>6
  <2>2. DOMAIN writing' = Process
    BY <1>1, <1>5
  <2>3. QED BY <1>1, <1>6, <2>1, <2>2, OthersKeep
<1>8. /\ Kept /\ DOMAIN state' = DOMAIN state \cup {id[p]}
      /\ \A i \in DOMAIN state' : DOMAIN state'[i] = {"dirs", "etc"} /\ state'[i].etc \subseteq {i}
  BY <1>1, <1>3, MoreDirs
<1>9. StateAgrees'
  BY <1>1, <1>3, <1>8 DEF IInv, StateAgrees, Down
<1>10. QED BY <1>7, <1>8, <1>9 DEF IInv

\* The state of the images as it was.
LEMMA StateUnchanged ==
  ASSUME IInv, UNCHANGED state
  PROVE  Kept
BY DEF IInv, StateAgrees, Kept

LEMMA KillKeeps ==
  ASSUME IInv, NEW p \in Process, Kill(p)
  PROVE  IInv' /\ Kept
<1>1. /\ pc[p] \notin {"start", "failed"} /\ pc' = [pc EXCEPT ![p] = "killed"]
      /\ writing' = [writing EXCEPT ![p] = None]
      /\ UNCHANGED <<conf, fsverity, jobs, id, plan, todo, repo, bootdir, state, system>>
  BY DEF Kill
<1>2. /\ pc \in [Process -> {"start", "write", "var", "upper", "work", "done", "failed", "killed"}]
      /\ DOMAIN writing = Process
  BY DEF IInv, ProcessesAgree
<1>3. /\ pc'[p] = "killed" /\ writing'[p] = None /\ DOMAIN writing' = Process
      /\ \A q \in Process : q # p => pc'[q] = pc[q] /\ writing'[q] = writing[q]
      /\ pc' \in [Process -> {"start", "write", "var", "upper", "work", "done", "failed", "killed"}]
  BY <1>1, <1>2
<1>4. ProcessesAgree' /\ WritersAgree' /\ FilesWritten' /\ EntriesWritten'
  <2>1. \A q \in Process :
           \/ pc'[q] = pc[q] /\ writing'[q] = writing[q]
           \/ pc[q] \notin {"start", "failed"} /\ pc'[q] # "start" /\ writing'[q] = None
    BY <1>1, <1>3
  <2>2. QED BY <1>1, <1>3, <2>1, OthersKeep
<1>5. StateAgrees'
  BY <1>1 DEF IInv, StateAgrees, Down
<1>6. QED BY <1>1, <1>4, <1>5, StateUnchanged DEF IInv

\* A step of the running system leaves the deployments alone.
LEMMA SystemKeeps ==
  ASSUME IInv, UNCHANGED <<conf, fsverity, jobs, pc, id, plan, todo, writing, bootdir>>
  PROVE  ProcessesAgree' /\ WritersAgree' /\ FilesWritten' /\ EntriesWritten'
<1>1. /\ pc \in [Process -> {"start", "write", "var", "upper", "work", "done", "failed", "killed"}]
      /\ DOMAIN writing = Process
  BY DEF IInv, ProcessesAgree
<1>2. /\ pc' \in [Process -> {"start", "write", "var", "upper", "work", "done", "failed", "killed"}]
      /\ DOMAIN writing' = Process /\ \A q \in Process : pc'[q] = pc[q] /\ writing'[q] = writing[q]
  BY <1>1
<1>3. QED BY <1>2, OthersKeep

LEMMA BootKeeps ==
  ASSUME IInv, Boot
  PROVE  IInv' /\ Kept
<1>1. PICK path \in DOMAIN bootdir :
        LET booted == setup_root(ArgsOf(path))
        IN  /\ ~Failed(booted)
            /\ system' = booted
            /\ state' = IF MountType("etc") # "overlay" THEN state
                        ELSE PutState(booted.root, [StateOf(booted.root) EXCEPT !.dirs = @ \cup {"upper", "work"}])
  BY DEF Boot
<1> DEFINE args == ArgsOf(path)
           address == get_cmdline_composefs(args)
           booted == setup_root(args)
<1>2. /\ ~Failed(booted) /\ system' = booted
      /\ state' = IF MountType("etc") # "overlay" THEN state
                  ELSE PutState(booted.root, [StateOf(booted.root) EXCEPT !.dirs = @ \cup {"upper", "work"}])
  BY <1>1
<1>3. /\ booted = [up |-> TRUE, root |-> address.id, insecure |-> address.insecure, etc |-> {}]
      /\ address.id \in repo /\ address.id \in DOMAIN state
  BY <1>2 DEF setup_root, Failed
<1> HIDE DEF address, booted
<1>4. DOMAIN booted = {"up", "root", "insecure", "etc"} /\ booted.root \in repo /\ booted.root \in DOMAIN state
  BY <1>3
<1>5. UNCHANGED <<conf, fsverity, jobs, pc, id, plan, todo, writing, repo, bootdir>>
  BY DEF Boot
<1>6. Kept /\ DOMAIN state' = DOMAIN state
      /\ \A i \in DOMAIN state' : DOMAIN state'[i] = {"dirs", "etc"} /\ state'[i].etc \subseteq {i}
  <2>1. CASE MountType("etc") # "overlay"
    BY <1>2, <2>1, StateUnchanged DEF IInv, StateAgrees
  <2>2. CASE MountType("etc") = "overlay"
    <3>1. state' = PutState(booted.root, [StateOf(booted.root) EXCEPT !.dirs = @ \cup {"upper", "work"}])
      BY <1>2, <2>2
    <3>2. QED BY <1>4, <3>1, MoreDirs
  <2>3. QED BY <2>1, <2>2
<1>7. StateAgrees'
  BY <1>2, <1>4, <1>5, <1>6 DEF IInv, StateAgrees
<1>8. QED BY <1>5, <1>6, <1>7, SystemKeeps DEF IInv

LEMMA MountTypes ==
  ASSUME IInv
  PROVE  MountType("etc") \in {"none", "bind", "overlay", "transient"}
<1> DEFINE mount == conf["etc"].mount
           transient == conf["etc"].transient
<1>1. mount \in {None, "none", "bind", "overlay", "transient"}
  BY DeployConstants DEF IInv, ProcessesAgree
<1>2. MountType("etc") = CASE mount # None -> mount
                           [] mount = None /\ transient -> "transient"
                           [] OTHER -> IF "etc" = "etc" THEN "overlay" ELSE "bind"
  BY DEF MountType
<1> HIDE DEF mount, transient
<1>3. CASE mount # None
  <2>1. MountType("etc") = mount
    BY <1>2, <1>3, Zenon
  <2>2. QED BY <1>1, <1>3, <2>1
<1>4. CASE mount = None /\ transient
  BY <1>2, <1>4, Zenon
<1>5. CASE mount = None /\ ~transient
  BY <1>2, <1>5, Zenon
<1>6. QED BY <1>3, <1>4, <1>5

LEMMA ChangeEtcKeeps ==
  ASSUME IInv, ChangeEtc
  PROVE  IInv' /\ Kept
<1> DEFINE root == system.root
           type == MountType("etc")
<1>1. /\ UNCHANGED <<conf, fsverity, jobs, pc, id, plan, todo, writing, repo, bootdir>>
      /\ system.up
  BY DEF ChangeEtc
<1>2. DOMAIN system = {"up", "root", "insecure", "etc"} /\ root \in DOMAIN state
  BY <1>1 DEF IInv, StateAgrees, Down
<1>3. CASE type \in {"overlay", "bind"}
  <2>1. /\ state' = [state EXCEPT ![root].etc = @ \cup {root}]
        /\ UNCHANGED system
    BY <1>3, Zenon DEF ChangeEtc
  <2>2. \A i \in DOMAIN state : DOMAIN state[i] = {"dirs", "etc"} /\ state[i].etc \subseteq {i}
    BY DEF IInv, StateAgrees
  <2> HIDE DEF root
  <2>3. /\ DOMAIN state' = DOMAIN state
        /\ \A i \in DOMAIN state : i # root => state'[i] = state[i]
        /\ DOMAIN state'[root] = {"dirs", "etc"} /\ state'[root].dirs = state[root].dirs
        /\ state'[root].etc = state[root].etc \cup {root}
    BY <1>2, <2>1, <2>2
  <2>4. Kept
    BY <1>2, <2>2, <2>3 DEF Kept
  <2>5. StateAgrees'
    BY <1>1, <1>2, <2>1, <2>2, <2>3 DEF IInv, StateAgrees, root
  <2>6. QED BY <1>1, <2>4, <2>5, SystemKeeps DEF IInv
<1>4. CASE type = "transient"
  <2>1. system' = [system EXCEPT !.etc = @ \cup {root}] /\ UNCHANGED state
    <3>1. type # "overlay" /\ type # "bind" /\ type # "none"
      BY <1>4
    <3>2. QED BY <1>4, <3>1, Zenon DEF ChangeEtc
  <2>2. DOMAIN system' = {"up", "root", "insecure", "etc"} /\ system'.root = root
    BY <1>2, <2>1
  <2>3. StateAgrees'
    BY <1>1, <1>2, <2>1, <2>2 DEF IInv, StateAgrees
  <2>4. QED BY <1>1, <2>1, <2>3, SystemKeeps, StateUnchanged DEF IInv
<1>5. CASE type = "none"
  <2>1. UNCHANGED <<state, system>>
    <3>1. type # "overlay" /\ type # "bind" /\ type # "transient"
      BY <1>5
    <3>2. QED BY <1>5, <3>1, Zenon DEF ChangeEtc
  <2>2. StateAgrees'
    BY <1>1, <2>1 DEF IInv, StateAgrees, Down
  <2>3. QED BY <1>1, <2>1, <2>2, SystemKeeps, StateUnchanged DEF IInv
<1>6. QED BY <1>3, <1>4, <1>5, MountTypes

LEMMA ShutdownKeeps ==
  ASSUME IInv, Shutdown
  PROVE  IInv' /\ Kept
<1>1. system' = Down /\ UNCHANGED <<conf, fsverity, jobs, pc, id, plan, todo, writing, repo, bootdir, state>>
  BY DEF Shutdown
<1>2. StateAgrees'
  BY <1>1 DEF IInv, StateAgrees, Down
<1>3. QED BY <1>1, <1>2, SystemKeeps, StateUnchanged DEF IInv

LEMMA StepKeeps ==
  ASSUME IInv, [Next]_vars
  PROVE  IInv' /\ Kept
<1>1. CASE UNCHANGED vars
  <2>1. UNCHANGED <<conf, fsverity, jobs, pc, id, plan, todo, writing, repo, bootdir, state, system>>
    BY <1>1 DEF vars
  <2>2. StateAgrees'
    BY <2>1 DEF IInv, StateAgrees, Down
  <2>3. QED BY <2>1, <2>2, SystemKeeps, StateUnchanged DEF IInv
<1>2. ASSUME NEW p \in Process, PrepareBoot(p) PROVE IInv' /\ Kept
  BY <1>2, PrepareBootKeeps, StateUnchanged DEF PrepareBoot
<1>3. ASSUME NEW p \in Process, OpenFile(p) PROVE IInv' /\ Kept
  BY <1>3, OpenFileKeeps, StateUnchanged DEF OpenFile
<1>4. ASSUME NEW p \in Process, FillFile(p) PROVE IInv' /\ Kept
  BY <1>4, FillFileKeeps, StateUnchanged DEF FillFile
<1>5. QED BY <1>1, <1>2, <1>3, <1>4, MakeStateKeeps, KillKeeps, BootKeeps, ChangeEtcKeeps, ShutdownKeeps DEF Next

\* Where each deployment is agrees with what it has to write and what is there, whoever
\* deploys what and is killed when, and whatever is booted.
THEOREM Invariance == Spec => []IInv
<1>1. Init => IInv
  BY Start
<1>2. IInv /\ [Next]_vars => IInv'
  BY StepKeeps
<1>3. QED BY <1>1, <1>2, PTL DEF Spec

LEMMA InvariantLeads ==
  ASSUME IInv
  PROVE  EntriesLead
<1>1. TypeOK
  <2>1. \A p \in Process : writing[p] # None => pc[p] = "write" /\ writing[p] \in DOMAIN bootdir
    BY DEF IInv, WritersAgree
  <2>2. QED BY <2>1 DEF IInv, ProcessesAgree, StateAgrees, TypeOK, Down
<1>2. ASSUME NEW e \in DOMAIN bootdir, IsLoaderEntry(e), bootdir[e] # Partial, NEW f \in PathsIn(bootdir[e])
      PROVE  f \in DOMAIN bootdir /\ (bootdir[f] = Partial => Cardinality(Writers(f)) > 1)
  <2>1. PICK p \in Process : plan[p] # Error /\ plan[p].path = e /\ plan[p].data = bootdir[e] /\ todo[p] = {}
    BY <1>2 DEF IInv, EntriesWritten
  <2>2. f \in DOMAIN plan[p].files
    BY <1>2, <2>1 DEF IInv, ProcessesAgree, Planned
  <2>3. /\ f \in DOMAIN bootdir
        /\ bootdir[f] = Partial => \E q \in Process \ {p} : f \in PathsOf(q)
    BY <2>1, <2>2 DEF IInv, FilesWritten
  <2>4. ASSUME NEW q \in Process \ {p}, f \in PathsOf(q) PROVE Cardinality(Writers(f)) > 1
    <3>1. {p, q} \subseteq Writers(f)
      BY <2>1, <2>2, <2>4 DEF Writers, PathsOf, Failed
    <3>2. IsFiniteSet(Writers(f))
      BY DeployConstants, FS_Subset DEF Writers
    <3>3. Cardinality({p, q}) = 2
      <4>1. Cardinality({p}) = 1 /\ IsFiniteSet({p})
        BY FS_Singleton
      <4>2. {p, q} = {p} \cup {q} /\ q \notin {p}
        OBVIOUS
      <4>3. QED BY <4>1, <4>2, FS_AddElement
    <3>4. Cardinality({p, q}) <= Cardinality(Writers(f)) /\ Cardinality(Writers(f)) \in Nat
      BY <3>1, <3>2, FS_Subset, FS_CardinalityType
    <3>5. QED BY <3>3, <3>4
  <2>5. QED BY <2>3, <2>4
<1>3. QED BY <1>1, <1>2 DEF EntriesLead

\* An entry of the boot partition leads to files that are there and, unless two
\* deployments write at the same path, whole.
THEOREM EntriesAlwaysLead == Spec => []EntriesLead
<1>1. IInv => EntriesLead
  BY InvariantLeads
<1>2. QED BY <1>1, Invariance, PTL

\* Nothing that is deployed, booted, changed or killed takes the state of an image away or
\* mixes it with another's.
THEOREM StatesAreKept == Spec => StateKept
<1>1. IInv /\ [Next]_vars => Kept
  BY StepKeeps
<1>2. Kept => \A image \in DOMAIN state :
                /\ image \in DOMAIN state'
                /\ state[image].dirs \subseteq state'[image].dirs
                /\ state[image].etc \subseteq state'[image].etc /\ state'[image].etc \subseteq {image}
  BY DEF Kept
<1>3. QED BY <1>1, <1>2, Invariance, PTL DEF Spec, StateKept

-------------------------------------------------------------------------------
(* The command line *)

LEMMA LeastIndex ==
  ASSUME NEW n \in Nat, NEW T \in SUBSET (1 .. n), T # {}
  PROVE  Min(T) \in T /\ \A y \in T : Min(T) <= y
<1>1. PICK x \in T : \A y \in T : x <= y
  BY LeastNumber
<1>2. QED BY <1>1 DEF Min

Composefs == <<"composefs", "=">>

\* An argument that starts with "composefs=" has this for its name.
LEMMA ComposefsIsKey ==
  ASSUME NEW a, IsSeq(a), IsPrefix(Composefs, a)
  PROVE  KeyOf(a) = Composefs /\ Len(a) >= 2
<1>1. Len(a) \in Nat /\ DOMAIN a = 1 .. Len(a) /\ a \in Seq(Range(a))
  BY DEF IsSeq
<1>2. Len(a) >= 2 /\ SubSeq(a, 1, 2) = SubSeq(Composefs, 1, 2)
  <2>1. Len(Composefs) = 2
    BY DEF Composefs
  <2>2. QED BY <2>1 DEF IsPrefix
<1>3. SubSeq(Composefs, 1, 2) = Composefs /\ Composefs[1] = "composefs" /\ Composefs[2] = "="
  <2>1. Composefs[1] = "composefs" /\ Composefs[2] = "=" /\ Len(Composefs) = 2
    BY DEF Composefs
  <2>2. Composefs \in Seq({"composefs", "="})
    BY DEF Composefs
  <2>3. SubSeq(Composefs, 1, Len(Composefs)) = Composefs
    BY <2>2
  <2>4. QED BY <2>1, <2>3
<1>4. a[1] = "composefs" /\ a[2] = "="
  <2>1. SubSeq(a, 1, 2)[1] = a[1] /\ SubSeq(a, 1, 2)[2] = a[2]
    BY <1>1, <1>2
  <2>2. QED BY <1>2, <1>3, <2>1
<1> DEFINE T == {i \in DOMAIN a : a[i] = "="}
<1>5. Min(T) = 2
  <2>1. T \in SUBSET (1 .. Len(a)) /\ 2 \in T /\ 1 \notin T
    BY <1>1, <1>2, <1>4
  <2> HIDE DEF T
  <2>2. Min(T) \in T /\ Min(T) <= 2
    BY <1>1, <2>1, LeastIndex
  <2>3. Min(T) \in 1 .. Len(a) /\ Min(T) # 1
    BY <2>1, <2>2
  <2>4. QED BY <1>1, <2>2, <2>3
<1>6. "=" \in Range(a)
  BY <1>1, <1>2, <1>4 DEF Range
<1>7. QED BY <1>2, <1>3, <1>5, <1>6 DEF KeyOf

\* An argument of its own, before which there is no other for composefs.
Leads(args, composefs) ==
  /\ IsSeq(args)
  /\ \E i \in DOMAIN args : args[i] = composefs /\ \A j \in 1 .. i - 1 : ~IsPrefix(Composefs, args[j])

LEMMA ArgumentIsSet ==
  ASSUME NEW args, IsSeq(args), NEW arg
  PROVE  LET now == SetArgument(args, arg)
             old == {i \in DOMAIN args : IsPrefix(KeyOf(arg), args[i])}
             k   == IF old = {} THEN Len(args) + 1 ELSE Min(old)
         IN  /\ IsSeq(now) /\ k \in DOMAIN now /\ now[k] = arg /\ DOMAIN args \subseteq DOMAIN now
             /\ \A i \in DOMAIN args : i # k => now[i] = args[i]
             /\ k \in DOMAIN args => IsPrefix(KeyOf(arg), args[k])
             /\ \A i \in 1 .. k - 1 : i \in DOMAIN args /\ ~IsPrefix(KeyOf(arg), args[i])
<1> DEFINE now == SetArgument(args, arg)
           old == {i \in DOMAIN args : IsPrefix(KeyOf(arg), args[i])}
           n == Len(args)
<1>1. n \in Nat /\ DOMAIN args = 1 .. n /\ args \in Seq(Range(args))
  BY DEF IsSeq
<1>2. CASE old = {}
  <2>1. now = Append(args, arg)
    BY <1>2 DEF SetArgument
  <2>2. \A i \in DOMAIN args : ~IsPrefix(KeyOf(arg), args[i])
    BY <1>2
  <2>3. now \in Seq(Range(args) \cup {arg})
    BY <1>1, <2>1
  <2>4. IsSeq(now)
    BY <2>3, SeqHasRange
  <2> HIDE DEF old, now
  <2>5. /\ DOMAIN now = 1 .. n + 1 /\ now[n + 1] = arg
        /\ \A i \in 1 .. n : now[i] = args[i]
    BY <1>1, <2>1
  <2>6. QED BY <1>1, <1>2, <2>2, <2>4, <2>5 DEF now, old
<1>3. CASE old # {}
  <2> DEFINE k == Min(old)
  <2>1. now = [args EXCEPT ![k] = arg]
    BY <1>3 DEF SetArgument
  <2>2. old \in SUBSET (1 .. n)
    BY <1>1
  <2>3. k \in old /\ \A y \in old : k <= y
    <3> HIDE DEF old
    <3>1. QED BY <1>1, <1>3, <2>2, LeastIndex
  <2>4. k \in 1 .. n /\ IsPrefix(KeyOf(arg), args[k])
    BY <2>2, <2>3
  <2>5. ASSUME NEW i \in 1 .. k - 1 PROVE i \in DOMAIN args /\ ~IsPrefix(KeyOf(arg), args[i])
    <3>1. i \in 1 .. n /\ ~(k <= i)
      BY <1>1, <2>4
    <3>2. QED BY <1>1, <2>3, <3>1
  <2> HIDE DEF k, now, old
  <2>6. /\ DOMAIN now = 1 .. n /\ now[k] = arg
        /\ \A i \in 1 .. n : i # k => now[i] = args[i]
        /\ now = [i \in DOMAIN now |-> now[i]]
    BY <1>1, <2>1, <2>4
  <2>7. IsSeq(now)
    BY <1>1, <2>6, SequenceOfRange DEF IsSeq
  <2>8. QED BY <1>1, <1>3, <2>4, <2>5, <2>6, <2>7 DEF now, old, k
<1>4. QED BY <1>2, <1>3

\* The argument for the image takes the place of the first there is, or none is there.
LEMMA ImageLeads ==
  ASSUME NEW args, IsSeq(args), NEW c, IsSeq(c), IsPrefix(Composefs, c)
  PROVE  Leads(SetArgument(args, c), c)
<1> DEFINE now == SetArgument(args, c)
           old == {i \in DOMAIN args : IsPrefix(KeyOf(c), args[i])}
           k == IF old = {} THEN Len(args) + 1 ELSE Min(old)
<1>1. KeyOf(c) = Composefs
  BY ComposefsIsKey
<1>2. /\ IsSeq(now) /\ k \in DOMAIN now /\ now[k] = c
      /\ \A i \in DOMAIN args : i # k => now[i] = args[i]
      /\ \A i \in 1 .. k - 1 : i \in DOMAIN args /\ ~IsPrefix(KeyOf(c), args[i])
  BY ArgumentIsSet
<1>3. k \in Nat
  BY <1>2 DEF IsSeq
<1> HIDE DEF now, k
<1>4. \A j \in 1 .. k - 1 : ~IsPrefix(Composefs, now[j])
  BY <1>1, <1>2, <1>3
<1>5. QED BY <1>2, <1>4 DEF Leads, now

\* It stays there when others come, which replace nothing but what has their name.
LEMMA ImageStays ==
  ASSUME NEW args, NEW c, IsPrefix(Composefs, c), Leads(args, c), NEW arg, IsSeq(arg), ~IsPrefix(KeyOf(arg), c)
  PROVE  /\ Leads(SetArgument(args, arg), c) /\ arg \in Range(SetArgument(args, arg))
         /\ \A b \in Range(args) : b \in Range(SetArgument(args, arg)) \/ IsPrefix(KeyOf(arg), b)
<1> DEFINE now == SetArgument(args, arg)
           old == {i \in DOMAIN args : IsPrefix(KeyOf(arg), args[i])}
           k == IF old = {} THEN Len(args) + 1 ELSE Min(old)
<1>1. /\ IsSeq(now) /\ k \in DOMAIN now /\ now[k] = arg /\ DOMAIN args \subseteq DOMAIN now
      /\ \A i \in DOMAIN args : i # k => now[i] = args[i]
      /\ k \in DOMAIN args => IsPrefix(KeyOf(arg), args[k])
  BY ArgumentIsSet DEF Leads
<1> HIDE DEF k, now
<1>2. PICK i \in DOMAIN args : args[i] = c /\ \A j \in 1 .. i - 1 : ~IsPrefix(Composefs, args[j])
  BY DEF Leads
<1>3. i # k
  BY <1>1, <1>2
<1>4. ~IsPrefix(Composefs, arg)
  BY ComposefsIsKey
<1>5. Len(args) \in Nat /\ DOMAIN args = 1 .. Len(args)
  BY DEF Leads, IsSeq
<1>6. \A j \in 1 .. i - 1 : ~IsPrefix(Composefs, now[j])
  BY <1>1, <1>2, <1>4, <1>5
<1>7. Leads(now, c)
  BY <1>1, <1>2, <1>3, <1>6 DEF Leads
<1>8. \A b \in Range(args) : b \in Range(now) \/ IsPrefix(KeyOf(arg), b)
  BY <1>1 DEF Range
<1>9. QED BY <1>1, <1>7, <1>8 DEF Range, now

\* The arguments of the first options line, which an argument is put on.
OptionsOf(lines) ==
  LET options == LinesWith(lines, {"options"})
  IN  IF options = {} THEN <<>> ELSE lines[Min(options)].args

\* An argument changes the first options line, which may be new, and no line for a file.
LEMMA ArgumentIsAdded ==
  ASSUME NEW lines, IsLines(lines), HasArgs(lines), NEW arg
  PROVE  LET now == add_cmdline(lines, arg)
         IN  /\ IsLines(now) /\ HasArgs(now)
             /\ OptionsOf(now) = SetArgument(OptionsOf(lines), arg)
             /\ LinesWith(now, {"options"}) # {}
             /\ LinesWith(now, FileKeys) = LinesWith(lines, FileKeys)
             /\ \A i \in LinesWith(lines, FileKeys) : now[i] = lines[i]
<1> DEFINE options == LinesWith(lines, {"options"})
           n == Len(lines)
           now == add_cmdline(lines, arg)
<1>1. n \in Nat /\ DOMAIN lines = 1 .. n /\ lines \in Seq(Range(lines)) /\ IsLines(now)
  <2>1. n \in Nat /\ DOMAIN lines = 1 .. n /\ lines \in Seq(Range(lines))
    BY LinesAre DEF IsLines
  <2>2. QED BY <2>1, ArgumentKeepsPaths
<1>2. options \in SUBSET (1 .. n) /\ \A i \in 1 .. n : i \in options <=> lines[i].key = "options"
  BY <1>1 DEF LinesWith
<1>3. CASE options = {}
  <2> DEFINE line == [key |-> "options", args |-> <<arg>>]
  <2>1. now = Append(lines, line)
    BY <1>3 DEF add_cmdline
  <2>2. line.key = "options" /\ line.args = <<arg>>
    OBVIOUS
  <2> HIDE DEF line, now
  <2>3. /\ DOMAIN now = 1 .. n + 1 /\ now[n + 1] = line
        /\ \A i \in 1 .. n : now[i] = lines[i]
    BY <1>1, <2>1
  <2>4. LinesWith(now, {"options"}) = {n + 1}
    <3>1. \A i \in DOMAIN now : now[i].key = "options" <=> i = n + 1
      BY <1>1, <1>2, <1>3, <2>2, <2>3
    <3>2. n + 1 \in DOMAIN now
      BY <1>1, <2>3
    <3>3. QED BY <3>1, <3>2 DEF LinesWith
  <2>5. Min({n + 1}) = n + 1
    BY DEF Min
  <2>6. SetArgument(<<>>, arg) = <<arg>>
    <3>1. {i \in DOMAIN <<>> : IsPrefix(KeyOf(arg), <<>>[i])} = {}
      OBVIOUS
    <3>2. Append(<<>>, arg) = <<arg>>
      OBVIOUS
    <3>3. QED BY <3>1, <3>2 DEF SetArgument
  <2>7. OptionsOf(now) = SetArgument(OptionsOf(lines), arg)
    BY <1>3, <2>2, <2>3, <2>4, <2>5, <2>6 DEF OptionsOf
  <2>8. HasArgs(now)
    <3> DEFINE s == <<arg>>
    <3>1. s \in Seq({arg})
      OBVIOUS
    <3> HIDE DEF s
    <3>2. s \in Seq(Range(s))
      BY <3>1, SeqHasRange DEF IsSeq
    <3>3. QED BY <2>2, <2>3, <2>4, <3>2 DEF HasArgs, s
  <2>9. /\ LinesWith(now, FileKeys) = LinesWith(lines, FileKeys)
        /\ \A i \in LinesWith(lines, FileKeys) : now[i] = lines[i]
    BY <1>1, <2>2, <2>3 DEF LinesWith, FileKeys
  <2>10. QED BY <1>1, <2>4, <2>7, <2>8, <2>9 DEF now
<1>4. CASE options # {}
  <2> DEFINE k == Min(options)
             args == SetArgument(lines[k].args, arg)
  <2>1. k \in options
    <3> HIDE DEF options
    <3>1. QED BY <1>1, <1>2, <1>4, LeastIndex
  <2>2. k \in 1 .. n /\ lines[k].key = "options" /\ IsSeq(lines[k].args)
    BY <1>2, <2>1 DEF HasArgs, IsSeq
  <2>3. now = [lines EXCEPT ![k].args = args]
    BY <1>4 DEF add_cmdline
  <2>4. DOMAIN lines[k] = {"key", "args"}
    BY <1>1, <2>2, LinesAre DEF FileKeys
  <2>5. IsSeq(args)
    <3> HIDE DEF k
    <3>1. QED BY <2>2, ArgumentIsSet
  <2> HIDE DEF k, args, now, options
  <2>6. /\ DOMAIN now = 1 .. n
        /\ \A i \in 1 .. n : i # k => now[i] = lines[i]
        /\ now[k].args = args /\ now[k].key = "options"
    BY <1>1, <2>2, <2>3, <2>4
  <2>7. LinesWith(now, {"options"}) = options
    BY <1>2, <2>1, <2>2, <2>6 DEF LinesWith
  <2>8. OptionsOf(now) = SetArgument(OptionsOf(lines), arg)
    BY <1>4, <2>6, <2>7 DEF OptionsOf, options, k, args
  <2>9. HasArgs(now)
    <3>1. \A i \in options : i # k => now[i].args \in Seq(Range(now[i].args))
      BY <1>2, <2>6 DEF HasArgs, options
    <3>2. QED BY <2>5, <2>6, <2>7, <3>1 DEF HasArgs, IsSeq
  <2>10. LinesWith(now, FileKeys) = LinesWith(lines, FileKeys)
    BY <1>1, <2>2, <2>6 DEF LinesWith, FileKeys
  <2>11. \A i \in LinesWith(lines, FileKeys) : now[i] = lines[i]
    BY <1>1, <2>2, <2>6 DEF LinesWith, FileKeys
  <2>12. QED BY <1>1, <1>4, <2>7, <2>8, <2>9, <2>10, <2>11 DEF now
<1>5. QED BY <1>3, <1>4

\* However many are asked for, all are there, with the image's.
LEMMA AllArgumentsAreThere ==
  ASSUME NEW lines, IsLines(lines), HasArgs(lines), NEW root_id, NEW insecure,
         NEW extra, IsSeq(extra), \A a \in Range(extra) : IsSeq(a),
         NEW c, c = make_cmdline_composefs(root_id, insecure), IsSeq(c), IsPrefix(Composefs, c),
         OwnPlaces(extra, c)
  PROVE  LET now == adjust_cmdline(lines, root_id, insecure, extra)
         IN  /\ IsLines(now) /\ HasArgs(now) /\ LinesWith(now, {"options"}) # {}
             /\ Leads(OptionsOf(now), c) /\ Range(extra) \subseteq Range(OptionsOf(now))
             /\ LinesWith(now, FileKeys) = LinesWith(lines, FileKeys)
             /\ \A i \in LinesWith(lines, FileKeys) : now[i] = lines[i]
<1> DEFINE n == Len(extra)
           Good(now) == /\ IsLines(now) /\ HasArgs(now) /\ LinesWith(now, {"options"}) # {}
                        /\ Leads(OptionsOf(now), c)
                        /\ LinesWith(now, FileKeys) = LinesWith(lines, FileKeys)
                        /\ \A i \in LinesWith(lines, FileKeys) : now[i] = lines[i]
<1>1. n \in Nat /\ DOMAIN extra = 1 .. n
  BY DEF IsSeq
<1>2. \A i \in 1 .. n : extra[i] \in Range(extra) /\ IsSeq(extra[i])
  BY <1>1 DEF Range
<1> HIDE DEF n
<1>3. PICK after : Adjusts(after, lines, root_id, insecure, extra, n)
  BY <1>1, AddingSteps
<1>4. IsSeq(OptionsOf(lines))
  <2> DEFINE options == LinesWith(lines, {"options"})
  <2>1. CASE options = {}
    BY <2>1 DEF OptionsOf, IsSeq
  <2>2. CASE options # {}
    <3>1. Len(lines) \in Nat /\ options \in SUBSET (1 .. Len(lines))
      BY LinesAre DEF LinesWith
    <3> HIDE DEF options
    <3>2. Min(options) \in options
      BY <2>2, <3>1, LeastIndex
    <3>3. QED BY <2>2, <3>2 DEF OptionsOf, HasArgs, IsSeq, options
  <2>3. QED BY <2>1, <2>2
<1> DEFINE G == {k \in 0 .. n : Good(after[k]) /\ \A j \in 1 .. k : extra[j] \in Range(OptionsOf(after[k]))}
<1>5. 0 \in G
  <2>1. after[0] = add_cmdline(lines, c)
    BY <1>3 DEF Adjusts
  <2>2. Leads(SetArgument(OptionsOf(lines), c), c)
    BY <1>4, ImageLeads
  <2>3. Good(after[0])
    BY <2>1, <2>2, ArgumentIsAdded
  <2> HIDE DEF Good
  <2>4. QED BY <1>1, <2>3
<1>6. ASSUME NEW k \in 1 .. n, k - 1 \in G PROVE k \in G
  <2> DEFINE arg == extra[k]
             args == OptionsOf(after[k - 1])
             now == OptionsOf(after[k])
  <2>1. Good(after[k - 1]) /\ \A j \in 1 .. k - 1 : extra[j] \in Range(args)
    BY <1>6
  <2>2. after[k] = add_cmdline(after[k - 1], arg)
    BY <1>3 DEF Adjusts
  <2>3. ~IsPrefix(KeyOf(arg), c) /\ \A j \in 1 .. k - 1 : IsPrefix(KeyOf(arg), extra[j]) => extra[j] = arg
    BY <1>1 DEF OwnPlaces
  <2>4. now = SetArgument(args, arg)
    BY <2>1, <2>2, ArgumentIsAdded
  <2>5. IsSeq(arg)
    BY <1>2
  <2>6. /\ Leads(now, c) /\ arg \in Range(now)
        /\ \A b \in Range(args) : b \in Range(now) \/ IsPrefix(KeyOf(arg), b)
    <3> HIDE DEF arg, now, args
    <3>1. Leads(args, c)
      BY <2>1 DEF args
    <3>2. QED BY <2>3, <2>4, <2>5, <3>1, ImageStays
  <2>7. Good(after[k])
    BY <2>1, <2>2, <2>6, ArgumentIsAdded
  <2> HIDE DEF Good, now, args
  <2>8. \A j \in 1 .. k : extra[j] \in Range(now)
    <3>1. ASSUME NEW j \in 1 .. k - 1 PROVE extra[j] \in Range(now)
      BY <2>1, <2>3, <2>6
    <3>2. QED BY <2>6, <3>1
  <2>9. QED BY <1>1, <2>7, <2>8 DEF now
<1>7. n \in G
  <2> HIDE DEF G
  <2>1. 0 .. n \subseteq G
    BY <1>1, <1>5, <1>6, IndexInduction
  <2>2. QED BY <1>1, <2>1
<1>8. adjust_cmdline(lines, root_id, insecure, extra) = after[n]
  BY <1>3 DEF Adjusts
<1>9. Range(extra) \subseteq Range(OptionsOf(after[n]))
  BY <1>1, <1>7 DEF Range
<1>10. QED BY <1>7, <1>8, <1>9

\* The kernel finds the arguments of the first options line first.
LEMMA FirstOptionsLead ==
  ASSUME NEW lines, IsLines(lines), HasArgs(lines), LinesWith(lines, {"options"}) # {}
  PROVE  LET args == OptionsOf(lines)
             all  == Cmdline(lines)
         IN  /\ IsSeq(args) /\ IsSeq(all) /\ DOMAIN args \subseteq DOMAIN all
             /\ \A j \in DOMAIN args : all[j] = args[j]
<1> DEFINE options == LinesWith(lines, {"options"})
           n == Len(lines)
           k == Min(options)
           args == OptionsOf(lines)
           seqs == [i \in DOMAIN lines |-> IF lines[i].key = "options" THEN lines[i].args ELSE <<>>]
           X == UNION {Range(lines[i].args) : i \in options}
           all == Cmdline(lines)
<1>1. n \in Nat /\ DOMAIN lines = 1 .. n
  BY LinesAre
<1>2. options \in SUBSET (1 .. n) /\ \A i \in 1 .. n : i \in options <=> lines[i].key = "options"
  BY <1>1 DEF LinesWith
<1> HIDE DEF n
<1>3. /\ k \in options /\ k \in 1 .. n
      /\ \A i \in 1 .. k - 1 : i \notin options /\ i \in 1 .. n
  <2>0. options # {}
    OBVIOUS
  <2> HIDE DEF options
  <2>1. k \in options /\ \A y \in options : k <= y
    BY <1>1, <1>2, <2>0, LeastIndex
  <2>2. k \in 1 .. n
    BY <1>2, <2>1
  <2> HIDE DEF k
  <2>3. \A i \in 1 .. k - 1 : i \in 1 .. n /\ ~(k <= i)
    BY <1>1, <2>2
  <2>4. QED BY <2>1, <2>2, <2>3
<1>4. args = lines[k].args
  BY <1>3 DEF OptionsOf
<1>5. ASSUME NEW i \in options PROVE lines[i].args \in Seq(X)
  <2>1. lines[i].args \in Seq(Range(lines[i].args)) /\ Range(lines[i].args) \subseteq X
    BY DEF HasArgs
  <2> HIDE DEF X
  <2>2. QED BY <2>1
<1> HIDE DEF X
<1>6. \A i \in 1 .. n : seqs[i] \in Seq(X)
  BY <1>1, <1>2, <1>5
<1>7. seqs[k] = args /\ \A i \in 1 .. k - 1 : seqs[i] = <<>>
  BY <1>1, <1>2, <1>3, <1>4
<1>8. DOMAIN seqs = 1 .. n /\ seqs = [i \in DOMAIN seqs |-> seqs[i]]
  BY <1>1
<1>9. all = FlattenSeq(seqs)
  BY DEF Cmdline
<1> HIDE DEF seqs, args, k, options, all
<1>10. seqs \in Seq(Seq(X)) /\ Len(seqs) = n
  BY <1>1, <1>6, <1>8
<1>11. PICK f \in [0 .. n -> Seq(X)] : Flattens(f, seqs)
  BY <1>10, Flattening
<1>12. /\ f[0] = <<>> /\ \A i \in 1 .. n : f[i] = f[i - 1] \o seqs[i]
       /\ all = f[n]
  BY <1>9, <1>10, <1>11 DEF Flattens
<1>13. args \in Seq(X)
  BY <1>3, <1>6, <1>7
<1> DEFINE Starts(s) == Len(args) <= Len(s) /\ \A j \in 1 .. Len(args) : s[j] = args[j]
           G == {i \in 0 .. n : IF i < k THEN f[i] = <<>> ELSE Starts(f[i])}
<1>14. 0 \in G
  BY <1>1, <1>3, <1>12
<1>15. ASSUME NEW i \in 1 .. n, i - 1 \in G PROVE i \in G
  <2>1. /\ f[i] = f[i - 1] \o seqs[i] /\ f[i - 1] \in Seq(X) /\ seqs[i] \in Seq(X)
        /\ IF i - 1 < k THEN f[i - 1] = <<>> ELSE Starts(f[i - 1])
    BY <1>1, <1>6, <1>11, <1>12, <1>15
  <2>2. CASE i < k
    <3>1. f[i - 1] = <<>> /\ seqs[i] = <<>>
      BY <1>3, <1>7, <2>1, <2>2
    <3>2. f[i] = <<>>
      BY <2>1, <3>1
    <3>3. QED BY <2>2, <3>2
  <2>3. CASE i = k
    <3>1. f[i - 1] = <<>> /\ seqs[i] = args
      BY <1>3, <1>7, <2>1, <2>3
    <3>2. f[i] = args
      BY <1>13, <2>1, <3>1
    <3>3. Starts(f[i])
      BY <1>13, <3>2
    <3> HIDE DEF Starts
    <3>4. QED BY <1>3, <2>3, <3>3
  <2>4. CASE i > k
    <3>1. Starts(f[i - 1])
      BY <1>3, <2>1, <2>4
    <3> DEFINE s == f[i - 1]
               t == seqs[i]
    <3>2. f[i] = s \o t /\ s \in Seq(X) /\ t \in Seq(X)
      BY <2>1
    <3> HIDE DEF s, t
    <3>3. /\ Len(f[i]) = Len(s) + Len(t) /\ \A j \in 1 .. Len(s) : f[i][j] = s[j]
          /\ Len(s) \in Nat /\ Len(t) \in Nat /\ Len(args) \in Nat
      BY <1>13, <3>2
    <3>4. Starts(f[i])
      BY <3>1, <3>3 DEF s
    <3> HIDE DEF Starts
    <3>5. QED BY <1>3, <2>4, <3>4
  <2>5. QED BY <1>3, <2>2, <2>3, <2>4
<1>16. Starts(f[n])
  <2> HIDE DEF G
  <2>1. 0 .. n \subseteq G
    BY <1>1, <1>14, <1>15, IndexInduction
  <2>2. n \in G /\ ~(n < k)
    BY <1>1, <1>3, <2>1
  <2>3. QED BY <2>2 DEF G
<1>17. all \in Seq(X)
  BY <1>1, <1>11, <1>12
<1>18. IsSeq(all) /\ IsSeq(args)
  BY <1>13, <1>17, SeqHasRange
<1>19. DOMAIN args \subseteq DOMAIN all /\ \A j \in DOMAIN args : all[j] = args[j]
  BY <1>12, <1>13, <1>16, <1>17
<1>20. QED BY <1>18, <1>19 DEF args, all

\* The argument for an image, from which get_cmdline_composefs takes it.
LEMMA ImageArgument ==
  ASSUME NEW root_id, NEW insecure \in BOOLEAN
  PROVE  LET c == make_cmdline_composefs(root_id, insecure)
         IN  /\ IsPrefix(Composefs, c) /\ IsSeq(c) /\ Len(c) = IF insecure THEN 4 ELSE 3
             /\ c[Len(c)] = root_id /\ c[3] = IF insecure THEN "?" ELSE root_id
<1> DEFINE c == make_cmdline_composefs(root_id, insecure)
           X == {"composefs", "=", "?", root_id}
           mark == IF insecure THEN <<"?">> ELSE <<>>
           last == <<root_id>>
<1>1. c = (Composefs \o mark) \o last
  BY DEF make_cmdline_composefs, Composefs
<1>2. Composefs \in Seq(X) /\ Len(Composefs) = 2
  BY DEF Composefs
<1>3. mark \in Seq(X) /\ Len(mark) = (IF insecure THEN 1 ELSE 0) /\ (insecure => mark[1] = "?")
  <2>1. CASE insecure
    BY <2>1
  <2>2. CASE ~insecure
    BY <2>2
  <2>3. QED BY <2>1, <2>2
<1>4. last \in Seq(X) /\ Len(last) = 1 /\ last[1] = root_id
  OBVIOUS
<1> HIDE DEF c, X, mark, last
<1> DEFINE start == Composefs \o mark
<1>5. /\ start \in Seq(X) /\ Len(start) = 2 + Len(mark)
      /\ start[1] = Composefs[1] /\ start[2] = Composefs[2]
      /\ insecure => start[3] = mark[1]
  <2>1. /\ start \in Seq(X) /\ Len(start) = Len(Composefs) + Len(mark)
        /\ \A i \in 1 .. Len(Composefs) + Len(mark) :
             start[i] = IF i <= Len(Composefs) THEN Composefs[i] ELSE mark[i - Len(Composefs)]
    BY <1>2, <1>3, ConcatProperties
  <2> HIDE DEF start
  <2>2. Len(mark) \in Nat /\ (insecure => Len(mark) = 1)
    BY <1>3
  <2>3. QED BY <1>2, <2>1, <2>2
<1> HIDE DEF start
<1>6. /\ c \in Seq(X) /\ Len(c) = Len(start) + 1 /\ c[Len(c)] = root_id
      /\ \A j \in 1 .. Len(start) : c[j] = start[j]
  <2>1. c = start \o last
    BY <1>1 DEF start
  <2>2. /\ start \o last \in Seq(X) /\ Len(start \o last) = Len(start) + Len(last)
        /\ \A i \in 1 .. Len(start) + Len(last) :
             (start \o last)[i] = IF i <= Len(start) THEN start[i] ELSE last[i - Len(start)]
    <3>1. start \in Seq(X) /\ last \in Seq(X)
      BY <1>4, <1>5
    <3>2. QED BY <3>1, ConcatProperties
  <2> DEFINE both == start \o last
  <2>3. /\ both \in Seq(X) /\ Len(both) = Len(start) + Len(last)
        /\ \A i \in 1 .. Len(start) + Len(last) : both[i] = IF i <= Len(start) THEN start[i] ELSE last[i - Len(start)]
    BY <2>2
  <2>4. c = both
    BY <2>1
  <2>5. Len(start) \in Nat
    BY <1>5
  <2> HIDE DEF both
  <2>6. QED BY <1>4, <2>3, <2>4, <2>5
<1>7. Len(c) = IF insecure THEN 4 ELSE 3
  BY <1>3, <1>5, <1>6
<1>8. c[1] = Composefs[1] /\ c[2] = Composefs[2] /\ (insecure => c[3] = "?")
  BY <1>3, <1>5, <1>6
<1>9. IsPrefix(Composefs, c)
  <2>0. Len(c) \in Nat /\ Len(c) >= 3 /\ DOMAIN c = 1 .. Len(c) /\ DOMAIN Composefs = 1 .. 2
    BY <1>2, <1>6, <1>7
  <2> DEFINE a == SubSeq(c, 1, 2)
             b == SubSeq(Composefs, 1, 2)
  <2>1. a \in Seq(X) /\ b \in Seq(X) /\ Len(a) = 2 /\ Len(b) = 2
    <3>1. c \in Seq(X) /\ Composefs \in Seq(X)
      BY <1>2, <1>6
    <3>2. 1 \in 1 .. Len(c) + 1 /\ 2 \in 0 .. Len(c)
      BY <2>0
    <3>3. a \in Seq(X) /\ Len(a) = IF 1 <= 2 THEN 2 - 1 + 1 ELSE 0
      BY <3>1, <3>2, SubSeqProperties
    <3>4. b \in Seq(X) /\ Len(b) = IF 1 <= 2 THEN 2 - 1 + 1 ELSE 0
      BY <1>2, <3>1, SubSeqProperties
    <3> HIDE DEF a, b
    <3>5. QED BY <3>3, <3>4
  <2>2. a[1] = c[1] /\ a[2] = c[2] /\ b[1] = Composefs[1] /\ b[2] = Composefs[2]
    <3>1. \A i \in 1 .. 2 : c[i] \in X /\ Composefs[i] \in X
      <4>1. \A i \in 1 .. Len(c) : c[i] \in X
        BY <1>6
      <4>2. \A i \in 1 .. 2 : Composefs[i] \in X
        BY <1>2, ElementOfSeq
      <4>3. QED BY <2>0, <4>1, <4>2
    <3>2. (\A i \in 1 .. 2 - 1 + 1 : a[i] = c[1 + i - 1]) /\ (\A i \in 1 .. 2 - 1 + 1 : b[i] = Composefs[1 + i - 1])
      BY <3>1, SubSeqProperties
    <3> HIDE DEF a, b
    <3>3. QED BY <3>2
  <2> HIDE DEF a, b
  <2>3. \A i \in 1 .. Len(a) : a[i] = b[i]
    BY <1>8, <2>1, <2>2
  <2>4. a = b
    BY <2>1, <2>3, SeqEqual
  <2>5. QED BY <1>2, <1>7, <2>4 DEF IsPrefix, a, b
<1>10. IsSeq(c)
  BY <1>6, SeqHasRange
<1>11. QED BY <1>6, <1>7, <1>8, <1>9, <1>10 DEF c

\* What get_cmdline_composefs makes of arguments that the image's leads.
LEMMA AddressIsFound ==
  ASSUME NEW args, NEW root_id, NEW insecure \in BOOLEAN, root_id # "?",
         NEW c, c = make_cmdline_composefs(root_id, insecure), Leads(args, c)
  PROVE  get_cmdline_composefs(args) = [id |-> root_id, insecure |-> insecure]
<1>1. PICK i \in DOMAIN args : args[i] = c /\ \A j \in 1 .. i - 1 : ~IsPrefix(Composefs, args[j])
  BY DEF Leads
<1>2. Len(args) \in Nat /\ DOMAIN args = 1 .. Len(args)
  BY DEF Leads, IsSeq
<1> DEFINE found == {j \in DOMAIN args : IsPrefix(<<"composefs", "=">>, args[j])}
           value == SubSeq(args[Min(found)], 3, Len(args[Min(found)]))
           q == value # <<>> /\ value[1] = "?"
<1>3. /\ IsPrefix(Composefs, c) /\ IsSeq(c) /\ Len(c) = IF insecure THEN 4 ELSE 3
      /\ c[Len(c)] = root_id /\ c[3] = IF insecure THEN "?" ELSE root_id
  BY ImageArgument
<1>4. Min(found) = i
  <2>1. i \in found /\ found \in SUBSET (1 .. Len(args))
    BY <1>1, <1>2, <1>3 DEF Composefs
  <2>2. \A y \in found : i <= y
    BY <1>1, <1>2 DEF Composefs
  <2> HIDE DEF found
  <2>3. Min(found) \in found /\ Min(found) <= i
    BY <1>2, <2>1, LeastIndex
  <2>4. i <= Min(found) /\ Min(found) \in 1 .. Len(args)
    BY <2>1, <2>2, <2>3
  <2>5. QED BY <1>2, <2>3, <2>4
<1>5. /\ Len(value) = (IF insecure THEN 2 ELSE 1) /\ value[Len(value)] = root_id
      /\ value[1] = "?" <=> insecure
  <2>1. value = SubSeq(c, 3, Len(c)) /\ c \in Seq(Range(c))
    BY <1>1, <1>3, <1>4 DEF IsSeq
  <2> HIDE DEF value
  <2>2. Len(value) = (IF insecure THEN 2 ELSE 1) /\ \A j \in 1 .. Len(value) : value[j] = c[j + 2]
    BY <1>3, <2>1
  <2>3. QED BY <1>3, <2>2
<1>6. found # {}
  BY <1>1, <1>3 DEF Composefs
<1>7. get_cmdline_composefs(args) =
        IF Len(value) = IF q THEN 2 ELSE 1 THEN [id |-> value[Len(value)], insecure |-> q] ELSE Error
  BY <1>6 DEF get_cmdline_composefs
<1>8. q = insecure
  <2> HIDE DEF value
  <2>1. value # <<>>
    <3>1. Len(value) # 0 /\ Len(<<>>) = 0
      BY <1>5
    <3>2. QED BY <3>1
  <2>2. QED BY <1>5, <2>1
<1> HIDE DEF value, q
<1>9. QED BY <1>5, <1>7, <1>8

-------------------------------------------------------------------------------
(* What an entry leads to *)

\* Relocating changes no name, and a file is one of the files of its name.
Carried(t, t1, n) ==
  /\ \A i \in 1 .. n :
       /\ t.lines[i].key = t1.lines[i].key
       /\ t.lines[i].key \in FileKeys => FileName(t.lines[i].value) = FileName(t1.lines[i].value)
       /\ t.lines[i].key \notin FileKeys => t.lines[i] = t1.lines[i]
  /\ \A f \in DOMAIN t.files :
       \E g \in DOMAIN t1.files : FileName(g) = FileName(f) /\ t.files[f] = t1.files[g]

LEMMA LineCarries ==
  ASSUME NEW t, NEW t1, NEW entry_id, NEW n \in Nat, NEW k \in 1 .. n,
         Relocating(t, entry_id, n, k - 1), Carried(t, t1, n)
  PROVE  Carried(RelocateLine(t, entry_id, k), t1, n)
<1> DEFINE old == t.lines[k].value
           path == <<entry_id, FileName(old)>>
           rest == [f \in DOMAIN t.files \ {old} |-> t.files[f]]
           now == RelocateLine(t, entry_id, k)
           changed == [t EXCEPT !.lines[k].value = path,
                                !.files = IF old \notin DOMAIN @ THEN @
                                          ELSE [f \in DOMAIN rest \cup {path} |->
                                                  IF f = path THEN @[old] ELSE rest[f]]]
<1>1. /\ DOMAIN t = {"filename", "lines", "files"}
      /\ IsLines(t.lines) /\ DOMAIN t.lines = 1 .. n
  BY DEF Relocating
<1>2. CASE t.lines[k].key \notin FileKeys
  <2>1. now = t
    BY <1>2 DEF RelocateLine
  <2>2. QED BY <2>1
<1>3. CASE t.lines[k].key \in FileKeys
  <2>1. now = changed
    BY <1>3 DEF RelocateLine
  <2>2. DOMAIN t.lines[k] = {"key", "value"} /\ k \in DOMAIN t.lines
    BY <1>1, <1>3, LinesAre
  <2>3. FileName(path) = FileName(old)
    BY DEF FileName
  <2> DEFINE lines == [t.lines EXCEPT ![k].value = path]
             files == IF old \notin DOMAIN t.files THEN t.files
                      ELSE [f \in DOMAIN rest \cup {path} |-> IF f = path THEN t.files[old] ELSE rest[f]]
  <2>4. now.lines = lines /\ now.files = files
    BY <1>1, <2>1
  <2>5. /\ \A j \in 1 .. n : j # k => lines[j] = t.lines[j]
        /\ lines[k].key = t.lines[k].key /\ lines[k].value = path
    BY <1>1, <2>2
  <2>6. ASSUME NEW f \in DOMAIN files
        PROVE  \/ f \in DOMAIN t.files /\ files[f] = t.files[f]
               \/ f = path /\ old \in DOMAIN t.files /\ files[f] = t.files[old]
    <3>1. CASE old \notin DOMAIN t.files
      BY <3>1
    <3>2. CASE old \in DOMAIN t.files
      BY <3>2
    <3>3. QED BY <3>1, <3>2
  <2> HIDE DEF lines, files, now, changed, rest, path, old
  <2>7. ASSUME NEW i \in 1 .. n
        PROVE  /\ lines[i].key = t1.lines[i].key
               /\ lines[i].key \in FileKeys => FileName(lines[i].value) = FileName(t1.lines[i].value)
               /\ lines[i].key \notin FileKeys => lines[i] = t1.lines[i]
    <3>1. CASE i = k
      BY <1>3, <2>3, <2>5, <3>1 DEF Carried, old
    <3>2. CASE i # k
      BY <2>5, <3>2 DEF Carried
    <3>3. QED BY <3>1, <3>2
  <2>8. ASSUME NEW f \in DOMAIN files
        PROVE  \E g \in DOMAIN t1.files : FileName(g) = FileName(f) /\ files[f] = t1.files[g]
    <3>1. CASE f \in DOMAIN t.files /\ files[f] = t.files[f]
      BY <3>1 DEF Carried
    <3>2. CASE f = path /\ old \in DOMAIN t.files /\ files[f] = t.files[old]
      BY <2>3, <3>2 DEF Carried
    <3>3. QED BY <2>6, <3>1, <3>2
  <2>9. QED BY <2>4, <2>7, <2>8 DEF Carried, now
<1>4. QED BY <1>2, <1>3

\* Files of the same name are the same.
NamesTell(files) == \A f, g \in DOMAIN files : FileName(f) = FileName(g) => files[f] = files[g]

\* Where no two files of a name differ, the lines lead to what they have led to.
LEMMA RelocateKeepsContent ==
  ASSUME NEW t1, NEW entry_id, IsType1(t1), HasArgs(t1.lines)
  PROVE  LET t == relocate(t1, entry_id)
         IN  /\ HasArgs(t.lines)
             /\ NamesTell(t1.files) => Named(t.lines, t.files) = Named(t1.lines, t1.files)
<1> DEFINE n == Len(t1.lines)
           start == [t1 EXCEPT !.filename = entry_id \o ".conf"]
           t == relocate(t1, entry_id)
<1>1. n \in Nat /\ DOMAIN t1.lines = 1 .. n
  BY LinesAre DEF IsType1
<1> HIDE DEF n
<1>2. PICK after : Relocates(after, t1, entry_id, n)
  BY <1>1, RelocationSteps
<1>3. DOMAIN start = {"filename", "lines", "files"} /\ start.lines = t1.lines /\ start.files = t1.files
  BY DEF IsType1
<1>4. after[0] = start
  BY <1>2 DEF Relocates
<1> HIDE DEF start
<1> DEFINE G == {k \in 0 .. n : Relocating(after[k], entry_id, n, k) /\ Carried(after[k], t1, n)}
<1>5. 0 \in G
  <2>1. \A j \in LinesWith(t1.lines, FileKeys) :
          /\ j \in 1 .. n /\ ~(j <= 0) /\ t1.lines[j].value \in PathsIn(t1.lines)
    BY <1>1 DEF LinesWith, PathsIn
  <2>2. \A j \in LinesWith(t1.lines, FileKeys) : t1.lines[j].value \in DOMAIN t1.files
    BY <2>1 DEF IsType1
  <2>3. Relocating(start, entry_id, n, 0)
    BY <1>1, <1>3, <2>1, <2>2 DEF Relocating, IsType1
  <2>4. Carried(start, t1, n)
    BY <1>3 DEF Carried
  <2>5. QED BY <1>1, <1>4, <2>3, <2>4
<1>6. ASSUME NEW k \in 1 .. n, k - 1 \in G PROVE k \in G
  <2>1. after[k] = RelocateLine(after[k - 1], entry_id, k)
    BY <1>2 DEF Relocates
  <2>2. Relocating(after[k - 1], entry_id, n, k - 1) /\ Carried(after[k - 1], t1, n)
    BY <1>6
  <2>3. Relocating(after[k], entry_id, n, k)
    BY <1>1, <2>1, <2>2, LineRelocates
  <2>4. Carried(after[k], t1, n)
    BY <1>1, <2>1, <2>2, LineCarries
  <2>5. QED BY <1>1, <2>3, <2>4
<1>7. Relocating(t, entry_id, n, n) /\ Carried(t, t1, n)
  <2> HIDE DEF G
  <2>1. 0 .. n \subseteq G
    BY <1>1, <1>5, <1>6, IndexInduction
  <2>2. n \in G /\ t = after[n]
    BY <1>1, <1>2, <2>1 DEF Relocates
  <2> HIDE DEF t
  <2>3. QED BY <2>2 DEF G
<1> HIDE DEF t
<1>8. DOMAIN t.lines = 1 .. n
  BY <1>7 DEF Relocating
<1>9. LinesWith(t.lines, FileKeys) = LinesWith(t1.lines, FileKeys)
  BY <1>1, <1>7, <1>8 DEF LinesWith, Carried
<1>10. ASSUME NamesTell(t1.files), NEW i \in LinesWith(t1.lines, FileKeys)
       PROVE  t.lines[i].key = t1.lines[i].key /\ t.files[t.lines[i].value] = t1.files[t1.lines[i].value]
  <2> DEFINE f == t.lines[i].value
             f1 == t1.lines[i].value
  <2>1. i \in 1 .. n /\ t1.lines[i].key \in FileKeys /\ i \in LinesWith(t.lines, FileKeys)
    BY <1>1, <1>9 DEF LinesWith
  <2>2. f \in DOMAIN t.files
    <3>1. \A j \in LinesWith(t.lines, FileKeys) : j <= n => t.lines[j].value \in DOMAIN t.files
      BY <1>7 DEF Relocating
    <3>2. i <= n
      BY <1>1, <2>1
    <3>3. QED BY <2>1, <3>1, <3>2
  <2>3. t.lines[i].key = t1.lines[i].key /\ FileName(f) = FileName(f1)
    BY <1>7, <2>1 DEF Carried
  <2>4. PICK g \in DOMAIN t1.files : FileName(g) = FileName(f) /\ t.files[f] = t1.files[g]
    BY <1>7, <2>2 DEF Carried
  <2>5. f1 \in DOMAIN t1.files
    BY DEF IsType1, PathsIn
  <2>6. QED BY <1>10, <2>3, <2>4, <2>5 DEF NamesTell
<1>11. NamesTell(t1.files) => Named(t.lines, t.files) = Named(t1.lines, t1.files)
  BY <1>9, <1>10 DEF Named
<1>12. HasArgs(t.lines)
  <2>1. ASSUME NEW i \in LinesWith(t.lines, {"options"})
        PROVE  i \in LinesWith(t1.lines, {"options"}) /\ t.lines[i] = t1.lines[i]
    <3>1. i \in 1 .. n /\ t.lines[i].key = "options"
      BY <1>8 DEF LinesWith
    <3>2. t.lines[i] = t1.lines[i]
      BY <1>7, <3>1 DEF Carried, FileKeys
    <3>3. QED BY <1>1, <3>1, <3>2 DEF LinesWith
  <2>2. QED BY <2>1 DEF HasArgs
<1>13. QED BY <1>11, <1>12 DEF t

\* The arguments that the kernel gets from an entry that is planned.
ArgsIn(pl) == IF IsLoaderEntry(pl.path) THEN Cmdline(pl.data) ELSE pl.data

LEMMA Type1Leads ==
  ASSUME NEW t1, IsType1(t1), HasArgs(t1.lines), NEW root_id, root_id # "?", NEW job \in Jobs,
         OwnPlaces(job.cmdline, make_cmdline_composefs(root_id, job.insecure))
  PROVE  LET pl == write_t1_simple(t1, root_id, job)
         IN  /\ IsLoaderEntry(pl.path)
             /\ get_cmdline_composefs(ArgsIn(pl)) = [id |-> root_id, insecure |-> job.insecure]
             /\ Range(job.cmdline) \subseteq Range(ArgsIn(pl))
             /\ Named(pl.data, pl.files) = Named(t1.lines, t1.files)
<1> DEFINE data == adjust_cmdline(t1.lines, root_id, job.insecure, job.cmdline)
           c == make_cmdline_composefs(root_id, job.insecure)
           path == <<"loader", "entries", t1.filename>>
           pl == write_t1_simple(t1, root_id, job)
           args == OptionsOf(data)
           all == Cmdline(data)
<1>1. pl.files = t1.files /\ pl.path = path /\ pl.data = data
  BY DEF write_t1_simple
<1>2. IsLoaderEntry(path)
  BY DEF IsLoaderEntry
<1>3. job.insecure \in BOOLEAN /\ IsSeq(job.cmdline) /\ \A a \in Range(job.cmdline) : IsSeq(a)
  BY DeployConstants DEF IsSeq
<1>4. IsPrefix(Composefs, c) /\ IsSeq(c)
  BY <1>3, ImageArgument
<1>5. IsLines(t1.lines)
  BY DEF IsType1
<1>6. /\ IsLines(data) /\ HasArgs(data) /\ LinesWith(data, {"options"}) # {}
      /\ Leads(OptionsOf(data), c) /\ Range(job.cmdline) \subseteq Range(OptionsOf(data))
      /\ LinesWith(data, FileKeys) = LinesWith(t1.lines, FileKeys)
      /\ \A i \in LinesWith(t1.lines, FileKeys) : data[i] = t1.lines[i]
  <2> HIDE DEF c
  <2> DEFINE extra == job.cmdline
             insecure == job.insecure
             lines == t1.lines
  <2>1. /\ IsLines(lines) /\ HasArgs(lines) /\ IsSeq(extra) /\ \A a \in Range(extra) : IsSeq(a)
        /\ c = make_cmdline_composefs(root_id, insecure) /\ IsSeq(c) /\ IsPrefix(Composefs, c)
        /\ OwnPlaces(extra, c)
    BY <1>3, <1>4, <1>5 DEF c
  <2>2. data = adjust_cmdline(lines, root_id, insecure, extra)
    OBVIOUS
  <2> HIDE DEF data, extra, insecure, lines
  <2>3. /\ IsLines(data) /\ HasArgs(data) /\ LinesWith(data, {"options"}) # {}
        /\ Leads(OptionsOf(data), c) /\ Range(extra) \subseteq Range(OptionsOf(data))
        /\ LinesWith(data, FileKeys) = LinesWith(lines, FileKeys)
        /\ \A i \in LinesWith(lines, FileKeys) : data[i] = lines[i]
    BY <2>1, <2>2, AllArgumentsAreThere
  <2>4. QED BY <2>3 DEF extra, lines
<1> HIDE DEF data, pl, path
<1>7. /\ IsSeq(args) /\ IsSeq(all) /\ DOMAIN args \subseteq DOMAIN all
      /\ \A j \in DOMAIN args : all[j] = args[j]
  BY <1>6, FirstOptionsLead
<1>8. ArgsIn(pl) = all
  BY <1>1, <1>2 DEF ArgsIn
<1> HIDE DEF args, all, c
<1>9. Leads(all, c)
  <2>1. PICK i \in DOMAIN args : args[i] = c /\ \A j \in 1 .. i - 1 : ~IsPrefix(Composefs, args[j])
    BY <1>6 DEF Leads, args
  <2>2. \A j \in 1 .. i - 1 : j \in DOMAIN args
    BY <1>7, <2>1 DEF IsSeq
  <2>3. QED BY <1>7, <2>1, <2>2 DEF Leads
<1>10. get_cmdline_composefs(all) = [id |-> root_id, insecure |-> job.insecure]
  BY <1>3, <1>9, AddressIsFound DEF c
<1>11. Range(job.cmdline) \subseteq Range(all)
  <2>1. Range(args) \subseteq Range(all)
    BY <1>7 DEF Range
  <2>2. QED BY <1>6, <2>1 DEF args
<1>12. Named(data, t1.files) = Named(t1.lines, t1.files)
  BY <1>6 DEF Named
<1>13. QED BY <1>1, <1>2, <1>8, <1>10, <1>11, <1>12 DEF pl

\* What is made of a kernel and its initramfs leads to these.
LEMMA KernelLeads ==
  ASSUME NEW entry, NEW entry_id, into_type1(entry, entry_id) # Error
  PROVE  LET t == into_type1(entry, entry_id)
         IN  /\ HasArgs(t.lines) /\ NamesTell(t.files)
             /\ Named(t.lines, t.files) = <<<<"linux", entry.vmlinuz>>, <<"initrd", entry.initramfs>>>>
<1> DEFINE kid == IF entry_id = None THEN entry.kver ELSE entry_id
           vmlinuz == <<kid, "vmlinuz">>
           initramfs == <<kid, "initramfs.img">>
           lines == <<[key |-> "linux", value |-> vmlinuz], [key |-> "initrd", value |-> initramfs]>>
           files == [f \in {vmlinuz, initramfs} |-> IF f = vmlinuz THEN entry.vmlinuz ELSE entry.initramfs]
           filename == kid \o ".conf"
           t == [filename |-> filename, lines |-> lines, files |-> files]
           wanted == <<<<"linux", entry.vmlinuz>>, <<"initrd", entry.initramfs>>>>
<1>1. into_type1(entry, entry_id) = t
  BY DEF into_type1
<1>2. FileName(vmlinuz) = "vmlinuz" /\ FileName(initramfs) = "initramfs.img"
  BY DEF FileName
<1> HIDE DEF kid, vmlinuz, initramfs, filename
<1>3. vmlinuz # initramfs
  BY <1>2
<1>4. /\ DOMAIN lines = {1, 2}
      /\ lines[1].key = "linux" /\ lines[1].value = vmlinuz
      /\ lines[2].key = "initrd" /\ lines[2].value = initramfs
  OBVIOUS
<1>5. DOMAIN files = {vmlinuz, initramfs} /\ files[vmlinuz] = entry.vmlinuz /\ files[initramfs] = entry.initramfs
  BY <1>3
<1>6. t.lines = lines /\ t.files = files
  OBVIOUS
<1>7. wanted[1] = <<"linux", entry.vmlinuz>> /\ wanted[2] = <<"initrd", entry.initramfs>> /\ DOMAIN wanted = {1, 2}
  OBVIOUS
<1>8. wanted = [i \in {1, 2} |-> wanted[i]]
  BY <1>7
<1> HIDE DEF lines, files, t, wanted
<1>9. HasArgs(lines)
  BY <1>4 DEF HasArgs, LinesWith
<1>10. NamesTell(files)
  BY <1>2, <1>5 DEF NamesTell
<1>11. LinesWith(lines, FileKeys) = {1, 2}
  BY <1>4 DEF LinesWith, FileKeys
<1>12. Named(lines, files) = [i \in {1, 2} |-> <<lines[i].key, files[lines[i].value]>>]
  BY <1>11 DEF Named
<1>13. \A i \in {1, 2} : <<lines[i].key, files[lines[i].value]>> = wanted[i]
  BY <1>4, <1>5, <1>7
<1>14. Named(lines, files) = wanted
  BY <1>8, <1>12, <1>13
<1>15. QED BY <1>1, <1>6, <1>9, <1>10, <1>14 DEF wanted

\* What get_cmdline_composefs gives if it gives anything.
LEMMA AddressIs ==
  ASSUME NEW args, get_cmdline_composefs(args) # Error
  PROVE  get_cmdline_composefs(args).insecure \in BOOLEAN
<1> DEFINE found == {i \in DOMAIN args : IsPrefix(<<"composefs", "=">>, args[i])}
           value == SubSeq(args[Min(found)], 3, Len(args[Min(found)]))
           q == value # <<>> /\ value[1] = "?"
           address == [id |-> value[Len(value)], insecure |-> q]
<1>1. get_cmdline_composefs(args) = address
  BY DEF get_cmdline_composefs
<1>2. q \in BOOLEAN
  OBVIOUS
<1> HIDE DEF q
<1>3. address.insecure = q
  OBVIOUS
<1>4. QED BY <1>1, <1>2, <1>3

LEMMA RelocatedLeads ==
  ASSUME NEW t1, IsType1(t1), HasArgs(t1.lines), NEW job
  PROVE  LET t == Relocated(t1, job)
         IN  /\ IsType1(t) /\ HasArgs(t.lines)
             /\ job.entry_id = None \/ NamesTell(t1.files) => Named(t.lines, t.files) = Named(t1.lines, t1.files)
<1>1. CASE job.entry_id = None
  BY <1>1 DEF Relocated
<1>2. CASE job.entry_id # None
  <2>1. Relocated(t1, job) = relocate(t1, job.entry_id)
    BY <1>2 DEF Relocated
  <2>2. IsType1(relocate(t1, job.entry_id))
    BY RelocateKeepsFiles
  <2>3. /\ HasArgs(relocate(t1, job.entry_id).lines)
        /\ NamesTell(t1.files) => Named(relocate(t1, job.entry_id).lines, relocate(t1, job.entry_id).files)
                                  = Named(t1.lines, t1.files)
    BY RelocateKeepsContent
  <2>4. QED BY <1>2, <2>1, <2>2, <2>3
<1>3. QED BY <1>1, <1>2

\* An entry that leads to the image, to the kernel that is wanted and to what is asked for.
LeadsToImage(pl, found, root_id, job) ==
  LET address == get_cmdline_composefs(ArgsIn(pl))
  IN  /\ address # Error /\ address.id = root_id /\ address.insecure \in BOOLEAN
      /\ IsLoaderEntry(pl.path) =>
           /\ address.insecure = job.insecure
           /\ Range(job.cmdline) \subseteq Range(ArgsIn(pl))
           /\ Apart(found, job.entry_id) => Named(pl.data, pl.files) = Wanted(found)

\* Whatever is planned leads to the image, and an entry to its kernel with what is asked for.
LEMMA PlanLeads ==
  ASSUME NEW c \in DOMAIN Containers, NEW root_id, root_id # "?", NEW job \in Jobs,
         Plan(Resources[c], root_id, job) # Error,
         OwnPlaces(job.cmdline, make_cmdline_composefs(root_id, job.insecure)),
         [id |-> root_id, insecure |-> job.insecure] # Error
  PROVE  LeadsToImage(Plan(Resources[c], root_id, job), Resources[c][1], root_id, job)
<1> DEFINE found == Resources[c][1]
           entry == found.entry
           pl == Plan(Resources[c], root_id, job)
           address == get_cmdline_composefs(ArgsIn(pl))
           record == [id |-> root_id, insecure |-> job.insecure]
<1>1. /\ ~Failed(Resources[c]) /\ Resources[c] # <<>>
      /\ pl = write_boot_simple(found, root_id, job)
  BY DEF Plan, Failed
<1>2. CanBeWritten(found)
  BY <1>1, FirstCanBeWritten
<1>3. job.insecure \in BOOLEAN
  BY DeployConstants
<1>4. record.id = root_id /\ record.insecure = job.insecure /\ record # Error
  OBVIOUS
<1> HIDE DEF found, record
<1>5. ASSUME NEW t1, IsType1(t1), HasArgs(t1.lines), pl = write_t1_simple(Relocated(t1, job), root_id, job)
      PROVE  /\ address = record /\ Range(job.cmdline) \subseteq Range(ArgsIn(pl))
             /\ job.entry_id = None \/ NamesTell(t1.files) => Named(pl.data, pl.files) = Named(t1.lines, t1.files)
  <2> DEFINE t == Relocated(t1, job)
  <2>1. /\ IsType1(t) /\ HasArgs(t.lines)
        /\ job.entry_id = None \/ NamesTell(t1.files) => Named(t.lines, t.files) = Named(t1.lines, t1.files)
    BY <1>5, RelocatedLeads
  <2> HIDE DEF t
  <2> DEFINE w == write_t1_simple(t, root_id, job)
  <2>2. /\ get_cmdline_composefs(ArgsIn(w)) = [id |-> root_id, insecure |-> job.insecure]
        /\ Range(job.cmdline) \subseteq Range(ArgsIn(w))
        /\ Named(w.data, w.files) = Named(t.lines, t.files)
    BY <2>1, Type1Leads
  <2>3. pl = w
    BY <1>5 DEF t
  <2> HIDE DEF w, pl
  <2>4. QED BY <2>1, <2>2, <2>3 DEF record
<1>6. CASE found.type = 1
  <2>0. found.type # 2 /\ found.type # 3
    BY <1>6
  <2>1. pl = write_t1_simple(Relocated(entry, job), root_id, job)
    BY <1>1, <1>6, <2>0, Zenon DEF write_boot_simple
  <2>2. IsType1(entry) /\ HasArgs(entry.lines)
    BY <1>2, <1>6 DEF CanBeWritten
  <2>3. Wanted(found) = Named(entry.lines, entry.files)
    BY <1>6, <2>0, Zenon DEF Wanted
  <2>4. Apart(found, job.entry_id) => job.entry_id = None \/ NamesTell(entry.files)
    BY <1>6 DEF Apart, NamesTell
  <2> HIDE DEF entry, pl
  <2>5. /\ address = record /\ Range(job.cmdline) \subseteq Range(ArgsIn(pl))
        /\ job.entry_id = None \/ NamesTell(entry.files) => Named(pl.data, pl.files) = Named(entry.lines, entry.files)
    BY <1>5, <2>1, <2>2
  <2> HIDE DEF address
  <2>6. QED BY <1>3, <1>4, <2>3, <2>4, <2>5 DEF LeadsToImage, address, pl, found
<1>7. CASE found.type = 3
  <2> DEFINE t1 == into_type1(entry, job.entry_id)
             r == IF Failed(t1) THEN Error ELSE write_t1_simple(Relocated(t1, job), root_id, job)
  <2>0. found.type # 1 /\ found.type # 2
    BY <1>7
  <2>1. pl = r
    BY <1>1, <1>7, <2>0, Zenon DEF write_boot_simple
  <2>2. t1 # Error /\ pl = write_t1_simple(Relocated(t1, job), root_id, job)
    BY <2>1 DEF Failed
  <2>3. IsType1(t1)
    BY <1>2, <1>7, <2>2, KernelIsType1 DEF CanBeWritten
  <2>4. /\ HasArgs(t1.lines) /\ NamesTell(t1.files)
        /\ Named(t1.lines, t1.files) = <<<<"linux", entry.vmlinuz>>, <<"initrd", entry.initramfs>>>>
    <3> HIDE DEF entry
    <3>1. QED BY <2>2, KernelLeads
  <2>5. Wanted(found) = <<<<"linux", entry.vmlinuz>>, <<"initrd", entry.initramfs>>>>
    BY <1>7, <2>0, Zenon DEF Wanted
  <2> HIDE DEF entry, pl, t1
  <2>6. /\ address = record /\ Range(job.cmdline) \subseteq Range(ArgsIn(pl))
        /\ job.entry_id = None \/ NamesTell(t1.files) => Named(pl.data, pl.files) = Named(t1.lines, t1.files)
    BY <1>5, <2>2, <2>3, <2>4
  <2> HIDE DEF address
  <2>7. QED BY <1>3, <1>4, <2>4, <2>5, <2>6 DEF LeadsToImage, address, pl, found
<1>8. CASE found.type = 2
  <2> DEFINE t2 == Renamed(entry, job)
             r == IF job.cmdline # <<>> THEN Error ELSE write_t2_simple(t2, root_id)
             uki == IF t2.data = None THEN Error ELSE get_cmdline_composefs(t2.data)
  <2>0. found.type # 1 /\ found.type # 3
    BY <1>8
  <2>1. pl = r
    BY <1>1, <1>8, <2>0, Zenon DEF write_boot_simple
  <2>2. pl = write_t2_simple(t2, root_id) /\ pl # Error
    BY <2>1
  <2> HIDE DEF t2, pl
  <2>3. pl = FileOf(t2) /\ uki # Error /\ uki.id = root_id
    BY <2>2 DEF write_t2_simple, Failed
  <2>4. uki = get_cmdline_composefs(t2.data)
    BY <2>3
  <2>5. pl.data = t2.data /\ pl.path = <<"EFI", "Linux">> \o t2.file_path
    BY <2>3 DEF FileOf
  <2>6. ~IsLoaderEntry(pl.path)
    <3>1. IsSeq(t2.file_path)
      BY <1>2, <1>8, RenamedIsSeq DEF CanBeWritten, t2
    <3> DEFINE s == t2.file_path
    <3>2. (<<"EFI", "Linux">> \o s)[1] = "EFI"
      <4>1. IsSeq(s)
        BY <3>1
      <4> HIDE DEF s
      <4>2. QED BY <4>1 DEF IsSeq
    <3>3. QED BY <2>5, <3>2 DEF IsLoaderEntry
  <2>7. address = uki
    BY <2>4, <2>5, <2>6 DEF ArgsIn
  <2>8. uki.insecure \in BOOLEAN
    <3> DEFINE data == t2.data
    <3>1. get_cmdline_composefs(data) # Error
      BY <2>3, <2>4
    <3> HIDE DEF data
    <3>2. get_cmdline_composefs(data).insecure \in BOOLEAN
      BY <3>1, AddressIs
    <3>3. QED BY <2>4, <3>2 DEF data
  <2> HIDE DEF address, uki
  <2>9. QED BY <2>3, <2>6, <2>7, <2>8 DEF LeadsToImage, address, pl, found
<1>9. QED BY <1>2, <1>6, <1>7, <1>8 DEF CanBeWritten

-------------------------------------------------------------------------------
(* The image *)

ShortPath(n) == <<n>>

LEMMA ShortPaths ==
  ASSUME NEW n, NEW m
  PROVE  ~Below(ShortPath(n), ShortPath(m)) /\ Ancestors(ShortPath(n)) = {<<>>, ShortPath(n)}
<1> DEFINE p == ShortPath(n)
           q == ShortPath(m)
<1>1. p \in Seq({n}) /\ Len(p) = 1 /\ q \in Seq({m}) /\ Len(q) = 1
  BY DEF ShortPath
<1> HIDE DEF p, q
<1>2. SubSeq(q, 1, Len(p)) = q
  BY <1>1
<1>3. SubSeq(p, 1, 0) = <<>> /\ SubSeq(p, 1, 1) = p
  BY <1>1
<1>4. 0 .. Len(p) = {0, 1}
  BY <1>1
<1>5. Ancestors(p) = {<<>>, p}
  BY <1>3, <1>4 DEF Ancestors
<1>6. QED BY <1>2, <1>5 DEF Below, In, p, q

\* What is left in an image: all but what has been in /boot and /sysroot, each as what it is.
LEMMA ImageNodes ==
  ASSUME NEW c \in DOMAIN Containers, Rendered[c] # Error
  PROVE  LET tree == Containers[c] image == Rendered[c]
         IN  /\ CanTransformForBoot(tree) /\ image = selabel(EmptyToplevel(tree))
             /\ DOMAIN image = {r \in DOMAIN tree : \A p \in ToEmpty : ~Below(p, r)}
             /\ \A q \in DOMAIN image : image[q].dir = tree[q].dir
<1> DEFINE tree == Containers[c]
           image == Rendered[c]
           emptied == EmptyToplevel(tree)
           D == {r \in DOMAIN tree : \A p \in ToEmpty : ~Below(p, r)}
<1>1. CanTransformForBoot(tree) /\ image = selabel(emptied)
  BY DEF Rendered, transform_for_boot
<1>2. \A q \in D : IsNode(tree[q])
  BY DeployConstants
<1>3. /\ DOMAIN emptied = D
      /\ \A q \in D : /\ emptied[q].dir = tree[q].dir
                      /\ {"dir", "stat"} \subseteq DOMAIN emptied[q]
  <2>1. emptied = [q \in D |-> IF q \in ToEmpty THEN [tree[q] EXCEPT !.stat.mtime = tree[<<"usr">>].stat.mtime] ELSE tree[q]]
    BY DEF EmptyToplevel
  <2> HIDE DEF D, emptied, tree
  <2>2. DOMAIN emptied = D
    BY <2>1
  <2>3. ASSUME NEW q \in D
        PROVE  emptied[q].dir = tree[q].dir /\ {"dir", "stat"} \subseteq DOMAIN emptied[q]
    <3> DEFINE changed == [tree[q] EXCEPT !.stat.mtime = tree[<<"usr">>].stat.mtime]
    <3>1. {"dir", "stat"} \subseteq DOMAIN tree[q]
      BY <1>2 DEF IsNode
    <3>2. DOMAIN changed = DOMAIN tree[q] /\ changed.dir = tree[q].dir
      BY <3>1
    <3>3. emptied[q] = IF q \in ToEmpty THEN changed ELSE tree[q]
      BY <2>1
    <3> HIDE DEF changed
    <3>4. QED BY <3>1, <3>2, <3>3
  <2>4. QED BY <2>2, <2>3
<1> HIDE DEF tree, image, emptied, D
<1> DEFINE etc_selinux == <<"etc", "selinux">>
           name == openat(emptied, Append(etc_selinux, "config"))
           dir == etc_selinux \o <<name, "contexts", "files">>
           policy == build(emptied, dir)
           strip == strip_selinux_labels(emptied)
           labels == relabel_dir(emptied, policy)
           labelled == IF name \in {None} THEN strip
                       ELSE IF name = Error \/ ~get_directory(emptied, dir) \/ policy = Error THEN Error
                       ELSE labels
<1>4. image \in {strip, labels}
  <2>1. selabel(emptied) = InDirectory(emptied, etc_selinux, strip, labelled)
    BY DEF selabel
  <2>2. selabel(emptied) \in {strip, labelled, Error}
    <3> HIDE DEF labelled, strip, etc_selinux
    <3>1. QED BY <2>1, InDirectoryIs
  <2>3. labelled \in {strip, labels, Error}
    <3> HIDE DEF name, dir, policy, strip, labels
    <3>1. QED OBVIOUS
  <2> HIDE DEF labelled, strip, labels
  <2>4. image # Error
    BY DEF image
  <2>5. QED BY <1>1, <2>2, <2>3, <2>4
<1>5. ASSUME NEW r, NEW stat, r = [p \in DOMAIN emptied |-> [emptied[p] EXCEPT !.stat = stat[p]]]
      PROVE  DOMAIN r = D /\ \A q \in D : r[q].dir = tree[q].dir
  <2>1. \A q \in D : [emptied[q] EXCEPT !.stat = stat[q]].dir = emptied[q].dir
    BY <1>3
  <2>2. DOMAIN r = D /\ \A q \in D : r[q] = [emptied[q] EXCEPT !.stat = stat[q]]
    BY <1>3, <1>5
  <2>3. QED BY <1>3, <2>1, <2>2
<1>6. DOMAIN strip = D /\ \A q \in D : strip[q].dir = tree[q].dir
  <2> DEFINE stat == [p \in DOMAIN emptied |-> WithLabel(emptied[p].stat, "<<none>>")]
  <2>1. \A p \in DOMAIN emptied : stat[p] = WithLabel(emptied[p].stat, "<<none>>")
    OBVIOUS
  <2> HIDE DEF stat
  <2>2. strip = [p \in DOMAIN emptied |-> [emptied[p] EXCEPT !.stat = stat[p]]]
    BY <2>1 DEF strip_selinux_labels
  <2> HIDE DEF strip
  <2>3. QED BY <1>5, <2>2
<1>7. DOMAIN labels = D /\ \A q \in D : labels[q].dir = tree[q].dir
  <2> DEFINE label(p) == WithLabel(emptied[p].stat, ContextOf(policy, LookupPath(policy, LastLink(emptied, p)), Ifmt(emptied[p])))
             stat == [p \in DOMAIN emptied |-> label(p)]
  <2>1. \A p \in DOMAIN emptied : stat[p] = label(p)
    OBVIOUS
  <2> HIDE DEF stat
  <2>2. labels = [p \in DOMAIN emptied |-> [emptied[p] EXCEPT !.stat = stat[p]]]
    BY <2>1 DEF relabel_dir
  <2> HIDE DEF labels
  <2>3. QED BY <1>5, <2>2
<1> HIDE DEF strip, labels
<1>8. QED BY <1>1, <1>4, <1>6, <1>7 DEF tree, image, emptied, D

\* A directory of the container at the top that is not emptied is one of the image.
LEMMA ImageHasDir ==
  ASSUME NEW c \in DOMAIN Containers, Rendered[c] # Error, NEW n, get_directory(Containers[c], <<n>>)
  PROVE  get_directory(Rendered[c], <<n>>)
<1> DEFINE tree == Containers[c]
           image == Rendered[c]
           p == ShortPath(n)
<1>1. /\ DOMAIN image = {r \in DOMAIN tree : \A q \in ToEmpty : ~Below(q, r)}
      /\ \A q \in DOMAIN image : image[q].dir = tree[q].dir
  BY ImageNodes
<1>2. get_directory(tree, p)
  BY DEF ShortPath
<1>3. ToEmpty = {ShortPath("boot"), ShortPath("sysroot")}
  BY DEF ToEmpty, ShortPath
<1>4. \A q \in ToEmpty : ~Below(q, p)
  BY <1>3, ShortPaths
<1> HIDE DEF tree, image, p
<1>5. p \in DOMAIN tree /\ \A q \in Ancestors(p) : ~(q \in DOMAIN tree /\ ~tree[q].dir)
  BY <1>2 DEF get_directory, get_directory_opt
<1>6. p \in DOMAIN image /\ \A q \in Ancestors(p) : ~(q \in DOMAIN image /\ ~image[q].dir)
  BY <1>1, <1>4, <1>5
<1>7. get_directory(image, p)
  BY <1>6 DEF get_directory, get_directory_opt
<1>8. QED BY <1>7 DEF image, p, ShortPath

\* Emptying what is empty already gives the same.
LEMMA EmptiedBefore ==
  ASSUME NEW tree, get_directory(tree, <<"usr">>)
  PROVE  EmptyToplevel(clear(tree, <<"boot">>)) = EmptyToplevel(tree)
<1> DEFINE boot == ShortPath("boot")
           usr == ShortPath("usr")
           less == clear(tree, boot)
           D == {r \in DOMAIN tree : \A p \in ToEmpty : ~Below(p, r)}
           D2 == {r \in DOMAIN less : \A p \in ToEmpty : ~Below(p, r)}
           f(t) == [q \in D |-> IF q \in ToEmpty THEN [t[q] EXCEPT !.stat.mtime = t[usr].stat.mtime] ELSE t[q]]
<1>1. boot \in ToEmpty /\ boot = <<"boot">> /\ usr = <<"usr">>
  BY DEF ToEmpty, ShortPath
<1>2. usr \in DOMAIN tree /\ ~Below(boot, usr)
  BY ShortPaths DEF get_directory, get_directory_opt, ShortPath
<1>3. /\ DOMAIN less = DOMAIN tree \ {q \in DOMAIN tree : Below(boot, q)}
      /\ \A q \in DOMAIN less : less[q] = tree[q]
  BY DEF clear, Without
<1> HIDE DEF boot, usr, less
<1>4. D2 = D
  BY <1>1, <1>3
<1>5. D \subseteq DOMAIN less /\ usr \in DOMAIN less
  BY <1>1, <1>2, <1>3
<1>6. EmptyToplevel(less) = f(less) /\ EmptyToplevel(tree) = f(tree)
  <2>1. EmptyToplevel(less) = [q \in D2 |-> IF q \in ToEmpty THEN [less[q] EXCEPT !.stat.mtime = less[<<"usr">>].stat.mtime] ELSE less[q]]
    BY DEF EmptyToplevel
  <2>2. EmptyToplevel(tree) = [q \in D |-> IF q \in ToEmpty THEN [tree[q] EXCEPT !.stat.mtime = tree[<<"usr">>].stat.mtime] ELSE tree[q]]
    BY DEF EmptyToplevel
  <2> HIDE DEF D, D2
  <2>3. QED BY <1>1, <1>4, <2>1, <2>2
<1>7. \A q \in D : less[q] = tree[q]
  BY <1>3, <1>5
<1> HIDE DEF D
<1>8. less[usr] = tree[usr]
  BY <1>3, <1>5
<1>9. f(less) = f(tree)
  BY <1>7, <1>8
<1>10. QED BY <1>1, <1>6, <1>9 DEF less

\* A container whose UKI is for its image can be prepared.
LEMMA SealedIsPlanned ==
  ASSUME NEW c \in SealedConfigs, NEW job \in Jobs, job.cmdline = <<>>
  PROVE  Rendered[c] # Error /\ Plan(Resources[c], Digest[Rendered[c]], job) # Error
<1> DEFINE tree == Containers[c]
           image == selabel(EmptyToplevel(clear(tree, <<"boot">>)))
           found == Resources[c][1]
           entry == found.entry
           t2 == Renamed(entry, job)
           address == get_cmdline_composefs(entry.data)
<1>1. c \in DOMAIN Containers /\ Sealed(tree, Resources[c])
  BY DEF SealedConfigs
<1>2. /\ CanTransformForBoot(tree) /\ ~Failed(image) /\ Resources[c] # <<>> /\ found.type = 2
      /\ ~entry.addon /\ entry.data # None /\ ~Failed(address) /\ address.id = Digest[image]
  BY <1>1 DEF Sealed
<1>3. Resources[c] # Error
  BY <1>1, <1>2 DEF CanTransformForBoot, Failed, Resources
<1>4. get_directory(tree, <<"usr">>)
  BY <1>2 DEF CanTransformForBoot
<1>5. image = Rendered[c]
  <2>1. EmptyToplevel(clear(tree, <<"boot">>)) = EmptyToplevel(tree)
    BY <1>4, EmptiedBefore
  <2>2. QED BY <1>1, <1>2, <2>1 DEF Rendered, transform_for_boot
<1> DEFINE root_id == Digest[image]
           found2 == IF job.cmdline # <<>> THEN Error ELSE write_t2_simple(t2, root_id)
<1>6. CanBeWritten(found)
  BY <1>1, <1>2, <1>3, FirstCanBeWritten DEF Failed
<1>7. Plan(Resources[c], root_id, job) = write_boot_simple(found, root_id, job)
  BY <1>2, <1>3 DEF Plan, Failed
<1> HIDE DEF image, root_id, address
<1>8. write_boot_simple(found, root_id, job) = write_t2_simple(t2, root_id)
  <2>1. found.type # 1 /\ found.type # 3
    BY <1>2
  <2>2. write_boot_simple(found, root_id, job) = found2
    BY <1>2, <2>1, Zenon DEF write_boot_simple
  <2>3. QED BY <2>2
<1>9. /\ IsUki(entry) /\ IsSeq(entry.file_path) /\ FileOf(t2) # Error
  BY <1>2, <1>6 DEF CanBeWritten
<1> HIDE DEF found, entry, t2
<1>10. Len(entry.file_path) <= 1
  <2>1. ~(Len(entry.file_path) > 1)
    BY <1>2, <1>9, Zenon DEF IsUki
  <2>2. Len(entry.file_path) \in Nat
    BY <1>9 DEF IsSeq
  <2>3. QED BY <2>1, <2>2
<1>11. /\ t2.data = entry.data /\ Len(t2.file_path) <= 1 /\ Len(t2.file_path) \in Nat
  <2>1. IsSeq(t2.file_path) /\ t2.data = entry.data /\ Len(t2.file_path) <= 1
    BY <1>9, <1>10, RenamedIsSeq DEF t2
  <2>2. QED BY <2>1 DEF IsSeq
<1>12. write_t2_simple(t2, root_id) = FileOf(t2)
  BY <1>2, <1>11 DEF write_t2_simple, address, root_id
<1>13. QED BY <1>2, <1>5, <1>7, <1>8, <1>9, <1>12 DEF Failed, root_id

-------------------------------------------------------------------------------
(* What is deployed *)

\* What a process has for an image and to write is what its job and container give.
PlansMade ==
  \A p \in Process : pc[p] # "start" =>
    LET job == jobs[p] image == Rendered[job.config]
    IN  /\ id[p] = IF Failed(image) \/ ~Allowed(job.insecure) THEN None ELSE Digest[image]
        /\ plan[p] = IF id[p] = None THEN Error ELSE Plan(Resources[job.config], id[p], job)
        /\ pc[p] = "failed" => plan[p] = Error

\* What nobody else writes is as it has been written.
FilesIntact ==
  \A p \in Process : plan[p] # Error /\ ~Disturbed(p) =>
    /\ \A f \in DOMAIN plan[p].files \ todo[p] : bootdir[f] = plan[p].files[f]
    /\ pc[p] \in {"var", "upper", "work", "done"} =>
         todo[p] = {} /\ plan[p].path \in DOMAIN bootdir /\ bootdir[plan[p].path] = plan[p].data

\* The directories of the state that have been made are there.
StateMade ==
  \A p \in Process :
    /\ pc[p] \in {"upper", "work", "done"} => id[p] \in DOMAIN state /\ "var" \in state[id[p]].dirs
    /\ pc[p] \in {"work", "done"} => "upper" \in state[id[p]].dirs

DInv == IInv /\ PlansMade /\ FilesIntact /\ StateMade

\* More may disturb a deployment, and nothing that has does so no more.
LEMMA StillDisturbed ==
  ASSUME \A q \in Process : PathsOf(q) \subseteq PathsOf(q)'
  PROVE  \A p \in Process : Disturbed(p) => Disturbed(p)'
<1>1. ASSUME NEW p \in Process, NEW q \in Process \ {p}, PathsOf(p) \cap PathsOf(q) # {}
      PROVE  (PathsOf(p) \cap PathsOf(q) # {})'
  <2>1. PICK f : f \in PathsOf(p) /\ f \in PathsOf(q)
    BY <1>1
  <2>2. f \in PathsOf(p)' /\ f \in PathsOf(q)'
    BY <2>1
  <2>3. QED BY <2>2
<1>2. QED BY <1>1 DEF Disturbed

\* What is written by somebody else is no file of who is not disturbed.
LEMMA NotDisturbed ==
  ASSUME NEW p \in Process, ~Disturbed(p), NEW q \in Process, q # p, NEW f \in PathsOf(q)
  PROVE  f \notin PathsOf(p)
BY DEF Disturbed

LEMMA StateMadeStays ==
  ASSUME IInv, StateMade, Kept, UNCHANGED id,
         \A q \in Process : pc'[q] \in {"upper", "work", "done"} => pc'[q] = pc[q]
  PROVE  StateMade'
<1>1. ASSUME NEW q \in Process, pc'[q] \in {"upper", "work", "done"}
      PROVE  /\ id'[q] \in DOMAIN state' /\ "var" \in state'[id'[q]].dirs
             /\ pc'[q] \in {"work", "done"} => "upper" \in state'[id'[q]].dirs
  <2>1. /\ pc[q] = pc'[q] /\ id[q] \in DOMAIN state /\ "var" \in state[id[q]].dirs
        /\ pc[q] \in {"work", "done"} => "upper" \in state[id[q]].dirs
    BY <1>1 DEF StateMade
  <2>2. id[q] \in DOMAIN state' /\ state[id[q]].dirs \subseteq state'[id[q]].dirs
    BY <2>1 DEF Kept
  <2>3. QED BY <2>1, <2>2
<1>2. QED BY <1>1 DEF StateMade

LEMMA DeployedAtStart ==
  ASSUME Init
  PROVE  DInv
<1>1. PlansMade /\ FilesIntact /\ StateMade
  BY DEF Init, PlansMade, FilesIntact, StateMade
<1>2. QED BY <1>1, Start DEF DInv

\* A step that changes neither plans nor the boot partition.
LEMMA DeployedStays ==
  ASSUME DInv, UNCHANGED <<fsverity, jobs, id, plan, todo, bootdir>>,
         \A q \in Process : /\ pc'[q] = "start" <=> pc[q] = "start"
                            /\ pc'[q] = "failed" <=> pc[q] = "failed"
                            /\ pc'[q] \in {"var", "upper", "work", "done"} => pc[q] \in {"var", "upper", "work", "done"}
  PROVE  PlansMade' /\ FilesIntact'
<1>1. PlansMade'
  BY DEF DInv, PlansMade, Allowed
<1>2. \A q \in Process : PathsOf(q)' = PathsOf(q)
  BY DEF PathsOf, Failed
<1>3. \A q \in Process : Disturbed(q)' = Disturbed(q)
  BY <1>2 DEF Disturbed
<1>4. FilesIntact'
  BY <1>3 DEF DInv, FilesIntact
<1>5. QED BY <1>1, <1>4

LEMMA PrepareBootDeploys ==
  ASSUME DInv, NEW p \in Process, PrepareBoot(p)
  PROVE  PlansMade' /\ FilesIntact' /\ StateMade'
<1> DEFINE job == jobs[p]
           image == Rendered[job.config]
           x == IF Failed(image) \/ ~Allowed(job.insecure) THEN None ELSE Digest[image]
           pl == IF x = None THEN Error ELSE Plan(Resources[job.config], x, job)
<1>1. /\ DOMAIN id = Process /\ DOMAIN plan = Process /\ DOMAIN todo = Process /\ DOMAIN pc = Process
      /\ plan[p] = Error /\ id[p] = None /\ pc[p] = "start"
  BY DEF DInv, IInv, ProcessesAgree, PrepareBoot
<1>2. /\ id' = [id EXCEPT ![p] = x] /\ plan' = [plan EXCEPT ![p] = pl]
      /\ pc' = [pc EXCEPT ![p] = IF pl = Error THEN "failed" ELSE "write"]
      /\ todo' = [todo EXCEPT ![p] = IF pl = Error THEN {} ELSE DOMAIN pl.files]
      /\ UNCHANGED <<conf, fsverity, jobs, writing, bootdir, state, system>>
  <2>1. id' = [id EXCEPT ![p] = x] /\ UNCHANGED <<conf, fsverity, jobs, writing, bootdir, state, system>>
    BY DEF PrepareBoot
  <2>2. plan' = [plan EXCEPT ![p] = IF id'[p] = None THEN Error ELSE Plan(Resources[job.config], id'[p], job)]
    BY DEF PrepareBoot
  <2>3. id'[p] = x
    <3> HIDE DEF x
    <3>1. QED BY <1>1, <2>1
  <2>4. plan' = [plan EXCEPT ![p] = pl]
    <3> HIDE DEF x, image
    <3>1. QED BY <2>2, <2>3
  <2>5. plan'[p] = pl
    <3> HIDE DEF pl
    <3>1. QED BY <1>1, <2>4
  <2> HIDE DEF pl, x
  <2>6. QED BY <2>1, <2>4, <2>5 DEF PrepareBoot, Failed
<1> HIDE DEF x, pl
<1>3. /\ id'[p] = x /\ plan'[p] = pl /\ pc'[p] \in {"failed", "write"}
      /\ pc'[p] = "failed" => pl = Error
      /\ pl # Error => todo'[p] = DOMAIN pl.files
      /\ \A q \in Process : q # p => id'[q] = id[q] /\ plan'[q] = plan[q] /\ pc'[q] = pc[q] /\ todo'[q] = todo[q]
  BY <1>1, <1>2
<1>4. \A q \in Process : PathsOf(q) \subseteq PathsOf(q)'
  BY <1>1, <1>3 DEF PathsOf, Failed
<1>5. PlansMade'
  <2>1. ASSUME NEW q \in Process, pc'[q] # "start"
        PROVE  /\ id'[q] = IF Failed(Rendered[jobs[q].config]) \/ ~Allowed(jobs[q].insecure) THEN None
                           ELSE Digest[Rendered[jobs[q].config]]
               /\ plan'[q] = IF id'[q] = None THEN Error ELSE Plan(Resources[jobs[q].config], id'[q], jobs[q])
               /\ pc'[q] = "failed" => plan'[q] = Error
    <3>1. CASE q = p
      BY <1>3, <3>1 DEF x, pl
    <3>2. CASE q # p
      BY <1>3, <2>1, <3>2 DEF DInv, PlansMade
    <3>3. QED BY <3>1, <3>2
  <2>2. QED BY <1>2, <2>1 DEF PlansMade, Allowed
<1>6. FilesIntact'
  <2>1. ASSUME NEW q \in Process, plan'[q] # Error, ~Disturbed(q)'
        PROVE  /\ \A f \in DOMAIN plan'[q].files \ todo'[q] : bootdir[f] = plan'[q].files[f]
               /\ pc'[q] \in {"var", "upper", "work", "done"} =>
                    /\ todo'[q] = {} /\ plan'[q].path \in DOMAIN bootdir
                    /\ bootdir[plan'[q].path] = plan'[q].data
    <3>1. ~Disturbed(q)
      BY <1>4, <2>1, StillDisturbed
    <3>2. CASE q = p
      BY <1>3, <2>1, <3>2
    <3>3. CASE q # p
      BY <1>3, <2>1, <3>1, <3>3 DEF DInv, FilesIntact
    <3>4. QED BY <3>2, <3>3
  <2>2. QED BY <1>2, <2>1 DEF FilesIntact
<1>7. StateMade'
  <2>1. ASSUME NEW q \in Process, pc'[q] \in {"upper", "work", "done"}
        PROVE  q # p
    BY <1>3, <2>1
  <2>2. QED BY <1>2, <1>3, <2>1 DEF DInv, StateMade
<1>8. QED BY <1>5, <1>6, <1>7

\* Whoever writes a file writes at a path of its own.
LEMMA WritersPath ==
  ASSUME IInv, NEW p \in Process, writing[p] # None
  PROVE  writing[p] \in PathsOf(p) /\ plan[p] # Error
<1>1. pc[p] = "write" /\ (writing[p] \in todo[p] \/ writing[p] = plan[p].path)
  BY DEF IInv, WritersAgree
<1>2. plan[p] # Error /\ todo[p] \subseteq DOMAIN plan[p].files
  BY <1>1 DEF IInv, ProcessesAgree
<1>3. QED BY <1>1, <1>2 DEF PathsOf, Failed

LEMMA OpenFileDeploys ==
  ASSUME DInv, NEW p \in Process, OpenFile(p)
  PROVE  PlansMade' /\ FilesIntact' /\ StateMade'
<1>1. PICK path \in IF todo[p] = {} THEN {plan[p].path} ELSE todo[p] : bootdir' = Put(path, Partial)
  BY DEF OpenFile
<1>2. /\ pc[p] = "write" /\ UNCHANGED <<conf, fsverity, jobs, pc, id, plan, todo, repo, state, system>>
      /\ plan[p] # Error /\ Planned(plan[p]) /\ todo[p] \subseteq DOMAIN plan[p].files
  BY DEF OpenFile, DInv, IInv, ProcessesAgree
<1>3. path \in todo[p] \/ path = plan[p].path
  BY <1>1
<1>4. path \in PathsOf(p)
  BY <1>2, <1>3 DEF PathsOf, Failed
<1>5. /\ DOMAIN bootdir' = DOMAIN bootdir \cup {path}
      /\ \A f \in DOMAIN bootdir : f # path => bootdir'[f] = bootdir[f]
      /\ \A q \in Process : PathsOf(q)' = PathsOf(q)
  BY <1>1, <1>2 DEF Put, PathsOf, Failed
<1>6. \A q \in Process : Disturbed(q)' = Disturbed(q)
  BY <1>5 DEF Disturbed
<1>7. PlansMade' /\ StateMade'
  BY <1>2 DEF DInv, PlansMade, StateMade, Allowed
<1>8. FilesIntact'
  <2>1. ASSUME NEW q \in Process, plan[q] # Error, ~Disturbed(q)
        PROVE  /\ \A f \in DOMAIN plan[q].files \ todo[q] : bootdir'[f] = plan[q].files[f]
               /\ pc[q] \in {"var", "upper", "work", "done"} =>
                    /\ todo[q] = {} /\ plan[q].path \in DOMAIN bootdir'
                    /\ bootdir'[plan[q].path] = plan[q].data
    <3>1. /\ \A f \in DOMAIN plan[q].files \ todo[q] : bootdir[f] = plan[q].files[f] /\ f \in DOMAIN bootdir
          /\ pc[q] \in {"var", "upper", "work", "done"} =>
               todo[q] = {} /\ plan[q].path \in DOMAIN bootdir /\ bootdir[plan[q].path] = plan[q].data
      BY <2>1 DEF DInv, FilesIntact, IInv, FilesWritten
    <3>2. CASE q = p
      <4>1. \A f \in DOMAIN plan[q].files \ todo[q] : f # path
        BY <1>2, <1>3, <3>2 DEF Planned
      <4>2. QED BY <1>2, <1>5, <3>1, <3>2, <4>1
    <3>3. CASE q # p
      <4>1. path \notin PathsOf(q)
        BY <1>4, <2>1, <3>3, NotDisturbed
      <4>2. \A f \in DOMAIN plan[q].files \cup {plan[q].path} : f # path
        BY <2>1, <4>1 DEF PathsOf, Failed
      <4>3. QED BY <1>5, <3>1, <4>2
    <3>4. QED BY <3>2, <3>3
  <2>2. QED BY <1>2, <1>6, <2>1 DEF FilesIntact
<1>9. QED BY <1>7, <1>8

LEMMA FillFileDeploys ==
  ASSUME DInv, NEW p \in Process, FillFile(p)
  PROVE  PlansMade' /\ FilesIntact' /\ StateMade'
<1> DEFINE path == writing[p]
           entry == path = plan[p].path
           shared == bootdir[path] # Partial \/ \E q \in Process \ {p} : writing[q] = path
           content == IF entry THEN plan[p].data ELSE plan[p].files[path]
<1>1. PICK data \in {content} \cup IF shared THEN {Partial} ELSE {} : bootdir' = Put(path, data)
  BY DEF FillFile
<1>2. /\ pc[p] = "write" /\ writing[p] # None
      /\ todo' = [todo EXCEPT ![p] = @ \ {path}]
      /\ pc' = [pc EXCEPT ![p] = IF entry THEN "var" ELSE @]
      /\ UNCHANGED <<conf, fsverity, jobs, id, plan, repo, state, system>>
  BY DEF FillFile
<1>3. /\ DOMAIN pc = Process /\ DOMAIN todo = Process
      /\ plan[p] # Error /\ Planned(plan[p])
      /\ path \in DOMAIN bootdir
      /\ path \in todo[p] \/ (entry /\ todo[p] = {})
      /\ bootdir[path] # Partial => \E q \in Process \ {p} : path \in PathsOf(q)
      /\ path \in PathsOf(p) /\ todo[p] \subseteq DOMAIN plan[p].files
  <2>1. DOMAIN pc = Process /\ DOMAIN todo = Process
    BY DEF DInv, IInv, ProcessesAgree
  <2>2. plan[p] # Error /\ path \in PathsOf(p)
    BY <1>2, WritersPath DEF DInv
  <2>3. Planned(plan[p]) /\ todo[p] \subseteq DOMAIN plan[p].files
    BY <2>2 DEF DInv, IInv, ProcessesAgree
  <2>4. /\ path \in DOMAIN bootdir
        /\ path \in todo[p] \/ (entry /\ todo[p] = {})
        /\ bootdir[path] # Partial => \E q \in Process \ {p} : path \in PathsOf(q)
    BY <1>2 DEF DInv, IInv, WritersAgree
  <2> HIDE DEF path, entry, shared, content
  <2>5. QED BY <2>1, <2>2, <2>3, <2>4
<1>4. /\ DOMAIN bootdir' = DOMAIN bootdir \cup {path} /\ bootdir'[path] = data
      /\ \A f \in DOMAIN bootdir : f # path => bootdir'[f] = bootdir[f]
  BY <1>1 DEF Put
<1>5. /\ \A q \in Process : q # p => pc'[q] = pc[q] /\ todo'[q] = todo[q]
      /\ todo'[p] = todo[p] \ {path} /\ pc'[p] = IF entry THEN "var" ELSE "write"
  BY <1>2, <1>3
<1>6. \A q \in Process : PathsOf(q)' = PathsOf(q)
  BY <1>2 DEF PathsOf, Failed
<1>7. \A q \in Process : Disturbed(q)' = Disturbed(q)
  BY <1>6 DEF Disturbed
<1>8. PlansMade' /\ StateMade'
  <2>1. \A q \in Process : (pc[q] # "start" <=> pc'[q] # "start") /\ (pc[q] = "failed" <=> pc'[q] = "failed")
    BY <1>2, <1>5
  <2>2. \A q \in Process : pc'[q] \in {"upper", "work", "done"} => pc'[q] = pc[q]
    BY <1>5
  <2>3. PlansMade'
    BY <1>2, <2>1 DEF DInv, PlansMade, Allowed
  <2>4. StateMade'
    BY <1>2, <2>2 DEF DInv, StateMade
  <2>5. QED BY <2>3, <2>4
<1>9. ~Disturbed(p) => data = content
  <2>1. SUFFICES ASSUME shared PROVE Disturbed(p)
    BY <1>1
  <2>2. CASE bootdir[path] # Partial
    BY <1>3, <2>2 DEF Disturbed
  <2>3. ASSUME NEW q \in Process \ {p}, writing[q] = path PROVE Disturbed(p)
    <3>1. path \in PathsOf(q)
      BY <1>2, <2>3, WritersPath DEF DInv
    <3>2. QED BY <1>3, <3>1 DEF Disturbed
  <2>4. QED BY <2>1, <2>2, <2>3
<1> HIDE DEF path, entry, shared, content
<1>10. FilesIntact'
  <2>1. ASSUME NEW q \in Process, plan[q] # Error, ~Disturbed(q)
        PROVE  /\ \A f \in DOMAIN plan[q].files \ todo'[q] : bootdir'[f] = plan[q].files[f]
               /\ pc'[q] \in {"var", "upper", "work", "done"} =>
                    /\ todo'[q] = {} /\ plan[q].path \in DOMAIN bootdir'
                    /\ bootdir'[plan[q].path] = plan[q].data
    <3>1. /\ \A f \in DOMAIN plan[q].files \ todo[q] : bootdir[f] = plan[q].files[f] /\ f \in DOMAIN bootdir
          /\ pc[q] \in {"var", "upper", "work", "done"} =>
               todo[q] = {} /\ plan[q].path \in DOMAIN bootdir /\ bootdir[plan[q].path] = plan[q].data
      BY <2>1 DEF DInv, FilesIntact, IInv, FilesWritten
    <3>2. CASE q = p
      <4>1. data = content
        BY <1>9, <2>1, <3>2
      <4>2. ASSUME NEW f \in DOMAIN plan[p].files \ todo'[p] PROVE bootdir'[f] = plan[p].files[f]
        <5>1. CASE f = path
          <6>1. ~entry
            BY <1>3, <5>1 DEF Planned, entry
          <6>2. QED BY <1>4, <4>1, <5>1, <6>1 DEF content
        <5>2. CASE f # path
          BY <1>4, <1>5, <3>1, <3>2, <5>2
        <5>3. QED BY <5>1, <5>2
      <4>3. ASSUME entry PROVE todo'[p] = {} /\ plan[p].path \in DOMAIN bootdir' /\ bootdir'[plan[p].path] = plan[p].data
        <5>1. path = plan[p].path /\ path \notin todo[p]
          BY <1>3, <4>3 DEF Planned, entry
        <5>2. QED BY <1>3, <1>4, <1>5, <4>1, <4>3, <5>1 DEF content
      <4>4. ~entry => pc'[p] = "write"
        BY <1>5
      <4>5. QED BY <3>2, <4>2, <4>3, <4>4
    <3>3. CASE q # p
      <4>1. path \notin PathsOf(q)
        BY <1>3, <2>1, <3>3, NotDisturbed
      <4>2. \A f \in DOMAIN plan[q].files \cup {plan[q].path} : f # path
        BY <2>1, <4>1 DEF PathsOf, Failed
      <4>3. QED BY <1>4, <1>5, <3>1, <3>3, <4>2
    <3>4. QED BY <3>2, <3>3
  <2>2. QED BY <1>2, <1>7, <2>1 DEF FilesIntact
<1>11. QED BY <1>8, <1>10

LEMMA MakeStateDeploys ==
  ASSUME DInv, NEW p \in Process, MakeState(p)
  PROVE  PlansMade' /\ FilesIntact' /\ StateMade'
<1>1. /\ pc[p] \in {"var", "upper", "work"} /\ pc' = [pc EXCEPT ![p] = NextDir[@]]
      /\ state' = PutState(id[p], [StateOf(id[p]) EXCEPT !.dirs = @ \cup {pc[p]}])
      /\ UNCHANGED <<conf, fsverity, jobs, id, plan, todo, writing, repo, bootdir, system>>
  BY DEF MakeState, NextDir
<1>2. Kept /\ DOMAIN pc = Process
  BY MakeStateKeeps DEF DInv, IInv, ProcessesAgree
<1>3. /\ pc'[p] = NextDir[pc[p]] /\ \A q \in Process : q # p => pc'[q] = pc[q]
  BY <1>1, <1>2
<1>4. /\ pc[p] = "var" => pc'[p] = "upper"
      /\ pc[p] = "upper" => pc'[p] = "work"
      /\ pc[p] = "work" => pc'[p] = "done"
  BY <1>3 DEF NextDir
<1>5. PlansMade' /\ FilesIntact'
  <2>1. \A q \in Process :
          /\ pc'[q] = "start" <=> pc[q] = "start"
          /\ pc'[q] = "failed" <=> pc[q] = "failed"
          /\ pc'[q] \in {"var", "upper", "work", "done"} => pc[q] \in {"var", "upper", "work", "done"}
    BY <1>1, <1>3, <1>4
  <2>2. QED BY <1>1, <2>1, DeployedStays
<1>6. /\ id[p] \in DOMAIN state' /\ pc[p] \in state'[id[p]].dirs
  <2> DEFINE old == StateOf(id[p])
             st == [old EXCEPT !.dirs = @ \cup {pc[p]}]
  <2>1. DOMAIN old = {"dirs", "etc"}
    BY DEF DInv, IInv, StateAgrees, StateOf
  <2> HIDE DEF old
  <2>2. pc[p] \in st.dirs
    BY <2>1
  <2> HIDE DEF st
  <2>3. state' = [i \in DOMAIN state \cup {id[p]} |-> IF i = id[p] THEN st ELSE state[i]]
    BY <1>1 DEF PutState, st, old
  <2>4. QED BY <2>2, <2>3
<1>7. StateMade'
  <2>1. ASSUME NEW q \in Process, pc'[q] \in {"upper", "work", "done"}
        PROVE  /\ id[q] \in DOMAIN state' /\ "var" \in state'[id[q]].dirs
               /\ pc'[q] \in {"work", "done"} => "upper" \in state'[id[q]].dirs
    <3>1. ASSUME id[q] \in DOMAIN state
          PROVE id[q] \in DOMAIN state' /\ state[id[q]].dirs \subseteq state'[id[q]].dirs
      BY <1>2, <3>1 DEF Kept
    <3>2. CASE q = p
      <4>1. CASE pc[p] = "var"
        BY <1>4, <1>6, <3>2, <4>1
      <4>2. CASE pc[p] = "upper"
        <5>1. id[p] \in DOMAIN state /\ "var" \in state[id[p]].dirs
          BY <4>2 DEF DInv, StateMade
        <5>2. QED BY <1>4, <1>6, <3>1, <3>2, <4>2, <5>1
      <4>3. CASE pc[p] = "work"
        <5>1. id[p] \in DOMAIN state /\ {"var", "upper"} \subseteq state[id[p]].dirs
          BY <4>3 DEF DInv, StateMade
        <5>2. QED BY <1>4, <1>6, <3>1, <3>2, <4>3, <5>1
      <4>4. QED BY <1>1, <4>1, <4>2, <4>3
    <3>3. CASE q # p
      <4>1. /\ id[q] \in DOMAIN state /\ "var" \in state[id[q]].dirs
            /\ pc'[q] \in {"work", "done"} => "upper" \in state[id[q]].dirs
        BY <1>3, <2>1, <3>3 DEF DInv, StateMade
      <4>2. QED BY <3>1, <4>1
    <3>4. QED BY <3>2, <3>3
  <2>2. QED BY <1>1, <2>1 DEF StateMade
<1>8. QED BY <1>5, <1>7

\* A step that writes no file, makes no directory and starts nothing.
LEMMA OthersDeploy ==
  ASSUME DInv, Kept, UNCHANGED <<fsverity, jobs, id, plan, todo, bootdir>>,
         \A q \in Process : pc'[q] = pc[q] \/ (pc'[q] = "killed" /\ pc[q] \notin {"start", "failed"})
  PROVE  PlansMade' /\ FilesIntact' /\ StateMade'
<1>1. \A q \in Process :
        /\ pc'[q] = "start" <=> pc[q] = "start"
        /\ pc'[q] = "failed" <=> pc[q] = "failed"
        /\ pc'[q] \in {"var", "upper", "work", "done"} => pc[q] \in {"var", "upper", "work", "done"}
        /\ pc'[q] \in {"upper", "work", "done"} => pc'[q] = pc[q]
  OBVIOUS
<1>2. PlansMade' /\ FilesIntact'
  BY <1>1, DeployedStays
<1>3. StateMade'
  BY <1>1, StateMadeStays DEF DInv
<1>4. QED BY <1>2, <1>3

LEMMA DeployedStep ==
  ASSUME DInv, [Next]_vars
  PROVE  DInv'
<1>1. IInv' /\ Kept
  BY StepKeeps DEF DInv
<1>2. CASE UNCHANGED vars
  <2>1. UNCHANGED <<fsverity, jobs, id, plan, todo, bootdir>> /\ \A q \in Process : pc'[q] = pc[q]
    BY <1>2 DEF vars
  <2>2. QED BY <1>1, <2>1, OthersDeploy DEF DInv
<1>3. ASSUME NEW p \in Process, PrepareBoot(p) PROVE DInv'
  BY <1>1, <1>3, PrepareBootDeploys DEF DInv
<1>4. ASSUME NEW p \in Process, OpenFile(p) PROVE DInv'
  BY <1>1, <1>4, OpenFileDeploys DEF DInv
<1>5. ASSUME NEW p \in Process, FillFile(p) PROVE DInv'
  BY <1>1, <1>5, FillFileDeploys DEF DInv
<1>6. ASSUME NEW p \in Process, MakeState(p) PROVE DInv'
  BY <1>1, <1>6, MakeStateDeploys DEF DInv
<1>7. ASSUME NEW p \in Process, Kill(p) PROVE DInv'
  <2>1. /\ pc[p] \notin {"start", "failed"} /\ pc' = [pc EXCEPT ![p] = "killed"] /\ DOMAIN pc = Process
        /\ UNCHANGED <<fsverity, jobs, id, plan, todo, bootdir>>
    BY <1>7 DEF Kill, DInv, IInv, ProcessesAgree
  <2>2. \A q \in Process : pc'[q] = pc[q] \/ (pc'[q] = "killed" /\ pc[q] \notin {"start", "failed"})
    BY <2>1
  <2>3. QED BY <1>1, <2>1, <2>2, OthersDeploy DEF DInv
<1>8. CASE Boot \/ ChangeEtc \/ Shutdown
  <2>1. UNCHANGED <<fsverity, jobs, pc, id, plan, todo, bootdir>>
    BY <1>8 DEF Boot, ChangeEtc, Shutdown
  <2>2. QED BY <1>1, <2>1, OthersDeploy DEF DInv
<1>9. QED BY <1>2, <1>3, <1>4, <1>5, <1>6, <1>7, <1>8 DEF Next

\* An image with the directories to mount over and with its state is mounted.
LEMMA SubdirIsMounted ==
  ASSUME NEW c \in DOMAIN Containers, Rendered[c] # Error, HasMountpoints(Containers[c]),
         NEW d \in {"etc", "var"}, d \in StateDirs(Digest[Rendered[c]])
  PROVE  mount_subdir(Digest[Rendered[c]], d)
<1> DEFINE x == Digest[Rendered[c]]
           type == MountType(d)
<1>1. type # "none" => x \in HaveDir[d]
  <2>1. SUFFICES ASSUME type # "none" PROVE x \in HaveDir[d]
    OBVIOUS
  <2>2. get_directory(Containers[c], <<d>>)
    BY <2>1 DEF HasMountpoints
  <2>3. Rendered[c] \in DOMAIN Digest /\ get_directory(Rendered[c], <<d>>)
    BY <2>2, ImageHasDir, DigestsAreDigests DEF Failed
  <2>4. x \in WithDir(d)
    BY <2>3 DEF WithDir
  <2>5. HaveDir["etc"] = WithDir("etc") /\ HaveDir["var"] = WithDir("var")
    BY DEF HaveDir
  <2>6. QED BY <2>4, <2>5
<1> DEFINE there == x \in HaveDir[d]
           both == there /\ d \in StateDirs(x)
<1>2. mount_subdir(x, d) = CASE type = "none" -> TRUE
                             [] type = "transient" -> there
                             [] OTHER -> both
  BY DEF mount_subdir
<1> HIDE DEF x, type
<1>3. CASE type = "none"
  <2>1. type # "transient"
    BY <1>3
  <2>2. QED BY <1>2, <1>3, <2>1, Zenon DEF x
<1>4. CASE type = "transient"
  <2>1. type # "none" /\ there
    BY <1>1, <1>4
  <2>2. QED BY <1>2, <1>4, <2>1, Zenon DEF x
<1>5. CASE type # "none" /\ type # "transient"
  <2>1. both
    BY <1>1, <1>5 DEF x
  <2>2. QED BY <1>2, <1>5, <2>1, Zenon DEF x
<1>6. QED BY <1>3, <1>4, <1>5

\* Who is done has the image and its state, and setup-root takes its address.
LEMMA DoneIsSetUp ==
  ASSUME DInv, NEW p \in Process, pc[p] = "done", HasMountpoints(Containers[jobs[p].config]),
         NEW args, get_cmdline_composefs(args) # Error, get_cmdline_composefs(args).id = id[p],
         get_cmdline_composefs(args).insecure \in BOOLEAN, Allowed(get_cmdline_composefs(args).insecure)
  PROVE  /\ setup_root(args) # Error /\ setup_root(args).root = id[p]
         /\ setup_root(args).insecure = get_cmdline_composefs(args).insecure
<1> DEFINE c == jobs[p].config
           image == Rendered[c]
           x == id[p]
           address == get_cmdline_composefs(args)
           insecure == address.insecure
           up == [up |-> TRUE, root |-> x, insecure |-> insecure, etc |-> {}]
           mounted == /\ x \in repo /\ Allowed(insecure)
                      /\ x \in DOMAIN state
                      /\ mount_subdir(x, "etc")
                      /\ mount_subdir(x, "var")
<1>1. c \in DOMAIN Containers /\ DOMAIN id = Process /\ x # None
  BY DeployConstants DEF DInv, IInv, ProcessesAgree
<1>2. image # Error /\ x = Digest[image]
  BY <1>1 DEF DInv, PlansMade, Failed
<1>3. x \in Range(Digest)
  BY <1>1, <1>2, DigestsAreDigests DEF Failed, Range
<1>4. up # Error
  <2>1. insecure \in BOOLEAN
    OBVIOUS
  <2> HIDE DEF insecure, x
  <2>2. QED BY <1>3, <2>1, DigestsAreDigests
<1>5. x \in repo
  BY <1>1 DEF DInv, IInv, StateAgrees, Range
<1>6. x \in DOMAIN state /\ {"var", "upper"} \subseteq state[x].dirs
  BY DEF DInv, StateMade
<1>7. "var" \in StateDirs(x) /\ "etc" \in StateDirs(x)
  BY <1>6 DEF StateDirs, StateOf
<1>8. mount_subdir(x, "etc") /\ mount_subdir(x, "var")
  BY <1>1, <1>2, <1>7, SubdirIsMounted
<1>9. mounted
  BY <1>5, <1>6, <1>8
<1>10. setup_root(args) = IF address = Error THEN Error ELSE IF mounted THEN up ELSE Error
  <2>1. address.id = x
    OBVIOUS
  <2>2. setup_root(args) = IF Failed(address) THEN Error
                           ELSE IF /\ address.id \in repo /\ Allowed(insecure)
                                   /\ address.id \in DOMAIN state
                                   /\ mount_subdir(address.id, "etc")
                                   /\ mount_subdir(address.id, "var")
                           THEN [up |-> TRUE, root |-> address.id, insecure |-> insecure, etc |-> {}]
                           ELSE Error
    BY DEF setup_root
  <2> HIDE DEF address, x, insecure
  <2>3. QED BY <2>1, <2>2 DEF Failed
<1> HIDE DEF mounted
<1>11. setup_root(args) = up
  <2>1. address # Error
    OBVIOUS
  <2> HIDE DEF address, up
  <2>2. QED BY <1>9, <1>10, <2>1
<1>12. up.root = x /\ up.insecure = insecure
  OBVIOUS
<1> HIDE DEF up
<1>13. QED BY <1>4, <1>11, <1>12

\* What there is on the boot partition of a deployment is what has been planned.
LEMMA DoneIsWritten ==
  ASSUME DInv, NEW p \in Process, pc[p] = "done", ~Disturbed(p)
  PROVE  /\ ArgsOf(plan[p].path) = ArgsIn(plan[p])
         /\ IsLoaderEntry(plan[p].path) =>
              Named(bootdir[plan[p].path], bootdir) = Named(plan[p].data, plan[p].files)
<1> DEFINE path == plan[p].path
           data == plan[p].data
           files == plan[p].files
<1>1. plan[p] # Error /\ Planned(plan[p])
  BY DEF DInv, IInv, ProcessesAgree
<1>2. bootdir[path] = data /\ \A f \in DOMAIN files : bootdir[f] = files[f]
  BY <1>1 DEF DInv, FilesIntact
<1>3. ArgsOf(path) = ArgsIn(plan[p])
  BY <1>2 DEF ArgsOf, ArgsIn
<1>4. ASSUME IsLoaderEntry(path) PROVE Named(bootdir[path], bootdir) = Named(data, files)
  <2>1. PathsIn(data) \subseteq DOMAIN files
    BY <1>1, <1>4 DEF Planned
  <2> HIDE DEF path, data, files
  <2>2. \A i \in LinesWith(data, FileKeys) : data[i].value \in DOMAIN files
    BY <2>1 DEF PathsIn
  <2>3. QED BY <1>2, <2>2 DEF Named
<1>5. QED BY <1>3, <1>4

LEMMA InvariantBoots ==
  ASSUME DInv
  PROVE  DeploymentBoots
<1> SUFFICES ASSUME NEW p \in Process
             PROVE  LET job == jobs[p] path == plan[p].path found == Resources[job.config][1]
                    IN  /\ /\ pc[p] = "done" /\ ~Disturbed(p)
                           /\ HasMountpoints(Containers[job.config])
                           /\ OwnPlaces(job.cmdline, make_cmdline_composefs(id[p], job.insecure))
                           => LET args == ArgsOf(path) booted == setup_root(args)
                              IN  /\ MayBoot(path, args) => ~Failed(booted) /\ booted.root = id[p]
                                  /\ IsLoaderEntry(path) =>
                                       /\ booted.insecure = job.insecure
                                       /\ Range(job.cmdline) \subseteq Range(args)
                                       /\ Apart(found, job.entry_id) => Named(bootdir[path], bootdir) = Wanted(found)
                        /\ pc[p] = "failed" => ~(job.config \in SealedConfigs /\ job.cmdline = <<>> /\ Allowed(job.insecure))
  BY DEF DeploymentBoots
<1> DEFINE job == jobs[p]
           c == job.config
           path == plan[p].path
           found == Resources[c][1]
           x == id[p]
           args == ArgsOf(path)
           address == get_cmdline_composefs(args)
<1>1. job \in Jobs /\ c \in DOMAIN Containers /\ job.insecure \in BOOLEAN
  BY DeployConstants DEF DInv, IInv, ProcessesAgree
<1>2. ASSUME pc[p] = "done", ~Disturbed(p), HasMountpoints(Containers[c]),
             OwnPlaces(job.cmdline, make_cmdline_composefs(x, job.insecure))
      PROVE  /\ MayBoot(path, args) => setup_root(args) # Error /\ setup_root(args).root = x
             /\ IsLoaderEntry(path) =>
                  /\ setup_root(args).insecure = job.insecure
                  /\ Range(job.cmdline) \subseteq Range(args)
                  /\ Apart(found, job.entry_id) => Named(bootdir[path], bootdir) = Wanted(found)
  <2>1. plan[p] # Error /\ x # None
    BY <1>2 DEF DInv, IInv, ProcessesAgree
  <2>2. /\ plan[p] = Plan(Resources[c], x, job) /\ Rendered[c] # Error /\ x = Digest[Rendered[c]]
        /\ Allowed(job.insecure)
    BY <1>2, <2>1 DEF DInv, PlansMade, Failed
  <2>3. x \in Range(Digest)
    BY <1>1, <2>2, DigestsAreDigests DEF Failed, Range
  <2>4. x # "?" /\ [id |-> x, insecure |-> job.insecure] # Error
    BY <1>1, <2>3, DigestsAreDigests
  <2>5. args = ArgsIn(plan[p]) /\ (IsLoaderEntry(path) =>
                                     Named(bootdir[path], bootdir) = Named(plan[p].data, plan[p].files))
    BY <1>2, DoneIsWritten
  <2> DEFINE pl == Plan(Resources[c], x, job)
             there == get_cmdline_composefs(ArgsIn(pl))
  <2>6. /\ there # Error /\ there.id = x /\ there.insecure \in BOOLEAN
        /\ IsLoaderEntry(pl.path) =>
             /\ there.insecure = job.insecure
             /\ Range(job.cmdline) \subseteq Range(ArgsIn(pl))
             /\ Apart(found, job.entry_id) => Named(pl.data, pl.files) = Wanted(found)
    <3>1. /\ c \in DOMAIN Containers /\ x # "?" /\ job \in Jobs
          /\ Plan(Resources[c], x, job) # Error
          /\ OwnPlaces(job.cmdline, make_cmdline_composefs(x, job.insecure))
          /\ [id |-> x, insecure |-> job.insecure] # Error
      BY <1>1, <1>2, <2>1, <2>2, <2>4
    <3> HIDE DEF job, x, c, args, address, path
    <3>2. LeadsToImage(Plan(Resources[c], x, job), Resources[c][1], x, job)
      BY <3>1, PlanLeads
    <3>3. LeadsToImage(pl, found, x, job)
      BY <3>2
    <3> HIDE DEF pl, found
    <3>4. QED BY <3>3 DEF LeadsToImage, there
  <2>7. pl = plan[p]
    BY <2>2
  <2> HIDE DEF pl
  <2>8. address = there
    BY <2>5, <2>7
  <2>9. ASSUME MayBoot(path, args)
        PROVE  /\ setup_root(args) # Error /\ setup_root(args).root = x
               /\ setup_root(args).insecure = address.insecure
    <3>1. address # Error /\ address.id = x /\ address.insecure \in BOOLEAN
      BY <2>6, <2>8
    <3>2. Allowed(address.insecure)
      <4>1. CASE IsLoaderEntry(path)
        <5>1. address.insecure = job.insecure
          <6> HIDE DEF address, there, args, x, job
          <6>1. QED BY <2>6, <2>7, <2>8, <4>1 DEF path
        <5> HIDE DEF address, job
        <5>2. QED BY <2>2, <5>1
      <4>2. CASE ~IsLoaderEntry(path)
        <5> HIDE DEF path, args
        <5>1. QED BY <2>9, <4>2 DEF MayBoot, address
      <4>3. QED BY <4>1, <4>2
    <3> HIDE DEF args
    <3>3. QED BY <1>2, <3>1, <3>2, DoneIsSetUp
  <2>10. IsLoaderEntry(path) => MayBoot(path, args)
    BY DEF MayBoot
  <2> HIDE DEF address, there, args, x, job
  <2>11. QED BY <2>5, <2>6, <2>7, <2>8, <2>9, <2>10 DEF job, path
<1>3. ASSUME pc[p] = "failed", c \in SealedConfigs, job.cmdline = <<>>, Allowed(job.insecure) PROVE FALSE
  <2>1. Rendered[c] # Error /\ Plan(Resources[c], Digest[Rendered[c]], job) # Error
    BY <1>1, <1>3, SealedIsPlanned
  <2>2. Digest[Rendered[c]] # None
    BY <1>1, <2>1, DigestsAreDigests DEF Failed, Range
  <2>3. /\ x = Digest[Rendered[c]] /\ plan[p] = Error
        /\ plan[p] = IF x = None THEN Error ELSE Plan(Resources[c], x, job)
    BY <1>3, <2>1 DEF DInv, PlansMade, Failed
  <2> HIDE DEF job, c, x
  <2>4. QED BY <2>1, <2>2, <2>3
<1>4. QED BY <1>2, <1>3 DEF Failed

\* What a process deploys is its own container, and stays as it is: the plan, the files
\* that nobody else writes, and the directories of the state.
THEOREM Deployments == Spec => []DInv
<1>1. Init => DInv
  BY DeployedAtStart
<1>2. DInv /\ [Next]_vars => DInv'
  BY DeployedStep
<1>3. QED BY <1>1, <1>2, PTL DEF Spec

\* Whoever has prepared a container can boot it, with its own image, kernel and
\* arguments, and a sealed container can be prepared: write_boot_simple, adjust_cmdline
\* and setup_root agree, for any containers and whatever the other processes deploy.
\* Without fs-verity this is so for loader entries, and for a UKI with a "?" of its own.
THEOREM DeploymentsBoot == Spec => []DeploymentBoots
<1>1. DInv => DeploymentBoots
  BY InvariantBoots
<1>2. QED BY <1>1, Deployments, PTL

-------------------------------------------------------------------------------
(* The order of a walk *)

\* Of some paths of names there is one that is visited last.
LEMMA LastVisited ==
  ASSUME NEW S \in SUBSET Seq(Range(NameOrder)), IsFiniteSet(S), S # {}
  PROVE  \E q \in S : \A r \in S \ {q} : VisitedBefore(r, q)
<1> DEFINE N == Range(NameOrder)
           n == Cardinality(S)
<1>1. PICK rank : rank = [m \in N |-> Rank(m)]
  OBVIOUS
<1>2. ASSUME NEW m \in N PROVE Rank(m) \in Nat /\ NameOrder[Rank(m)] = m
  <2>1. \E i \in DOMAIN NameOrder : NameOrder[i] = m
    BY DEF Range
  <2>2. Rank(m) \in DOMAIN NameOrder /\ NameOrder[Rank(m)] = m
    BY <2>1 DEF Rank
  <2>3. DOMAIN NameOrder = 1 .. Len(NameOrder)
    BY ContainersAreTrees
  <2>4. QED BY <2>2, <2>3
<1>3. (\A m \in N : rank[m] \in Nat) /\ \A m, o \in N : rank[m] = rank[o] => m = o
  <2>1. \A m \in N : rank[m] = Rank(m)
    BY <1>1
  <2> HIDE DEF N
  <2>2. QED BY <1>2, <2>1
<1>4. ASSUME NEW p \in S, NEW q \in S PROVE VisitedSooner(rank, p, q) <=> VisitedBefore(p, q)
  <2>1. p \in Seq(N) /\ q \in Seq(N)
    OBVIOUS
  <2>2. ASSUME NEW i \in 1 .. Len(p), i <= Len(q)
        PROVE  rank[p[i]] < rank[q[i]] <=> NameBefore(p[i], q[i])
    <3>1. i \in 1 .. Len(q)
      BY <2>1, <2>2
    <3> HIDE DEF N
    <3>2. p[i] \in N /\ q[i] \in N
      BY <2>1, <3>1, ElementOfSeq
    <3>3. QED BY <1>1, <3>2 DEF NameBefore
  <2> HIDE DEF N
  <2>3. VisitedSooner(rank, p, q) <=>
          \/ p # q /\ Len(p) <= Len(q) /\ SubSeq(q, 1, Len(p)) = p
          \/ \E i \in 1 .. Len(p) :
               i <= Len(q) /\ SubSeq(p, 1, i - 1) = SubSeq(q, 1, i - 1) /\ rank[p[i]] < rank[q[i]]
    BY <2>1, SoonerIs
  <2>4. QED BY <2>2, <2>3 DEF VisitedBefore, Below, In
<1>5. PICK before : VisitOrder(before, rank, S)
  BY DEF VisitOrder
<1>6. /\ before \in [S -> SUBSET S]
      /\ \A q \in S : q \notin before[q]
      /\ \A p, q \in S : p \in before[q] => before[p] \subseteq before[q]
      /\ \A p, q \in S : p = q \/ p \in before[q] \/ q \in before[p]
  <2> HIDE DEF N
  <2>1. S \in SUBSET Seq(N)
    BY DEF N
  <2>2. QED BY <1>3, <1>5, <2>1, SoonerOrders
<1>7. \A p, q \in S : p \in before[q] => VisitedBefore(p, q)
  BY <1>4, <1>5 DEF VisitOrder
<1>8. n \in Nat /\ n > 0
  BY FS_CardinalityType, FS_EmptySet
<1>9. PICK q \in S : 1 + Cardinality(before[q]) = n
  <2>1. n \in 1 .. Cardinality(S)
    BY <1>8
  <2>2. \A r \in 1 .. Cardinality(S) : \E i \in S : 1 + Cardinality(before[i]) = r
    BY <1>6, Ranking
  <2>3. QED BY <2>1, <2>2
<1>10. before[q] \subseteq S \ {q}
  BY <1>6
<1>11. IsFiniteSet(S \ {q}) /\ Cardinality(S \ {q}) = n - 1
  BY FS_RemoveElement
<1>12. before[q] = S \ {q}
  <2>1. Cardinality(before[q]) \in Nat
    BY <1>10, <1>11, FS_Subset, FS_CardinalityType
  <2>2. Cardinality(before[q]) = n - 1
    BY <1>8, <1>9, <2>1
  <2>3. QED BY <1>10, <1>11, <2>2, FS_Subset
<1>13. \A r \in S \ {q} : VisitedBefore(r, q)
  BY <1>7, <1>12
<1>14. QED BY <1>13

-------------------------------------------------------------------------------
(* The policy of a container *)

\* The label is what has been put there, and nothing else has changed.
LEMMA LabelIs ==
  ASSUME NEW stat, NEW context, {"mtime", "xattrs"} \subseteq DOMAIN stat
  PROVE  LET l == WithLabel(stat, context)
         IN  /\ (IF Selinux \in DOMAIN l.xattrs THEN l.xattrs[Selinux] ELSE "<<none>>") = context
             /\ WithLabel(l, "<<none>>") = WithLabel(stat, "<<none>>")
             /\ DOMAIN l = DOMAIN stat /\ l.mtime = stat.mtime
<1> DEFINE x == stat.xattrs
           others == DOMAIN x \ {Selinux}
           none == [k \in others |-> x[k]]
           some == [k \in others \cup {Selinux} |-> IF k = Selinux THEN context ELSE x[k]]
           y == IF context = "<<none>>" THEN none ELSE some
           l == [stat EXCEPT !.xattrs = y]
           others2 == DOMAIN y \ {Selinux}
           none2 == [k \in others2 |-> y[k]]
<1>1. WithLabel(stat, context) = l
  <2>1. CASE context = "<<none>>"
    BY <2>1 DEF WithLabel
  <2>2. CASE context # "<<none>>"
    BY <2>2 DEF WithLabel
  <2>3. QED BY <2>1, <2>2
<1>2. WithLabel(stat, "<<none>>") = [stat EXCEPT !.xattrs = none]
  BY DEF WithLabel
<1>3. others2 = others /\ \A k \in others : y[k] = x[k]
  <2> HIDE DEF x
  <2>1. QED OBVIOUS
<1>4. none2 = none
  <2> HIDE DEF x, y
  <2>1. QED BY <1>3
<1>5. (IF Selinux \in DOMAIN y THEN y[Selinux] ELSE "<<none>>") = context
  <2> HIDE DEF x
  <2>1. QED OBVIOUS
<1> HIDE DEF y, none, x
<1>6. DOMAIN l = DOMAIN stat /\ l.xattrs = y /\ l.mtime = stat.mtime
  OBVIOUS
<1>7. WithLabel(l, "<<none>>") = [l EXCEPT !.xattrs = none2]
  <2> HIDE DEF l
  <2>1. WithLabel(l, "<<none>>") = [l EXCEPT !.xattrs = [k \in DOMAIN l.xattrs \ {Selinux} |-> l.xattrs[k]]]
    BY DEF WithLabel
  <2>2. QED BY <1>6, <2>1
<1> HIDE DEF none2
<1>8. [l EXCEPT !.xattrs = none] = [stat EXCEPT !.xattrs = none]
  OBVIOUS
<1> HIDE DEF l
<1>9. QED BY <1>1, <1>2, <1>4, <1>5, <1>6, <1>7, <1>8

\* A tree each of whose nodes has been given the label of its path.
Labelled(tree, context) == [p \in DOMAIN tree |-> [tree[p] EXCEPT !.stat = WithLabel(@, context[p])]]

\* What is in a node for its label to change.
HasStat(node) == {"dir", "stat"} \subseteq DOMAIN node /\ {"mtime", "xattrs"} \subseteq DOMAIN node.stat

\* What a label changes in a tree: the label, and nothing else.
LEMMA LabelledIs ==
  ASSUME NEW tree, NEW context, \A p \in DOMAIN tree : HasStat(tree[p])
  PROVE  LET image == Labelled(tree, context)
         IN  /\ DOMAIN image = DOMAIN tree
             /\ \A p \in DOMAIN tree :
                  /\ LabelOf(image[p]) = context[p]
                  /\ Unlabelled(image)[p] = Unlabelled(tree)[p]
                  /\ image[p].stat.mtime = tree[p].stat.mtime
                  /\ image[p].dir = tree[p].dir
<1> DEFINE image == Labelled(tree, context)
<1>1. DOMAIN image = DOMAIN tree /\ \A p \in DOMAIN tree : image[p] = [tree[p] EXCEPT !.stat = WithLabel(@, context[p])]
  BY DEF Labelled
<1> HIDE DEF image
<1>2. ASSUME NEW p \in DOMAIN tree
      PROVE  /\ LabelOf(image[p]) = context[p]
             /\ Unlabelled(image)[p] = Unlabelled(tree)[p]
             /\ image[p].stat.mtime = tree[p].stat.mtime
             /\ image[p].dir = tree[p].dir
             /\ DOMAIN image[p] = DOMAIN tree[p]
  <2> DEFINE node == tree[p]
             c == context[p]
             l == WithLabel(node.stat, c)
             changed == image[p]
             s == WithLabel(node.stat, "<<none>>")
  <2>1. HasStat(node)
    OBVIOUS
  <2>2. changed = [node EXCEPT !.stat = l]
    BY <1>1
  <2>3. Unlabelled(tree)[p] = [node EXCEPT !.stat = s]
    BY DEF Unlabelled, strip_selinux_labels
  <2>4. Unlabelled(image)[p] = [changed EXCEPT !.stat = WithLabel(changed.stat, "<<none>>")]
    BY <1>1 DEF Unlabelled, strip_selinux_labels
  <2> HIDE DEF node, c, changed
  <2>5. /\ (IF Selinux \in DOMAIN l.xattrs THEN l.xattrs[Selinux] ELSE "<<none>>") = c
        /\ WithLabel(l, "<<none>>") = s
        /\ DOMAIN l = DOMAIN node.stat /\ l.mtime = node.stat.mtime
    BY <2>1, LabelIs DEF HasStat
  <2> HIDE DEF l, s
  <2>6. changed.stat = l /\ changed.dir = node.dir /\ DOMAIN changed = DOMAIN node
    BY <2>1, <2>2 DEF HasStat
  <2>7. Unlabelled(image)[p] = [changed EXCEPT !.stat = s]
    BY <2>4, <2>5, <2>6
  <2>8. [changed EXCEPT !.stat = s] = [node EXCEPT !.stat = s]
    BY <2>2
  <2>9. LabelOf(changed) = c
    BY <2>5, <2>6 DEF LabelOf
  <2>10. QED BY <2>3, <2>5, <2>6, <2>7, <2>8, <2>9 DEF node, changed, c
<1>3. QED BY <1>1, <1>2 DEF image

\* What is emptied is a directory with another time, and all else is as it is.
LEMMA EmptiedIs ==
  ASSUME NEW c \in DOMAIN Containers, CanTransformForBoot(Containers[c])
  PROVE  LET tree == Containers[c] emptied == EmptyToplevel(tree)
         IN  /\ DOMAIN emptied = {r \in DOMAIN tree : \A p \in ToEmpty : ~Below(p, r)}
             /\ \A p \in DOMAIN emptied :
                  /\ HasStat(emptied[p]) /\ emptied[p].dir = tree[p].dir
                  /\ p \notin ToEmpty => emptied[p] = tree[p]
                  /\ p \in ToEmpty => tree[p].dir /\ emptied[p].stat.mtime = tree[<<"usr">>].stat.mtime
<1> DEFINE tree == Containers[c]
           emptied == EmptyToplevel(tree)
           D == {r \in DOMAIN tree : \A p \in ToEmpty : ~Below(p, r)}
           time == tree[<<"usr">>].stat.mtime
<1>1. emptied = [q \in D |-> IF q \in ToEmpty THEN [tree[q] EXCEPT !.stat.mtime = time] ELSE tree[q]]
  BY DEF EmptyToplevel
<1>2. \A q \in D : IsNode(tree[q]) /\ tree[q].dir \in BOOLEAN /\ {"mtime", "xattrs"} \subseteq DOMAIN tree[q].stat
  BY DeployConstants, ContainersAreTrees
<1>3. \A p \in ToEmpty : tree[p].dir
  <2>1. ASSUME NEW p \in ToEmpty PROVE tree[p].dir
    <3>1. get_directory(tree, p)
      BY DEF CanTransformForBoot
    <3>2. p = ShortPath("boot") \/ p = ShortPath("sysroot")
      BY DEF ToEmpty, ShortPath
    <3>3. p \in Ancestors(p)
      BY <3>2, ShortPaths
    <3>4. p \in DOMAIN tree /\ ~(p \in DOMAIN tree /\ ~tree[p].dir)
      BY <3>1, <3>3 DEF get_directory, get_directory_opt
    <3>5. QED BY <3>4
  <2>2. QED BY <2>1
<1> HIDE DEF tree, emptied, D, time
<1>4. ASSUME NEW p \in D
      PROVE  /\ HasStat(emptied[p]) /\ emptied[p].dir = tree[p].dir
             /\ p \notin ToEmpty => emptied[p] = tree[p]
             /\ p \in ToEmpty => emptied[p].stat.mtime = time
  <2> DEFINE node == tree[p]
             stat == node.stat
             changed == [node EXCEPT !.stat.mtime = time]
  <2>1. {"dir", "stat"} \subseteq DOMAIN node
    BY <1>2 DEF IsNode
  <2>2. {"mtime", "xattrs"} \subseteq DOMAIN stat
    BY <1>2
  <2>3. emptied[p] = IF p \in ToEmpty THEN changed ELSE node
    BY <1>1
  <2> HIDE DEF node
  <2>4. changed = [node EXCEPT !.stat = [stat EXCEPT !.mtime = time]]
    OBVIOUS
  <2> HIDE DEF stat, changed
  <2>5. changed.stat = [stat EXCEPT !.mtime = time] /\ changed.dir = node.dir /\ DOMAIN changed = DOMAIN node
    BY <2>1, <2>4
  <2>6. changed.stat.mtime = time /\ DOMAIN changed.stat = DOMAIN stat
    BY <2>2, <2>5
  <2>7. HasStat(changed) /\ HasStat(node)
    BY <2>1, <2>2, <2>5, <2>6 DEF HasStat, stat
  <2>8. QED BY <2>3, <2>5, <2>6, <2>7 DEF node
<1>5. DOMAIN emptied = D
  BY <1>1
<1>6. QED BY <1>3, <1>4, <1>5 DEF tree, emptied, D, time

\* A path in /etc is not emptied.
LEMMA EtcStays ==
  ASSUME NEW X, NEW p \in Seq(X), Len(p) >= 1, p[1] = "etc"
  PROVE  p \notin ToEmpty /\ \A t \in ToEmpty : ~Below(t, p)
<1>1. ASSUME NEW t \in ToEmpty, In(t, p) PROVE FALSE
  <2>1. Len(t) = 1 /\ t[1] # "etc"
    BY DEF ToEmpty
  <2>2. SubSeq(p, 1, 1) = t
    BY <1>1, <2>1 DEF In
  <2>3. SubSeq(p, 1, 1)[1] = p[1]
    BY SubSeqProperties
  <2>4. QED BY <2>1, <2>2, <2>3
<1>2. In(p, p)
  <2>1. SubSeq(p, 1, Len(p)) = p
    OBVIOUS
  <2>2. QED BY <2>1 DEF In
<1>3. QED BY <1>1, <1>2 DEF Below

\* What is in /etc is read as it was before the tree was emptied.
LEMMA FileStays ==
  ASSUME NEW c \in DOMAIN Containers, CanTransformForBoot(Containers[c]),
         NEW X, NEW p \in Seq(X), Len(p) >= 1, p[1] = "etc"
  PROVE  /\ openat(EmptyToplevel(Containers[c]), p) = openat(Containers[c], p)
         /\ p \in DOMAIN EmptyToplevel(Containers[c]) <=> p \in DOMAIN Containers[c]
<1> DEFINE tree == Containers[c]
           emptied == EmptyToplevel(tree)
<1>1. /\ p \in DOMAIN emptied <=> p \in DOMAIN tree
      /\ p \in DOMAIN emptied => emptied[p] = tree[p]
  BY EmptiedIs, EtcStays
<1> HIDE DEF tree, emptied
<1>2. lookup(emptied, p) <=> lookup(tree, p)
  BY <1>1 DEF lookup
<1>3. lookup(tree, p) => (IsFile(emptied, p) <=> IsFile(tree, p)) /\ read_file(emptied, p) = read_file(tree, p)
  BY <1>1, <1>2 DEF lookup, IsFile, read_file
<1>4. openat(emptied, p) = openat(tree, p)
  BY <1>2, <1>3 DEF openat
<1>5. QED BY <1>1, <1>4 DEF tree, emptied

FilePath(name, n) == <<"etc", "selinux", name, "contexts", "files", n>>

DirPath(name) == <<"etc", "selinux">> \o <<name, "contexts", "files">>

\* A name more at the end of a path.
LEMMA AppendedIs ==
  ASSUME NEW X, NEW s \in Seq(X), NEW x \in X
  PROVE  /\ Append(s, x) \in Seq(X) /\ Len(Append(s, x)) = Len(s) + 1
         /\ \A i \in 1 .. Len(s) : Append(s, x)[i] = s[i]
         /\ Append(s, x)[Len(s) + 1] = x
BY AppendProperties

\* A path of three names.
LEMMA ThreeNames ==
  ASSUME NEW x, NEW y, NEW z
  PROVE  Append(<<x, y>>, z) = <<x, y, z>>
<1> DEFINE X == {x, y, z}
           s == <<x, y>>
           t == Append(s, z)
           g == <<x, y, z>>
<1>1. s \in Seq(X) /\ Len(s) = 2 /\ s[1] = x /\ s[2] = y /\ z \in X
  OBVIOUS
<1>2. g \in Seq(X) /\ Len(g) = 3 /\ g[1] = x /\ g[2] = y /\ g[3] = z
  OBVIOUS
<1> HIDE DEF s, g, X
<1>3. t \in Seq(X) /\ Len(t) = Len(s) + 1 /\ (\A i \in 1 .. Len(s) : t[i] = s[i]) /\ t[Len(s) + 1] = z
  <2>1. s \in Seq(X) /\ z \in X
    BY <1>1
  <2>2. QED BY <2>1, AppendedIs
<1> HIDE DEF t
<1>4. \A i \in 1 .. 3 : t[i] = g[i]
  <2>1. 1 .. 3 = {1, 2, 3} /\ 1 .. 2 = {1, 2}
    OBVIOUS
  <2>2. QED BY <1>1, <1>2, <1>3, <2>1
<1>5. t = g
  BY <1>1, <1>2, <1>3, <1>4, SeqEqual
<1>6. QED BY <1>5 DEF t, s, g

\* The path of a file of a policy, put together as the code does it.
LEMMA DirIs ==
  ASSUME NEW name, NEW n
  PROVE  Append(DirPath(name), n) = FilePath(name, n) /\ Append(<<"etc", "selinux">>, "config") = <<"etc", "selinux", "config">>
<1> DEFINE X == {"etc", "selinux", name, "contexts", "files", n}
           a == <<"etc", "selinux">>
           b == <<name, "contexts", "files">>
           d == DirPath(name)
           s == Append(d, n)
           f == FilePath(name, n)
<1>1. a \in Seq(X) /\ b \in Seq(X) /\ n \in X
  OBVIOUS
<1>2. Len(a) = 2 /\ a[1] = "etc" /\ a[2] = "selinux" /\ Len(b) = 3 /\ b[1] = name /\ b[2] = "contexts" /\ b[3] = "files"
  OBVIOUS
<1>3. f \in Seq(X) /\ Len(f) = 6 /\ f[1] = "etc" /\ f[2] = "selinux" /\ f[3] = name /\ f[4] = "contexts" /\ f[5] = "files" /\ f[6] = n
  BY DEF FilePath
<1>4. d = a \o b
  BY DEF DirPath
<1> HIDE DEF X, a, b, d, f
<1>5. d \in Seq(X) /\ Len(d) = 5 /\ d[1] = "etc" /\ d[2] = "selinux" /\ d[3] = name /\ d[4] = "contexts" /\ d[5] = "files"
  <2>1. d \in Seq(X) /\ Len(d) = 5 /\ \A i \in 1 .. 5 : d[i] = IF i <= 2 THEN a[i] ELSE b[i - 2]
    <3>1. /\ a \o b \in Seq(X) /\ Len(a \o b) = Len(a) + Len(b)
          /\ \A i \in 1 .. Len(a) + Len(b) : (a \o b)[i] = IF i <= Len(a) THEN a[i] ELSE b[i - Len(a)]
      BY <1>1, ConcatProperties
    <3>2. Len(a) + Len(b) = 5
      BY <1>2
    <3>3. QED BY <1>2, <1>4, <3>1, <3>2
  <2>2. d[1] = a[1] /\ d[2] = a[2] /\ d[3] = b[1] /\ d[4] = b[2] /\ d[5] = b[3]
    BY <2>1
  <2>3. QED BY <1>2, <2>1, <2>2
<1>6. s \in Seq(X) /\ Len(s) = 6 /\ s[6] = n /\ \A i \in 1 .. 5 : s[i] = d[i]
  <2>1. /\ Append(d, n) \in Seq(X) /\ Len(Append(d, n)) = Len(d) + 1
        /\ \A i \in 1 .. Len(d) : Append(d, n)[i] = d[i]
        /\ Append(d, n)[Len(d) + 1] = n
    <3>1. n \in X /\ d \in Seq(X)
      BY <1>1, <1>5
    <3>2. QED BY <3>1, AppendedIs
  <2>2. Len(d) = 5 /\ Len(d) + 1 = 6
    BY <1>5
  <2>3. QED BY <2>1, <2>2
<1>7. \A i \in 1 .. 6 : s[i] = f[i]
  <2>1. 1 .. 6 = {1, 2, 3, 4, 5, 6} /\ 1 .. 5 = {1, 2, 3, 4, 5}
    OBVIOUS
  <2> HIDE DEF s
  <2>2. QED BY <1>3, <1>5, <1>6, <2>1
<1>8. s = f
  <2> HIDE DEF s
  <2>1. QED BY <1>3, <1>6, <1>7, SeqEqual
<1>9. Append(<<"etc", "selinux">>, "config") = <<"etc", "selinux", "config">>
  BY ThreeNames, Zenon
<1>10. QED BY <1>8, <1>9 DEF d, f

\* What the emptied tree has of the policy is what the container has.
LEMMA PolicyStays ==
  ASSUME NEW c \in DOMAIN Containers, CanTransformForBoot(Containers[c])
  PROVE  LET tree == Containers[c] emptied == EmptyToplevel(tree) name == PolicyName(tree)
         IN  /\ openat(emptied, Append(<<"etc", "selinux">>, "config")) = name
             /\ \A n : openat(emptied, Append(DirPath(name), n)) = PolicyFile(tree, n)
             /\ name # None => get_directory_opt(emptied, <<"etc", "selinux">>) # "none"
<1> DEFINE tree == Containers[c]
           emptied == EmptyToplevel(tree)
           name == PolicyName(tree)
           config == <<"etc", "selinux", "config">>
           dir == <<"etc", "selinux">>
           X == {"etc", "selinux", "config"}
<1>1. config \in Seq(X) /\ Len(config) = 3 /\ config[1] = "etc" /\ config[2] = "selinux"
      /\ dir \in Seq(X) /\ Len(dir) = 2 /\ dir[1] = "etc" /\ dir[2] = "selinux"
  OBVIOUS
<1>2. openat(emptied, Append(dir, "config")) = name
  <2>1. openat(emptied, config) = openat(tree, config)
    <3> HIDE DEF config, X
    <3>1. QED BY <1>1, FileStays
  <2>2. QED BY <2>1, DirIs DEF PolicyName
<1>3. ASSUME NEW n PROVE openat(emptied, Append(DirPath(name), n)) = PolicyFile(tree, n)
  <2> DEFINE f == FilePath(name, n)
  <2>1. f \in Seq({"etc", "selinux", name, "contexts", "files", n}) /\ Len(f) = 6 /\ f[1] = "etc"
    BY DEF FilePath
  <2>2. Append(DirPath(name), n) = f
    BY DirIs
  <2>3. PolicyFile(tree, n) = openat(tree, f)
    BY DEF PolicyFile, FilePath
  <2> HIDE DEF f, name
  <2>4. openat(emptied, f) = openat(tree, f)
    BY <2>1, FileStays
  <2>5. QED BY <2>2, <2>3, <2>4
<1>4. ASSUME name # None PROVE get_directory_opt(emptied, dir) # "none"
  <2>1. config \in DOMAIN tree
    BY <1>4 DEF PolicyName, openat, lookup
  <2>2. Parent(config) \in DOMAIN tree
    <3>1. config # <<>>
      BY <1>1
    <3> HIDE DEF config
    <3>2. QED BY <2>1, <3>1, ContainersAreTrees
  <2>3. Parent(config) = dir
    <3>1. Parent(config) = SubSeq(config, 1, 2)
      BY <1>1 DEF Parent
    <3> HIDE DEF config, dir, X
    <3>2. /\ \A i \in 1 .. 2 : SubSeq(config, 1, 2)[i] = config[i]
          /\ SubSeq(config, 1, 2) \in Seq(X) /\ Len(SubSeq(config, 1, 2)) = 2
      <4>1. \A i \in 1 .. 2 : config[i] \in X
        BY <1>1, ElementOfSeq
      <4>2. QED BY <4>1, SubSeqProperties
    <3>4. 1 .. 2 = {1, 2}
      OBVIOUS
    <3>5. \A i \in 1 .. 2 : SubSeq(config, 1, 2)[i] = dir[i]
      BY <1>1, <3>2, <3>4
    <3>6. QED BY <1>1, <3>1, <3>2, <3>5, SeqEqual
  <2>4. dir \in DOMAIN emptied
    <3>1. dir \in DOMAIN tree
      BY <2>2, <2>3
    <3> HIDE DEF dir, config, X
    <3>2. QED BY <1>1, <3>1, FileStays
  <2> HIDE DEF emptied, dir
  <2>5. QED BY <2>4 DEF get_directory_opt
<1>5. QED BY <1>2, <1>3, <1>4

\* What a file gives to the policy.
Given(tree, n) == IF PolicyFile(tree, n) = None THEN <<>> ELSE PolicyFile(tree, n)

\* The policy that is built is made of the files of the container.
LEMMA PolicyIs ==
  ASSUME NEW c \in DOMAIN Containers, CanTransformForBoot(Containers[c]),
         build(EmptyToplevel(Containers[c]), DirPath(PolicyName(Containers[c]))) # Error
  PROVE  LET tree == Containers[c] policy == build(EmptyToplevel(tree), DirPath(PolicyName(tree)))
         IN  /\ \A n \in Range(SpecFiles) \cup Range(SubsFiles) : PolicyFile(tree, n) # Error
             /\ policy.rules = FlattenSeq([i \in DOMAIN SpecFiles |-> Given(tree, SpecFiles[i])])
             /\ policy.subs = FlattenSeq([i \in DOMAIN SubsFiles |-> Given(tree, SubsFiles[i])])
<1> DEFINE tree == Containers[c]
           emptied == EmptyToplevel(tree)
           dir == DirPath(PolicyName(tree))
           read(names) == [i \in DOMAIN names |-> openat(emptied, Append(dir, names[i]))]
           given(found) == FlattenSeq([i \in DOMAIN found |-> IF found[i] = None THEN <<>> ELSE found[i]])
           bad == Error \in Range(read(SpecFiles)) \cup Range(read(SubsFiles)) \/ read(SpecFiles)[1] = None
           good == [rules |-> given(read(SpecFiles)), subs |-> given(read(SubsFiles))]
<1>1. build(emptied, dir) = IF bad THEN Error ELSE good
  BY DEF build
<1>2. ~bad /\ build(emptied, dir) = good
  <2> HIDE DEF bad, good, emptied, dir
  <2>1. build(emptied, dir) # Error
    BY DEF emptied, dir
  <2>2. QED BY <1>1, <2>1
<1>3. \A n : openat(emptied, Append(dir, n)) = PolicyFile(tree, n)
  BY PolicyStays
<1>4. ASSUME NEW names
      PROVE  /\ \A i \in DOMAIN names : read(names)[i] = PolicyFile(tree, names[i])
             /\ given(read(names)) = FlattenSeq([i \in DOMAIN names |-> Given(tree, names[i])])
  <2> DEFINE r == read(names)
  <2>1. DOMAIN r = DOMAIN names /\ \A i \in DOMAIN names : r[i] = PolicyFile(tree, names[i])
    BY <1>3
  <2> HIDE DEF r
  <2>2. [i \in DOMAIN r |-> IF r[i] = None THEN <<>> ELSE r[i]] = [i \in DOMAIN names |-> Given(tree, names[i])]
    BY <2>1 DEF Given
  <2>3. QED BY <2>1, <2>2 DEF r
<1>5. ASSUME NEW names, Error \notin Range(read(names)), NEW n \in Range(names) PROVE PolicyFile(tree, n) # Error
  <2>1. PICK i \in DOMAIN names : n = names[i]
    BY DEF Range
  <2>2. read(names)[i] \in Range(read(names))
    BY DEF Range
  <2>3. QED BY <1>4, <1>5, <2>1, <2>2
<1>6. Error \notin Range(read(SpecFiles)) /\ Error \notin Range(read(SubsFiles))
  BY <1>2
<1>7. good.rules = given(read(SpecFiles)) /\ good.subs = given(read(SubsFiles))
  OBVIOUS
<1> HIDE DEF read, given, bad, good, emptied, dir
<1>8. QED BY <1>2, <1>4, <1>5, <1>6, <1>7 DEF emptied, dir

-------------------------------------------------------------------------------
(* The labels *)

\* The policy of a container, as it is read when the image is made.
PolicyOf(c) == build(EmptyToplevel(Containers[c]), DirPath(PolicyName(Containers[c])))

\* The label that is looked up for a path of the image.
ContextAt(c, p) ==
  LET emptied == EmptyToplevel(Containers[c])
  IN  ContextOf(PolicyOf(c), LookupPath(PolicyOf(c), LastLink(emptied, p)), Ifmt(emptied[p]))

\* An image is the emptied container with labels: none, or those of its policy.
LEMMA ImageIsLabelled ==
  ASSUME NEW c \in DOMAIN Containers, Rendered[c] # Error
  PROVE  LET tree == Containers[c] emptied == EmptyToplevel(tree)
         IN  /\ CanTransformForBoot(tree)
             /\ PolicyName(tree) = None => Rendered[c] = Labelled(emptied, [p \in DOMAIN emptied |-> "<<none>>"])
             /\ PolicyName(tree) # None =>
                  PolicyOf(c) # Error /\ Rendered[c] = Labelled(emptied, [p \in DOMAIN emptied |-> ContextAt(c, p)])
<1> DEFINE tree == Containers[c]
           emptied == EmptyToplevel(tree)
           etc_selinux == <<"etc", "selinux">>
           name == openat(emptied, Append(etc_selinux, "config"))
           dir == DirPath(name)
           policy == build(emptied, dir)
           strip == strip_selinux_labels(emptied)
           labels == relabel_dir(emptied, policy)
           labelled == IF name \in {None} THEN strip
                       ELSE IF name = Error \/ ~get_directory(emptied, dir) \/ policy = Error THEN Error
                       ELSE labels
           image == Rendered[c]
           type == get_directory_opt(emptied, etc_selinux)
<1>1. CanTransformForBoot(tree) /\ image = selabel(emptied)
  BY DEF Rendered, transform_for_boot
<1>2. selabel(emptied) = InDirectory(emptied, etc_selinux, strip, labelled)
  BY DEF selabel, DirPath
<1>3. name = PolicyName(tree) /\ policy = PolicyOf(c) /\ (name # None => type # "none")
  <2>1. name = PolicyName(tree) /\ (PolicyName(tree) # None => type # "none")
    <3> HIDE DEF type
    <3>1. QED BY <1>1, PolicyStays DEF type
  <2> HIDE DEF name, type
  <2>2. QED BY <2>1 DEF PolicyOf
<1>4. strip = Labelled(emptied, [p \in DOMAIN emptied |-> "<<none>>"])
  BY DEF strip_selinux_labels, Labelled
<1>5. labels = Labelled(emptied, [p \in DOMAIN emptied |-> ContextAt(c, p)])
  <2>1. \A p : ContextAt(c, p) = ContextOf(policy, LookupPath(policy, LastLink(emptied, p)), Ifmt(emptied[p]))
    BY <1>3, Zenon DEF ContextAt
  <2> DEFINE f == [p \in DOMAIN emptied |-> ContextAt(c, p)]
  <2>2. \A p \in DOMAIN emptied : f[p] = ContextOf(policy, LookupPath(policy, LastLink(emptied, p)), Ifmt(emptied[p]))
    BY <2>1
  <2> HIDE DEF f
  <2>3. labels = [p \in DOMAIN emptied |-> [emptied[p] EXCEPT !.stat = WithLabel(@, f[p])]]
    BY <2>2 DEF relabel_dir
  <2>4. QED BY <2>3 DEF Labelled, f
<1> HIDE DEF strip, labels, name, policy, dir, type, image, emptied
<1>6. labelled \in {strip, labels, Error} /\ (name = None => labelled = strip)
      /\ (name # None /\ labelled # Error => labelled = labels /\ policy # Error)
  OBVIOUS
<1> HIDE DEF labelled
<1>7. /\ InDirectory(emptied, etc_selinux, strip, labelled) \in {strip, labelled, Error}
      /\ type # "none" => InDirectory(emptied, etc_selinux, strip, labelled) \in {labelled, Error}
  <2>1. InDirectory(emptied, etc_selinux, strip, labelled) =
          CASE type = "found" -> labelled [] type = "none" -> strip [] OTHER -> Error
    BY DEF InDirectory, type
  <2>2. QED BY <2>1
<1>8. image # Error
  BY DEF image
<1>9. QED BY <1>1, <1>2, <1>3, <1>4, <1>5, <1>6, <1>7, <1>8 DEF emptied, image

\* The link that decides of a leaf's label is one of its links.
LEMMA LastLinkIs ==
  ASSUME NEW c \in DOMAIN Containers, CanTransformForBoot(Containers[c]),
         NEW p \in DOMAIN EmptyToplevel(Containers[c])
  PROVE  LET emptied == EmptyToplevel(Containers[c]) q == LastLink(emptied, p)
         IN  q \in DOMAIN emptied /\ (q = p \/ SameLeaf(emptied, p, q))
<1> DEFINE emptied == EmptyToplevel(Containers[c])
           links == {q \in DOMAIN emptied : q = p \/ SameLeaf(emptied, p, q)}
<1>1. DOMAIN emptied \subseteq DOMAIN Containers[c]
  BY EmptiedIs
<1> HIDE DEF emptied
<1>2. links \in SUBSET Seq(Range(NameOrder)) /\ IsFiniteSet(links) /\ p \in links
  <2>1. links \subseteq DOMAIN Containers[c] /\ p \in links
    BY <1>1 DEF emptied
  <2>2. IsFiniteSet(DOMAIN Containers[c]) /\ DOMAIN Containers[c] \subseteq Seq(Range(NameOrder))
    BY DeployConstants, ContainersAreTrees
  <2>3. QED BY <2>1, <2>2, FS_Subset
<1>3. \E q \in links : \A r \in links \ {q} : VisitedBefore(r, q)
  <2> HIDE DEF links
  <2>1. QED BY <1>2, LastVisited
<1>4. LastLink(emptied, p) = CHOOSE q \in links : \A r \in links \ {q} : VisitedBefore(r, q)
  BY DEF LastLink
<1>5. LastLink(emptied, p) \in links
  <2> HIDE DEF links
  <2>1. QED BY <1>3, <1>4
<1>6. QED BY <1>5 DEF emptied

-------------------------------------------------------------------------------
(* The last rule that matches *)

\* The rules that match, by their numbers.
Hits(rules, path, node) == {i \in DOMAIN rules : Matches(rules[i], path, node)}

LastRule(rules, path, node) == rules[Max(Hits(rules, path, node))]

\* The last rule of two files is that of the second, if it has one.
LEMMA LastOfBoth ==
  ASSUME NEW X, NEW a \in Seq(X), NEW b \in Seq(X), NEW path, NEW node
  PROVE  /\ Hits(b, path, node) # {} =>
              Hits(a \o b, path, node) # {} /\ LastRule(a \o b, path, node) = LastRule(b, path, node)
         /\ Hits(b, path, node) = {} =>
              /\ Hits(a \o b, path, node) = Hits(a, path, node)
              /\ Hits(a, path, node) # {} => LastRule(a \o b, path, node) = LastRule(a, path, node)
<1> DEFINE both == a \o b
           k == Len(a)
           n == Len(b)
           H(r) == Hits(r, path, node)
<1>1. /\ k \in Nat /\ n \in Nat /\ both \in Seq(X) /\ Len(both) = k + n
      /\ DOMAIN a = 1 .. k /\ DOMAIN b = 1 .. n /\ DOMAIN both = 1 .. (k + n)
      /\ \A i \in 1 .. k : both[i] = a[i]
      /\ \A i \in 1 .. n : both[k + i] = b[i]
  OBVIOUS
<1> HIDE DEF both
<1>2. H(a) \in SUBSET (1 .. k) /\ H(b) \in SUBSET (1 .. n) /\ H(both) \in SUBSET (1 .. (k + n))
  BY <1>1 DEF Hits
<1>3. (\A i \in 1 .. k : i \in H(both) <=> i \in H(a)) /\ \A i \in 1 .. n : k + i \in H(both) <=> i \in H(b)
  <2>1. ASSUME NEW i \in 1 .. k PROVE i \in H(both) <=> i \in H(a)
    BY <1>1 DEF Hits
  <2>2. ASSUME NEW i \in 1 .. n PROVE k + i \in H(both) <=> i \in H(b)
    <3>1. k + i \in 1 .. (k + n) /\ both[k + i] = b[i]
      BY <1>1
    <3>2. QED BY <1>1, <3>1 DEF Hits
  <2>3. QED BY <2>1, <2>2
<1> HIDE DEF k, n
<1>4. ASSUME H(b) # {} PROVE H(both) # {} /\ LastRule(both, path, node) = LastRule(b, path, node)
  <2> DEFINE m == Max(H(b))
  <2>1. m \in H(b) /\ \A i \in H(b) : i <= m
    <3> HIDE DEF H
    <3>1. QED BY <1>1, <1>2, <1>4, GreatestNumber
  <2> DEFINE l == Max(H(both))
  <2>2. k + m \in H(both)
    BY <1>2, <1>3, <2>1
  <2>3. l \in H(both) /\ \A i \in H(both) : i <= l
    <3> HIDE DEF H
    <3>1. k + n \in Nat /\ H(both) # {}
      BY <1>1, <2>2
    <3>2. QED BY <1>2, <3>1, GreatestNumber
  <2> HIDE DEF m, l
  <2>4. l = k + m
    <3>1. k + m <= l /\ l \in 1 .. (k + n) /\ m \in 1 .. n
      BY <1>2, <2>1, <2>2, <2>3
    <3>2. l - k \in 1 .. n /\ k + (l - k) = l
      BY <1>1, <3>1
    <3>3. l - k \in H(b)
      BY <1>3, <2>3, <3>2
    <3>4. QED BY <1>1, <2>1, <3>1, <3>2, <3>3
  <2>5. both[l] = b[m]
    BY <1>1, <1>2, <2>1, <2>4
  <2>6. QED BY <2>2, <2>5 DEF LastRule, l, m
<1>5. ASSUME H(b) = {} PROVE H(both) = H(a)
  <2>1. ASSUME NEW i \in H(both) PROVE i \in H(a)
    <3>1. i \in 1 .. k
      <4>1. ASSUME i \notin 1 .. k PROVE FALSE
        <5>1. i - k \in 1 .. n /\ k + (i - k) = i
          BY <1>1, <1>2, <4>1
        <5>2. i - k \in H(b)
          BY <1>3, <2>1, <5>1
        <5>3. QED BY <1>5, <5>2
      <4>2. QED BY <4>1
    <3>2. QED BY <1>3, <2>1, <3>1
  <2>2. H(a) \subseteq H(both)
    BY <1>2, <1>3
  <2>3. QED BY <2>1, <2>2
<1>6. ASSUME H(b) = {}, H(a) # {} PROVE LastRule(both, path, node) = LastRule(a, path, node)
  <2> DEFINE m == Max(H(a))
  <2>1. m \in H(a)
    <3> HIDE DEF H
    <3>1. QED BY <1>1, <1>2, <1>6, GreatestNumber
  <2>2. Max(H(both)) = m
    BY <1>5, <1>6
  <2> HIDE DEF m
  <2>3. both[m] = a[m]
    BY <1>1, <1>2, <2>1
  <2>4. QED BY <2>2, <2>3 DEF LastRule, m
<1>7. QED BY <1>4, <1>5, <1>6 DEF both

\* What a sequence is of may be more.
LEMMA WiderSeq ==
  ASSUME NEW X, NEW Y, X \subseteq Y, NEW s \in Seq(X)
  PROVE  s \in Seq(Y)
OBVIOUS

\* A file of a policy that can be built is a sequence, or is not there.
LEMMA GivenIs ==
  ASSUME NEW c \in DOMAIN Containers, NEW n \in Range(SpecFiles) \cup Range(SubsFiles), PolicyFile(Containers[c], n) # Error
  PROVE  Given(Containers[c], n) \in Seq(Range(Given(Containers[c], n)))
<1> DEFINE f == PolicyFile(Containers[c], n)
           g == Given(Containers[c], n)
<1>1. f # None => f \in Seq(Range(f))
  BY ContainersAreTrees
<1>2. CASE f = None
  <2>1. g = <<>>
    BY <1>2 DEF Given
  <2>2. <<>> \in Seq(Range(g))
    OBVIOUS
  <2>3. QED BY <2>1, <2>2
<1>3. CASE f # None
  BY <1>1, <1>3 DEF Given
<1>4. QED BY <1>2, <1>3

\* The files of the rules, one after the other.
LEMMA FlattenedPair ==
  ASSUME NEW X, NEW s, s \in Seq(Seq(X)), Len(s) = 2
  PROVE  FlattenSeq(s) = s[1] \o s[2]
<1>1. PICK f \in [0 .. 2 -> Seq(X)] : Flattens(f, s)
  BY Flattening
<1>2. f[0] = <<>> /\ f[1] = f[0] \o s[1] /\ f[2] = f[1] \o s[2] /\ FlattenSeq(s) = f[2]
  <2>1. \A i \in 1 .. Len(s) : f[i] = f[i - 1] \o s[i]
    BY <1>1 DEF Flattens
  <2>2. f[0] = <<>> /\ FlattenSeq(s) = f[2]
    BY <1>1 DEF Flattens
  <2>3. 1 .. Len(s) = {1, 2} /\ 1 - 1 = 0 /\ 2 - 1 = 1
    OBVIOUS
  <2>4. \A i \in {1, 2} : f[i] = f[i - 1] \o s[i]
    BY <2>1, <2>3
  <2>5. f[1] = f[1 - 1] \o s[1] /\ f[2] = f[2 - 1] \o s[2]
    BY <2>4
  <2>6. QED BY <2>2, <2>3, <2>5
<1>3. <<>> \o s[1] = s[1]
  <2>1. s[1] \in Seq(X)
    <3>1. 1 \in 1 .. Len(s)
      OBVIOUS
    <3>2. QED BY <3>1, ElementOfSeq
  <2>2. QED BY <2>1, ConcatEmptySeq
<1>4. QED BY <1>2, <1>3

\* Three files, one after the other.
LEMMA FlattenedThree ==
  ASSUME NEW X, NEW s, s \in Seq(Seq(X)), Len(s) = 3
  PROVE  FlattenSeq(s) = (s[1] \o s[2]) \o s[3]
<1>1. PICK f \in [0 .. 3 -> Seq(X)] : Flattens(f, s)
  BY Flattening
<1>2. f[0] = <<>> /\ f[1] = f[0] \o s[1] /\ f[2] = f[1] \o s[2] /\ f[3] = f[2] \o s[3] /\ FlattenSeq(s) = f[3]
  <2>1. \A i \in 1 .. Len(s) : f[i] = f[i - 1] \o s[i]
    BY <1>1 DEF Flattens
  <2>2. f[0] = <<>> /\ FlattenSeq(s) = f[3]
    BY <1>1 DEF Flattens
  <2>3. 1 .. Len(s) = {1, 2, 3} /\ 1 - 1 = 0 /\ 2 - 1 = 1 /\ 3 - 1 = 2
    OBVIOUS
  <2>4. \A i \in {1, 2, 3} : f[i] = f[i - 1] \o s[i]
    BY <2>1, <2>3
  <2>5. f[1] = f[1 - 1] \o s[1] /\ f[2] = f[2 - 1] \o s[2] /\ f[3] = f[3 - 1] \o s[3]
    BY <2>4
  <2>6. QED BY <2>2, <2>3, <2>5
<1>3. <<>> \o s[1] = s[1]
  <2>1. s[1] \in Seq(X)
    <3>1. 1 \in 1 .. Len(s)
      OBVIOUS
    <3>2. QED BY <3>1, ElementOfSeq
  <2>2. QED BY <2>1, ConcatEmptySeq
<1>4. QED BY <1>2, <1>3

\* The rules of a policy are those of its three files.
LEMMA RulesAre ==
  ASSUME NEW c \in DOMAIN Containers, CanTransformForBoot(Containers[c]), PolicyOf(c) # Error
  PROVE  LET g(i) == Given(Containers[c], SpecFiles[i])
             X == UNION {Range(g(i)) : i \in 1 .. 3}
         IN  /\ PolicyOf(c).rules = (g(1) \o g(2)) \o g(3)
             /\ \A i \in 1 .. 3 : g(i) \in Seq(X)
<1> DEFINE g(i) == Given(Containers[c], SpecFiles[i])
           R(i) == Range(g(i))
           X == UNION {R(i) : i \in 1 .. 3}
           s == [i \in 1 .. 3 |-> g(i)]
<1>1. DOMAIN SpecFiles = 1 .. 3 /\ \A i \in 1 .. 3 : SpecFiles[i] \in Range(SpecFiles)
  <2>1. DOMAIN SpecFiles = 1 .. 3
    BY DEF SpecFiles
  <2>2. QED BY <2>1 DEF Range
<1>2. PolicyOf(c).rules = FlattenSeq(s)
  BY <1>1, PolicyIs DEF PolicyOf
<1>3. ASSUME NEW i \in 1 .. 3 PROVE g(i) \in Seq(X)
  <2>1. PolicyFile(Containers[c], SpecFiles[i]) # Error
    BY <1>1, PolicyIs DEF PolicyOf
  <2>2. g(i) \in Seq(R(i))
    BY <1>1, <2>1, GivenIs
  <2>3. R(i) \subseteq X
    OBVIOUS
  <2> HIDE DEF R, g, X
  <2>4. QED BY <2>2, <2>3, WiderSeq
<1> HIDE DEF X, g
<1>4. s \in Seq(Seq(X)) /\ Len(s) = 3 /\ s[1] = g(1) /\ s[2] = g(2) /\ s[3] = g(3)
  BY <1>3
<1> HIDE DEF s
<1>5. FlattenSeq(s) = (s[1] \o s[2]) \o s[3]
  BY <1>4, FlattenedThree
<1>6. QED BY <1>2, <1>3, <1>4, <1>5 DEF X, g

\* The label that is looked up is that of the last rule that matches, of the last file with one.
LEMMA ContextIs ==
  ASSUME NEW c \in DOMAIN Containers, CanTransformForBoot(Containers[c]), PolicyOf(c) # Error,
         NEW path, NEW node
  PROVE  ContextOf(PolicyOf(c), path, Ifmt(node)) = LabelFor(Containers[c], path, node)
<1> DEFINE tree == Containers[c]
           g(i) == Given(tree, SpecFiles[i])
           H(r) == Hits(r, path, node)
           X == UNION {Range(g(i)) : i \in 1 .. 3}
           rules == PolicyOf(c).rules
           with == {n \in 1 .. 3 : H(g(n)) # {}}
           m == Max(with)
           pair == g(1) \o g(2)
<1>1. rules = pair \o g(3) /\ \A i \in 1 .. 3 : g(i) \in Seq(X)
  BY RulesAre
<1>2. ContextOf(PolicyOf(c), path, Ifmt(node)) = IF H(rules) = {} THEN "<<none>>" ELSE LastRule(rules, path, node).context
  BY DEF ContextOf, Hits, Matches, LastRule
<1>3. with = {n \in DOMAIN SpecFiles : PolicyFile(tree, SpecFiles[n]) # None
                /\ \E i \in DOMAIN PolicyFile(tree, SpecFiles[n]) : Matches(PolicyFile(tree, SpecFiles[n])[i], path, node)}
  <2>1. DOMAIN SpecFiles = 1 .. 3
    BY DEF SpecFiles
  <2>2. ASSUME NEW n
        PROVE  H(g(n)) # {} <=> /\ PolicyFile(tree, SpecFiles[n]) # None
                                /\ \E i \in DOMAIN PolicyFile(tree, SpecFiles[n]) : Matches(PolicyFile(tree, SpecFiles[n])[i], path, node)
    <3> DEFINE f == PolicyFile(tree, SpecFiles[n])
    <3>1. g(n) = IF f = None THEN <<>> ELSE f
      BY DEF Given
    <3> HIDE DEF f, g
    <3>2. CASE f = None
      <4>1. DOMAIN g(n) = {}
        BY <3>1, <3>2
      <4>2. QED BY <3>2, <4>1 DEF Hits, f
    <3>3. CASE f # None
      BY <3>1, <3>3 DEF Hits, f
    <3>4. QED BY <3>2, <3>3
  <2>3. QED BY <2>1, <2>2
<1>4. LabelFor(tree, path, node) = IF with = {} THEN "<<none>>"
        ELSE PolicyFile(tree, SpecFiles[m])[Max({i \in DOMAIN PolicyFile(tree, SpecFiles[m]) : Matches(PolicyFile(tree, SpecFiles[m])[i], path, node)})].context
  <2> HIDE DEF with
  <2>1. QED BY <1>3 DEF LabelFor
<1>5. ASSUME with # {}
      PROVE  /\ m \in with /\ \A n \in with : n <= m
             /\ LabelFor(tree, path, node) = LastRule(g(m), path, node).context
  <2>1. m \in with /\ \A n \in with : n <= m
    <3>1. with \in SUBSET (1 .. 3)
      OBVIOUS
    <3> HIDE DEF with
    <3>2. QED BY <1>5, <3>1, GreatestNumber
  <2>2. PolicyFile(tree, SpecFiles[m]) # None
    <3> HIDE DEF with, m
    <3>1. QED BY <1>3, <2>1
  <2>3. PolicyFile(tree, SpecFiles[m]) = g(m)
    BY <2>2 DEF Given
  <2> HIDE DEF with, m, g
  <2>4. QED BY <1>4, <1>5, <2>1, <2>3 DEF LastRule, Hits
<1>6. pair \in Seq(X)
  <2>1. g(1) \in Seq(X) /\ g(2) \in Seq(X)
    BY <1>1
  <2> HIDE DEF g, X
  <2>2. QED BY <2>1, ConcatProperties
<1>7. g(1) \in Seq(X) /\ g(2) \in Seq(X) /\ g(3) \in Seq(X)
  BY <1>1
<1> HIDE DEF g, X
<1>8. /\ H(g(2)) # {} => H(pair) # {} /\ LastRule(pair, path, node) = LastRule(g(2), path, node)
      /\ H(g(2)) = {} => /\ H(pair) = H(g(1))
                         /\ H(g(1)) # {} => LastRule(pair, path, node) = LastRule(g(1), path, node)
  BY <1>7, LastOfBoth
<1> HIDE DEF pair
<1>9. /\ H(g(3)) # {} => H(pair \o g(3)) # {} /\ LastRule(pair \o g(3), path, node) = LastRule(g(3), path, node)
      /\ H(g(3)) = {} => /\ H(pair \o g(3)) = H(pair)
                         /\ H(pair) # {} => LastRule(pair \o g(3), path, node) = LastRule(pair, path, node)
  BY <1>6, <1>7, LastOfBoth
<1> HIDE DEF m, H, rules
<1>10. CASE with = {}
  <2>1. H(g(1)) = {} /\ H(g(2)) = {} /\ H(g(3)) = {}
    <3>1. 1 \in 1 .. 3 /\ 2 \in 1 .. 3 /\ 3 \in 1 .. 3
      OBVIOUS
    <3>2. QED BY <1>10, <3>1
  <2>2. H(rules) = {}
    BY <1>1, <1>8, <1>9, <2>1
  <2>3. QED BY <1>2, <1>4, <1>10, <2>2
<1>11. CASE with # {}
  <2>1. /\ m \in 1 .. 3 /\ H(g(m)) # {} /\ \A n \in 1 .. 3 : n > m => H(g(n)) = {}
        /\ LabelFor(tree, path, node) = LastRule(g(m), path, node).context
    BY <1>5, <1>11
  <2>2. CASE m = 3
    BY <1>1, <1>2, <1>9, <2>1, <2>2
  <2>3. CASE m = 2
    <3>1. H(g(3)) = {}
      BY <2>1, <2>3
    <3>2. QED BY <1>1, <1>2, <1>8, <1>9, <2>1, <2>3, <3>1
  <2>4. CASE m = 1
    <3>1. H(g(3)) = {} /\ H(g(2)) = {}
      BY <2>1, <2>4
    <3>2. QED BY <1>1, <1>2, <1>8, <1>9, <2>1, <2>4, <3>1
  <2>5. QED BY <2>1, <2>2, <2>3, <2>4
<1>12. QED BY <1>10, <1>11

-------------------------------------------------------------------------------
(* The path by which the policy knows a path *)

\* The aliases of a policy are those of its two files.
LEMMA AliasesAre ==
  ASSUME NEW c \in DOMAIN Containers, CanTransformForBoot(Containers[c]), PolicyOf(c) # Error
  PROVE  LET subs == Aliases(Containers[c])
         IN  /\ PolicyOf(c).subs \in Seq(subs) /\ Range(PolicyOf(c).subs) = subs
             /\ \A s \in subs : {s.alias, s.path} \subseteq Seq(Range(s.alias) \cup Range(s.path))
<1> DEFINE tree == Containers[c]
           g(i) == Given(tree, SubsFiles[i])
           R(i) == Range(g(i))
           X == R(1) \cup R(2)
           s == [i \in 1 .. 2 |-> g(i)]
           file(n) == IF PolicyFile(tree, n) = None THEN {} ELSE Range(PolicyFile(tree, n))
<1>1. DOMAIN SubsFiles = 1 .. 2 /\ (\A i \in 1 .. 2 : SubsFiles[i] \in Range(SubsFiles))
      /\ Range(SubsFiles) = {SubsFiles[1], SubsFiles[2]}
  <2>1. DOMAIN SubsFiles = 1 .. 2
    BY DEF SubsFiles
  <2>2. 1 .. 2 = {1, 2}
    OBVIOUS
  <2>3. QED BY <2>1, <2>2 DEF Range
<1>2. PolicyOf(c).subs = FlattenSeq(s)
  BY <1>1, PolicyIs DEF PolicyOf
<1>3. \A i \in 1 .. 2 : PolicyFile(tree, SubsFiles[i]) # Error
  BY <1>1, PolicyIs DEF PolicyOf
<1>4. ASSUME NEW i \in 1 .. 2 PROVE g(i) \in Seq(X)
  <2>1. g(i) \in Seq(R(i))
    BY <1>1, <1>3, GivenIs
  <2>2. R(i) \subseteq X
    <3>1. i = 1 \/ i = 2
      OBVIOUS
    <3> HIDE DEF R
    <3>2. QED BY <3>1
  <2> HIDE DEF R, g, X
  <2>3. QED BY <2>1, <2>2, WiderSeq
<1>5. ASSUME NEW n PROVE file(n) = Range(Given(tree, n))
  <2>1. Range(<<>>) = {}
    BY DEF Range
  <2>2. QED BY <2>1 DEF Given
<1>6. Aliases(tree) = X
  <2>1. Aliases(tree) = UNION {file(n) : n \in Range(SubsFiles)}
    BY DEF Aliases
  <2> HIDE DEF file
  <2>2. Aliases(tree) = file(SubsFiles[1]) \cup file(SubsFiles[2])
    BY <1>1, <2>1
  <2>3. QED BY <1>5, <2>2
<1>7. \A a \in X : {a.alias, a.path} \subseteq Seq(Range(a.alias) \cup Range(a.path))
  <2>1. ASSUME NEW i \in 1 .. 2, NEW a \in R(i) PROVE {a.alias, a.path} \subseteq Seq(Range(a.alias) \cup Range(a.path))
    <3> DEFINE n == SubsFiles[i]
    <3>1. file(n) = R(i)
      BY <1>5
    <3>2. PolicyFile(tree, n) # None /\ a \in Range(PolicyFile(tree, n))
      <4> HIDE DEF R, n
      <4>1. QED BY <3>1
    <3>3. PolicyFile(tree, n) # Error /\ n \in Range(SubsFiles)
      BY <1>1, <1>3
    <3> HIDE DEF n
    <3>4. QED BY <3>2, <3>3, ContainersAreTrees
  <2>2. 1 \in 1 .. 2 /\ 2 \in 1 .. 2
    OBVIOUS
  <2> HIDE DEF R
  <2>3. QED BY <2>1, <2>2
<1> HIDE DEF X, g, file
<1>8. s \in Seq(Seq(X)) /\ Len(s) = 2 /\ s[1] = g(1) /\ s[2] = g(2) /\ g(1) \in Seq(X) /\ g(2) \in Seq(X)
  BY <1>4
<1> HIDE DEF s
<1>9. FlattenSeq(s) = g(1) \o g(2)
  BY <1>8, FlattenedPair
<1>10. g(1) \o g(2) \in Seq(X) /\ ToSet(g(1) \o g(2)) = ToSet(g(1)) \cup ToSet(g(2))
  BY <1>8, ConcatenatedSet
<1>11. \A t : ToSet(t) = Range(t)
  BY DEF ToSet, Range
<1>12. Range(PolicyOf(c).subs) = X
  BY <1>2, <1>9, <1>10, <1>11 DEF X
<1>13. QED BY <1>2, <1>6, <1>7, <1>9, <1>10, <1>12

\* What is put before a path and taken away again.
LEMMA SplitIs ==
  ASSUME NEW N, NEW a \in Seq(N), NEW b \in Seq(N)
  PROVE  /\ a \o b \in Seq(N) /\ Len(a \o b) = Len(a) + Len(b) /\ Len(a) \in Nat /\ Len(b) \in Nat
         /\ SubSeq(a \o b, 1, Len(a)) = a
         /\ SubSeq(a \o b, Len(a) + 1, Len(a \o b)) = b
<1> DEFINE w == a \o b
           l == Len(w)
           x == SubSeq(w, 1, Len(a))
           y == SubSeq(w, Len(a) + 1, l)
<1>1. /\ w \in Seq(N) /\ l = Len(a) + Len(b) /\ Len(a) \in Nat /\ Len(b) \in Nat
      /\ \A i \in 1 .. Len(a) : w[i] = a[i]
      /\ \A i \in 1 .. Len(b) : w[Len(a) + i] = b[i]
  OBVIOUS
<1> HIDE DEF w
<1>2. \A i \in 1 .. l : w[i] \in N
  BY <1>1, ElementOfSeq DEF l
<1> HIDE DEF l
<1>3. x \in Seq(N) /\ Len(x) = Len(a) /\ \A i \in 1 .. Len(a) : x[i] = w[i]
  <2>1. \A i \in 1 .. Len(a) : w[i] \in N
    BY <1>1, <1>2
  <2>2. QED BY <1>1, <2>1, SubSeqProperties
<1>4. y \in Seq(N) /\ Len(y) = Len(b) /\ \A i \in 1 .. Len(b) : y[i] = w[Len(a) + i]
  <2>1. \A i \in Len(a) + 1 .. l : w[i] \in N
    BY <1>1, <1>2
  <2>2. Len(a) + 1 \in Int /\ l \in Int /\ l - (Len(a) + 1) + 1 = Len(b)
    BY <1>1
  <2>3. /\ y \in Seq(N)
        /\ Len(y) = IF Len(a) + 1 <= l THEN l - (Len(a) + 1) + 1 ELSE 0
        /\ \A i \in 1 .. l - (Len(a) + 1) + 1 : y[i] = w[(Len(a) + 1) + i - 1]
    BY <2>1, <2>2, SubSeqProperties
  <2> HIDE DEF y
  <2>4. QED BY <1>1, <2>2, <2>3
<1> HIDE DEF x, y
<1>5. x = a
  BY <1>1, <1>3, SeqEqual
<1>6. y = b
  BY <1>1, <1>4, SeqEqual
<1>7. QED BY <1>1, <1>5, <1>6 DEF w, l, x, y

\* What has been looked up of a path, with the names that follow.
WithRest(q, p, n) == q \o SubSeq(p, n, Len(p))

\* A name goes from the rest of the path to what has been looked up.
LEMMA NameMoves ==
  ASSUME NEW N, NEW q \in Seq(N), NEW p \in Seq(N), NEW n \in 1 .. Len(p)
  PROVE  /\ WithRest(q, p, n) = WithRest(Append(q, p[n]), p, n + 1)
         /\ SubSeq(p, n, Len(p)) \in Seq(N) /\ SubSeq(p, n + 1, Len(p)) \in Seq(N)
         /\ Append(q, p[n]) \in Seq(N) /\ Len(Append(q, p[n])) = Len(q) + 1
<1> DEFINE l == Len(p)
           x == SubSeq(p, n, l)
           y == SubSeq(p, n + 1, l)
           r == Append(q, p[n])
<1>1. l \in Nat /\ n \in 1 .. l /\ \A i \in 1 .. l : p[i] \in N
  BY ElementOfSeq
<1>2. x \in Seq(N) /\ Len(x) = l - n + 1 /\ \A i \in 1 .. l - n + 1 : x[i] = p[n + i - 1]
  BY <1>1, SubSeqProperties
<1>3. y \in Seq(N) /\ Len(y) = l - n /\ \A i \in 1 .. l - n : y[i] = p[n + i]
  <2>1. /\ y \in Seq(N) /\ Len(y) = IF n + 1 <= l THEN l - (n + 1) + 1 ELSE 0
        /\ \A i \in 1 .. l - (n + 1) + 1 : y[i] = p[(n + 1) + i - 1]
    BY <1>1, SubSeqProperties
  <2> HIDE DEF y
  <2>2. QED BY <1>1, <2>1
<1>4. r \in Seq(N) /\ Len(r) = Len(q) + 1 /\ Len(q) \in Nat /\ r[Len(q) + 1] = p[n] /\ \A i \in 1 .. Len(q) : r[i] = q[i]
  BY <1>1, AppendedIs
<1> HIDE DEF l, x, y, r
<1> DEFINE a == q \o x
           b == r \o y
<1>5. /\ a \in Seq(N) /\ Len(a) = Len(q) + Len(x)
      /\ \A i \in 1 .. Len(q) + Len(x) : a[i] = IF i <= Len(q) THEN q[i] ELSE x[i - Len(q)]
  BY <1>2, ConcatProperties
<1>6. /\ b \in Seq(N) /\ Len(b) = Len(r) + Len(y)
      /\ \A i \in 1 .. Len(r) + Len(y) : b[i] = IF i <= Len(r) THEN r[i] ELSE y[i - Len(r)]
  BY <1>3, <1>4, ConcatProperties
<1> HIDE DEF a, b
<1>7. Len(a) = Len(q) + l - n + 1 /\ Len(b) = Len(a)
  BY <1>1, <1>2, <1>3, <1>4, <1>5, <1>6
<1>8. ASSUME NEW i \in 1 .. Len(a) PROVE a[i] = b[i]
  <2>1. i \in Nat /\ i >= 1 /\ i <= Len(q) + l - n + 1
    BY <1>1, <1>4, <1>7
  <2>2. a[i] = IF i <= Len(q) THEN q[i] ELSE x[i - Len(q)]
    BY <1>5, <1>7
  <2>3. b[i] = IF i <= Len(q) + 1 THEN r[i] ELSE y[i - (Len(q) + 1)]
    BY <1>4, <1>6, <1>7
  <2>4. CASE i <= Len(q)
    BY <1>4, <2>1, <2>2, <2>3, <2>4
  <2>5. CASE i = Len(q) + 1
    <3>1. i - Len(q) = 1 /\ 1 \in 1 .. l - n + 1 /\ n + 1 - 1 = n
      BY <1>1, <1>4, <2>5
    <3>2. x[1] = p[n]
      BY <1>2, <3>1
    <3>3. QED BY <1>4, <2>2, <2>3, <2>5, <3>1, <3>2
  <2>6. CASE i > Len(q) + 1
    <3> DEFINE j == i - (Len(q) + 1)
    <3>1. j \in 1 .. l - n /\ i - Len(q) = j + 1 /\ j + 1 \in 1 .. l - n + 1 /\ n + (j + 1) - 1 = n + j
      BY <1>1, <1>4, <2>1, <2>6
    <3>2. x[j + 1] = p[n + j] /\ y[j] = p[n + j]
      BY <1>2, <1>3, <3>1
    <3>3. ~(i <= Len(q)) /\ ~(i <= Len(q) + 1)
      BY <1>4, <2>1, <2>6
    <3>4. QED BY <2>2, <2>3, <3>1, <3>2, <3>3
  <2>7. QED BY <1>4, <2>1, <2>4, <2>5, <2>6
<1>9. a = b
  BY <1>5, <1>6, <1>7, <1>8, SeqEqual
<1>10. QED BY <1>2, <1>3, <1>4, <1>9 DEF a, b, l, x, y, r, WithRest

\* An alias that is all of what has been looked up is replaced.
LEMMA AliasedIs ==
  ASSUME NEW policy, NEW subs, policy.subs \in Seq(subs), Range(policy.subs) = subs, NEW q
  PROVE  \/ check_aliased(policy, q) = q /\ \A s \in subs : s.alias # q
         \/ \E s \in subs : s.alias = q /\ check_aliased(policy, q) = s.path
<1> DEFINE list == policy.subs
           hits == {i \in DOMAIN list : list[i].alias = q}
<1>1. check_aliased(policy, q) = IF hits = {} THEN q ELSE list[Max(hits)].path
  BY DEF check_aliased
<1>2. Len(list) \in Nat /\ hits \in SUBSET (1 .. Len(list)) /\ \A i \in DOMAIN list : list[i] \in subs
  <2>1. DOMAIN list = 1 .. Len(list) /\ Len(list) \in Nat
    OBVIOUS
  <2>2. \A i \in DOMAIN list : list[i] \in subs
    BY DEF Range
  <2>3. QED BY <2>1, <2>2
<1>3. CASE hits = {}
  <2>1. ASSUME NEW s \in subs PROVE s.alias # q
    <3>1. PICK i \in DOMAIN list : list[i] = s
      BY DEF Range
    <3>2. QED BY <1>3, <3>1
  <2>2. QED BY <1>1, <1>3, <2>1
<1>4. CASE hits # {}
  <2>1. Max(hits) \in hits
    <3> HIDE DEF hits
    <3>1. QED BY <1>2, <1>4, GreatestNumber
  <2>2. QED BY <1>1, <1>2, <1>4, <2>1
<1>5. QED BY <1>3, <1>4

\* The steps of the lookup of a path, and of what it may be known as.
LooksUp(f, policy, p) ==
  f = [n \in 0 .. Len(p) |-> IF n = 0 THEN <<>> ELSE check_aliased(policy, Append(f[n - 1], p[n]))]

Knows(f, subs, p) ==
  f = [n \in 0 .. Len(p) |-> IF n = 0 THEN {[is |-> p, done |-> 0]}
                             ELSE f[n - 1] \cup UNION {Replaced(subs, k) : k \in f[n - 1]}]

\* What they come through.
IsLookup(u, policy, p) ==
  /\ LookupPath(policy, p) = u[Len(p)] /\ u[0] = <<>>
  /\ \A n \in 1 .. Len(p) : u[n] = check_aliased(policy, Append(u[n - 1], p[n]))

IsKnown(u, tree, p) ==
  /\ KnownAs(tree, p) = {k.is : k \in {j \in u[Len(p)] : Replaced(Aliases(tree), j) = {}}}
  /\ u[0] = {[is |-> p, done |-> 0]}
  /\ \A n \in 1 .. Len(p) : u[n] = u[n - 1] \cup UNION {Replaced(Aliases(tree), k) : k \in u[n - 1]}

\* Each step of a lookup takes a name more and replaces an alias, if one ends there.
LEMMA LookupSteps ==
  ASSUME NEW policy, NEW N, NEW p \in Seq(N), \A q \in Seq(N) : check_aliased(policy, q) \in Seq(N)
  PROVE  \E u \in [0 .. Len(p) -> Seq(N)] : IsLookup(u, policy, p)
<1> DEFINE l == Len(p)
           step == [z \in (1 .. l) \X Seq(N) |-> check_aliased(policy, Append(z[2], p[z[1]]))]
<1>1. l \in Nat /\ <<>> \in Seq(N) /\ \A n \in 1 .. l : p[n] \in N
  BY ElementOfSeq
<1>2. LookupPath(policy, p) = (CHOOSE f : LooksUp(f, policy, p))[l]
  BY DEF LookupPath, LooksUp
<1>3. \A n \in 1 .. l, q \in Seq(N) : step[<<n, q>>] = check_aliased(policy, Append(q, p[n]))
                                      /\ check_aliased(policy, Append(q, p[n])) \in Seq(N)
  <2>1. ASSUME NEW n \in 1 .. l, NEW q \in Seq(N) PROVE check_aliased(policy, Append(q, p[n])) \in Seq(N)
    <3>1. Append(q, p[n]) \in Seq(N)
      BY <1>1
    <3>2. QED BY <3>1
  <2>2. QED BY <2>1
<1>4. step \in [(1 .. l) \X Seq(N) -> Seq(N)]
  BY <1>3
<1> HIDE DEF step, l
<1>5. PICK f \in [0 .. l -> Seq(N)] : Iterates(f, l, <<>>, step)
  BY <1>1, <1>4, Iteration
<1>6. f[0] = <<>> /\ \A n \in 1 .. l : f[n] = check_aliased(policy, Append(f[n - 1], p[n]))
  <2>1. \A n \in 1 .. l : n - 1 \in 0 .. l
    BY <1>1
  <2>2. QED BY <1>3, <1>5, <2>1 DEF Iterates
<1>7. LooksUp(f, policy, p)
  <2>1. \A n \in 0 .. l : n # 0 => n \in 1 .. l
    BY <1>1
  <2> DEFINE g == [n \in 0 .. l |-> IF n = 0 THEN <<>> ELSE check_aliased(policy, Append(f[n - 1], p[n]))]
  <2>2. \A n \in 0 .. l : f[n] = g[n]
    BY <1>6, <2>1
  <2>3. f = g
    BY <2>2
  <2>4. QED BY <2>3 DEF LooksUp, l
<1>8. PICK u : LooksUp(u, policy, p) /\ LookupPath(policy, p) = u[l]
  BY <1>2, <1>7
<1>9. DOMAIN u = 0 .. l /\ u[0] = <<>> /\ \A n \in 1 .. l : u[n] = check_aliased(policy, Append(u[n - 1], p[n]))
  <2> DEFINE g == [n \in 0 .. l |-> IF n = 0 THEN <<>> ELSE check_aliased(policy, Append(u[n - 1], p[n]))]
  <2>1. u = g
    BY <1>8 DEF LooksUp, l
  <2>2. DOMAIN g = 0 .. l /\ g[0] = <<>> /\ \A n \in 1 .. l : g[n] = check_aliased(policy, Append(u[n - 1], p[n]))
    BY <1>1
  <2> HIDE DEF g
  <2>3. QED BY <2>1, <2>2
<1> DEFINE G == {n \in 0 .. l : u[n] = f[n]}
<1>10. 0 \in G
  BY <1>1, <1>6, <1>9
<1>11. ASSUME NEW n \in 1 .. l, n - 1 \in G PROVE n \in G
  BY <1>1, <1>6, <1>9, <1>11
<1>12. \A n \in 0 .. l : u[n] = f[n]
  <2>1. 0 .. l \subseteq G
    <3> HIDE DEF G
    <3>1. QED BY <1>1, <1>10, <1>11, IndexInduction
  <2>2. QED BY <2>1
<1>13. u[l] = f[l]
  BY <1>1, <1>12
<1>14. IsLookup(f, policy, p)
  BY <1>6, <1>8, <1>13 DEF IsLookup, l
<1>15. QED BY <1>5, <1>14 DEF l

\* What becomes of a path is a path.
Rests(N) == [is : Seq(N), done : Nat]

\* What is left when an alias is replaced is a path of names.
LEMMA ReplacedIs ==
  ASSUME NEW N, NEW subs, \A s \in subs : s.path \in Seq(N) /\ s.alias \in Seq(N), NEW k \in Rests(N)
  PROVE  Replaced(subs, k) \subseteq Rests(N)
<1>1. ASSUME NEW s \in subs
      PROVE  [is |-> s.path \o SubSeq(k.is, Len(s.alias) + 1, Len(k.is)), done |-> Len(s.path)] \in Rests(N)
  <2>1. k.is \in Seq(N)
    BY DEF Rests
  <2> DEFINE a == Len(s.alias)
             rest == SubSeq(k.is, a + 1, Len(k.is))
  <2>2. a \in Nat /\ Len(s.path) \in Nat /\ Len(k.is) \in Nat /\ s.path \in Seq(N)
    BY <2>1
  <2>3. rest \in Seq(N)
    <3>1. \A i \in a + 1 .. Len(k.is) : k.is[i] \in N
      BY <2>1, <2>2, ElementOfSeq
    <3>2. QED BY <2>2, <3>1, SubSeqProperties
  <2> HIDE DEF rest
  <2>4. s.path \o rest \in Seq(N)
    BY <2>2, <2>3, ConcatProperties
  <2>5. QED BY <2>2, <2>4 DEF Rests, rest
<1>2. QED BY <1>1 DEF Replaced

\* The paths by which a policy knows a path are found one alias at a time.
LEMMA KnownSteps ==
  ASSUME NEW N, NEW tree, NEW p \in Seq(N), \A s \in Aliases(tree) : s.path \in Seq(N) /\ s.alias \in Seq(N)
  PROVE  \E u \in [0 .. Len(p) -> SUBSET Rests(N)] : IsKnown(u, tree, p)
<1> DEFINE l == Len(p)
           subs == Aliases(tree)
           next(K) == K \cup UNION {Replaced(subs, k) : k \in K}
           step == [z \in (1 .. l) \X SUBSET Rests(N) |-> next(z[2])]
           first == {[is |-> p, done |-> 0]}
<1>1. l \in Nat /\ first \in SUBSET Rests(N)
  BY DEF Rests
<1>2. KnownAs(tree, p) = {k.is : k \in {j \in (CHOOSE f : Knows(f, subs, p))[l] : Replaced(subs, j) = {}}}
  BY DEF KnownAs, Knows
<1>3. ASSUME NEW K \in SUBSET Rests(N) PROVE next(K) \in SUBSET Rests(N)
  <2>1. \A k \in K : Replaced(subs, k) \subseteq Rests(N)
    BY ReplacedIs
  <2>2. QED BY <2>1
<1> HIDE DEF next, l, first, subs
<1>4. step \in [(1 .. l) \X SUBSET Rests(N) -> SUBSET Rests(N)] /\ \A n \in 1 .. l, K \in SUBSET Rests(N) : step[<<n, K>>] = next(K)
  BY <1>3
<1> HIDE DEF step
<1>5. PICK f \in [0 .. l -> SUBSET Rests(N)] : Iterates(f, l, first, step)
  BY <1>1, <1>4, Iteration
<1>6. f[0] = first /\ \A n \in 1 .. l : f[n] = next(f[n - 1])
  <2>1. \A n \in 1 .. l : n - 1 \in 0 .. l
    BY <1>1
  <2>2. QED BY <1>4, <1>5, <2>1 DEF Iterates
<1>7. Knows(f, subs, p)
  <2>1. \A n \in 0 .. l : n # 0 => n \in 1 .. l
    BY <1>1
  <2> DEFINE g == [n \in 0 .. l |-> IF n = 0 THEN first ELSE next(f[n - 1])]
  <2>2. \A n \in 0 .. l : f[n] = g[n]
    BY <1>6, <2>1
  <2>3. f = g
    BY <2>2
  <2>4. QED BY <2>3 DEF Knows, l, first, next
<1>8. PICK u : Knows(u, subs, p) /\ KnownAs(tree, p) = {k.is : k \in {j \in u[l] : Replaced(subs, j) = {}}}
  BY <1>2, <1>7
<1>9. DOMAIN u = 0 .. l /\ u[0] = first /\ \A n \in 1 .. l : u[n] = next(u[n - 1])
  <2> DEFINE g == [n \in 0 .. l |-> IF n = 0 THEN first ELSE next(u[n - 1])]
  <2>1. u = g
    BY <1>8 DEF Knows, l, first, next
  <2>2. DOMAIN g = 0 .. l /\ g[0] = first /\ \A n \in 1 .. l : g[n] = next(u[n - 1])
    BY <1>1
  <2> HIDE DEF g
  <2>3. QED BY <2>1, <2>2
<1> DEFINE G == {n \in 0 .. l : u[n] = f[n]}
<1>10. 0 \in G
  BY <1>1, <1>6, <1>9
<1>11. ASSUME NEW n \in 1 .. l, n - 1 \in G PROVE n \in G
  BY <1>1, <1>6, <1>9, <1>11
<1>12. \A n \in 0 .. l : u[n] = f[n]
  <2>1. 0 .. l \subseteq G
    <3> HIDE DEF G
    <3>1. QED BY <1>1, <1>10, <1>11, IndexInduction
  <2>2. QED BY <2>1
<1>13. u[l] = f[l]
  BY <1>1, <1>12
<1>14. IsKnown(f, tree, p)
  BY <1>6, <1>8, <1>13 DEF IsKnown, l, next, first, subs
<1>15. QED BY <1>5, <1>14 DEF l

\* The path by which a path of an image is looked up is one by which the policy knows it.
LEMMA LookupIs ==
  ASSUME NEW c \in DOMAIN Containers, CanTransformForBoot(Containers[c]), PolicyOf(c) # Error,
         NEW p \in Seq(Range(NameOrder))
  PROVE  LookupPath(PolicyOf(c), p) \in KnownAs(Containers[c], p)
<1> DEFINE tree == Containers[c]
           policy == PolicyOf(c)
           subs == Aliases(tree)
           A(s) == Range(s.alias) \cup Range(s.path)
           N == Range(NameOrder) \cup UNION {A(s) : s \in subs}
           l == Len(p)
           check(q) == check_aliased(policy, q)
           rest(n) == SubSeq(p, n + 1, l)
           whole(q, n) == q \o rest(n)
<1>1. /\ policy.subs \in Seq(subs) /\ Range(policy.subs) = subs
      /\ \A s \in subs : {s.alias, s.path} \subseteq Seq(A(s))
  BY AliasesAre
<1>2. p \in Seq(N) /\ \A s \in subs : s.alias \in Seq(N) /\ s.path \in Seq(N)
  <2>1. ASSUME NEW s \in subs PROVE s.alias \in Seq(N) /\ s.path \in Seq(N)
    <3>1. A(s) \subseteq N /\ s.alias \in Seq(A(s)) /\ s.path \in Seq(A(s))
      BY <1>1
    <3> HIDE DEF A, N
    <3>2. QED BY <3>1, WiderSeq
  <2>2. Range(NameOrder) \subseteq N
    OBVIOUS
  <2>3. p \in Seq(N)
    <3> HIDE DEF N
    <3>1. QED BY <2>2, WiderSeq
  <2>4. QED BY <2>1, <2>3
<1> HIDE DEF A, N, policy, subs
<1>3. \A q : \/ check(q) = q /\ \A s \in subs : s.alias # q
             \/ \E s \in subs : s.alias = q /\ check(q) = s.path
  BY <1>1, AliasedIs
<1>4. \A q \in Seq(N) : check(q) \in Seq(N)
  BY <1>2, <1>3
<1>5. PICK u \in [0 .. l -> Seq(N)] : IsLookup(u, policy, p)
  <2>1. \A q \in Seq(N) : check_aliased(policy, q) \in Seq(N)
    BY <1>4
  <2> HIDE DEF check
  <2>2. QED BY <1>2, <2>1, LookupSteps
<1>6. PICK K \in [0 .. l -> SUBSET Rests(N)] : IsKnown(K, tree, p)
  <2>1. \A s \in Aliases(tree) : s.path \in Seq(N) /\ s.alias \in Seq(N)
    BY <1>2 DEF subs
  <2> HIDE DEF tree
  <2>2. QED BY <1>2, <2>1, KnownSteps
<1>7. /\ LookupPath(policy, p) = u[l] /\ u[0] = <<>>
       /\ \A n \in 1 .. l : u[n] = check(Append(u[n - 1], p[n]))
  BY <1>5 DEF IsLookup
<1>8. /\ KnownAs(tree, p) = {k.is : k \in {j \in K[l] : Replaced(subs, j) = {}}}
       /\ K[0] = {[is |-> p, done |-> 0]}
       /\ \A n \in 1 .. l : K[n] = K[n - 1] \cup UNION {Replaced(subs, k) : k \in K[n - 1]}
  BY <1>6 DEF IsKnown, subs
<1>9. l \in Nat /\ 0 \in 0 .. l /\ l \in 0 .. l /\ \A n \in 1 .. l : n - 1 \in 0 .. l /\ n \in 0 .. l
  OBVIOUS
<1>10. ASSUME NEW n \in 1 .. l, NEW q \in Seq(N)
      PROVE  /\ whole(q, n - 1) = whole(Append(q, p[n]), n)
             /\ whole(Append(q, p[n]), n) = Append(q, p[n]) \o rest(n)
             /\ rest(n) \in Seq(N)
             /\ Append(q, p[n]) \in Seq(N) /\ Len(Append(q, p[n])) = Len(q) + 1
  <2>1. p \in Seq(N) /\ n \in 1 .. Len(p) /\ (n - 1) + 1 = n
    BY <1>2
  <2>2. /\ WithRest(q, p, n) = WithRest(Append(q, p[n]), p, n + 1)
        /\ SubSeq(p, n, Len(p)) \in Seq(N) /\ SubSeq(p, n + 1, Len(p)) \in Seq(N)
        /\ Append(q, p[n]) \in Seq(N) /\ Len(Append(q, p[n])) = Len(q) + 1
    BY <2>1, NameMoves
  <2>3. WithRest(q, p, n) = whole(q, n - 1) /\ WithRest(Append(q, p[n]), p, n + 1) = whole(Append(q, p[n]), n)
    BY <2>1 DEF WithRest
  <2> HIDE DEF whole
  <2>4. whole(Append(q, p[n]), n) = Append(q, p[n]) \o rest(n)
    BY DEF whole
  <2>5. QED BY <2>2, <2>3, <2>4
<1> HIDE DEF check
<1> DEFINE Ahead(q, n, m) == \A s \in subs : In(s.alias, whole(q, n)) /\ Len(s.alias) > m => Len(s.alias) > Len(q)
           G == {n \in 0 .. l : \E m \in 0 .. Len(u[n]) :
                   [is |-> whole(u[n], n), done |-> m] \in K[n] /\ Ahead(u[n], n, m)}
<1>11. 0 \in G
  <2>1. SubSeq(p, 1, l) = p /\ <<>> \o p = p /\ Len(<<>>) = 0
    BY <1>2, ConcatEmptySeq
  <2>2. whole(u[0], 0) = p
    BY <1>5, <1>7, <2>1
  <2>3. [is |-> whole(u[0], 0), done |-> 0] \in K[0]
    BY <1>6, <1>8, <2>2
  <2>4. Ahead(u[0], 0, 0) /\ 0 \in 0 .. Len(u[0])
    BY <1>5, <1>7, <2>1
  <2> HIDE DEF whole, Ahead
  <2>5. QED BY <1>9, <2>3, <2>4
<1>12. ASSUME NEW n \in 1 .. l, n - 1 \in G PROVE n \in G
  <2> DEFINE q == u[n - 1]
             r == Append(q, p[n])
             w == whole(q, n - 1)
  <2>1. PICK m \in 0 .. Len(q) : [is |-> w, done |-> m] \in K[n - 1] /\ Ahead(q, n - 1, m)
    BY <1>12
  <2>2. /\ q \in Seq(N) /\ Len(q) \in Nat /\ r \in Seq(N) /\ Len(r) = Len(q) + 1 /\ rest(n) \in Seq(N)
        /\ w = whole(r, n) /\ w = r \o rest(n)
    <3>1. q \in Seq(N)
      BY <1>5, <1>7, <1>9
    <3>2. Len(q) \in Nat
      BY <3>1
    <3> HIDE DEF q, whole, rest
    <3>3. QED BY <1>10, <3>1, <3>2
  <2>3. u[n] = check(r)
    BY <1>5, <1>7
  <2> HIDE DEF q, r, rest
  <2>4. /\ w \in Seq(N) /\ Len(w) = Len(r) + Len(rest(n)) /\ Len(rest(n)) \in Nat
        /\ SubSeq(w, 1, Len(r)) = r /\ SubSeq(w, Len(r) + 1, Len(w)) = rest(n)
    <3>1. w = r \o rest(n)
      BY <2>2
    <3>2. r \in Seq(N) /\ rest(n) \in Seq(N)
      BY <2>2
    <3> HIDE DEF w
    <3>3. /\ r \o rest(n) \in Seq(N) /\ Len(r \o rest(n)) = Len(r) + Len(rest(n)) /\ Len(rest(n)) \in Nat
          /\ SubSeq(r \o rest(n), 1, Len(r)) = r
          /\ SubSeq(r \o rest(n), Len(r) + 1, Len(r \o rest(n))) = rest(n)
      BY <3>2, SplitIs
    <3>4. QED BY <3>1, <3>3
  <2>5. In(r, w)
    <3> HIDE DEF w
    <3>1. QED BY <2>2, <2>4 DEF In
  <2>6. K[n - 1] \subseteq K[n] /\ \A k \in K[n - 1] : Replaced(subs, k) \subseteq K[n]
    BY <1>6, <1>8
  <2>7. CASE check(r) = r /\ \A s \in subs : s.alias # r
    <3>1. u[n] = r /\ m \in 0 .. Len(r)
      BY <2>2, <2>3, <2>7
    <3>2. [is |-> whole(r, n), done |-> m] \in K[n]
      BY <2>1, <2>2, <2>6
    <3>3. ASSUME NEW s \in subs, In(s.alias, w), Len(s.alias) > m PROVE Len(s.alias) > Len(r)
      <4>1. Len(s.alias) > Len(q)
        <5> HIDE DEF w
        <5>1. QED BY <2>1, <3>3 DEF w
      <4>2. Len(s.alias) \in Nat
        BY <1>2
      <4>3. Len(s.alias) # Len(r)
        <5>1. ASSUME Len(s.alias) = Len(r) PROVE s.alias = r
          <6> HIDE DEF w
          <6>1. QED BY <2>4, <3>3, <5>1 DEF In
        <5>2. QED BY <2>7, <5>1
      <4>4. QED BY <2>2, <4>1, <4>2, <4>3
    <3>4. Ahead(r, n, m)
      BY <2>2, <3>3
    <3> HIDE DEF whole, Ahead
    <3>5. QED BY <1>9, <3>1, <3>2, <3>4
  <2>8. ASSUME NEW s \in subs, s.alias = r, check(r) = s.path PROVE n \in G
    <3> DEFINE k == [is |-> w, done |-> m]
               d == Len(s.path)
               j == [is |-> s.path \o SubSeq(k.is, Len(s.alias) + 1, Len(k.is)), done |-> d]
    <3>1. u[n] = s.path /\ d \in 0 .. Len(u[n])
      BY <1>2, <2>3, <2>8
    <3>2. In(s.alias, k.is) /\ Len(s.alias) > k.done
      <4>1. k.is = w /\ k.done = m
        OBVIOUS
      <4> HIDE DEF k, w
      <4>2. QED BY <2>1, <2>2, <2>5, <2>8, <4>1
    <3>3. j \in Replaced(subs, k)
      <4> HIDE DEF k, d
      <4>1. QED BY <3>2 DEF Replaced, d
    <3>4. j = [is |-> whole(s.path, n), done |-> d]
      <4>1. k.is = w
        OBVIOUS
      <4> HIDE DEF k, w
      <4>2. SubSeq(k.is, Len(s.alias) + 1, Len(k.is)) = rest(n)
        BY <2>4, <2>8, <4>1
      <4>3. QED BY <4>2
    <3>5. j \in K[n]
      <4> HIDE DEF j, k, d
      <4>1. k \in K[n - 1]
        BY <2>1 DEF k
      <4>2. QED BY <2>6, <3>3, <4>1
    <3>6. Ahead(s.path, n, d)
      OBVIOUS
    <3> HIDE DEF whole, Ahead, j, k, d
    <3>7. QED BY <1>9, <3>1, <3>4, <3>5, <3>6
  <2>9. QED BY <1>3, <2>7, <2>8
<1>13. l \in G
  <2> HIDE DEF G
  <2>1. 0 .. l \subseteq G
    BY <1>9, <1>11, <1>12, IndexInduction
  <2>2. QED BY <1>9, <2>1
<1>14. PICK m \in 0 .. Len(u[l]) : [is |-> whole(u[l], l), done |-> m] \in K[l] /\ Ahead(u[l], l, m)
  BY <1>13
<1>15. whole(u[l], l) = u[l]
  <2>1. rest(l) = <<>>
    BY <1>2, <1>9
  <2>2. u[l] \in Seq(N)
    BY <1>5, <1>7, <1>9
  <2> HIDE DEF rest
  <2>3. QED BY <2>1, <2>2, ConcatEmptySeq
<1> DEFINE k == [is |-> u[l], done |-> m]
<1>16. Replaced(subs, k) = {}
  <2>1. ASSUME NEW s \in subs, In(s.alias, k.is), Len(s.alias) > k.done PROVE FALSE
    <3>1. In(s.alias, u[l]) /\ Len(s.alias) > m
      BY <2>1
    <3>2. Len(s.alias) > Len(u[l])
      <4> HIDE DEF whole
      <4>1. QED BY <1>14, <1>15, <3>1
    <3>3. Len(s.alias) \in Nat /\ Len(u[l]) \in Nat
      BY <1>2, <1>5, <1>7, <1>9
    <3>4. QED BY <3>1, <3>2, <3>3 DEF In
  <2> HIDE DEF k
  <2>2. QED BY <2>1 DEF Replaced
<1>17. k \in K[l] /\ k.is = u[l]
  <2> HIDE DEF whole, Ahead
  <2>1. QED BY <1>14, <1>15
<1> HIDE DEF k
<1>18. u[l] \in KnownAs(tree, p)
  BY <1>6, <1>8, <1>16, <1>17
<1>19. QED BY <1>5, <1>7, <1>18 DEF policy

-------------------------------------------------------------------------------
(* The image is the container *)

\* A link of a leaf of the emptied container is one of the container's, with the same content.
LEMMA LinksStay ==
  ASSUME NEW c \in DOMAIN Containers, CanTransformForBoot(Containers[c]),
         NEW p \in DOMAIN EmptyToplevel(Containers[c]), NEW q \in DOMAIN EmptyToplevel(Containers[c]),
         q = p \/ SameLeaf(EmptyToplevel(Containers[c]), p, q)
  PROVE  Ifmt(EmptyToplevel(Containers[c])[p]) = Ifmt(Containers[c][q])
<1> DEFINE tree == Containers[c]
           emptied == EmptyToplevel(tree)
<1>1. \A r \in DOMAIN emptied : /\ r \in DOMAIN tree /\ emptied[r].dir = tree[r].dir
                                /\ r \notin ToEmpty => emptied[r] = tree[r]
                                /\ r \in ToEmpty => tree[r].dir
  BY EmptiedIs
<1>2. \A r, s \in DOMAIN tree : SameLeaf(tree, r, s) => tree[r] = tree[s]
  BY ContainersAreTrees
<1>. p \in DOMAIN emptied /\ q \in DOMAIN emptied
  OBVIOUS
<1> HIDE DEF tree, emptied
<1>3. ASSUME NEW r \in DOMAIN emptied PROVE Ifmt(emptied[r]) = Ifmt(tree[r])
  <2>1. CASE r \in ToEmpty
    <3>1. Ifmt(emptied[r]) = "d" /\ Ifmt(tree[r]) = "d"
      BY <1>1, <2>1 DEF Ifmt
    <3>2. QED BY <3>1
  <2>2. CASE r \notin ToEmpty
    BY <1>1, <2>2
  <2>3. QED BY <2>1, <2>2
<1>4. CASE q = p
  BY <1>3, <1>4 DEF tree, emptied
<1>5. CASE SameLeaf(emptied, p, q)
  <2>1. ~emptied[p].dir /\ ~emptied[q].dir /\ emptied[p].rc = emptied[q].rc
    BY <1>5 DEF SameLeaf
  <2>2. emptied[p] = tree[p] /\ emptied[q] = tree[q]
    BY <1>1, <2>1
  <2>3. SameLeaf(tree, p, q)
    BY <2>1, <2>2 DEF SameLeaf
  <2>4. tree[p] = tree[q]
    BY <1>1, <1>2, <2>3
  <2>5. QED BY <1>3, <2>2, <2>4 DEF tree, emptied
<1>6. QED BY <1>4, <1>5 DEF emptied, tree

\* The links of a leaf stay its links when they are labelled.
LEMMA LabelledLinks ==
  ASSUME NEW c \in DOMAIN Containers, CanTransformForBoot(Containers[c]), NEW f,
         NEW p \in DOMAIN EmptyToplevel(Containers[c]), NEW q \in DOMAIN EmptyToplevel(Containers[c]),
         SameLeaf(EmptyToplevel(Containers[c]), p, q)
  PROVE  SameLeaf(Labelled(EmptyToplevel(Containers[c]), f), p, q)
<1> DEFINE tree == Containers[c]
           emptied == EmptyToplevel(tree)
           image == Labelled(emptied, f)
<1>1. \A r \in DOMAIN emptied : /\ r \in DOMAIN tree /\ emptied[r].dir = tree[r].dir
                                /\ r \notin ToEmpty => emptied[r] = tree[r]
                                /\ r \in ToEmpty => tree[r].dir
  BY EmptiedIs
<1>2. \A r \in DOMAIN tree : IsNode(tree[r])
  BY DeployConstants
<1>3. \A r \in DOMAIN emptied : image[r] = [emptied[r] EXCEPT !.stat = WithLabel(@, f[r])]
  BY DEF Labelled
<1>4. SameLeaf(emptied, p, q) /\ p \in DOMAIN emptied /\ q \in DOMAIN emptied
  OBVIOUS
<1> HIDE DEF tree, emptied, image
<1>5. ASSUME NEW r \in DOMAIN emptied, ~emptied[r].dir
      PROVE  ~image[r].dir /\ image[r].rc = emptied[r].rc
  <2>1. r \in DOMAIN tree /\ emptied[r] = tree[r]
    BY <1>1, <1>5
  <2>2. {"dir", "rc"} \subseteq DOMAIN emptied[r]
    BY <1>2, <1>5, <2>1 DEF IsNode
  <2> DEFINE l == WithLabel(emptied[r].stat, f[r])
  <2>3. image[r] = [emptied[r] EXCEPT !.stat = l]
    BY <1>3
  <2> HIDE DEF l
  <2>4. QED BY <1>5, <2>2, <2>3
<1>6. QED BY <1>4, <1>5 DEF SameLeaf, image, emptied, tree

\* The label of a node of the image, and the paths that decide of it.
LabelIsTrue(tree, image, p) ==
  LabelOf(image[p]) \in
    IF PolicyName(tree) = None THEN {"<<none>>"}
    ELSE UNION {{LabelFor(tree, k, tree[q]) : k \in KnownAs(tree, q)} :
                  q \in {r \in DOMAIN image : r = p \/ SameLeaf(image, p, r)}}

\* An image is its container, but for what is emptied and for the labels of the policy.
LEMMA ImageIsTrue ==
  ASSUME NEW c \in DOMAIN Containers, Rendered[c] # Error
  PROVE  RenderedTrue(Containers[c], Rendered[c])
<1> DEFINE tree == Containers[c]
           emptied == EmptyToplevel(tree)
           image == Rendered[c]
           none == [p \in DOMAIN emptied |-> "<<none>>"]
           some == [p \in DOMAIN emptied |-> ContextAt(c, p)]
           gone == {p \in DOMAIN tree : Below(<<"boot">>, p) \/ Below(<<"sysroot">>, p)}
<1>1. /\ CanTransformForBoot(tree)
      /\ PolicyName(tree) = None => image = Labelled(emptied, none)
      /\ PolicyName(tree) # None => PolicyOf(c) # Error /\ image = Labelled(emptied, some)
  BY ImageIsLabelled
<1>2. /\ DOMAIN emptied = {r \in DOMAIN tree : \A p \in ToEmpty : ~Below(p, r)}
      /\ \A p \in DOMAIN emptied :
           /\ HasStat(emptied[p]) /\ emptied[p].dir = tree[p].dir
           /\ p \notin ToEmpty => emptied[p] = tree[p]
           /\ p \in ToEmpty => tree[p].dir /\ emptied[p].stat.mtime = tree[<<"usr">>].stat.mtime
  BY <1>1, EmptiedIs
<1>3. DOMAIN emptied = DOMAIN tree \ gone
  <2>1. ToEmpty = {<<"boot">>, <<"sysroot">>}
    BY DEF ToEmpty
  <2> HIDE DEF emptied, tree
  <2>2. QED BY <1>2, <2>1
<1> HIDE DEF tree, emptied, image, none, some, gone
<1>4. PICK f : image = Labelled(emptied, f) /\ f = IF PolicyName(tree) = None THEN none ELSE some
  BY <1>1
<1>5. /\ DOMAIN image = DOMAIN emptied
      /\ \A p \in DOMAIN emptied :
           /\ LabelOf(image[p]) = f[p]
           /\ Unlabelled(image)[p] = Unlabelled(emptied)[p]
           /\ image[p].stat.mtime = emptied[p].stat.mtime
           /\ image[p].dir = emptied[p].dir
  BY <1>2, <1>4, LabelledIs
<1>6. ASSUME NEW p \in DOMAIN image, p \notin ToEmpty PROVE Unlabelled(image)[p] = Unlabelled(tree)[p]
  <2>1. p \in DOMAIN tree /\ p \in DOMAIN emptied /\ emptied[p] = tree[p]
    BY <1>2, <1>5, <1>6
  <2>2. Unlabelled(emptied)[p] = Unlabelled(tree)[p]
    BY <2>1 DEF Unlabelled, strip_selinux_labels
  <2>3. QED BY <1>5, <1>6, <2>2
<1>7. \A p \in DOMAIN image : p \in ToEmpty => image[p].stat.mtime = tree[<<"usr">>].stat.mtime
  BY <1>2, <1>5
<1>8. ASSUME NEW p \in DOMAIN image PROVE LabelIsTrue(tree, image, p)
  <2>1. p \in DOMAIN emptied /\ LabelOf(image[p]) = f[p]
    BY <1>5
  <2>2. CASE PolicyName(tree) = None
    <3>1. f[p] = "<<none>>"
      BY <1>4, <2>1, <2>2 DEF none
    <3>2. QED BY <2>1, <2>2, <3>1 DEF LabelIsTrue
  <2>3. CASE PolicyName(tree) # None
    <3> DEFINE q == LastLink(emptied, p)
               k == LookupPath(PolicyOf(c), q)
               links == {r \in DOMAIN image : r = p \/ SameLeaf(image, p, r)}
    <3>1. f[p] = ContextOf(PolicyOf(c), k, Ifmt(emptied[p]))
      <4>1. f[p] = ContextAt(c, p)
        BY <1>4, <2>1, <2>3 DEF some
      <4>2. QED BY <4>1, Zenon DEF ContextAt, emptied, tree
    <3>2. q \in DOMAIN emptied /\ (q = p \/ SameLeaf(emptied, p, q))
      BY <1>1, <2>1, LastLinkIs DEF emptied, tree
    <3> HIDE DEF q
    <3>3. q \in DOMAIN tree /\ q \in Seq(Range(NameOrder))
      BY <1>2, <3>2, ContainersAreTrees DEF tree
    <3>4. k \in KnownAs(tree, q)
      BY <1>1, <2>3, <3>3, LookupIs DEF tree
    <3> HIDE DEF k
    <3>5. Ifmt(emptied[p]) = Ifmt(tree[q])
      BY <1>1, <2>1, <3>2, LinksStay DEF emptied, tree
    <3>6. ContextOf(PolicyOf(c), k, Ifmt(tree[q])) = LabelFor(tree, k, tree[q])
      BY <1>1, <2>3, ContextIs DEF tree
    <3>7. q \in links
      <4>1. ASSUME SameLeaf(emptied, p, q) PROVE SameLeaf(image, p, q)
        <5>1. SameLeaf(Labelled(emptied, f), p, q)
          BY <1>1, <2>1, <3>2, <4>1, LabelledLinks DEF emptied, tree
        <5>2. QED BY <1>4, <5>1
      <4>2. QED BY <1>5, <3>2, <4>1 DEF links
    <3>8. LabelOf(image[p]) = LabelFor(tree, k, tree[q])
      BY <2>1, <3>1, <3>5, <3>6
    <3> HIDE DEF links
    <3>9. LabelOf(image[p]) \in UNION {{LabelFor(tree, x, tree[r]) : x \in KnownAs(tree, r)} : r \in links}
      BY <3>4, <3>7, <3>8
    <3>10. QED BY <2>3, <3>9 DEF LabelIsTrue, links
  <2>4. QED BY <2>2, <2>3
<1>9. DOMAIN image = DOMAIN tree \ gone
  BY <1>3, <1>5
<1>10. QED BY <1>6, <1>7, <1>8, <1>9 DEF RenderedTrue, LabelIsTrue, tree, image, gone

\* What a process has committed is its container, labelled by its own policy, with nothing
\* in /boot and /sysroot and nothing else changed: transform_for_boot and selabel, for any
\* container, policy and aliases.
THEOREM ImagesAreTrue == Spec => []ImagesAreContainers
<1>1. ASSUME DInv PROVE ImagesAreContainers
  <2>1. ASSUME NEW p \in Process, id[p] # None PROVE jobs[p].config \in TrueImages
    <3> DEFINE c == jobs[p].config
    <3>1. pc[p] # "start" /\ jobs[p] \in Jobs
      BY <1>1, <2>1 DEF DInv, IInv, ProcessesAgree
    <3>2. c \in DOMAIN Containers
      BY <3>1, DeployConstants
    <3>3. Rendered[c] # Error
      BY <1>1, <2>1, <3>1 DEF DInv, PlansMade, Failed
    <3> HIDE DEF c
    <3>4. RenderedTrue(Containers[c], Rendered[c])
      BY <3>2, <3>3, ImageIsTrue
    <3>5. DOMAIN Rendered = DOMAIN Containers
      BY DEF Rendered
    <3>6. c \in TrueImages
      BY <3>2, <3>4, <3>5 DEF TrueImages
    <3>7. QED BY <3>6 DEF c
  <2>2. QED BY <2>1 DEF ImagesAreContainers
<1>2. QED BY <1>1, Deployments, PTL
===============================================================================
