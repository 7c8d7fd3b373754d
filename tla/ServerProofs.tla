---------------------------- MODULE ServerProofs ----------------------------
(***************************************************************************)
(* Theorems about Server and FileConfig: what a parsed file means, for     *)
(* every file, and the safety of the server, its scripts and its           *)
(* configuration.                                                          *)
(***************************************************************************)
EXTENDS Server, WellFoundedInduction, TLAPS

-----------------------------------------------------------------------------
(* Induction and recursion over a number *)

LEMMA Induction ==
  ASSUME NEW N \in Nat, NEW S, 0 \in S, \A i \in 1..N : i - 1 \in S => i \in S
  PROVE  \A i \in 0..N : i \in S
<1> DEFINE less == {p \in Nat \X Nat : p[1] < p[2]}
           bad == {i \in 0..N : i \notin S}
<1>1. IsWellFoundedOn(less, Nat)
  <2>1. OpToRel(<, Nat) = less
    BY DEF OpToRel
  <2>2. QED
    BY <2>1, NatLessThanWellFounded
<1>2. SUFFICES ASSUME bad # {} PROVE FALSE
  OBVIOUS
<1>3. bad \subseteq Nat
  OBVIOUS
<1> HIDE DEF less
<1>4. PICK x \in bad : \A y \in bad : ~(<<y, x>> \in less)
  <2> HIDE DEF bad
  <2>1. QED
    BY <1>1, <1>2, <1>3, WFMin
<1>5. x \in 1..N /\ x - 1 \notin S
  OBVIOUS
<1>6. x - 1 \in bad /\ x - 1 \in Nat /\ x \in Nat /\ x - 1 < x
  BY <1>5
<1>7. <<x - 1, x>> \in Nat \X Nat /\ <<x - 1, x>>[1] < <<x - 1, x>>[2]
  BY <1>6
<1>8. QED
  BY <1>4, <1>6, <1>7 DEF less

(***************************************************************************)
(* A function is defined by its value at 0 and its step.                   *)
(***************************************************************************)
Steps(g, N, S, base, step) ==
  /\ g \in [0..N -> S]
  /\ g[0] = base
  /\ \A i \in 1..N : g[i] = step[i][g[i - 1]]

LEMMA Recursion ==
  ASSUME NEW N \in Nat, NEW S, NEW base \in S, NEW step \in [1..N -> [S -> S]]
  PROVE  \E g : Steps(g, N, S, base, step)
<1> DEFINE upTo(n, g) == g[0] = base /\ \A i \in 1..n : g[i] = step[i][g[i - 1]]
           D == {n \in Nat : \E g \in [0..n -> S] : upTo(n, g)}
<1>1. 0 \in D
  <2>1. [i \in 0..0 |-> base] \in [0..0 -> S] /\ upTo(0, [i \in 0..0 |-> base])
    OBVIOUS
  <2>2. QED
    BY <2>1
<1>2. ASSUME NEW n \in 1..N, n - 1 \in D PROVE n \in D
  <2>1. PICK g \in [0..(n - 1) -> S] : upTo(n - 1, g)
    BY <1>2
  <2> DEFINE h == [i \in 0..n |-> IF i < n THEN g[i] ELSE step[n][g[n - 1]]]
  <2>2. h \in [0..n -> S]
    <3>1. g[n - 1] \in S
      OBVIOUS
    <3>2. step[n] \in [S -> S]
      OBVIOUS
    <3>3. step[n][g[n - 1]] \in S
      BY <3>1, <3>2
    <3>4. \A i \in 0..n : i < n => g[i] \in S
      OBVIOUS
    <3>5. QED
      BY <3>3, <3>4
  <2>3. h[0] = base
    BY <2>1
  <2>4. ASSUME NEW i \in 1..n PROVE h[i] = step[i][h[i - 1]]
    <3>1. h[i - 1] = g[i - 1]
      OBVIOUS
    <3>2. CASE i = n
      BY <3>1, <3>2
    <3>3. CASE i # n
      <4>1. i \in 1..(n - 1) /\ h[i] = g[i]
        BY <3>3
      <4>2. QED
        BY <2>1, <3>1, <4>1
    <3>4. QED
      BY <3>2, <3>3
  <2> HIDE DEF h
  <2>5. upTo(n, h) /\ n \in Nat
    BY <2>3, <2>4
  <2>6. QED
    BY <2>2, <2>5
<1> HIDE DEF D
<1>3. \A n \in 1..N : n - 1 \in D => n \in D
  BY <1>2
<1>4. \A n \in 0..N : n \in D
  BY <1>1, <1>3, Induction
<1>5. N \in D
  BY <1>4
<1>6. QED
  BY <1>5 DEF D, Steps

-----------------------------------------------------------------------------
(* The parser *)

Results == [ret : {"true", "false", "exit"}, map : Maps]

(***************************************************************************)
(* What parsing with some number of descriptors gives.                     *)
(***************************************************************************)
Parsers == [Files -> [Maps -> Results]]

LEMMA LineTypes ==
  ASSUME NEW d \in Disks, NEW f \in DOMAIN d
  PROVE  /\ Len(d[f]) \in Nat /\ DOMAIN d[f] = 1..Len(d[f])
         /\ \A i \in 1..Len(d[f]) : d[f][i] \in Lines
<1>1. d[f] \in Seq([key : STRING, val : STRING])
  BY DisksAssumption
<1>2. Len(d[f]) \in Nat /\ DOMAIN d[f] = 1..Len(d[f])
  BY <1>1
<1>3. ASSUME NEW i \in DOMAIN d[f] PROVE d[f][i] \in Lines
  <2>1. d[f][i] \in {d[f][j] : j \in DOMAIN d[f]}
    OBVIOUS
  <2>2. d[f][i] \in UNION {{d[g][j] : j \in DOMAIN d[g]} : g \in DOMAIN d}
    BY <2>1
  <2>3. QED
    BY <2>2 DEF Lines
<1>4. QED
  BY <1>2, <1>3

LEMMA MapType ==
  ASSUME NEW map
  PROVE  map \in Maps <=> \E K \in SUBSET {line.key : line \in Lines} : map \in [K -> Values]
BY DEF Maps

LEMMA InsertType ==
  ASSUME NEW map \in Maps, NEW line \in Lines
  PROVE  /\ insert(map, line) \in Maps
         /\ DOMAIN insert(map, line) = DOMAIN map \cup {line.key}
         /\ \A k \in DOMAIN map : k # line.key => insert(map, line)[k] = map[k]
         /\ insert(map, line)[line.key] = line.val
<1> DEFINE Names == {x.key : x \in Lines}
<1>1. PICK K \in SUBSET Names : map \in [K -> Values]
  BY MapType
<1>2. line.key \in Names /\ line.val \in Values
  BY DEF Values
<1> HIDE DEF Names
<1>3. insert(map, line) =
        [k \in K \cup {line.key} |-> IF k = line.key THEN line.val ELSE map[k]]
  BY <1>1 DEF insert
<1>4. insert(map, line) \in [K \cup {line.key} -> Values]
  BY <1>1, <1>2, <1>3
<1>5. K \cup {line.key} \in SUBSET Names
  BY <1>2
<1>6. insert(map, line) \in Maps
  BY <1>4, <1>5, MapType DEF Names
<1>7. QED
  BY <1>1, <1>3, <1>6

LEMMA LineResult ==
  ASSUME NEW sub \in Parsers, NEW acc \in Results, NEW line \in Lines
  PROVE  parseLine(sub, acc, line) \in Results
<1>1. line.val \in Files /\ acc.map \in Maps /\ acc.ret \in {"true", "false", "exit"}
  BY DEF Files, Values, Results
<1>2. sub[line.val][acc.map] \in Results
  <2>1. sub[line.val] \in [Maps -> Results]
    BY <1>1 DEF Parsers
  <2>2. QED
    BY <1>1, <2>1
<1>3. [acc EXCEPT !.map = insert(acc.map, line)] \in Results
  BY <1>1, InsertType DEF Results
<1>4. [acc EXCEPT !.ret = "exit"] \in Results
  BY DEF Results
<1>5. QED
  BY <1>2, <1>3, <1>4 DEF parseLine

(***************************************************************************)
(* The results after each line exist and follow one another.               *)
(***************************************************************************)
Follows(h, sub, lines, map) ==
  h = [i \in 0..Len(lines) |->
         IF i = 0 THEN [ret |-> "true", map |-> map] ELSE parseLine(sub, h[i - 1], lines[i])]

LEMMA ParseLinesFollows ==
  ASSUME NEW sub \in Parsers, NEW lines, NEW map \in Maps, Len(lines) \in Nat,
         \A i \in 1..Len(lines) : lines[i] \in Lines
  PROVE  Follows(parseLines(sub, lines, map), sub, lines, map)
<1> DEFINE N == Len(lines)
           base == [ret |-> "true", map |-> map]
           step == [i \in 1..N |-> [r \in Results |-> parseLine(sub, r, lines[i])]]
<1>1. base \in Results
  BY DEF Results
<1>2. step \in [1..N -> [Results -> Results]]
  BY LineResult
<1>3. N \in Nat
  OBVIOUS
<1>4. \E h : Follows(h, sub, lines, map)
  <2>1. PICK g \in [0..N -> Results] :
          g[0] = base /\ \A i \in 1..N : g[i] = step[i][g[i - 1]]
    <3> HIDE DEF N, base, step
    <3>1. \E g : Steps(g, N, Results, base, step)
      BY <1>1, <1>2, <1>3, Recursion
    <3>2. QED
      BY <3>1 DEF Steps
  <2>2. ASSUME NEW i \in 1..N PROVE g[i] = parseLine(sub, g[i - 1], lines[i])
    <3>1. i - 1 \in 0..N
      OBVIOUS
    <3>2. g[i - 1] \in Results
      BY <3>1
    <3>3. QED
      BY <2>1, <3>2
  <2>3. g = [i \in 0..N |-> IF i = 0 THEN base ELSE parseLine(sub, g[i - 1], lines[i])]
    BY <2>1, <2>2
  <2>4. QED
    BY <2>3 DEF Follows
<1>5. parseLines(sub, lines, map) = CHOOSE h : Follows(h, sub, lines, map)
  BY DEF parseLines, Follows
<1>6. QED
  BY <1>4, <1>5

LEMMA ParseLines ==
  ASSUME NEW sub \in Parsers, NEW lines, NEW map \in Maps, Len(lines) \in Nat,
         \A i \in 1..Len(lines) : lines[i] \in Lines
  PROVE  /\ parseLines(sub, lines, map)[0] = [ret |-> "true", map |-> map]
         /\ \A i \in 0..Len(lines) : parseLines(sub, lines, map)[i] \in Results
         /\ \A i \in 1..Len(lines) :
              parseLines(sub, lines, map)[i] =
                parseLine(sub, parseLines(sub, lines, map)[i - 1], lines[i])
<1> DEFINE h == parseLines(sub, lines, map)
           S == {i \in 0..Len(lines) : h[i] \in Results}
<1> HIDE DEF h
<1>1. Follows(h, sub, lines, map)
  BY ParseLinesFollows DEF h
<1>2. h[0] = [ret |-> "true", map |-> map]
  BY <1>1 DEF Follows
<1>3. ASSUME NEW i \in 1..Len(lines) PROVE h[i] = parseLine(sub, h[i - 1], lines[i])
  <2>1. i \in 0..Len(lines) /\ i # 0
    OBVIOUS
  <2>2. QED
    BY <1>1, <2>1 DEF Follows
<1>4. 0 \in S
  <2>1. [ret |-> "true", map |-> map] \in Results
    BY DEF Results
  <2>2. QED
    BY <1>2, <2>1
<1>5. ASSUME NEW i \in 1..Len(lines), i - 1 \in S PROVE i \in S
  BY <1>3, <1>5, LineResult
<1> HIDE DEF S
<1>6. \A i \in 0..Len(lines) : i \in S
  BY <1>4, <1>5, Induction
<1>7. QED
  BY <1>2, <1>3, <1>6 DEF h, S

-----------------------------------------------------------------------------
(* The recursion over the descriptors left *)

ParseWith(P) ==
  [d \in Disks |-> [f \in Files |-> [map \in Maps |->
     IF f \in DOMAIN d THEN parseLines(P[d], d[f], map)[Len(d[f])] ELSE fail(map)]]]

Unopened == [d \in Disks |-> [f \in Files |-> [map \in Maps |-> fail(map)]]]

Opened(fds, P) ==
  [d \in Disks |-> [f \in Files |-> [map \in Maps |->
     IF fds > 0 /\ f \in DOMAIN d
     THEN parseLines(P[d], d[f], map)[Len(d[f])]
     ELSE fail(map)]]]

ParseFollows(h) == h = [fds \in 0..MaxOpenFiles |-> Opened(fds, h[fds - 1])]

DiskParsers == [Disks -> Parsers]

LEMMA FailType == ASSUME NEW map \in Maps PROVE fail(map) \in Results
BY DEF fail, Results

LEMMA ParseWithType ==
  ASSUME NEW P \in DiskParsers
  PROVE  ParseWith(P) \in DiskParsers
<1>1. ASSUME NEW d \in Disks, NEW f \in Files, NEW map \in Maps, f \in DOMAIN d
      PROVE  parseLines(P[d], d[f], map)[Len(d[f])] \in Results
  <2>1. P[d] \in Parsers
    BY DEF DiskParsers
  <2>2. Len(d[f]) \in Nat /\ \A i \in 1..Len(d[f]) : d[f][i] \in Lines
    BY <1>1, LineTypes
  <2>3. \A i \in 0..Len(d[f]) : parseLines(P[d], d[f], map)[i] \in Results
    BY <2>1, <2>2, ParseLines
  <2>4. Len(d[f]) \in 0..Len(d[f])
    BY <2>2
  <2>5. QED
    BY <2>3, <2>4
<1>2. QED
  BY <1>1, FailType DEF ParseWith, DiskParsers, Parsers

LEMMA WithDescriptors ==
  ASSUME NEW P, NEW n \in Nat, n > 0
  PROVE  Opened(n, P) = ParseWith(P)
<1>1. ASSUME NEW d \in Disks, NEW f \in Files
      PROVE  [map \in Maps |->
                IF n > 0 /\ f \in DOMAIN d
                THEN parseLines(P[d], d[f], map)[Len(d[f])] ELSE fail(map)]
             = [map \in Maps |->
                IF f \in DOMAIN d
                THEN parseLines(P[d], d[f], map)[Len(d[f])] ELSE fail(map)]
  OBVIOUS
<1>2. ASSUME NEW d \in Disks
      PROVE  [f \in Files |-> [map \in Maps |->
                IF n > 0 /\ f \in DOMAIN d
                THEN parseLines(P[d], d[f], map)[Len(d[f])] ELSE fail(map)]]
             = [f \in Files |-> [map \in Maps |->
                IF f \in DOMAIN d
                THEN parseLines(P[d], d[f], map)[Len(d[f])] ELSE fail(map)]]
  BY <1>1
<1>3. QED
  BY <1>2 DEF ParseWith, Opened

LEMMA ParseFollowed ==
  /\ ParseFollows(ParseConfigFile)
  /\ \A n \in 0..MaxOpenFiles : ParseConfigFile[n] \in DiskParsers
<1> DEFINE step == [n \in 1..MaxOpenFiles |-> [P \in DiskParsers |-> ParseWith(P)]]
<1>0. MaxOpenFiles \in Nat
  BY MaxOpenFilesAssumption
<1>1. Unopened \in DiskParsers
  BY FailType DEF Unopened, DiskParsers, Parsers
<1>2. step \in [1..MaxOpenFiles -> [DiskParsers -> DiskParsers]]
  BY ParseWithType
<1>3. \E h : ParseFollows(h)
  <2>1. PICK g : Steps(g, MaxOpenFiles, DiskParsers, Unopened, step)
    <3> HIDE DEF step
    <3>1. QED
      BY <1>0, <1>1, <1>2, Recursion
  <2>2. g \in [0..MaxOpenFiles -> DiskParsers] /\ g[0] = Unopened
    BY <2>1 DEF Steps
  <2>3. ASSUME NEW n \in 1..MaxOpenFiles PROVE g[n] = ParseWith(g[n - 1])
    <3>1. n - 1 \in 0..MaxOpenFiles
      BY <1>0
    <3>2. g[n - 1] \in DiskParsers
      BY <2>2, <3>1
    <3>3. QED
      BY <2>1, <3>2 DEF Steps
  <2>4. ASSUME NEW n \in 0..MaxOpenFiles
        PROVE  g[n] = Opened(n, g[n - 1])
    <3>1. CASE n = 0
      BY <2>2, <3>1 DEF Unopened, Opened
    <3>2. CASE n # 0
      <4>1. n \in 1..MaxOpenFiles /\ n > 0
        BY <1>0, <3>2
      <4>2. QED
        BY <1>0, <2>3, <4>1, WithDescriptors
    <3>3. QED
      BY <3>1, <3>2
  <2>5. ParseFollows(g)
    BY <2>2, <2>4 DEF ParseFollows
  <2>6. QED
    BY <2>5
<1>4. ParseConfigFile = CHOOSE h : ParseFollows(h)
  BY DEF ParseConfigFile, ParseFollows, Opened
<1>5. ParseFollows(ParseConfigFile)
  BY <1>3, <1>4
<1> DEFINE S == {n \in 0..MaxOpenFiles : ParseConfigFile[n] \in DiskParsers}
<1>6. 0 \in S
  <2>1. ParseConfigFile[0] = Unopened
    BY <1>0, <1>5 DEF ParseFollows, Unopened, Opened
  <2>2. QED
    BY <1>0, <1>1, <2>1
<1>7. ASSUME NEW n \in 1..MaxOpenFiles, n - 1 \in S PROVE n \in S
  <2>1. n \in 0..MaxOpenFiles /\ n > 0
    BY <1>0
  <2>2. ParseConfigFile[n] = ParseWith(ParseConfigFile[n - 1])
    <3>1. ParseConfigFile[n] = Opened(n, ParseConfigFile[n - 1])
      BY <1>5, <2>1 DEF ParseFollows
    <3>2. QED
      BY <1>0, <2>1, <3>1, WithDescriptors
  <2>3. QED
    BY <1>7, <2>1, <2>2, ParseWithType
<1> HIDE DEF S
<1>8. \A n \in 0..MaxOpenFiles : n \in S
  BY <1>0, <1>6, <1>7, Induction
<1>9. QED
  BY <1>5, <1>8 DEF S

(***************************************************************************)
(* What opening a file gives.                                              *)
(***************************************************************************)
LEMMA Parsed ==
  ASSUME NEW n \in 0..MaxOpenFiles, NEW d \in Disks, NEW f \in Files, NEW map \in Maps
  PROVE  /\ ParseConfigFile[n][d] \in Parsers
         /\ ParseConfigFile[n][d][f][map] \in Results
         /\ ParseConfigFile[n][d][f][map] =
              IF n > 0 /\ f \in DOMAIN d
              THEN parseLines(ParseConfigFile[n - 1][d], d[f], map)[Len(d[f])]
              ELSE fail(map)
<1>1. ParseConfigFile[n][d] \in Parsers
  BY ParseFollowed DEF DiskParsers
<1>2. ParseConfigFile[n][d][f] \in [Maps -> Results]
  BY <1>1 DEF Parsers
<1>3. ParseConfigFile[n][d][f][map] \in Results
  BY <1>2
<1>4. ParseConfigFile[n] = Opened(n, ParseConfigFile[n - 1])
  BY ParseFollowed DEF ParseFollows
<1>5. QED
  BY <1>1, <1>3, <1>4 DEF Opened

(***************************************************************************)
(* Once an include has failed, nothing more is parsed: a file that was     *)
(* parsed was parsed line by line.                                         *)
(***************************************************************************)
LEMMA AllLinesParsed ==
  ASSUME NEW sub \in Parsers, NEW lines, NEW map \in Maps, Len(lines) \in Nat,
         \A i \in 1..Len(lines) : lines[i] \in Lines,
         parseLines(sub, lines, map)[Len(lines)].ret = "true"
  PROVE  \A i \in 0..Len(lines) : parseLines(sub, lines, map)[i].ret = "true"
<1> DEFINE N == Len(lines)
           h == parseLines(sub, lines, map)
           S == {i \in 0..N : h[N - i].ret = "true"}
<1>1. \A i \in 1..N : h[i] = parseLine(sub, h[i - 1], lines[i])
  <2>1. Follows(h, sub, lines, map)
    BY ParseLinesFollows
  <2> HIDE DEF h
  <2>2. ASSUME NEW i \in 1..N PROVE h[i] = parseLine(sub, h[i - 1], lines[i])
    <3>1. i \in 0..Len(lines) /\ i # 0
      OBVIOUS
    <3>2. QED
      BY <2>1, <3>1 DEF Follows
  <2>3. QED
    BY <2>2
<1> HIDE DEF h
<1>2. N \in Nat /\ h[N].ret = "true"
  BY DEF h
<1>3. 0 \in S
  BY <1>2
<1>4. ASSUME NEW i \in 1..N, i - 1 \in S PROVE i \in S
  <2>1. N - i + 1 \in 1..N /\ N - (i - 1) = N - i + 1 /\ (N - i + 1) - 1 = N - i /\ i \in 0..N
    BY <1>2
  <2>2. h[N - i + 1].ret = "true"
    BY <1>4, <2>1
  <2>3. h[N - i + 1] = parseLine(sub, h[N - i], lines[N - i + 1])
    BY <1>1, <2>1
  <2>4. h[N - i].ret = "true"
    BY <2>2, <2>3 DEF parseLine
  <2>5. QED
    BY <2>1, <2>4
<1> HIDE DEF S, N
<1>5. \A i \in 0..N : i \in S
  BY <1>2, <1>3, <1>4, Induction
<1>6. ASSUME NEW i \in 0..N PROVE h[i].ret = "true"
  <2>1. N - i \in 0..N /\ N - (N - i) = i
    BY <1>2
  <2>2. QED
    BY <1>5, <2>1 DEF S
<1>7. QED
  BY <1>6 DEF h, N

(***************************************************************************)
(* A file that was parsed is there, and so were the files it includes,     *)
(* with one descriptor less.                                               *)
(***************************************************************************)
LEMMA IncludesParsed ==
  ASSUME NEW n \in 0..MaxOpenFiles, NEW d \in Disks, NEW f \in Files, NEW map \in Maps,
         ParseConfigFile[n][d][f][map].ret = "true"
  PROVE  /\ n > 0 /\ f \in DOMAIN d
         /\ \A g \in Includes(d, f) :
              g \in Files /\ \E m \in Maps : ParseConfigFile[n - 1][d][g][m].ret = "true"
<1> DEFINE sub == ParseConfigFile[n - 1][d]
           lines == d[f]
           h == parseLines(sub, lines, map)
<1>1. n > 0 /\ f \in DOMAIN d
  <2>1. CASE ~(n > 0 /\ f \in DOMAIN d)
    <3>1. ParseConfigFile[n][d][f][map] = fail(map)
      BY <2>1, Parsed
    <3>2. QED
      BY <3>1 DEF fail
  <2>2. QED
    BY <2>1
<1>2. h[Len(lines)].ret = "true"
  BY <1>1, Parsed
<1>3. n - 1 \in 0..MaxOpenFiles
  BY <1>1, MaxOpenFilesAssumption
<1>4. sub \in Parsers
  BY <1>3, ParseFollowed DEF DiskParsers
<1>5. Len(lines) \in Nat /\ DOMAIN lines = 1..Len(lines)
      /\ \A i \in 1..Len(lines) : lines[i] \in Lines
  BY <1>1, LineTypes
<1> HIDE DEF sub
<1>6. \A i \in 0..Len(lines) : h[i].ret = "true"
  <2> HIDE DEF lines
  <2>1. QED
    BY <1>2, <1>4, <1>5, AllLinesParsed
<1>7. Follows(h, sub, lines, map)
  <2> HIDE DEF lines
  <2>1. QED
    BY <1>4, <1>5, ParseLinesFollows
<1>8. \A i \in 0..Len(lines) : h[i] \in Results
  <2> HIDE DEF lines
  <2>1. QED
    BY <1>4, <1>5, ParseLines
<1> HIDE DEF h
<1>9. ASSUME NEW g \in Includes(d, f)
      PROVE  g \in Files /\ \E m \in Maps : sub[g][m].ret = "true"
  <2>1. PICK i \in DOMAIN lines :
          ~Ignored(lines[i]) /\ lines[i].key = "include" /\ lines[i].val = g
    BY <1>9 DEF Includes
  <2>2. i \in 0..Len(lines) /\ i # 0 /\ i - 1 \in 0..Len(lines) /\ lines[i] \in Lines
    <3> HIDE DEF lines
    <3>1. QED
      BY <1>5, <2>1
  <2>3. h[i] = parseLine(sub, h[i - 1], lines[i])
    BY <1>7, <2>2 DEF Follows
  <2>4. h[i - 1].ret = "true" /\ h[i].ret = "true" /\ h[i - 1].map \in Maps
    BY <1>6, <1>8, <2>2 DEF Results
  <2>5. h[i] = sub[g][h[i - 1].map]
    BY <2>1, <2>3, <2>4 DEF parseLine
  <2>6. g \in Files
    BY <2>1, <2>2 DEF Files, Values
  <2>7. QED
    BY <2>4, <2>5, <2>6
<1>10. QED
  BY <1>1, <1>9 DEF sub

(***************************************************************************)
(* The files that can be parsed, with any number of descriptors.           *)
(***************************************************************************)
Parsable(d) ==
  {f \in Files : \E n \in 0..MaxOpenFiles : \E map \in Maps : ParseConfigFile[n][d][f][map].ret = "true"}

LEMMA ParsableIsSound ==
  ASSUME NEW d \in Disks, NEW f \in Parsable(d)
  PROVE  AllThere(d, f)
<1> DEFINE F == Parsable(d)
<1>0. MaxOpenFiles \in Nat
  BY MaxOpenFilesAssumption
<1>1. F \subseteq DOMAIN d
  BY IncludesParsed DEF Parsable
<1>2. ASSUME NEW g \in F PROVE Includes(d, g) \subseteq F
  <2>1. PICK n \in 0..MaxOpenFiles, map \in Maps : ParseConfigFile[n][d][g][map].ret = "true"
    BY DEF Parsable
  <2>2. g \in Files
    BY DEF Parsable
  <2>3. n - 1 \in 0..MaxOpenFiles
    BY <1>0, <2>1, <2>2, IncludesParsed
  <2>4. \A x \in Includes(d, g) :
          x \in Files /\ \E m \in Maps : ParseConfigFile[n - 1][d][x][m].ret = "true"
    BY <2>1, <2>2, IncludesParsed
  <2>5. QED
    BY <2>3, <2>4 DEF Parsable
<1>3. ASSUME NEW G \in (SUBSET F) \ {{}}, \A g \in G : Includes(d, g) \cap G # {}
      PROVE  FALSE
  <2> DEFINE S == {n \in 0..MaxOpenFiles :
                     \A g \in G, map \in Maps : ParseConfigFile[n][d][g][map].ret # "true"}
  <2>1. G \subseteq Files
    BY DEF Parsable
  <2>2. 0 \in S
    BY <1>0, <2>1, IncludesParsed
  <2>3. ASSUME NEW n \in 1..MaxOpenFiles, n - 1 \in S PROVE n \in S
    <3>1. n \in 0..MaxOpenFiles
      BY <1>0
    <3>2. ASSUME NEW g \in G, NEW map \in Maps, ParseConfigFile[n][d][g][map].ret = "true"
          PROVE  FALSE
      <4>1. PICK x \in Includes(d, g) : x \in G
        BY <1>3
      <4>2. \E m \in Maps : ParseConfigFile[n - 1][d][x][m].ret = "true"
        BY <2>1, <3>1, <3>2, <4>1, IncludesParsed
      <4>3. QED
        BY <2>3, <4>1, <4>2
    <3>3. QED
      BY <3>1, <3>2
  <2> HIDE DEF S
  <2>4. \A n \in 0..MaxOpenFiles : n \in S
    BY <1>0, <2>2, <2>3, Induction
  <2>5. PICK g \in G : g \in F
    <3> HIDE DEF F
    <3>1. QED
      BY <1>3
  <2>6. QED
    BY <2>4, <2>5 DEF S, Parsable
<1>4. F \in SUBSET DOMAIN d /\ f \in F
  BY <1>1
<1>5. \A g \in F : Includes(d, g) \subseteq F
  BY <1>2
<1>6. \A G \in (SUBSET F) \ {{}} : \E g \in G : Includes(d, g) \cap G = {}
  BY <1>3
<1> HIDE DEF F
<1>7. QED
  BY <1>4, <1>5, <1>6 DEF AllThere

-----------------------------------------------------------------------------
(* What the files tell of a key *)

Entries == [at : Seq(Nat), val : Values]

DiskTells == [Disks -> [Files -> SUBSET Entries]]

TellsStep(key, T) ==
  [d \in Disks |-> [f \in Files |->
     IF f \in DOMAIN d THEN linesTell(key, T[d], d[f], Len(d[f])) ELSE {}]]

TellsOpened(key, n, T) ==
  [d \in Disks |-> [f \in Files |->
     IF n > 0 /\ f \in DOMAIN d THEN linesTell(key, T[d], d[f], Len(d[f])) ELSE {}]]

TellsFollows(key, h) == h = [n \in 0..MaxOpenFiles |-> TellsOpened(key, n, h[n - 1])]

NothingTold == [d \in Disks |-> [f \in Files |-> {}]]

LEMMA ToldType ==
  ASSUME NEW key, NEW sub \in [Files -> SUBSET Entries], NEW line \in Lines
  PROVE  told(key, sub, line) \subseteq Entries
<1>1. line.val \in Values /\ line.val \in Files
  BY DEF Values, Files
<1>2. sub[line.val] \subseteq Entries
  BY <1>1
<1>3. [at |-> <<>>, val |-> line.val] \in Entries
  BY <1>1 DEF Entries
<1>4. QED
  BY <1>2, <1>3 DEF told

(***************************************************************************)
(* What t tells, seen from the file that includes it in line i.            *)
(***************************************************************************)
Shifted(i, t) == {[at |-> <<i>> \o e.at, val |-> e.val] : e \in t}

LEMMA ShiftedType ==
  ASSUME NEW i \in Nat, NEW t \in SUBSET Entries
  PROVE  Shifted(i, t) \subseteq Entries
<1>1. ASSUME NEW e \in t PROVE [at |-> <<i>> \o e.at, val |-> e.val] \in Entries
  <2>1. e.at \in Seq(Nat) /\ e.val \in Values
    BY DEF Entries
  <2>2. <<i>> \o e.at \in Seq(Nat)
    BY <2>1
  <2>3. QED
    BY <2>1, <2>2 DEF Entries
<1>2. QED
  BY <1>1 DEF Shifted

LEMMA LinesTellType ==
  ASSUME NEW key, NEW sub \in [Files -> SUBSET Entries], NEW d \in Disks, NEW f \in DOMAIN d
  PROVE  linesTell(key, sub, d[f], Len(d[f])) \in SUBSET Entries
<1>1. ASSUME NEW i \in 1..Len(d[f])
      PROVE  Shifted(i, told(key, sub, d[f][i])) \subseteq Entries
  <2>1. d[f][i] \in Lines /\ i \in Nat
    BY LineTypes
  <2>2. told(key, sub, d[f][i]) \subseteq Entries
    BY <2>1, ToldType
  <2>3. QED
    BY <2>1, <2>2, ShiftedType
<1>2. linesTell(key, sub, d[f], Len(d[f]))
        = UNION {Shifted(i, told(key, sub, d[f][i])) : i \in 1..Len(d[f])}
  BY DEF linesTell, Shifted
<1>3. QED
  BY <1>1, <1>2

LEMMA TellsStepType ==
  ASSUME NEW key, NEW T \in DiskTells
  PROVE  TellsStep(key, T) \in DiskTells
<1>1. ASSUME NEW d \in Disks, NEW f \in Files, f \in DOMAIN d
      PROVE  linesTell(key, T[d], d[f], Len(d[f])) \in SUBSET Entries
  <2>1. T[d] \in [Files -> SUBSET Entries]
    BY DEF DiskTells
  <2>2. QED
    BY <1>1, <2>1, LinesTellType
<1>2. QED
  BY <1>1 DEF TellsStep, DiskTells

LEMMA TellsWithDescriptors ==
  ASSUME NEW key, NEW T, NEW n \in Nat, n > 0
  PROVE  TellsOpened(key, n, T) = TellsStep(key, T)
<1>1. ASSUME NEW d \in Disks
      PROVE  [f \in Files |-> IF n > 0 /\ f \in DOMAIN d
                              THEN linesTell(key, T[d], d[f], Len(d[f])) ELSE {}]
             = [f \in Files |-> IF f \in DOMAIN d
                                THEN linesTell(key, T[d], d[f], Len(d[f])) ELSE {}]
  OBVIOUS
<1>2. QED
  BY <1>1 DEF TellsOpened, TellsStep

LEMMA Told ==
  ASSUME NEW key
  PROVE  TellsFollows(key, Tells(key))
<1> DEFINE step == [n \in 1..MaxOpenFiles |-> [T \in DiskTells |-> TellsStep(key, T)]]
<1>0. MaxOpenFiles \in Nat
  BY MaxOpenFilesAssumption
<1>1. NothingTold \in DiskTells
  BY DEF NothingTold, DiskTells
<1>2. step \in [1..MaxOpenFiles -> [DiskTells -> DiskTells]]
  BY TellsStepType
<1>3. \E h : TellsFollows(key, h)
  <2>1. PICK g : Steps(g, MaxOpenFiles, DiskTells, NothingTold, step)
    <3> HIDE DEF step
    <3>1. QED
      BY <1>0, <1>1, <1>2, Recursion
  <2>2. g \in [0..MaxOpenFiles -> DiskTells] /\ g[0] = NothingTold
    BY <2>1 DEF Steps
  <2>3. ASSUME NEW n \in 1..MaxOpenFiles PROVE g[n] = TellsStep(key, g[n - 1])
    <3>1. n - 1 \in 0..MaxOpenFiles
      BY <1>0
    <3>2. g[n - 1] \in DiskTells
      BY <2>2, <3>1
    <3>3. QED
      BY <2>1, <3>2 DEF Steps
  <2>4. ASSUME NEW n \in 0..MaxOpenFiles PROVE g[n] = TellsOpened(key, n, g[n - 1])
    <3>1. CASE n = 0
      BY <2>2, <3>1 DEF NothingTold, TellsOpened
    <3>2. CASE n # 0
      <4>1. n \in 1..MaxOpenFiles /\ n > 0
        BY <1>0, <3>2
      <4>2. QED
        BY <1>0, <2>3, <4>1, TellsWithDescriptors
    <3>3. QED
      BY <3>1, <3>2
  <2>5. TellsFollows(key, g)
    BY <2>2, <2>4 DEF TellsFollows
  <2>6. QED
    BY <2>5
<1>4. Tells(key) = CHOOSE h : TellsFollows(key, h)
  BY DEF Tells, TellsFollows, TellsOpened
<1>5. QED
  BY <1>3, <1>4

(***************************************************************************)
(* What is told by one line more.                                          *)
(***************************************************************************)
LEMMA LinesTellStep ==
  ASSUME NEW key, NEW sub, NEW lines, NEW n \in Nat
  PROVE  /\ linesTell(key, sub, lines, 0) = {}
         /\ linesTell(key, sub, lines, n + 1) =
              linesTell(key, sub, lines, n) \cup Shifted(n + 1, told(key, sub, lines[n + 1]))
<1> DEFINE t(i) == Shifted(i, told(key, sub, lines[i]))
<1>1. \A m : linesTell(key, sub, lines, m) = UNION {t(i) : i \in 1..m}
  BY DEF linesTell, Shifted
<1> HIDE DEF t
<1>2. 1..0 = {} /\ 1..(n + 1) = (1..n) \cup {n + 1}
  OBVIOUS
<1>3. UNION {t(i) : i \in 1..0} = {}
  BY <1>2
<1>4. UNION {t(i) : i \in 1..(n + 1)} = (UNION {t(i) : i \in 1..n}) \cup t(n + 1)
  <2> DEFINE M == 1..n
  <2>1. 1..(n + 1) = M \cup {n + 1}
    BY <1>2
  <2> HIDE DEF M
  <2>2. UNION {t(i) : i \in M \cup {n + 1}} = (UNION {t(i) : i \in M}) \cup t(n + 1)
    OBVIOUS
  <2>3. QED
    BY <2>1, <2>2 DEF M
<1>5. QED
  BY <1>1, <1>3, <1>4 DEF t

-----------------------------------------------------------------------------
(* The map says what the files tell *)

(***************************************************************************)
(* after is the map with what t tells of the key entered; t tells it once, *)
(* and nothing of a key that was there.                                    *)
(***************************************************************************)
Adds(map, after, key, t) ==
  /\ key \in DOMAIN map => t = {} /\ key \in DOMAIN after /\ after[key] = map[key]
  /\ key \notin DOMAIN map /\ t = {} => key \notin DOMAIN after
  /\ key \notin DOMAIN map /\ t # {} =>
       key \in DOMAIN after /\ \E e \in t : t = {e} /\ e.val = after[key]

LEMMA AddsOneLine ==
  ASSUME NEW map \in Maps, NEW line \in Lines, NEW key, NEW tsub,
         ~Ignored(line), line.key # "include", line.key \notin DOMAIN map
  PROVE  Adds(map, insert(map, line), key, told(key, tsub, line))
<1> DEFINE e == [at |-> <<>>, val |-> line.val]
<1>1. told(key, tsub, line) = IF line.key = key THEN {e} ELSE {}
  BY DEF told
<1>2. e.val = line.val
  OBVIOUS
<1> HIDE DEF e
<1>3. /\ DOMAIN insert(map, line) = DOMAIN map \cup {line.key}
      /\ \A k \in DOMAIN map : k # line.key => insert(map, line)[k] = map[k]
      /\ insert(map, line)[line.key] = line.val
  BY InsertType
<1>4. CASE line.key = key
  BY <1>1, <1>2, <1>3, <1>4 DEF Adds
<1>5. CASE line.key # key
  BY <1>1, <1>3, <1>5 DEF Adds
<1>6. QED
  BY <1>4, <1>5

LEMMA AddsBoth ==
  ASSUME NEW m1, NEW m2, NEW m3, NEW key, NEW t, NEW u,
         Adds(m1, m2, key, t), Adds(m2, m3, key, u)
  PROVE  Adds(m1, m3, key, t \cup u)
<1>1. CASE key \in DOMAIN m1
  BY <1>1 DEF Adds
<1>2. CASE key \notin DOMAIN m1 /\ t = {}
  BY <1>2 DEF Adds
<1>3. CASE key \notin DOMAIN m1 /\ t # {}
  <2>1. key \in DOMAIN m2
    BY <1>3 DEF Adds
  <2>2. u = {} /\ key \in DOMAIN m3 /\ m3[key] = m2[key]
    BY <2>1 DEF Adds
  <2>3. t \cup u = t
    BY <2>2
  <2>4. QED
    BY <1>3, <2>2, <2>3 DEF Adds
<1>4. QED
  BY <1>1, <1>2, <1>3

LEMMA AddsShifted ==
  ASSUME NEW map, NEW after, NEW key, NEW t, NEW i, Adds(map, after, key, t)
  PROVE  Adds(map, after, key, Shifted(i, t))
<1> DEFINE s(e) == [at |-> <<i>> \o e.at, val |-> e.val]
<1>1. Shifted(i, t) = {s(e) : e \in t} /\ \A e : s(e).val = e.val
  BY DEF Shifted
<1> HIDE DEF s
<1>2. t = {} <=> Shifted(i, t) = {}
  BY <1>1
<1>3. ASSUME NEW e, t = {e} PROVE Shifted(i, t) = {s(e)}
  BY <1>1, <1>3
<1>4. CASE t # {} /\ key \notin DOMAIN map
  <2>1. PICK e \in t : t = {e} /\ e.val = after[key]
    BY <1>4 DEF Adds
  <2>2. Shifted(i, t) = {s(e)} /\ s(e).val = after[key]
    BY <1>1, <1>3, <2>1
  <2>3. QED
    BY <1>4, <2>2 DEF Adds
<1>5. CASE t = {}
  BY <1>2, <1>5 DEF Adds
<1>6. CASE key \in DOMAIN map
  BY <1>2, <1>6 DEF Adds
<1>7. QED
  BY <1>4, <1>5, <1>6

(***************************************************************************)
(* sub and tsub agree on what the included files add.                      *)
(***************************************************************************)
Agree(sub, tsub, key) ==
  \A g \in Files, m \in Maps : sub[g][m].ret = "true" => Adds(m, sub[g][m].map, key, tsub[g])

LEMMA LinesAdd ==
  ASSUME NEW sub \in Parsers, NEW tsub, NEW key, Agree(sub, tsub, key),
         NEW d \in Disks, NEW f \in DOMAIN d, NEW map \in Maps,
         parseLines(sub, d[f], map)[Len(d[f])].ret = "true"
  PROVE  Adds(map, parseLines(sub, d[f], map)[Len(d[f])].map, key,
              linesTell(key, tsub, d[f], Len(d[f])))
<1> DEFINE lines == d[f]
           N == Len(lines)
           h == parseLines(sub, lines, map)
           T(i) == linesTell(key, tsub, lines, i)
           S == {i \in 0..N : Adds(map, h[i].map, key, T(i))}
<1>1. N \in Nat /\ \A i \in 1..N : lines[i] \in Lines
  BY LineTypes
<1>2. \A i \in 0..N : h[i].ret = "true"
  <2> HIDE DEF lines
  <2>1. QED
    BY <1>1, AllLinesParsed DEF lines
<1>3. Follows(h, sub, lines, map)
  <2> HIDE DEF lines
  <2>1. QED
    BY <1>1, ParseLinesFollows
<1>4. \A i \in 0..N : h[i] \in Results
  <2> HIDE DEF lines
  <2>1. QED
    BY <1>1, ParseLines
<1> HIDE DEF h
<1>5. 0 \in S
  <2>1. h[0].map = map
    BY <1>1, <1>3 DEF Follows
  <2>2. T(0) = {}
    BY LinesTellStep
  <2>3. QED
    BY <1>1, <2>1, <2>2 DEF Adds
<1>6. ASSUME NEW i \in 1..N, i - 1 \in S PROVE i \in S
  <2> DEFINE line == lines[i]
             m == h[i - 1].map
             t == told(key, tsub, line)
  <2>1. i \in 0..N /\ i # 0 /\ i - 1 \in 0..N /\ i - 1 \in Nat /\ (i - 1) + 1 = i
    BY <1>1
  <2>2. h[i] = parseLine(sub, h[i - 1], line)
    BY <1>3, <2>1 DEF Follows
  <2>3. h[i - 1].ret = "true" /\ h[i].ret = "true" /\ m \in Maps /\ line \in Lines
    BY <1>1, <1>2, <1>4, <2>1 DEF Results
  <2>4. Adds(m, h[i].map, key, t)
    <3> HIDE DEF line
    <3>1. CASE Ignored(line)
      <4>1. h[i].map = m
        BY <2>2, <2>3, <3>1 DEF parseLine
      <4>2. t = {}
        BY <3>1 DEF told
      <4>3. QED
        BY <4>1, <4>2 DEF Adds
    <3>2. CASE ~Ignored(line) /\ line.key = "include"
      <4>1. h[i] = sub[line.val][m]
        BY <2>2, <2>3, <3>2 DEF parseLine
      <4>2. t = tsub[line.val]
        BY <3>2 DEF told
      <4>3. line.val \in Files
        BY <2>3 DEF Files, Values
      <4> HIDE DEF m, t
      <4>4. QED
        BY <2>3, <4>1, <4>2, <4>3 DEF Agree
    <3>3. CASE ~Ignored(line) /\ line.key # "include"
      <4>2. h[i - 1] \in Results
        BY <1>4, <2>1
      <4>0. line.key \notin DOMAIN m
        BY <2>2, <2>3, <3>3, <4>2 DEF parseLine, Results
      <4>1. h[i] = [h[i - 1] EXCEPT !.map = insert(h[i - 1].map, line)]
        BY <2>2, <2>3, <3>3, <4>0 DEF parseLine
      <4>3. h[i].map = insert(m, line)
        BY <4>1, <4>2 DEF Results
      <4> HIDE DEF m
      <4>4. QED
        BY <2>3, <3>3, <4>0, <4>3, AddsOneLine
    <3>4. QED
      BY <3>1, <3>2, <3>3
  <2>5. Adds(map, m, key, T(i - 1))
    BY <1>6
  <2>6. T(i) = T(i - 1) \cup Shifted(i, t)
    <3>1. T((i - 1) + 1) = T(i - 1) \cup Shifted((i - 1) + 1, told(key, tsub, lines[(i - 1) + 1]))
      <4> HIDE DEF lines
      <4>1. QED
        BY <2>1, LinesTellStep
    <3>2. QED
      BY <2>1, <3>1
  <2> HIDE DEF m, t, T
  <2>9. Adds(m, h[i].map, key, Shifted(i, t))
    BY <2>4, AddsShifted
  <2>7. Adds(map, h[i].map, key, T(i))
    BY <2>5, <2>6, <2>9, AddsBoth
  <2>8. QED
    BY <2>1, <2>7
<1> HIDE DEF S
<1>7. \A i \in 0..N : i \in S
  <2> HIDE DEF N
  <2>1. QED
    BY <1>1, <1>5, <1>6, Induction
<1>8. N \in 0..N
  BY <1>1
<1>9. Adds(map, h[N].map, key, T(N))
  BY <1>7, <1>8 DEF S
<1>10. QED
  BY <1>9 DEF h

LEMMA FilesAdd ==
  ASSUME NEW key, NEW d \in Disks
  PROVE  \A n \in 0..MaxOpenFiles : Agree(ParseConfigFile[n][d], Tells(key)[n][d], key)
<1> DEFINE S == {n \in 0..MaxOpenFiles : Agree(ParseConfigFile[n][d], Tells(key)[n][d], key)}
<1>0. MaxOpenFiles \in Nat
  BY MaxOpenFilesAssumption
<1>1. 0 \in S
  <2>1. 0 \in 0..MaxOpenFiles
    BY <1>0
  <2>2. \A g \in Files, m \in Maps : ParseConfigFile[0][d][g][m].ret # "true"
    BY <2>1, IncludesParsed
  <2>3. QED
    BY <2>1, <2>2 DEF Agree
<1>2. ASSUME NEW n \in 1..MaxOpenFiles, n - 1 \in S PROVE n \in S
  <2>1. n \in 0..MaxOpenFiles /\ n > 0 /\ n - 1 \in 0..MaxOpenFiles
    BY <1>0
  <2>2. ASSUME NEW g \in Files, NEW m \in Maps, ParseConfigFile[n][d][g][m].ret = "true"
        PROVE  Adds(m, ParseConfigFile[n][d][g][m].map, key, Tells(key)[n][d][g])
    <3>1. g \in DOMAIN d
      BY <2>1, <2>2, IncludesParsed
    <3>2. ParseConfigFile[n][d][g][m] =
            parseLines(ParseConfigFile[n - 1][d], d[g], m)[Len(d[g])]
      BY <2>1, <3>1, Parsed
    <3>3. ParseConfigFile[n - 1][d] \in Parsers
      BY <2>1, ParseFollowed DEF DiskParsers
    <3>4. Agree(ParseConfigFile[n - 1][d], Tells(key)[n - 1][d], key)
      BY <1>2
    <3>5. Tells(key)[n][d][g] = linesTell(key, Tells(key)[n - 1][d], d[g], Len(d[g]))
      <4>1. Tells(key)[n] = TellsOpened(key, n, Tells(key)[n - 1])
        BY <2>1, Told DEF TellsFollows
      <4>2. QED
        BY <2>1, <3>1, <4>1 DEF TellsOpened
    <3>6. QED
      BY <2>2, <3>1, <3>2, <3>3, <3>4, <3>5, LinesAdd
  <2>3. QED
    BY <2>1, <2>2 DEF Agree
<1> HIDE DEF S
<1>3. \A n \in 0..MaxOpenFiles : n \in S
  BY <1>0, <1>1, <1>2, Induction
<1>4. QED
  BY <1>3 DEF S

LEMMA EmptyType == Empty \in Maps /\ DOMAIN Empty = {}
<1>1. Empty \in [{} -> Values] /\ {} \in SUBSET {line.key : line \in Lines}
  BY DEF Empty
<1>2. QED
  BY <1>1, MapType DEF Empty

(***************************************************************************)
(* The parser is correct, for all files: a load that succeeds has read     *)
(* files that are all there, none including itself, with no key in two     *)
(* places, to their end; and the map says of each key what its one line in *)
(* them says (parse_config_line and ParseConfigFile,                       *)
(* src/src/common/file_config_manager.cpp:27).                             *)
(***************************************************************************)
THEOREM LoadedIsMeaning ==
  ASSUME NEW d \in Disks, NEW f \in {conf_path, NoSource}, _LoadConfig[d][f].ret = "true"
  PROVE  /\ Sound(d, f)
         /\ \A key, default :
              (IF key \in DOMAIN _LoadConfig[d][f].map THEN _LoadConfig[d][f].map[key]
               ELSE default) = Meaning(d, f, key, default)
<1> DEFINE r == ParseConfigFile[MaxOpenFiles][d][f][Empty]
<1>1. _LoadConfig[d][f] = r
  BY DEF _LoadConfig
<1>2. f \in Files /\ MaxOpenFiles \in 0..MaxOpenFiles /\ Empty \in Maps /\ r.ret = "true"
  BY <1>1, MaxOpenFilesAssumption, EmptyType DEF Files
<1>3. AllThere(d, f)
  <2>1. f \in Parsable(d)
    BY <1>2 DEF Parsable
  <2>2. QED
    BY <2>1, ParsableIsSound
<1>4. ASSUME NEW key
      PROVE  LET t == Tells(key)[MaxOpenFiles][d][f]
             IN  /\ t = {} => key \notin DOMAIN r.map
                 /\ t # {} => key \in DOMAIN r.map /\ \E e \in t : t = {e} /\ e.val = r.map[key]
  <2> DEFINE t == Tells(key)[MaxOpenFiles][d][f]
  <2>1. Agree(ParseConfigFile[MaxOpenFiles][d], Tells(key)[MaxOpenFiles][d], key)
    BY <1>2, FilesAdd
  <2>2. Adds(Empty, r.map, key, t)
    BY <1>2, <2>1 DEF Agree
  <2> HIDE DEF r, t
  <2>3. /\ t = {} => key \notin DOMAIN r.map
        /\ t # {} => key \in DOMAIN r.map /\ \E e \in t : t = {e} /\ e.val = r.map[key]
    BY <2>2, EmptyType DEF Adds
  <2>4. QED
    BY <2>3 DEF t
<1> HIDE DEF r
<1>5. ToldOnce(d, f)
  BY <1>4 DEF ToldOnce
<1>6. ASSUME NEW key, NEW default
      PROVE  (IF key \in DOMAIN r.map THEN r.map[key] ELSE default) = Meaning(d, f, key, default)
  <2> DEFINE t == Tells(key)[MaxOpenFiles][d][f]
  <2>1. /\ t = {} => key \notin DOMAIN r.map
        /\ t # {} => key \in DOMAIN r.map /\ \E e \in t : t = {e} /\ e.val = r.map[key]
    BY <1>4
  <2>2. Meaning(d, f, key, default) = IF t = {} THEN default ELSE (CHOOSE e \in t : TRUE).val
    BY DEF Meaning
  <2> HIDE DEF t
  <2>3. CASE t = {}
    BY <2>1, <2>2, <2>3
  <2>4. CASE t # {}
    <3>1. (CHOOSE e \in t : TRUE) \in t
      BY <2>4
    <3>2. QED
      BY <2>1, <2>2, <2>4, <3>1
  <2>5. QED
    BY <2>3, <2>4
<1>7. QED
  BY <1>1, <1>3, <1>5, <1>6 DEF Sound

-----------------------------------------------------------------------------
(* The parts of the inductive invariant *)

AddPlaces ==
  {"add_crontab", "add_item1", "echo_item1", "add_item2", "echo_item2", "install", "rm"}
Deleting ==
  {"delete_crontab", "del_item1", "filter1", "install1", "del_item2", "filter2", "install2",
   "rm1", "rm2", "rm3"}
Starting == {"start", "launch", "started"} \cup AddPlaces
Places == {"idle", "stop", "kill", "killed"} \cup Starting \cup Deleting
Managers == [made : BOOLEAN, loaded : BOOLEAN, map : Maps]
Entered == {"keep-alive", "other", "blank"}

ShellsTyped ==
  /\ pc \in [Shells -> Places]
  /\ cmd \in [Shells -> {"none", "start", "stop", "restart"}]
  /\ arg \in [Shells -> {"none", "file"}]

FilesTyped == disk \in Disks /\ seen \subseteq Disks

ProcessTyped ==
  /\ server \in {"down", "starting", "up", "stopping", "stuck"}
  /\ source \in {conf_path, NoSource}
  /\ cm \in Managers
  /\ serialize_num \in 0..(ChannelMod - 1)

Contents == (SUBSET (Entered \cup {"error"})) \cup {NoFile}

CrontabTyped ==
  /\ crontab \subseteq Entered
  /\ files \in [TempFiles -> Contents]
  /\ "error" \notin files["tempXX"]

HistoryTyped == stopped \in BOOLEAN /\ clash \in BOOLEAN

(***************************************************************************)
(* cron's shell works only for keep-alive.sh, which names no file.         *)
(***************************************************************************)
CronTyped ==
  /\ keepAlive \in {"idle", "stop", "start", "end"}
  /\ keepAlive \in {"idle", "stop"} => pc["cron"] = "idle"
  /\ arg["cron"] = "none"

(***************************************************************************)
(* A process that has not loaded its configuration does not serve, and one *)
(* that was started without a file has not.                                *)
(***************************************************************************)
LoadedFirst ==
  /\ server = "down" => cm = NoManager
  /\ server = "up" => cm.loaded
  /\ source = NoSource => ~cm.loaded

WorkersReady ==
  /\ DOMAIN roles = 0..(work_num - 1)
  /\ server = "up" => \A i \in 0..(work_num - 1) : roles[i] \in plugin_init(i)

(***************************************************************************)
(* The map in use is that of a file that was there as a whole.             *)
(***************************************************************************)
OneVersion ==
  /\ running => disk \in seen
  /\ cm.loaded => \E d \in seen : /\ _LoadConfig[d][conf_path].ret = "true"
                                  /\ cm.map = _LoadConfig[d][conf_path].map

(***************************************************************************)
(* From the moment the operator's stop has seen the process gone, a        *)
(* process can only be one that cron has started, without a file.          *)
(***************************************************************************)
StopIsFinal ==
  /\ stopped => pc["operator"] = "idle"
  /\ stopped \/ pc["operator"] \in Deleting => server = "down" \/ source = NoSource

(***************************************************************************)
(* Only the operator's start names the file.                               *)
(***************************************************************************)
FileIsStart ==
  pc["operator"] \in Starting /\ arg["operator"] = "file" => cmd["operator"] = "start"

(***************************************************************************)
(* Whether a shell has listed the crontab and will still look for our      *)
(* entry in the list or write it there.                                    *)
(***************************************************************************)
WillAdd == \E s \in Shells : pc[s] \in {"add_item1", "echo_item1"}

(***************************************************************************)
(* What a shell is about to install names the entry, or the other shell,   *)
(* which has listed the crontab anew into the same file, will add it.      *)
(***************************************************************************)
Kept ==
  ~clash /\ (\E s \in Shells : pc[s] \in Looked) => "keep-alive" \in files["tempXX"] \/ WillAdd

(***************************************************************************)
(* A process that may come up is watched, or a shell is about to enter it, *)
(* or the operator's start will.                                           *)
(***************************************************************************)
Watched ==
  ~clash /\ server \in {"starting", "up"} /\ source # NoSource =>
    \/ "keep-alive" \in crontab
    \/ WillAdd
    \/ (\E s \in Shells : pc[s] \in Looked) /\ "keep-alive" \in files["tempXX"]
    \/ pc["operator"] \in {"started", "add_crontab"} /\ cmd["operator"] = "start"

(***************************************************************************)
(* cron deletes the entry only after it has killed a server.               *)
(***************************************************************************)
CronDeletesNothing == ~clash => pc["cron"] \notin Deleting \cup {"killed"}

IInv ==
  /\ ShellsTyped /\ FilesTyped /\ ProcessTyped /\ CrontabTyped /\ HistoryTyped /\ CronTyped
  /\ LoadedFirst /\ WorkersReady /\ OneVersion
  /\ StopIsFinal /\ FileIsStart /\ CronDeletesNothing /\ Kept /\ Watched

-----------------------------------------------------------------------------
(* Which steps change what *)

LEMMA AddMoves ==
  ASSUME NEW s \in Shells, add_crontab(s)
  PROVE  /\ UNCHANGED <<disk, cm, server, source, roles, serialize_num, keepAlive, seen, stopped>>
         /\ clash => clash'
         /\ pc[s] \in AddPlaces
         /\ exit(s) \/ \E w \in AddPlaces : goto(s, w)
<1>1. UNCHANGED <<disk, cm, server, source, roles, serialize_num, keepAlive, seen, stopped>>
  BY DEF add_crontab, config, process
<1>2. clash => clash'
  BY DEF add_crontab
<1>3. pc[s] \in AddPlaces /\ (exit(s) \/ \E w \in AddPlaces : goto(s, w))
  <2>1. \/ pc[s] = "rm" /\ exit(s)
        \/ \E p, w \in AddPlaces : does(s, p, w)
    <3>1. ASSUME NEW b \in BOOLEAN
          PROVE  (IF b THEN "add_item2" ELSE "echo_item1") \in AddPlaces
                 /\ (IF b THEN "install" ELSE "echo_item2") \in AddPlaces
      BY DEF AddPlaces
    <3>2. {"add_crontab", "add_item1", "echo_item1", "add_item2", "echo_item2", "install", "rm"}
            \subseteq AddPlaces
      BY DEF AddPlaces
    <3>3. QED
      BY <3>1, <3>2 DEF add_crontab
  <2>2. QED
    BY <2>1 DEF does, AddPlaces
<1>4. QED
  BY <1>1, <1>2, <1>3

LEMMA DeleteMoves ==
  ASSUME NEW s \in Shells, delete_crontab(s)
  PROVE  /\ UNCHANGED <<disk, cm, server, source, roles, serialize_num, keepAlive, seen, clash>>
         /\ pc[s] \in Deleting
         /\ \/ stopped' = stopped /\ \E w \in Deleting : goto(s, w)
            \/ stopped' = (stopped \/ s = "operator") /\ exit(s)
<1>1. UNCHANGED <<disk, cm, server, source, roles, serialize_num, keepAlive, seen, clash>>
  BY DEF delete_crontab, config, process
<1>2. \/ stopped' = (stopped \/ s = "operator") /\ pc[s] = "rm3" /\ exit(s)
      \/ stopped' = stopped /\ \E p, w \in Deleting : does(s, p, w)
  <2>1. ASSUME NEW b \in BOOLEAN
        PROVE  (IF b THEN "filter1" ELSE "del_item2") \in Deleting
               /\ (IF b THEN "filter2" ELSE "rm1") \in Deleting
    BY DEF Deleting
  <2>2. {"delete_crontab", "del_item1", "filter1", "install1", "del_item2", "filter2", "install2",
         "rm1", "rm2", "rm3"} \subseteq Deleting
    BY DEF Deleting
  <2>3. QED
    BY <2>1, <2>2 DEF delete_crontab
<1>3. QED
  BY <1>1, <1>2 DEF does, Deleting

LEMMA ProcessSteps ==
  ASSUME [Next]_vars
  PROVE  \/ UNCHANGED <<disk, cm, server, source, roles, seen>>
         \/ \E s \in Shells : launch(s) \/ kill(s)
         \/ loadConfig \/ reloadConfig \/ plugin_fini \/ crash \/ edit
<1>1. CASE UNCHANGED vars
  BY <1>1 DEF vars, config, process
<1>2. ASSUME NEW s \in Shells, serverSh(s), ~launch(s), ~kill(s)
      PROVE  UNCHANGED <<disk, cm, server, source, roles, seen>>
  BY <1>2, AddMoves, DeleteMoves DEF serverSh, startCheck, started, stopCheck, killed, config,
     process
<1>3. CASE keepAliveSh
  BY <1>3 DEF keepAliveSh, keepAliveState, keepAliveStop, keepAliveStart, keepAliveEnd,
     config, process
<1>4. CASE package
  BY <1>4 DEF package, config, process
<1>5. CASE command
  BY <1>5 DEF command, config, process
<1>6. QED
  BY <1>1, <1>2, <1>3, <1>4, <1>5 DEF Next

LEMMA ShellSteps ==
  ASSUME [Next]_vars
  PROVE  \/ UNCHANGED <<pc, cmd, arg>>
         \/ \E s \in Shells : serverSh(s)
         \/ keepAliveStop \/ keepAliveStart \/ command
<1>1. CASE UNCHANGED vars
  BY <1>1 DEF vars, scripts
<1>2. CASE keepAliveState \/ keepAliveEnd
  BY <1>2 DEF keepAliveState, keepAliveEnd
<1>3. CASE loadConfig \/ reloadConfig \/ package \/ plugin_fini \/ crash \/ edit
  BY <1>3 DEF loadConfig, reloadConfig, package, plugin_fini, crash, edit, processEnds, scripts
<1>4. QED
  BY <1>1, <1>2, <1>3 DEF Next, keepAliveSh

LEMMA CrontabSteps ==
  ASSUME [Next]_vars
  PROVE  \/ UNCHANGED <<crontab, files>>
         \/ \E s \in Shells : add_crontab(s) \/ delete_crontab(s)
<1>1. CASE UNCHANGED vars
  BY <1>1 DEF vars, cron
<1>2. ASSUME NEW s \in Shells, serverSh(s), ~add_crontab(s), ~delete_crontab(s)
      PROVE  UNCHANGED <<crontab, files>>
  BY <1>2 DEF serverSh, startCheck, launch, started, stopCheck, kill, killed, cron
<1>3. CASE keepAliveSh
  BY <1>3 DEF keepAliveSh, keepAliveState, keepAliveStop, keepAliveStart, keepAliveEnd, cron
<1>4. CASE loadConfig \/ reloadConfig \/ package \/ plugin_fini \/ crash \/ command \/ edit
  BY <1>4 DEF loadConfig, reloadConfig, package, plugin_fini, crash, command, edit,
     processEnds, cron
<1>5. QED
  BY <1>1, <1>2, <1>3, <1>4 DEF Next

LEMMA HistorySteps ==
  ASSUME [Next]_vars
  PROVE  \/ UNCHANGED <<stopped, clash>>
         \/ \E s \in Shells : kill(s) \/ add_crontab(s) \/ delete_crontab(s)
         \/ command
<1>1. CASE UNCHANGED vars
  BY <1>1 DEF vars, history
<1>2. ASSUME NEW s \in Shells, serverSh(s), ~kill(s), ~add_crontab(s), ~delete_crontab(s)
      PROVE  UNCHANGED <<stopped, clash>>
  BY <1>2 DEF serverSh, startCheck, launch, started, stopCheck, killed, history
<1>3. CASE keepAliveSh
  BY <1>3 DEF keepAliveSh, keepAliveState, keepAliveStop, keepAliveStart, keepAliveEnd, history
<1>4. CASE loadConfig \/ reloadConfig \/ package \/ plugin_fini \/ crash \/ edit
  BY <1>4 DEF loadConfig, reloadConfig, package, plugin_fini, crash, edit, processEnds, history
<1>5. QED
  BY <1>1, <1>2, <1>3, <1>4 DEF Next

LEMMA LoadType ==
  ASSUME NEW d \in Disks, NEW f \in {conf_path, NoSource}
  PROVE  /\ _LoadConfig[d][f] \in Results
         /\ f = NoSource => _LoadConfig[d][f].ret # "true"
<1>1. f \in Files /\ MaxOpenFiles \in 0..MaxOpenFiles /\ Empty \in Maps
  BY MaxOpenFilesAssumption, EmptyType DEF Files
<1>2. _LoadConfig[d][f] = ParseConfigFile[MaxOpenFiles][d][f][Empty]
  BY DEF _LoadConfig
<1>3. ParseConfigFile[MaxOpenFiles][d][f][Empty] \in Results
  BY <1>1, Parsed
<1>4. ParseConfigFile[MaxOpenFiles][d][f][Empty].ret = "true" => f \in DOMAIN d
  BY <1>1, IncludesParsed
<1>5. QED
  BY <1>2, <1>3, <1>4, NoSourceAssumption

(***************************************************************************)
(* What a load may come to.                                                *)
(***************************************************************************)
LEMMA LoadCases ==
  ASSUME loadConfig, cm \in Managers
  PROVE  /\ server = "starting"
         /\ \/ processEnds
            \/ /\ UNCHANGED <<disk, source, seen>>
               /\ \/ cm.loaded /\ cm' = cm
                  \/ ~cm.loaded /\ cm' = [made |-> TRUE,
                                          loaded |-> _LoadConfig[disk][source].ret = "true",
                                          map |-> _LoadConfig[disk][source].map]
               /\ \/ /\ cm'.loaded /\ server' = "up"
                     /\ DOMAIN roles' = DOMAIN roles
                     /\ \A i \in DOMAIN roles : roles'[i] \in plugin_init(i)
                  \/ UNCHANGED <<server, roles>>
<1>1. CASE cm.loaded
  BY <1>1 DEF loadConfig, load_config
<1>2. CASE ~cm.loaded
  <2> DEFINE r == _LoadConfig[disk][source]
             next == [made |-> TRUE, loaded |-> r.ret = "true", map |-> r.map]
  <2>1. load_config(source) = [ret |-> r.ret, cm |-> next]
    BY <1>2 DEF load_config
  <2>2. next.loaded = (r.ret = "true")
    OBVIOUS
  <2>3. /\ server = "starting"
        /\ \/ /\ cm' = next
              /\ UNCHANGED <<disk, source, seen>>
              /\ IF r.ret = "true"
                 THEN /\ server' = "up"
                      /\ roles' \in [DOMAIN roles -> {"Control", "Proxy", "failed"}]
                      /\ \A i \in DOMAIN roles : roles'[i] \in plugin_init(i)
                 ELSE UNCHANGED <<server, roles>>
           \/ processEnds
    BY <2>1 DEF loadConfig
  <2>4. cm' = next => (cm'.loaded <=> r.ret = "true")
    BY <2>2
  <2> HIDE DEF r, next
  <2>5. CASE processEnds
    BY <2>3, <2>5
  <2>6. CASE ~processEnds /\ r.ret = "true"
    BY <2>3, <2>4, <2>6, <1>2 DEF r, next
  <2>7. CASE ~processEnds /\ r.ret # "true"
    BY <2>3, <2>4, <2>7, <1>2 DEF r, next
  <2>8. QED
    BY <2>5, <2>6, <2>7
<1>3. QED
  BY <1>1, <1>2 DEF Managers

(***************************************************************************)
(* A process that was killed ends or hangs; a reload leaves the process as *)
(* it is, or ends it.                                                      *)
(***************************************************************************)
Else == <<disk, source, roles, serialize_num, crontab, files, pc, cmd, arg, keepAlive, seen,
          stopped, clash>>
Hangs == server = "stopping" /\ server' = "stuck" /\ UNCHANGED <<Else, cm>>
Reloads == server = "up" /\ cm' = reload_config(conf_path) /\ UNCHANGED <<Else, server>>

LEMMA EndCases ==
  /\ plugin_fini \/ crash => processEnds \/ Hangs
  /\ reloadConfig => processEnds \/ Reloads
BY DEF plugin_fini, crash, reloadConfig, Hangs, Reloads, Else, config, process, cron, scripts, history

LEMMA EndsUnchanged ==
  ASSUME processEnds
  PROVE  UNCHANGED <<disk, crontab, files, pc, cmd, arg, keepAlive, stopped, clash>>
BY DEF processEnds, cron, scripts, history

(***************************************************************************)
(* Where a shell is after it went on, or ended.                            *)
(***************************************************************************)
LEMMA Going ==
  ASSUME ShellsTyped, NEW s \in Shells
  PROVE  /\ \A w : goto(s, w) => pc'[s] = w /\ UNCHANGED <<cmd, arg>>
         /\ exit(s) => pc'[s] = "idle"
BY DEF ShellsTyped, goto, exit

(***************************************************************************)
(* What one shell does leaves the other where it is.                       *)
(***************************************************************************)
LEMMA LeavesOther ==
  ASSUME ShellsTyped, NEW s \in Shells, NEW u \in Shells, u # s, serverSh(s)
  PROVE  /\ pc'[u] = pc[u] /\ cmd'[u] = cmd[u] /\ arg'[u] = arg[u]
         /\ pc[s] # "idle" /\ keepAlive' = keepAlive
<1> DEFINE P == /\ pc'[u] = pc[u] /\ cmd'[u] = cmd[u] /\ arg'[u] = arg[u]
<1>1. ASSUME NEW w, goto(s, w) PROVE P
  BY <1>1 DEF ShellsTyped, goto
<1>2. ASSUME exit(s) PROVE P
  BY <1>2 DEF ShellsTyped, exit
<1>3. CASE startCheck(s) \/ launch(s) \/ started(s)
  BY <1>1, <1>2, <1>3 DEF startCheck, launch, started
<1>4. CASE add_crontab(s)
  <2>1. P /\ keepAlive' = keepAlive /\ pc[s] \in AddPlaces
    BY <1>1, <1>2, <1>4, AddMoves
  <2>2. QED
    BY <2>1 DEF AddPlaces
<1>5. CASE delete_crontab(s)
  <2>1. P /\ keepAlive' = keepAlive /\ pc[s] \in Deleting
    BY <1>1, <1>2, <1>5, DeleteMoves
  <2>2. QED
    BY <2>1 DEF Deleting
<1>6. CASE stopCheck(s) \/ kill(s)
  BY <1>1, <1>2, <1>6 DEF stopCheck, kill
<1>7. CASE killed(s)
  BY <1>7 DEF ShellsTyped, killed
<1>8. QED
  BY <1>3, <1>4, <1>5, <1>6, <1>7 DEF serverSh

-----------------------------------------------------------------------------
(* Each part is kept *)

LEMMA ShellsTypedNext == ASSUME IInv, [Next]_vars PROVE ShellsTyped'
<1>0. ShellsTyped
  BY DEF IInv
<1>1. CASE UNCHANGED <<pc, cmd, arg>>
  BY <1>0, <1>1 DEF ShellsTyped
<1>2. ASSUME NEW s \in Shells, serverSh(s) PROVE ShellsTyped'
  <2>1. ASSUME NEW w \in Places, goto(s, w) PROVE ShellsTyped'
    BY <1>0, <2>1 DEF ShellsTyped, goto
  <2>2. ASSUME exit(s) PROVE ShellsTyped'
    BY <1>0, <2>2 DEF ShellsTyped, exit, Places
  <2>3. CASE startCheck(s) \/ launch(s) \/ started(s)
    BY <2>1, <2>2, <2>3 DEF startCheck, launch, started, Places, Starting, AddPlaces
  <2>4. CASE stopCheck(s) \/ kill(s)
    BY <2>1, <2>2, <2>4 DEF stopCheck, kill, Places
  <2>5. CASE add_crontab(s)
    <3>1. exit(s) \/ \E w \in AddPlaces : goto(s, w)
      BY <2>5, AddMoves
    <3>2. AddPlaces \subseteq Places
      BY DEF Places, Starting
    <3>3. QED
      BY <2>1, <2>2, <3>1, <3>2
  <2>6. CASE delete_crontab(s)
    <3>1. exit(s) \/ \E w \in Deleting : goto(s, w)
      BY <2>6, DeleteMoves
    <3>2. Deleting \subseteq Places
      BY DEF Places
    <3>3. QED
      BY <2>1, <2>2, <3>1, <3>2
  <2>7. CASE killed(s)
    BY <1>0, <2>7 DEF ShellsTyped, killed, Places, Starting, Deleting
  <2>8. QED
    BY <1>2, <2>3, <2>4, <2>5, <2>6, <2>7 DEF serverSh
<1>3. CASE keepAliveStop \/ keepAliveStart
  BY <1>0, <1>3 DEF ShellsTyped, keepAliveStop, keepAliveStart, call, Shells, Places, Starting
<1>4. CASE command
  BY <1>0, <1>4 DEF ShellsTyped, command, call, Shells, Places, Starting
<1>5. QED
  BY <1>1, <1>2, <1>3, <1>4, ShellSteps

LEMMA FilesTypedNext == ASSUME IInv, [Next]_vars PROVE FilesTyped'
<1> USE DEF IInv, FilesTyped
<1>1. CASE UNCHANGED <<disk, cm, server, source, roles, seen>>
  BY <1>1
<1>2. ASSUME NEW s \in Shells, launch(s) \/ kill(s) PROVE FilesTyped'
  BY <1>2 DEF launch, kill, config
<1>3. CASE loadConfig
  <2>1. cm \in Managers
    BY DEF ProcessTyped
  <2>2. QED
    BY <1>3, <2>1, LoadCases DEF processEnds
<1>4. CASE reloadConfig
  BY <1>4, EndCases DEF Reloads, Else, processEnds
<1>5. CASE plugin_fini \/ crash
  BY <1>5, EndCases DEF Hangs, Else, processEnds
<1>6. CASE edit
  BY <1>6 DEF edit
<1>7. QED
  BY <1>1, <1>2, <1>3, <1>4, <1>5, <1>6, ProcessSteps

LEMMA ModType ==
  ASSUME NEW a \in Int, NEW b \in Nat \ {0}
  PROVE  a % b \in 0..(b - 1)
OBVIOUS

LEMMA SerializeNumNext == ASSUME IInv, [Next]_vars PROVE serialize_num' \in 0..(ChannelMod - 1)
<1>1. serialize_num \in 0..(ChannelMod - 1) /\ ChannelMod \in Nat \ {0}
  BY ChannelModAssumption DEF IInv, ProcessTyped
<1>2. CASE serialize_num' = serialize_num \/ serialize_num' = 0
  BY <1>1, <1>2
<1>3. CASE package
  BY <1>1, <1>3, ModType DEF package
<1>4. ASSUME NEW s \in Shells, serverSh(s) PROVE serialize_num' = serialize_num
  BY <1>4, AddMoves, DeleteMoves DEF serverSh, startCheck, launch, started, stopCheck, kill, killed
<1>5. ASSUME keepAliveSh PROVE serialize_num' = serialize_num
  BY <1>5 DEF keepAliveSh, keepAliveState, keepAliveStop, keepAliveStart, keepAliveEnd
<1>6. ASSUME loadConfig PROVE serialize_num' = serialize_num \/ serialize_num' = 0
  BY <1>6 DEF loadConfig, processEnds
<1>7. ASSUME command \/ edit \/ UNCHANGED vars
      PROVE  serialize_num' = serialize_num
  BY <1>7 DEF command, edit, vars
<1>8. ASSUME reloadConfig \/ plugin_fini \/ crash
      PROVE  serialize_num' = serialize_num \/ serialize_num' = 0
  BY <1>8, EndCases DEF Reloads, Hangs, Else, processEnds
<1>9. QED
  BY <1>2, <1>3, <1>4, <1>5, <1>6, <1>7, <1>8 DEF Next

LEMMA ProcessTypedNext == ASSUME IInv, [Next]_vars PROVE ProcessTyped'
<1> DEFINE Rest == /\ server \in {"down", "starting", "up", "stopping", "stuck"}
                   /\ source \in {conf_path, NoSource}
                   /\ cm \in Managers
<1>0. Rest /\ disk \in Disks
  BY DEF IInv, ProcessTyped, FilesTyped
<1>10. NoManager \in Managers
  BY EmptyType DEF NoManager, Managers
<1>1. ASSUME UNCHANGED <<disk, cm, server, source, roles, seen>> PROVE Rest'
  BY <1>0, <1>1
<1>2. ASSUME NEW s \in Shells, launch(s) PROVE Rest'
  BY <1>0, <1>2, <1>10 DEF launch, sourceOf
<1>3. ASSUME NEW s \in Shells, kill(s) PROVE Rest'
  BY <1>0, <1>3 DEF kill, config
<1>4. ASSUME loadConfig PROVE Rest'
  <2>1. _LoadConfig[disk][source] \in Results
    BY <1>0, LoadType
  <2>2. [made |-> TRUE, loaded |-> _LoadConfig[disk][source].ret = "true",
         map |-> _LoadConfig[disk][source].map] \in Managers
    BY <2>1 DEF Managers, Results
  <2>3. QED
    BY <1>0, <1>4, <1>10, <2>2, LoadCases DEF processEnds
<1>5. ASSUME reloadConfig PROVE Rest'
  <2>1. _LoadConfig[disk][conf_path] \in Results
    BY <1>0, LoadType
  <2>2. reload_config(conf_path) \in Managers
    BY <1>0, <2>1 DEF reload_config, Managers, Results
  <2>3. QED
    BY <1>0, <1>5, <1>10, <2>2, EndCases DEF Reloads, Else, processEnds
<1>6. ASSUME plugin_fini \/ crash PROVE Rest'
  BY <1>0, <1>6, <1>10, EndCases DEF Hangs, Else, processEnds
<1>7. ASSUME edit PROVE Rest'
  BY <1>0, <1>7 DEF edit, process
<1>8. Rest'
  BY <1>1, <1>2, <1>3, <1>4, <1>5, <1>6, <1>7, ProcessSteps
<1>9. QED
  BY <1>8, SerializeNumNext DEF ProcessTyped

(***************************************************************************)
(* What a temporary file may hold, and what comes of a crontab of it.      *)
(***************************************************************************)
LEMMA ContentsFacts ==
  /\ NoFile \in Contents /\ {"error"} \in Contents
  /\ \A c : c \subseteq Entered => c \in Contents /\ "error" \notin c
  /\ \A c \in Contents : c = NoFile \/ "error" \in c \/ c \subseteq Entered
  /\ \A c \in Contents : c = NoFile \/ \A x : c \ {x} \in Contents
  /\ \A c \in Contents : "error" \notin c => c \ NoFile \subseteq Entered
  /\ "error" \notin NoFile
  /\ "keep-alive" \in Entered /\ "blank" \in Entered
<1>1. "error" \notin NoFile /\ "error" \notin Entered /\ "keep-alive" \in Entered
      /\ "blank" \in Entered
  BY DEF Entered, NoFile
<1> HIDE DEF Entered, NoFile
<1>2. NoFile \in Contents /\ {"error"} \in Contents
  <2>1. {"error"} \in SUBSET (Entered \cup {"error"})
    OBVIOUS
  <2>2. QED
    BY <2>1, Zenon DEF Contents
<1>3. \A c : c \subseteq Entered => c \in Contents /\ "error" \notin c
  BY <1>1 DEF Contents
<1>4. ASSUME NEW c \in Contents
      PROVE  /\ c = NoFile \/ "error" \in c \/ c \subseteq Entered
             /\ c = NoFile \/ \A x : c \ {x} \in Contents
             /\ "error" \notin c => c \ NoFile \subseteq Entered
  <2>1. CASE c = NoFile
    BY <2>1
  <2>2. CASE c # NoFile
    <3>1. c \subseteq Entered \cup {"error"}
      BY <2>2 DEF Contents
    <3>2. ASSUME NEW x PROVE c \ {x} \in Contents
      <4>1. c \ {x} \in SUBSET (Entered \cup {"error"})
        BY <3>1
      <4>2. QED
        BY <4>1, Zenon DEF Contents
    <3>3. QED
      BY <3>1, <3>2
  <2>3. QED
    BY <2>1, <2>2
<1>5. QED
  BY <1>1, <1>2, <1>3, <1>4

LEMMA CrontabTypedNext == ASSUME IInv, [Next]_vars PROVE CrontabTyped'
<1>0. CrontabTyped
  BY DEF IInv
<1>1. CASE UNCHANGED <<crontab, files>>
  BY <1>0, <1>1 DEF CrontabTyped
<1>2. /\ "tempXX" \in TempFiles
      /\ {"temp1XX", "temp2XX", "temp3XX"} = TempFiles \ {"tempXX"}
  BY DEF TempFiles
<1>3. ASSUME NEW f \in TempFiles, install(f) PROVE CrontabTyped'
  <2>1. files[f] = NoFile \/ "error" \in files[f] \/ files[f] \subseteq Entered
    BY <1>0, ContentsFacts DEF CrontabTyped
  <2>2. crontab' \subseteq Entered /\ files' = files
    BY <1>0, <1>3, <2>1 DEF install, CrontabTyped
  <2>3. QED
    BY <1>0, <2>2 DEF CrontabTyped
<1>4. ASSUME NEW f \in TempFiles, NEW c \in Contents, "error" \notin c \/ f # "tempXX",
             files' = [files EXCEPT ![f] = c], UNCHANGED crontab
      PROVE  CrontabTyped'
  BY <1>0, <1>2, <1>4 DEF CrontabTyped
<1>5. ASSUME NEW f \in TempFiles, list(f) \/ remove(f) PROVE CrontabTyped'
  <2>1. CASE list(f)
    BY <1>0, <1>4, <2>1, ContentsFacts DEF list, CrontabTyped
  <2>2. CASE remove(f)
    BY <1>4, <2>2, ContentsFacts DEF remove
  <2>3. QED
    BY <1>5, <2>1, <2>2
<1>6. ASSUME NEW line \in Entered, append("tempXX", line) PROVE CrontabTyped'
  <2>1. (files["tempXX"] \ NoFile) \cup {line} \subseteq Entered
    BY <1>0, <1>2, ContentsFacts DEF CrontabTyped
  <2>2. (files["tempXX"] \ NoFile) \cup {line} \in Contents
        /\ "error" \notin (files["tempXX"] \ NoFile) \cup {line}
    BY <2>1, ContentsFacts
  <2>3. /\ files' = [files EXCEPT !["tempXX"] = (files["tempXX"] \ NoFile) \cup {line}]
        /\ UNCHANGED crontab
    BY <1>6 DEF append
  <2>4. QED
    BY <1>2, <1>4, <2>2, <2>3
<1>7. ASSUME NEW f, NEW g \in TempFiles \ {"tempXX"}, NEW rest,
             filter(f, g, rest), files[f] # NoFile => rest \in Contents
      PROVE  CrontabTyped'
  <2>1. CASE files[f] = NoFile
    <3>1. files' = [files EXCEPT ![g] = {"error"}] /\ UNCHANGED crontab
      BY <1>7, <2>1 DEF filter
    <3>2. {"error"} \in Contents
      BY ContentsFacts
    <3>3. QED
      BY <1>4, <1>7, <3>1, <3>2
  <2>2. CASE files[f] # NoFile
    <3>1. files' = [files EXCEPT ![g] = rest] /\ UNCHANGED crontab /\ rest \in Contents
      BY <1>7, <2>2 DEF filter
    <3>2. QED
      BY <1>4, <1>7, <3>1
  <2>3. QED
    BY <2>1, <2>2
<1>8. ASSUME NEW s \in Shells, add_crontab(s) PROVE CrontabTyped'
  <2>1. \/ UNCHANGED cron \/ install("tempXX") \/ list("tempXX") \/ remove("tempXX")
        \/ append("tempXX", "keep-alive") \/ append("tempXX", "blank")
    BY <1>8 DEF add_crontab
  <2>2. CASE UNCHANGED cron
    BY <1>1, <2>2 DEF cron
  <2>3. CASE install("tempXX")
    BY <1>2, <1>3, <2>3
  <2>4. CASE list("tempXX") \/ remove("tempXX")
    BY <1>2, <1>5, <2>4
  <2>5. CASE append("tempXX", "keep-alive") \/ append("tempXX", "blank")
    BY <1>6, <2>5, ContentsFacts
  <2>6. QED
    BY <2>1, <2>2, <2>3, <2>4, <2>5
<1>9. ASSUME NEW s \in Shells, delete_crontab(s) PROVE CrontabTyped'
  <2>1. \/ UNCHANGED cron
        \/ list("temp1XX")
        \/ \E f \in {"temp1XX", "temp2XX", "temp3XX"} : install(f) \/ remove(f)
        \/ filter("temp1XX", "temp2XX", files["temp1XX"] \ {"keep-alive"})
        \/ filter("temp2XX", "temp3XX", {})
    BY <1>9 DEF delete_crontab
  <2>2. CASE UNCHANGED cron
    BY <1>1, <2>2 DEF cron
  <2>3. CASE list("temp1XX") \/ \E f \in {"temp1XX", "temp2XX", "temp3XX"} : install(f) \/ remove(f)
    BY <1>2, <1>3, <1>5, <2>3
  <2>4. CASE filter("temp1XX", "temp2XX", files["temp1XX"] \ {"keep-alive"})
    <3>1. files["temp1XX"] # NoFile => files["temp1XX"] \ {"keep-alive"} \in Contents
      BY <1>0, <1>2, ContentsFacts DEF CrontabTyped
    <3>2. QED
      BY <1>2, <1>7, <2>4, <3>1
  <2>5. CASE filter("temp2XX", "temp3XX", {})
    <3>1. {} \in Contents
      BY ContentsFacts
    <3>2. QED
      BY <1>2, <1>7, <2>5, <3>1
  <2>6. QED
    BY <2>1, <2>2, <2>3, <2>4, <2>5
<1>10. QED
  BY <1>1, <1>8, <1>9, CrontabSteps

LEMMA HistoryTypedNext == ASSUME IInv, [Next]_vars PROVE HistoryTyped'
<1> USE DEF IInv, HistoryTyped
<1>1. CASE UNCHANGED <<stopped, clash>>
  BY <1>1
<1>2. ASSUME NEW s \in Shells, kill(s) PROVE HistoryTyped'
  BY <1>2 DEF kill
<1>3. ASSUME NEW s \in Shells, add_crontab(s) \/ delete_crontab(s) PROVE HistoryTyped'
  BY <1>3 DEF add_crontab, delete_crontab
<1>4. CASE command
  BY <1>4 DEF command
<1>5. QED
  BY <1>1, <1>2, <1>3, <1>4, HistorySteps

LEMMA CronTypedNext == ASSUME IInv, [Next]_vars PROVE CronTyped'
<1>0. pc \in [Shells -> Places] /\ arg \in [Shells -> {"none", "file"}] /\ CronTyped
  BY DEF IInv, ShellsTyped
<1> USE DEF CronTyped
<1>1. CASE UNCHANGED vars
  BY <1>0, <1>1 DEF vars, scripts
<1>2. ASSUME serverSh("operator") PROVE CronTyped'
  <2>1. pc'["cron"] = pc["cron"] /\ arg'["cron"] = arg["cron"] /\ keepAlive' = keepAlive
    BY <1>2, LeavesOther DEF IInv, Shells
  <2>2. QED
    BY <1>0, <2>1
<1>3. ASSUME serverSh("cron") PROVE CronTyped'
  <2>1. pc["cron"] # "idle" /\ keepAlive' = keepAlive
    BY <1>3, LeavesOther DEF IInv, Shells
  <2>2. arg'["cron"] = "none"
    <3>1. ASSUME NEW w, goto("cron", w) \/ exit("cron") PROVE arg'["cron"] = "none"
      BY <1>0, <3>1 DEF goto, exit, Shells
    <3>2. CASE killed("cron")
      BY <1>0, <3>2 DEF killed, Shells
    <3>3. CASE add_crontab("cron") \/ delete_crontab("cron")
      BY <3>1, <3>3, AddMoves, DeleteMoves DEF Shells
    <3>4. QED
      BY <1>3, <3>1, <3>2, <3>3 DEF serverSh, startCheck, launch, started, stopCheck, kill
  <2>3. QED
    BY <1>0, <2>1, <2>2
<1>4. CASE keepAliveState \/ keepAliveEnd
  BY <1>0, <1>4 DEF keepAliveState, keepAliveEnd
<1>5. CASE keepAliveStop \/ keepAliveStart
  BY <1>0, <1>5 DEF keepAliveStop, keepAliveStart, call, Shells
<1>6. CASE command
  BY <1>0, <1>6 DEF command, call, Shells
<1>7. CASE loadConfig \/ reloadConfig \/ package \/ plugin_fini \/ crash \/ edit
  BY <1>0, <1>7 DEF loadConfig, reloadConfig, package, plugin_fini, crash, edit, processEnds,
     scripts
<1>8. QED
  BY <1>1, <1>2, <1>3, <1>4, <1>5, <1>6, <1>7 DEF Next, keepAliveSh, Shells

LEMMA LoadedFirstNext == ASSUME IInv, [Next]_vars PROVE LoadedFirst'
<1>0. LoadedFirst /\ ProcessTyped /\ disk \in Disks
  BY DEF IInv, FilesTyped
<1> USE DEF LoadedFirst
<1>1. CASE UNCHANGED <<disk, cm, server, source, roles, seen>>
  BY <1>0, <1>1
<1>2. ASSUME NEW s \in Shells, launch(s) PROVE LoadedFirst'
  BY <1>0, <1>2 DEF launch, running, NoManager
<1>3. ASSUME NEW s \in Shells, kill(s) PROVE LoadedFirst'
  BY <1>0, <1>3 DEF kill, running, config
<1>4. CASE loadConfig
  <2>1. cm \in Managers /\ source \in {conf_path, NoSource}
    BY <1>0 DEF ProcessTyped
  <2>2. source = NoSource => _LoadConfig[disk][source].ret # "true"
    BY <1>0, <2>1, LoadType
  <2>3. CASE processEnds
    BY <2>3 DEF processEnds, NoManager
  <2>4. CASE ~processEnds
    <3>1. /\ server = "starting" /\ source' = source
          /\ \/ cm.loaded /\ cm' = cm
             \/ ~cm.loaded /\ cm'.loaded = (_LoadConfig[disk][source].ret = "true")
          /\ \/ cm'.loaded /\ server' = "up"
             \/ server' = server
      BY <1>4, <2>1, <2>4, LoadCases
    <3>2. QED
      BY <1>0, <2>2, <3>1
  <2>5. QED
    BY <2>3, <2>4
<1>9. CASE processEnds
  BY <1>9 DEF processEnds, NoManager
<1>5. CASE reloadConfig
  <2>1. CASE Reloads
    <3>1. cm'.loaded = cm.loaded /\ server' = server /\ source' = source /\ server # "down"
      BY <1>0, <2>1 DEF Reloads, Else, reload_config, ProcessTyped, Managers
    <3>2. QED
      BY <1>0, <3>1
  <2>2. QED
    BY <1>5, <1>9, <2>1, EndCases
<1>6. CASE plugin_fini \/ crash
  <2>1. CASE Hangs
    BY <1>0, <2>1 DEF Hangs, Else
  <2>2. QED
    BY <1>6, <1>9, <2>1, EndCases
<1>7. CASE edit
  BY <1>0, <1>7 DEF edit, process
<1>8. QED
  BY <1>1, <1>2, <1>3, <1>4, <1>5, <1>6, <1>7, ProcessSteps

LEMMA WorkersReadyNext == ASSUME IInv, [Next]_vars PROVE WorkersReady'
<1>0. WorkersReady /\ work_num \in Nat
  BY WorkNumAssumption DEF IInv
<1> USE DEF WorkersReady
<1>1. CASE UNCHANGED <<disk, cm, server, source, roles, seen>>
  BY <1>0, <1>1
<1>2. ASSUME NEW s \in Shells, launch(s) PROVE WorkersReady'
  BY <1>0, <1>2 DEF launch
<1>3. ASSUME NEW s \in Shells, kill(s) PROVE WorkersReady'
  BY <1>0, <1>3 DEF kill, running
<1>4. CASE processEnds
  BY <1>0, <1>4 DEF processEnds, NoRoles
<1>5. CASE loadConfig
  <2>1. cm \in Managers
    BY DEF IInv, ProcessTyped
  <2>2. CASE ~processEnds
    <3>1. /\ server = "starting"
          /\ \/ /\ server' = "up" /\ DOMAIN roles' = DOMAIN roles
                /\ \A i \in DOMAIN roles : roles'[i] \in plugin_init(i)
             \/ UNCHANGED <<server, roles>>
      BY <1>5, <2>1, <2>2, LoadCases
    <3>2. QED
      BY <1>0, <3>1
  <2>3. QED
    BY <1>4, <2>2
<1>6. CASE Reloads \/ Hangs
  BY <1>0, <1>6 DEF Reloads, Hangs, Else
<1>7. CASE reloadConfig \/ plugin_fini \/ crash
  BY <1>4, <1>6, <1>7, EndCases
<1>8. CASE edit
  BY <1>0, <1>8 DEF edit, process
<1>9. QED
  BY <1>1, <1>2, <1>3, <1>5, <1>7, <1>8, ProcessSteps

LEMMA OneVersionNext == ASSUME IInv, [Next]_vars PROVE OneVersion'
<1>0. OneVersion /\ LoadedFirst /\ ProcessTyped /\ FilesTyped
  BY DEF IInv
<1> DEFINE Whole(m, S) == \E d \in S : /\ _LoadConfig[d][conf_path].ret = "true"
                                       /\ m = _LoadConfig[d][conf_path].map
<1>1. CASE UNCHANGED <<disk, cm, server, source, roles, seen>>
  BY <1>0, <1>1 DEF OneVersion, running
<1>2. ASSUME NEW s \in Shells, launch(s) PROVE OneVersion'
  BY <1>0, <1>2 DEF OneVersion, launch, running, NoManager
<1>3. ASSUME NEW s \in Shells, kill(s) PROVE OneVersion'
  BY <1>0, <1>3 DEF OneVersion, kill, running, config
<1>4. CASE processEnds
  BY <1>4 DEF OneVersion, processEnds, running, NoManager
<1>5. CASE loadConfig
  <2>1. cm \in Managers /\ source \in {conf_path, NoSource}
    BY <1>0 DEF ProcessTyped
  <2>2. source = NoSource => _LoadConfig[disk][source].ret # "true"
    BY <1>0, <2>1, LoadType DEF FilesTyped
  <2>3. CASE ~processEnds
    <3>1. /\ server = "starting" /\ UNCHANGED <<disk, source, seen>>
          /\ \/ cm.loaded /\ cm' = cm
             \/ /\ ~cm.loaded
                /\ cm'.loaded = (_LoadConfig[disk][source].ret = "true")
                /\ cm'.map = _LoadConfig[disk][source].map
      BY <1>5, <2>1, <2>3, LoadCases
    <3>2. disk \in seen
      BY <1>0, <3>1 DEF OneVersion, running
    <3>3. cm'.loaded => Whole(cm'.map, seen)
      BY <1>0, <2>1, <2>2, <3>1, <3>2 DEF OneVersion
    <3>4. QED
      BY <3>1, <3>2, <3>3 DEF OneVersion
  <2>4. QED
    BY <1>4, <2>3
<1>6. CASE Reloads
  <2>1. server = "up" /\ UNCHANGED <<disk, seen, server>>
    BY <1>6 DEF Reloads, Else
  <2>2. disk \in seen
    BY <1>0, <2>1 DEF OneVersion, running
  <2>3. /\ cm'.loaded = cm.loaded
        /\ cm'.map = IF cm.loaded /\ _LoadConfig[disk][conf_path].ret = "true"
                     THEN _LoadConfig[disk][conf_path].map ELSE cm.map
    BY <1>0, <1>6 DEF Reloads, reload_config, ProcessTyped, Managers
  <2>4. cm'.loaded => Whole(cm'.map, seen)
    BY <1>0, <2>2, <2>3 DEF OneVersion
  <2>5. QED
    BY <2>1, <2>2, <2>4 DEF OneVersion
<1>7. CASE reloadConfig \/ plugin_fini \/ crash
  <2>1. CASE Hangs
    BY <1>0, <2>1 DEF OneVersion, running, Hangs, Else
  <2>2. QED
    BY <1>4, <1>6, <1>7, <2>1, EndCases
<1>8. CASE edit
  <2>1. /\ UNCHANGED <<cm, server>> /\ seen \subseteq seen'
        /\ server # "down" => disk' \in seen'
    BY <1>8 DEF edit, process, running
  <2>2. QED
    BY <1>0, <2>1 DEF OneVersion, running
<1>9. QED
  BY <1>1, <1>2, <1>3, <1>5, <1>7, <1>8, ProcessSteps

-----------------------------------------------------------------------------
(* The scripts *)

LEMMA CronDeletesNothingNext == ASSUME IInv, [Next]_vars PROVE CronDeletesNothing'
<1>0. CronDeletesNothing /\ pc \in [Shells -> Places] /\ clash \in BOOLEAN
  BY DEF IInv, ShellsTyped, HistoryTyped
<1> USE DEF CronDeletesNothing, Deleting
<1>1. CASE UNCHANGED vars
  BY <1>0, <1>1 DEF vars, scripts, history
<1>2. ASSUME serverSh("operator") PROVE CronDeletesNothing'
  <2>1. pc'["cron"] = pc["cron"] /\ (clash => clash')
    <3>1. pc'["cron"] = pc["cron"]
      BY <1>2, LeavesOther DEF IInv, Shells
    <3>2. clash => clash'
      BY <1>0, <1>2, AddMoves, DeleteMoves DEF serverSh, startCheck, launch, started, stopCheck,
         kill, killed, Shells, history
    <3>3. QED
      BY <3>1, <3>2
  <2>2. QED
    BY <1>0, <2>1
<1>3. ASSUME serverSh("cron") PROVE CronDeletesNothing'
  <2>1. CASE startCheck("cron") \/ launch("cron") \/ started("cron") \/ stopCheck("cron")
    BY <1>0, <2>1 DEF startCheck, launch, started, stopCheck, goto, exit, Shells, history
  <2>2. CASE kill("cron")
    BY <2>2 DEF kill
  <2>3. CASE killed("cron")
    BY <1>0, <2>3 DEF killed, history
  <2>4. CASE delete_crontab("cron")
    BY <1>0, <2>4, DeleteMoves DEF Shells
  <2>5. CASE add_crontab("cron")
    <3>1. pc'["cron"] \in AddPlaces \cup {"idle"}
      BY <1>0, <2>5, AddMoves DEF goto, exit, Shells
    <3>2. QED
      BY <3>1 DEF AddPlaces
  <2>6. QED
    BY <1>3, <2>1, <2>2, <2>3, <2>4, <2>5 DEF serverSh
<1>4. CASE keepAliveSh
  BY <1>0, <1>4 DEF keepAliveSh, keepAliveState, keepAliveStop, keepAliveStart, keepAliveEnd,
     call, Shells, history
<1>5. CASE command
  BY <1>0, <1>5 DEF command, call, Shells
<1>6. CASE loadConfig \/ reloadConfig \/ package \/ plugin_fini \/ crash \/ edit
  BY <1>0, <1>6 DEF loadConfig, reloadConfig, package, plugin_fini, crash, edit, processEnds,
     scripts, history
<1>7. QED
  BY <1>1, <1>2, <1>3, <1>4, <1>5, <1>6 DEF Next, Shells

LEMMA FileIsStartNext == ASSUME IInv, [Next]_vars PROVE FileIsStart'
<1>0. FileIsStart /\ ShellsTyped
  BY DEF IInv
<1> USE DEF FileIsStart, Starting, ShellsTyped
<1>1. CASE UNCHANGED <<pc, cmd, arg>>
  BY <1>0, <1>1
<1>2. ASSUME serverSh("operator") PROVE FileIsStart'
  <2>1. CASE startCheck("operator") \/ launch("operator") \/ started("operator")
    BY <1>0, <2>1 DEF startCheck, launch, started, goto, exit, Shells
  <2>2. CASE stopCheck("operator") \/ kill("operator")
    BY <1>0, <2>2 DEF stopCheck, kill, goto, exit, Shells, AddPlaces
  <2>3. CASE killed("operator")
    BY <1>0, <2>3 DEF killed, Shells, AddPlaces
  <2>4. CASE add_crontab("operator")
    BY <1>0, <2>4, AddMoves DEF goto, exit, Shells, AddPlaces
  <2>5. CASE delete_crontab("operator")
    <3>1. pc'["operator"] \in Deleting \cup {"idle"}
      BY <1>0, <2>5, DeleteMoves DEF goto, exit, Shells
    <3>2. QED
      BY <3>1 DEF Deleting, AddPlaces
  <2>6. QED
    BY <1>2, <2>1, <2>2, <2>3, <2>4, <2>5 DEF serverSh
<1>3. ASSUME serverSh("cron") PROVE FileIsStart'
  <2>1. pc'["operator"] = pc["operator"] /\ arg'["operator"] = arg["operator"]
        /\ cmd'["operator"] = cmd["operator"]
    BY <1>3, LeavesOther DEF IInv, Shells
  <2>2. QED
    BY <1>0, <2>1
<1>4. CASE keepAliveStop \/ keepAliveStart
  BY <1>0, <1>4 DEF keepAliveStop, keepAliveStart, call, Shells
<1>5. CASE command
  BY <1>0, <1>5 DEF command, call, Shells, AddPlaces
<1>6. QED
  BY <1>1, <1>2, <1>3, <1>4, <1>5, ShellSteps DEF Shells

LEMMA CronLaunches ==
  ASSUME CronTyped, ShellsTyped, launch("cron"), server' # "down"
  PROVE  UNCHANGED <<server, source>> \/ source' = NoSource
BY DEF CronTyped, launch, sourceOf

LEMMA StopIsFinalNext == ASSUME IInv, [Next]_vars PROVE StopIsFinal'
<1>0. StopIsFinal /\ ShellsTyped /\ HistoryTyped /\ CronTyped /\ ProcessTyped
  BY DEF IInv
<1>11. {"idle", "start", "launch", "started", "stop", "kill", "killed"} \cap Deleting = {}
       /\ AddPlaces \cap Deleting = {}
  BY DEF Deleting, AddPlaces
<1> USE DEF StopIsFinal
<1>1. CASE UNCHANGED vars
  BY <1>0, <1>1 DEF vars, scripts, history, process
<1>2. ASSUME serverSh("operator") PROVE StopIsFinal'
  <2>1. pc["operator"] # "idle" /\ ~stopped
    BY <1>0, <1>2, LeavesOther DEF Shells
  <2>2. CASE startCheck("operator") \/ launch("operator") \/ started("operator")
    <3>1. stopped' = stopped
      BY <2>2 DEF startCheck, launch, started, history
    <3>2. pc'["operator"] \in {"idle", "launch", "started", "add_crontab"}
      BY <1>0, <2>2, Going DEF startCheck, launch, started, Shells
    <3>3. "add_crontab" \in AddPlaces
      BY DEF AddPlaces
    <3>4. QED
      BY <1>11, <2>1, <3>1, <3>2, <3>3
  <2>3. CASE stopCheck("operator") \/ kill("operator")
    <3>1. stopped' = stopped
      BY <2>3 DEF stopCheck, kill, history
    <3>2. pc'["operator"] \in {"idle", "kill", "killed"}
      BY <1>0, <2>3, Going DEF stopCheck, kill, Shells
    <3>3. QED
      BY <1>11, <2>1, <3>1, <3>2
  <2>4. CASE killed("operator")
    <3>1. ~stopped' /\ UNCHANGED <<server, source>>
          /\ (pc'["operator"] \in Deleting => server = "down")
      BY <1>0, <1>11, <2>1, <2>4 DEF ShellsTyped, killed, running, Shells, history, process
    <3>2. QED
      BY <3>1
  <2>5. CASE add_crontab("operator")
    <3>1. ~stopped' /\ pc'["operator"] \in AddPlaces \cup {"idle"}
      BY <1>0, <2>1, <2>5, AddMoves DEF ShellsTyped, goto, exit, Shells
    <3>2. QED
      BY <1>11, <3>1
  <2>6. CASE delete_crontab("operator")
    <3>1. /\ UNCHANGED <<server, source>> /\ pc["operator"] \in Deleting
          /\ stopped' => pc'["operator"] = "idle"
      BY <1>0, <2>1, <2>6, DeleteMoves DEF ShellsTyped, exit, Shells
    <3>2. QED
      BY <1>0, <3>1
  <2>7. QED
    BY <1>2, <2>2, <2>3, <2>4, <2>5, <2>6 DEF serverSh
<1>3. ASSUME serverSh("cron") PROVE StopIsFinal'
  <2>1. pc'["operator"] = pc["operator"]
    BY <1>0, <1>3, LeavesOther DEF Shells
  <2>2. stopped' = stopped
    BY <1>0, <1>3, AddMoves, DeleteMoves DEF HistoryTyped, serverSh, startCheck, launch, started,
       stopCheck, kill, killed, history, Shells
  <2>3. CASE launch("cron")
    BY <1>0, <2>1, <2>2, <2>3, CronLaunches
  <2>4. CASE kill("cron")
    BY <1>0, <2>1, <2>2, <2>4 DEF kill
  <2>5. CASE ~launch("cron") /\ ~kill("cron")
    <3>1. UNCHANGED <<server, source>>
      BY <1>3, <2>5, AddMoves, DeleteMoves DEF serverSh, startCheck, started, stopCheck, killed,
         process, Shells
    <3>2. QED
      BY <1>0, <2>1, <2>2, <3>1
  <2>6. QED
    BY <2>3, <2>4, <2>5
<1>4. CASE keepAliveSh
  <2>1. pc'["operator"] = pc["operator"] /\ UNCHANGED <<stopped, server, source>>
    BY <1>0, <1>4 DEF ShellsTyped, keepAliveSh, keepAliveState, keepAliveStop, keepAliveStart,
       keepAliveEnd, call, Shells, history, process
  <2>2. QED
    BY <1>0, <2>1
<1>5. CASE command
  <2>1. ~stopped' /\ pc'["operator"] \notin Deleting
    BY <1>0, <1>5, <1>11 DEF ShellsTyped, command, call, Shells
  <2>2. QED
    BY <2>1
<1>6. CASE processEnds
  BY <1>0, <1>6 DEF processEnds, scripts, history
<1>7. CASE loadConfig
  <2>1. UNCHANGED <<pc, stopped>>
    BY <1>7 DEF loadConfig, processEnds, scripts, history
  <2>2. server = "starting" /\ (processEnds \/ source' = source)
    BY <1>0, <1>7, LoadCases DEF ProcessTyped
  <2>3. QED
    BY <1>0, <1>6, <2>1, <2>2
<1>8. CASE plugin_fini \/ crash \/ reloadConfig
  <2>1. CASE Hangs \/ Reloads
    BY <1>0, <2>1 DEF Hangs, Reloads, Else
  <2>2. QED
    BY <1>6, <1>8, <2>1, EndCases
<1>9. CASE package \/ edit
  BY <1>0, <1>9 DEF package, edit, scripts, history, process
<1>10. QED
  BY <1>1, <1>2, <1>3, <1>4, <1>5, <1>7, <1>8, <1>9 DEF Next, Shells

(***************************************************************************)
(* The commands of add_crontab, as the entry sees them.                    *)
(***************************************************************************)
LEMMA AddCases ==
  ASSUME ShellsTyped, CrontabTyped, NEW s \in Shells, add_crontab(s)
  PROVE  \/ /\ pc[s] = "add_crontab" /\ pc'[s] = "add_item1"
            /\ UNCHANGED <<crontab, clash>>
         \/ /\ pc[s] = "add_item1" /\ pc'[s] = "echo_item1"
            /\ UNCHANGED <<crontab, files, clash>>
         \/ /\ pc[s] \in {"add_item1", "echo_item1"} /\ pc'[s] = "add_item2"
            /\ "keep-alive" \in files'["tempXX"]
            /\ UNCHANGED <<crontab, clash>>
         \/ /\ pc[s] \in {"add_item2", "echo_item2"} /\ pc'[s] \in Looked
            /\ "keep-alive" \in files["tempXX"] => "keep-alive" \in files'["tempXX"]
            /\ UNCHANGED <<crontab, clash>>
         \/ /\ pc[s] = "install" /\ pc'[s] = "rm"
            /\ "keep-alive" \in files["tempXX"] => "keep-alive" \in crontab'
            /\ UNCHANGED <<files, clash>>
         \/ /\ pc[s] = "rm" /\ pc'[s] = "idle"
            /\ clash' = (clash \/ \E u \in Shells : pc[u] \in Looked)
            /\ UNCHANGED crontab
<1>0. "tempXX" \in DOMAIN files /\ "keep-alive" \notin NoFile /\ "error" \notin files["tempXX"]
  BY DEF CrontabTyped, TempFiles, NoFile
<1>1. ASSUME NEW p, NEW w, does(s, p, w) PROVE pc[s] = p /\ pc'[s] = w
  BY <1>1 DEF ShellsTyped, does, goto
<1>2. CASE does(s, "add_crontab", "add_item1") /\ list("tempXX") /\ UNCHANGED clash
  BY <1>1, <1>2 DEF list
<1>3. CASE /\ does(s, "add_item1", IF finds("tempXX") THEN "add_item2" ELSE "echo_item1")
           /\ UNCHANGED cron /\ UNCHANGED clash
  BY <1>1, <1>3 DEF finds, cron
<1>4. CASE does(s, "echo_item1", "add_item2") /\ append("tempXX", "keep-alive") /\ UNCHANGED clash
  <2>1. "keep-alive" \in files'["tempXX"] /\ UNCHANGED crontab
    BY <1>0, <1>4 DEF append
  <2>2. QED
    BY <1>1, <1>4, <2>1
<1>5. CASE /\ does(s, "add_item2", IF findsAny("tempXX") THEN "install" ELSE "echo_item2")
           /\ UNCHANGED cron /\ UNCHANGED clash
  BY <1>1, <1>5 DEF cron, Looked
<1>6. CASE does(s, "echo_item2", "install") /\ append("tempXX", "blank") /\ UNCHANGED clash
  <2>1. UNCHANGED crontab
        /\ ("keep-alive" \in files["tempXX"] => "keep-alive" \in files'["tempXX"])
    BY <1>0, <1>6 DEF append
  <2>2. QED
    BY <1>1, <1>6, <2>1 DEF Looked
<1>7. CASE does(s, "install", "rm") /\ install("tempXX") /\ UNCHANGED clash
  <2>1. UNCHANGED files /\ ("keep-alive" \in files["tempXX"] => "keep-alive" \in crontab')
    BY <1>0, <1>7 DEF install
  <2>2. QED
    BY <1>1, <1>7, <2>1
<1>8. CASE /\ pc[s] = "rm" /\ exit(s) /\ remove("tempXX")
           /\ clash' = (clash \/ \E u \in Shells : pc[u] \in Looked)
  <2>1. pc'[s] = "idle" /\ UNCHANGED crontab
    BY <1>8 DEF ShellsTyped, exit, remove
  <2>2. QED
    BY <1>8, <2>1
<1>9. QED
  BY <1>2, <1>3, <1>4, <1>5, <1>6, <1>7, <1>8 DEF add_crontab

(***************************************************************************)
(* delete_crontab does not touch tempXX.                                   *)
(***************************************************************************)
LEMMA DeleteLeavesTemp ==
  ASSUME CrontabTyped, NEW s \in Shells, delete_crontab(s)
  PROVE  files'["tempXX"] = files["tempXX"]
<1>1. ASSUME NEW f \in {"temp1XX", "temp2XX", "temp3XX"}, NEW new,
             files' = [files EXCEPT ![f] = new]
      PROVE  files'["tempXX"] = files["tempXX"]
  BY <1>1 DEF CrontabTyped, TempFiles
<1>2. \/ UNCHANGED files
      \/ \E f \in {"temp1XX", "temp2XX", "temp3XX"} : \E new : files' = [files EXCEPT ![f] = new]
  BY DEF delete_crontab, list, filter, install, remove, cron
<1>3. QED
  BY <1>1, <1>2

(***************************************************************************)
(* A shell's other steps leave the files, and where they lead no entry is  *)
(* being written.                                                          *)
(***************************************************************************)
Writing == {"add_item1", "echo_item1"} \cup Looked

LEMMA OtherSteps ==
  ASSUME IInv, NEW s \in Shells, serverSh(s), ~add_crontab(s)
  PROVE  /\ pc[s] \notin Writing /\ pc'[s] \notin Writing
         /\ files'["tempXX"] = files["tempXX"]
         /\ clash => clash'
<1>0. ShellsTyped /\ CrontabTyped /\ HistoryTyped
  BY DEF IInv
<1> DEFINE Elsewhere == {"idle", "start", "launch", "started", "add_crontab", "stop", "kill",
                         "killed", "delete_crontab"}
<1>10. Elsewhere \cap Writing = {}
  BY DEF Writing, Looked
<1>1. CASE startCheck(s) \/ launch(s) \/ started(s)
  <2>1. UNCHANGED <<files, clash>>
    BY <1>1 DEF startCheck, launch, started, cron, history
  <2>2. pc[s] \in Elsewhere /\ pc'[s] \in Elsewhere
    BY <1>0, <1>1, Going DEF startCheck, launch, started
  <2>3. QED
    BY <1>10, <2>1, <2>2
<1>2. CASE stopCheck(s) \/ kill(s)
  <2>1. UNCHANGED files /\ (clash => clash')
    <3>1. CASE stopCheck(s)
      BY <3>1 DEF stopCheck, cron, history
    <3>2. CASE kill(s)
      <4>1. clash' = (clash \/ s = "cron")
        BY <3>2 DEF kill
      <4>2. clash => clash'
        BY <4>1, Zenon
      <4>3. QED
        BY <3>2, <4>2 DEF kill, cron
    <3>3. QED
      BY <1>2, <3>1, <3>2
  <2>2. pc[s] \in Elsewhere /\ pc'[s] \in Elsewhere
    BY <1>0, <1>2, Going DEF stopCheck, kill
  <2>3. QED
    BY <1>10, <2>1, <2>2
<1>3. CASE killed(s)
  <2>1. UNCHANGED <<files, clash>>
    BY <1>3 DEF killed, cron, history
  <2>2. pc[s] \in Elsewhere /\ pc'[s] \in Elsewhere
    BY <1>0, <1>3 DEF ShellsTyped, killed
  <2>3. QED
    BY <1>10, <2>1, <2>2
<1>4. CASE delete_crontab(s)
  <2>1. /\ pc[s] \in Deleting /\ pc'[s] \in Deleting \cup {"idle"}
        /\ clash' = clash
    BY <1>0, <1>4, DeleteMoves DEF ShellsTyped, goto, exit
  <2>2. files'["tempXX"] = files["tempXX"]
    BY <1>0, <1>4, DeleteLeavesTemp
  <2>3. QED
    BY <2>1, <2>2 DEF Deleting, Writing, Looked
<1>5. QED
  BY <1>1, <1>2, <1>3, <1>4 DEF serverSh

(***************************************************************************)
(* What the other steps do not touch.                                      *)
(***************************************************************************)
LEMMA QuietSteps ==
  ASSUME IInv, [Next]_vars
  PROVE  \/ \E s \in Shells : serverSh(s)
         \/ /\ UNCHANGED <<crontab, files, clash>>
            /\ \A s \in Shells : pc'[s] = pc[s] \/ (pc[s] = "idle" /\ pc'[s] \notin Writing)
<1>0. ShellsTyped
  BY DEF IInv
<1> DEFINE Quiet == /\ UNCHANGED <<crontab, files, clash>>
                    /\ \A s \in Shells : pc'[s] = pc[s] \/ (pc[s] = "idle" /\ pc'[s] \notin Writing)
<1>1. ASSUME UNCHANGED <<crontab, files, clash, pc>> PROVE Quiet
  BY <1>1
<1>2. ASSUME NEW s \in Shells, NEW c, NEW a, call(s, c, a), UNCHANGED <<crontab, files, clash>>
      PROVE  Quiet
  <2>1. pc[s] = "idle" /\ pc'[s] \in {"start", "stop"}
        /\ \A u \in Shells : u # s => pc'[u] = pc[u]
    BY <1>0, <1>2 DEF ShellsTyped, call
  <2>2. {"start", "stop"} \cap Writing = {}
    BY DEF Writing, Looked
  <2>3. QED
    BY <1>2, <2>1, <2>2
<1> HIDE DEF Quiet
<1> SUFFICES Quiet \/ \E s \in Shells : serverSh(s)
  BY DEF Quiet
<1>3. CASE UNCHANGED vars
  BY <1>1, <1>3 DEF vars, cron, scripts, history
<1>4. CASE keepAliveSh
  <2>1. CASE keepAliveState \/ keepAliveEnd
    BY <1>1, <2>1 DEF keepAliveState, keepAliveEnd, cron, history
  <2>2. CASE keepAliveStop
    <3>1. call("cron", "stop", "none") /\ UNCHANGED <<crontab, files, clash>> /\ "cron" \in Shells
      BY <2>2 DEF keepAliveStop, cron, history, Shells
    <3>2. QED
      BY <1>2, <3>1, Zenon
  <2>3. CASE keepAliveStart
    <3>1. call("cron", "start", "none") /\ UNCHANGED <<crontab, files, clash>> /\ "cron" \in Shells
      BY <2>3 DEF keepAliveStart, cron, history, Shells
    <3>2. QED
      BY <1>2, <3>1, Zenon
  <2>4. QED
    BY <1>4, <2>1, <2>2, <2>3 DEF keepAliveSh
<1>5. CASE command
  <2>1. PICK c \in {"start", "stop", "restart"} : call("operator", c, "file")
    BY <1>5 DEF command
  <2>2. UNCHANGED <<crontab, files, clash>> /\ "operator" \in Shells
    BY <1>5 DEF command, cron, Shells
  <2>3. QED
    BY <1>2, <2>1, <2>2, Zenon
<1>6. CASE loadConfig \/ package \/ edit
  BY <1>1, <1>6, EndsUnchanged DEF loadConfig, package, edit, cron, scripts, history
<1>7. CASE reloadConfig \/ plugin_fini \/ crash
  BY <1>1, <1>7, EndCases, EndsUnchanged DEF Hangs, Reloads, Else
<1>8. QED
  BY <1>3, <1>4, <1>5, <1>6, <1>7 DEF Next, Quiet

LEMMA KeptNext == ASSUME IInv, [Next]_vars PROVE Kept'
<1>0. Kept /\ ShellsTyped /\ CrontabTyped /\ HistoryTyped
  BY DEF IInv
<1> DEFINE has == "keep-alive" \in files["tempXX"]
           items == {"add_item1", "echo_item1"}
<1>1. ASSUME UNCHANGED <<files, clash>>,
             \A s \in Shells : pc'[s] = pc[s] \/ (pc[s] = "idle" /\ pc'[s] \notin Writing)
      PROVE  Kept'
  <2>1. \A s \in Shells : /\ pc'[s] \in Looked => pc[s] \in Looked
                          /\ pc[s] \in items => pc'[s] \in items
    BY <1>1 DEF Writing
  <2>2. QED
    BY <1>0, <1>1, <2>1 DEF Kept, WillAdd
<1>2. ASSUME NEW s \in Shells, serverSh(s) PROVE Kept'
  <2>0. \A u \in Shells : u # s => pc'[u] = pc[u]
    BY <1>0, <1>2, LeavesOther
  <2>1. CASE add_crontab(s)
    <3>1. CASE pc'[s] \in items
      BY <3>1 DEF Kept, WillAdd
    <3>2. CASE /\ pc'[s] = "add_item2" /\ has'
      BY <3>2 DEF Kept
    <3>3. CASE /\ pc[s] \in {"add_item2", "echo_item2"} /\ pc'[s] \in Looked
               /\ (has => has') /\ UNCHANGED clash
      <4>1. pc[s] \in Looked /\ pc[s] \notin items
        BY <3>3 DEF Looked
      <4>2. WillAdd => WillAdd'
        BY <2>0, <4>1 DEF WillAdd
      <4>3. QED
        BY <1>0, <3>3, <4>1, <4>2 DEF Kept
    <3>4. CASE pc[s] = "install" /\ UNCHANGED <<files, clash>>
      <4>1. pc[s] \in Looked /\ pc[s] \notin items
        BY <3>4 DEF Looked
      <4>2. WillAdd => WillAdd'
        BY <2>0, <4>1 DEF WillAdd
      <4>3. QED
        BY <1>0, <3>4, <4>1, <4>2 DEF Kept
    <3>5. CASE /\ pc'[s] = "idle" /\ clash' = (clash \/ \E u \in Shells : pc[u] \in Looked)
      <4>1. ~clash' => \A u \in Shells : pc'[u] \notin Looked
        BY <2>0, <3>5 DEF Looked
      <4>2. QED
        BY <4>1 DEF Kept
    <3>6. QED
      BY <1>0, <2>1, <3>1, <3>2, <3>3, <3>4, <3>5, AddCases
  <2>2. CASE ~add_crontab(s)
    <3>1. /\ pc[s] \notin Writing /\ pc'[s] \notin Writing /\ files'["tempXX"] = files["tempXX"]
          /\ clash => clash'
      BY <1>2, <2>2, OtherSteps
    <3>2. \A u \in Shells : /\ pc'[u] \in Looked => pc[u] \in Looked
                            /\ pc[u] \in items => pc'[u] \in items
      BY <2>0, <3>1 DEF Writing
    <3>3. QED
      BY <1>0, <3>1, <3>2 DEF Kept, WillAdd
  <2>3. QED
    BY <2>1, <2>2
<1>3. QED
  BY <1>1, <1>2, QuietSteps

(***************************************************************************)
(* A step after which the server may come up as before, and nothing that   *)
(* watches it is lost, keeps it watched.                                   *)
(***************************************************************************)
LEMMA StaysWatched ==
  ASSUME Watched, UNCHANGED <<clash, crontab, source>>, files'["tempXX"] = files["tempXX"],
         server' = server \/ (server = "starting" /\ server' = "up"),
         \A s \in Shells : pc[s] \in Writing => pc'[s] = pc[s],
         pc["operator"] \in {"started", "add_crontab"} /\ cmd["operator"] = "start" /\ server # "down"
           => pc'["operator"] \in {"started", "add_crontab"} /\ cmd'["operator"] = "start"
  PROVE  Watched'
<1>1. WillAdd => WillAdd'
  BY DEF WillAdd, Writing
<1>2. (\E s \in Shells : pc[s] \in Looked) => \E s \in Shells : pc'[s] \in Looked
  BY DEF Writing
<1>3. QED
  BY <1>1, <1>2 DEF Watched

LEMMA WatchedNext == ASSUME IInv, [Next]_vars PROVE Watched'
<1>0. /\ Watched /\ Kept /\ ShellsTyped /\ CrontabTyped /\ HistoryTyped /\ CronTyped /\ ProcessTyped
      /\ StopIsFinal /\ FileIsStart /\ CronDeletesNothing
  BY DEF IInv
<1>1. CASE UNCHANGED vars
  BY <1>0, <1>1, StaysWatched DEF vars, scripts, history, process, cron
<1>2. ASSUME NEW s \in Shells, add_crontab(s) PROVE Watched'
  <2>0. /\ serverSh(s) /\ UNCHANGED <<server, source>>
        /\ \A u \in Shells : u # s => pc'[u] = pc[u] /\ cmd'[u] = cmd[u]
    BY <1>0, <1>2, AddMoves, LeavesOther DEF serverSh
  <2> DEFINE items == {"add_item1", "echo_item1"}
             has == "keep-alive" \in files["tempXX"]
             operatorWill == /\ pc["operator"] \in {"started", "add_crontab"}
                             /\ cmd["operator"] = "start"
  <2>1. CASE pc'[s] \in items
    BY <2>1 DEF Watched, WillAdd
  <2>2. CASE pc'[s] = "add_item2" /\ has'
    BY <2>2 DEF Watched, Looked
  <2>3. ASSUME pc[s] \notin items \cup {"started", "add_crontab"}
        PROVE  (WillAdd => WillAdd') /\ (operatorWill => operatorWill')
    BY <2>0, <2>3 DEF WillAdd, Shells
  <2> HIDE DEF operatorWill
  <2>4. CASE /\ pc[s] \in {"add_item2", "echo_item2"} /\ pc'[s] \in Looked
             /\ (has => has') /\ UNCHANGED <<crontab, clash>>
    <3>1. pc[s] \in Looked /\ pc[s] \notin items \cup {"started", "add_crontab"}
      BY <2>4 DEF Looked
    <3>2. (WillAdd => WillAdd') /\ (operatorWill => operatorWill')
      BY <2>3, <3>1
    <3>3. QED
      BY <1>0, <2>0, <2>4, <3>1, <3>2 DEF Watched, operatorWill
  <2>5. CASE /\ pc[s] = "install" /\ UNCHANGED <<files, clash>>
             /\ has => "keep-alive" \in crontab'
    <3>1. pc[s] \in Looked
      BY <2>5 DEF Looked
    <3>2. ~clash => has \/ WillAdd
      BY <1>0, <3>1 DEF Kept
    <3>3. QED
      BY <1>0, <2>0, <2>3, <2>5, <3>2 DEF Watched, operatorWill
  <2>6. CASE /\ pc[s] = "rm" /\ UNCHANGED crontab
             /\ clash' = (clash \/ \E u \in Shells : pc[u] \in Looked)
    BY <1>0, <2>0, <2>3, <2>6 DEF Watched, operatorWill
  <2>7. QED
    BY <1>0, <1>2, <2>1, <2>2, <2>4, <2>5, <2>6, AddCases
<1>3. ASSUME serverSh("operator"), ~add_crontab("operator") PROVE Watched'
  <2>0. /\ "operator" \in Shells /\ "cron" \in Shells
        /\ \A u \in Shells : u = "operator" \/ u = "cron"
    BY DEF Shells
  <2>1. /\ pc["operator"] \notin Writing /\ files'["tempXX"] = files["tempXX"]
        /\ pc'["cron"] = pc["cron"]
    BY <1>0, <1>3, <2>0, OtherSteps, LeavesOther
  <2>2. \A s \in Shells : pc[s] \in Writing => pc'[s] = pc[s]
    BY <2>0, <2>1
  <2>3. CASE startCheck("operator") \/ stopCheck("operator") \/ killed("operator")
    <3>1. UNCHANGED <<clash, server, source, crontab>>
          /\ pc["operator"] \notin {"started", "add_crontab"}
      BY <2>3 DEF startCheck, stopCheck, killed, history, process, cron
    <3>2. QED
      BY <1>0, <2>1, <2>2, <3>1, StaysWatched
  <2>4. CASE launch("operator")
    <3>1. UNCHANGED <<clash, crontab, cmd, arg>> /\ pc["operator"] = "launch"
          /\ pc'["operator"] = "started"
      BY <1>0, <2>4 DEF ShellsTyped, launch, goto, Shells, history, cron
    <3>2. UNCHANGED <<server, source>> \/ source' = sourceOf(arg["operator"])
      BY <2>4 DEF launch
    <3>3. CASE UNCHANGED <<server, source>>
      BY <1>0, <2>1, <2>2, <3>1, <3>3, StaysWatched
    <3>4. CASE source' = sourceOf(arg["operator"])
      <4>1. source' # NoSource => arg["operator"] = "file"
        BY <3>4 DEF sourceOf
      <4>2. source' # NoSource => cmd["operator"] = "start"
        BY <1>0, <3>1, <4>1 DEF FileIsStart, Starting
      <4>3. QED
        BY <3>1, <4>2 DEF Watched
    <3>5. QED
      BY <3>2, <3>3, <3>4
  <2>5. CASE started("operator")
    <3>1. /\ UNCHANGED <<clash, server, source, crontab>>
          /\ server # "down" /\ cmd["operator"] = "start" =>
               pc'["operator"] = "add_crontab" /\ cmd'["operator"] = "start"
      BY <1>0, <2>5 DEF ShellsTyped, started, running, goto, Shells, history, process, cron
    <3>2. QED
      BY <1>0, <2>1, <2>2, <3>1, StaysWatched
  <2>6. CASE kill("operator")
    <3>1. server' \notin {"starting", "up"}
      BY <2>6 DEF kill
    <3>2. QED
      BY <3>1 DEF Watched
  <2>7. CASE delete_crontab("operator")
    <3>1. UNCHANGED <<server, source>> /\ pc["operator"] \in Deleting
      BY <2>0, <2>7, DeleteMoves
    <3>2. server = "down" \/ source = NoSource
      BY <1>0, <3>1 DEF StopIsFinal
    <3>3. QED
      BY <3>1, <3>2 DEF Watched
  <2>8. QED
    BY <1>3, <2>3, <2>4, <2>5, <2>6, <2>7 DEF serverSh
<1>4. ASSUME serverSh("cron"), ~add_crontab("cron") PROVE Watched'
  <2>0. /\ "operator" \in Shells /\ "cron" \in Shells
        /\ \A u \in Shells : u = "operator" \/ u = "cron"
    BY DEF Shells
  <2>1. /\ pc["cron"] \notin Writing /\ files'["tempXX"] = files["tempXX"]
        /\ pc'["operator"] = pc["operator"] /\ cmd'["operator"] = cmd["operator"]
    BY <1>0, <1>4, <2>0, OtherSteps, LeavesOther
  <2>2. \A s \in Shells : pc[s] \in Writing => pc'[s] = pc[s]
    BY <2>0, <2>1
  <2>3. CASE launch("cron")
    <3>1. UNCHANGED <<clash, crontab>>
      BY <2>3 DEF launch, history, cron
    <3>2. UNCHANGED <<server, source>> \/ source' = NoSource \/ server' = "down"
      BY <1>0, <2>3, CronLaunches
    <3>3. CASE UNCHANGED <<server, source>>
      BY <1>0, <2>1, <2>2, <3>1, <3>3, StaysWatched
    <3>4. CASE source' = NoSource \/ server' = "down"
      BY <3>4 DEF Watched
    <3>5. QED
      BY <3>2, <3>3, <3>4
  <2>4. CASE kill("cron")
    <3>1. clash'
      BY <2>4 DEF kill
    <3>2. QED
      BY <3>1 DEF Watched
  <2>5. CASE killed("cron") \/ delete_crontab("cron")
    <3>1. pc["cron"] \in Deleting \cup {"killed"} /\ clash' = clash
      BY <2>0, <2>5, DeleteMoves DEF killed, history
    <3>2. clash
      BY <1>0, <3>1 DEF CronDeletesNothing
    <3>3. QED
      BY <3>1, <3>2 DEF Watched
  <2>6. CASE startCheck("cron") \/ started("cron") \/ stopCheck("cron")
    <3>1. UNCHANGED <<clash, server, source, crontab>>
      BY <2>6 DEF startCheck, started, stopCheck, history, process, cron
    <3>2. QED
      BY <1>0, <2>1, <2>2, <3>1, StaysWatched
  <2>7. QED
    BY <1>4, <2>3, <2>4, <2>5, <2>6 DEF serverSh
<1>6. CASE keepAliveSh \/ command
  <2>1. /\ UNCHANGED <<clash, server, source, crontab, files>>
        /\ pc["operator"] # "idle" => pc'["operator"] = pc["operator"] /\ cmd'["operator"] = cmd["operator"]
        /\ \A s \in Shells : pc[s] # "idle" => pc'[s] = pc[s]
    BY <1>0, <1>6 DEF ShellsTyped, keepAliveSh, keepAliveState, keepAliveStop, keepAliveStart,
       keepAliveEnd, command, call, Shells, history, process, cron
  <2>2. \A s \in Shells : pc[s] \in Writing => pc'[s] = pc[s]
    BY <2>1 DEF Writing, Looked
  <2>3. QED
    BY <1>0, <2>1, <2>2, StaysWatched
<1>7. CASE processEnds
  BY <1>7 DEF processEnds, Watched
<1>8. CASE loadConfig
  <2>1. CASE ~processEnds
    <3>1. UNCHANGED <<clash, crontab, files, pc, cmd>>
      BY <1>8, <2>1 DEF loadConfig, scripts, history, cron
    <3>2. server = "starting" /\ source' = source /\ (server' = server \/ server' = "up")
      BY <1>0, <1>8, <2>1, LoadCases DEF ProcessTyped
    <3>3. QED
      BY <1>0, <3>1, <3>2, StaysWatched
  <2>2. QED
    BY <1>7, <2>1
<1>9. CASE plugin_fini \/ crash \/ reloadConfig
  <2>1. CASE Hangs
    BY <2>1 DEF Hangs, Watched
  <2>2. CASE Reloads
    <3>1. UNCHANGED <<clash, crontab, files, pc, cmd, server, source>>
      BY <2>2 DEF Reloads, Else
    <3>2. QED
      BY <1>0, <3>1, StaysWatched
  <2>3. QED
    BY <1>7, <1>9, <2>1, <2>2, EndCases
<1>10. CASE package \/ edit
  <2>1. UNCHANGED <<clash, crontab, files, pc, cmd, server, source>>
    BY <1>10 DEF package, edit, scripts, history, process, cron
  <2>2. QED
    BY <1>0, <2>1, StaysWatched
<1>11. QED
  BY <1>1, <1>2, <1>3, <1>4, <1>6, <1>8, <1>9, <1>10 DEF Next, Shells

-----------------------------------------------------------------------------
(* The theorems *)

LEMMA InvariantInit == Init => IInv
<1> SUFFICES ASSUME Init PROVE IInv
  OBVIOUS
<1> USE DEF Init
<1>1. ShellsTyped /\ FilesTyped /\ CrontabTyped /\ HistoryTyped /\ CronTyped
  <2>1. ShellsTyped /\ FilesTyped /\ HistoryTyped /\ CronTyped
    BY DEF ShellsTyped, Places, FilesTyped, HistoryTyped, CronTyped, Shells
  <2>2. "error" \notin files["tempXX"]
    BY DEF NoFile, TempFiles
  <2>3. CrontabTyped
    BY <2>2, ContentsFacts DEF CrontabTyped, Entered
  <2>4. QED
    BY <2>1, <2>3
<1>2. ProcessTyped
  <2>1. cm \in Managers
    BY EmptyType DEF NoManager, Managers
  <2>2. serialize_num \in 0..(ChannelMod - 1)
    BY ChannelModAssumption
  <2>3. QED
    BY <2>1, <2>2 DEF ProcessTyped
<1>3. LoadedFirst /\ WorkersReady /\ OneVersion
  BY DEF LoadedFirst, WorkersReady, OneVersion, NoManager, NoRoles, running
<1>4. StopIsFinal /\ FileIsStart /\ CronDeletesNothing /\ Kept /\ Watched
  BY DEF StopIsFinal, FileIsStart, Kept, Watched, CronDeletesNothing, Deleting, Starting,
     AddPlaces, Looked, Shells
<1>5. QED
  BY <1>1, <1>2, <1>3, <1>4 DEF IInv

LEMMA Invariant == Spec => []IInv
<1>1. IInv /\ [Next]_vars => IInv'
  BY ShellsTypedNext, FilesTypedNext, ProcessTypedNext, CrontabTypedNext, HistoryTypedNext,
     CronTypedNext, LoadedFirstNext, WorkersReadyNext, OneVersionNext, StopIsFinalNext,
     FileIsStartNext, CronDeletesNothingNext, KeptNext, WatchedNext DEF IInv
<1>2. QED
  BY <1>1, InvariantInit, PTL DEF Spec

(***************************************************************************)
(* Type correctness of Server: a process serves only with its              *)
(* configuration loaded and each of its workers initialised or ended, and  *)
(* cron's shell works only for keep-alive.sh.                              *)
(***************************************************************************)
THEOREM TypeCorrect == Spec => []TypeOK
<1>1. IInv => TypeOK
  <2> SUFFICES ASSUME IInv PROVE TypeOK
    OBVIOUS
  <2>1. server = "up" => \A i \in DOMAIN roles : roles[i] \in plugin_init(i)
    BY DEF IInv, WorkersReady
  <2>2. files \in [TempFiles -> (SUBSET {"keep-alive", "other", "blank", "error"}) \cup {NoFile}]
        /\ crontab \subseteq {"keep-alive", "other", "blank"}
    <3>1. Entered \cup {"error"} = {"keep-alive", "other", "blank", "error"}
      BY DEF Entered
    <3>2. QED
      BY <3>1 DEF IInv, CrontabTyped, Contents, Entered
  <2>3. QED
    BY <2>1, <2>2 DEF IInv, TypeOK, ProcessTyped, CronTyped, LoadedFirst
<1>2. QED
  BY <1>1, Invariant, PTL

(***************************************************************************)
(* For every number of workers and every value of the counter, overflowed  *)
(* or not, a package never goes to the control process (the comment at     *)
(* src/src/common/server.cpp:157).                                         *)
(***************************************************************************)
THEOREM ControlGetsNoPackage == Spec => []PackagesToProxies
<1>1. IInv => PackagesToProxies
  <2> SUFFICES ASSUME IInv, server = "up" PROVE roles[select_channel(serialize_num)] # "Control"
    BY DEF PackagesToProxies
  <2>1. serialize_num \in Int /\ work_num - 1 \in Nat \ {0} /\ work_num \in Nat
    BY WorkNumAssumption, ChannelModAssumption DEF IInv, ProcessTyped
  <2>2. select_channel(serialize_num) \in 0..(work_num - 2)
    <3>1. serialize_num % (work_num - 1) \in 0..((work_num - 1) - 1)
      BY <2>1, ModType
    <3>2. QED
      BY <2>1, <3>1 DEF select_channel
  <2>3. select_channel(serialize_num) \in 0..(work_num - 1)
        /\ select_channel(serialize_num) # work_num - 1
    BY <2>1, <2>2
  <2>4. roles[select_channel(serialize_num)] \in {"Proxy", "failed"}
    BY <2>3 DEF IInv, WorkersReady, plugin_init
  <2>5. QED
    BY <2>4
<1>2. QED
  BY <1>1, Invariant, PTL

(***************************************************************************)
(* A server that the operator has stopped stays down until the next        *)
(* command, whatever the cron job was about to do: the process it starts   *)
(* names no file, and no load without a file succeeds.                     *)
(***************************************************************************)
THEOREM StopLasts == Spec => []StoppedStaysDown
<1>1. IInv => StoppedStaysDown
  BY DEF IInv, StoppedStaysDown, StopIsFinal, LoadedFirst
<1>2. QED
  BY <1>1, Invariant, PTL

(***************************************************************************)
(* A server that is up when the scripts have ended has its entry in the    *)
(* crontab, however the commands of server.sh:20-35 and :45-63 have        *)
(* interleaved on the files the two shells share, unless the cron job has  *)
(* killed a server, or one shell has removed the list that the other had   *)
(* completed and not installed.                                            *)
(***************************************************************************)
THEOREM ServerIsWatched == Spec => []UpIsWatched
<1>1. IInv => UpIsWatched
  <2> SUFFICES ASSUME IInv, server = "up", ~clash, \A s \in Shells : pc[s] = "idle"
               PROVE  "keep-alive" \in crontab
    BY DEF UpIsWatched
  <2>1. source # NoSource
    BY DEF IInv, LoadedFirst
  <2>2. "operator" \in Shells
    BY DEF Shells
  <2>3. QED
    BY <2>1, <2>2 DEF IInv, Watched, WillAdd, Looked
<1>2. QED
  BY <1>1, Invariant, PTL

(***************************************************************************)
(* What a server is told of its configuration is what one version of the   *)
(* files says, of those there were since it was started: for every disk,   *)
(* every nesting of includes and every sequence of edits, failed loads and *)
(* reloads.                                                                *)
(***************************************************************************)
THEOREM OneVersionServed == Spec => []ServesOneVersion
<1>1. IInv => ServesOneVersion
  <2> SUFFICES ASSUME IInv, server = "up"
               PROVE  \E d \in seen \cap DOMAIN Says :
                        \A k \in Keys : config_get_strval(k, "default") = Says[d][k]
    BY DEF ServesOneVersion
  <2>1. cm.loaded /\ seen \subseteq Disks
    BY DEF IInv, LoadedFirst, FilesTyped
  <2>2. PICK d \in seen : /\ _LoadConfig[d][conf_path].ret = "true"
                          /\ cm.map = _LoadConfig[d][conf_path].map
    BY <2>1 DEF IInv, OneVersion
  <2>3. Sound(d, conf_path)
    BY <2>1, <2>2, LoadedIsMeaning
  <2>4. d \in DOMAIN Says
    BY <2>1, <2>3 DEF Says
  <2>5. ASSUME NEW k \in Keys PROVE config_get_strval(k, "default") = Says[d][k]
    <3>1. (IF k \in DOMAIN _LoadConfig[d][conf_path].map
           THEN _LoadConfig[d][conf_path].map[k] ELSE "default")
          = Meaning(d, conf_path, k, "default")
      BY <2>1, <2>2, LoadedIsMeaning
    <3>2. config_get_strval(k, "default") = Meaning(d, conf_path, k, "default")
      BY <2>1, <2>2, <3>1 DEF config_get_strval
    <3>3. Says[d][k] = Meaning(d, conf_path, k, "default")
      BY <2>1, <2>3 DEF Says
    <3>4. QED
      BY <3>2, <3>3
  <2>6. QED
    BY <2>4, <2>5
<1>2. QED
  BY <1>1, Invariant, PTL
=============================================================================
