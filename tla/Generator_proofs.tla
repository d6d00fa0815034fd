-------------------------- MODULE Generator_proofs --------------------------
(***************************************************************************)
(* The generator, for every shape of the tree, any number of workers, any  *)
(* draws, errors and a signal at any point: every key is handed out once   *)
(* and accounted for, the md5 file is complete, and no upload is left      *)
(* behind whose calls succeeded.                                           *)
(*                                                                         *)
(* The argument follows a key: the keys before the walk's position, in the *)
(* order of the walk, are those handed out, and each is in the channel, in *)
(* the hands of one worker, or counted.                                    *)
(***************************************************************************)
EXTENDS Generator, TLAPS

\* The order of the walk, and where it ends.
Before(k, n) ==
    \/ k[1] < n[1]
    \/ k[1] = n[1] /\ k[2] < n[2]
    \/ k[1] = n[1] /\ k[2] = n[2] /\ k[3] < n[3]
TreeEnd == <<Depth + 1, 0, 1>>

-----------------------------------------------------------------------------
(* The walk over the tree *)

LEMMA KeyParts ==
    ASSUME NEW k \in Key
    PROVE  /\ k[1] \in 1 .. Depth /\ k[2] \in 0 .. LeafCount(k[1]) /\ k[3] \in 1 .. FilesPerDir
           /\ k = <<k[1], k[2], k[3]>> /\ LeafCount(k[1]) \in 0 .. Width
  BY GeneratorAssumption DEF Key, LeafCount

\* The walk's next position is the end or a key, and exactly the present key lies between.
LEMMA AfterKey ==
    ASSUME NEW k \in Key
    PROVE  /\ After(k) \in Key \union {TreeEnd}
           /\ \A j \in Key : Before(j, After(k)) <=> Before(j, k) \/ j = k
           /\ After(k) = TreeEnd <=> k = <<Depth, Width, FilesPerDir>>
  <1>1. /\ k[1] \in 1 .. Depth /\ k[2] \in 0 .. LeafCount(k[1]) /\ k[3] \in 1 .. FilesPerDir
        /\ k = <<k[1], k[2], k[3]>> /\ LeafCount(k[1]) \in 0 .. Width
    BY KeyParts
  <1>2. \A l \in 1 .. Depth : LeafCount(l) \in 0 .. Width /\ (LeafCount(l) = Width <=> l = Depth)
    BY GeneratorAssumption DEF LeafCount
  <1>3. \A l, d, f : <<l, d, f>> \in Key <=>
          l \in 1 .. Depth /\ d \in 0 .. Width /\ d <= LeafCount(l) /\ f \in 1 .. FilesPerDir
    BY DEF Key
  <1>a. \A j \in Key : /\ j[1] \in 1 .. Depth /\ j[2] \in 0 .. LeafCount(j[1])
                       /\ j[3] \in 1 .. FilesPerDir /\ j = <<j[1], j[2], j[3]>>
    BY KeyParts
  <1>4. CASE k[3] < FilesPerDir
    <2>1. After(k) = <<k[1], k[2], k[3] + 1>>
      BY <1>1, <1>4 DEF After
    <2>2. After(k) \in Key
      BY <1>1, <1>3, <1>4, <2>1, GeneratorAssumption
    <2>3. \A j \in Key : Before(j, After(k)) <=> Before(j, k) \/ j = k
      BY <1>1, <1>a, <2>1, GeneratorAssumption DEF Before
    <2> QED BY <1>1, <1>4, <2>1, <2>2, <2>3, GeneratorAssumption DEF TreeEnd
  <1>5. CASE k[3] = FilesPerDir /\ k[2] < LeafCount(k[1])
    <2>1. After(k) = <<k[1], k[2] + 1, 1>>
      BY <1>1, <1>5 DEF After
    <2>2. After(k) \in Key
      BY <1>1, <1>3, <1>5, <2>1, GeneratorAssumption
    <2>3. \A j \in Key : Before(j, After(k)) <=> Before(j, k) \/ j = k
      BY <1>1, <1>5, <1>a, <2>1, GeneratorAssumption DEF Before
    <2> QED BY <1>1, <1>5, <2>1, <2>2, <2>3, GeneratorAssumption DEF TreeEnd
  <1>6. CASE k[3] = FilesPerDir /\ k[2] = LeafCount(k[1])
    <2>1. After(k) = <<k[1] + 1, 0, 1>>
      BY <1>1, <1>6 DEF After
    <2>2. IF k[1] = Depth THEN After(k) = TreeEnd ELSE After(k) \in Key
      BY <1>1, <1>2, <1>3, <2>1, GeneratorAssumption DEF TreeEnd
    <2>3. \A j \in Key : Before(j, After(k)) <=> Before(j, k) \/ j = k
      BY <1>1, <1>6, <1>a, <2>1, GeneratorAssumption DEF Before
    <2> QED BY <1>1, <1>2, <1>6, <2>1, <2>2, <2>3, GeneratorAssumption DEF TreeEnd
  <1> QED BY <1>1, <1>4, <1>5, <1>6, GeneratorAssumption

\* How many keys precede a key, and how many there are (treegen.go:28).
Rank(k) == ((k[1] - 1) * Width + k[2]) * FilesPerDir + k[3] - 1
Total == (Depth + (Width - 1) * (Depth - 1) + Width) * FilesPerDir

LEMMA RankAfter ==
    ASSUME NEW k \in Key
    PROVE  IF After(k) = TreeEnd THEN Total = Rank(k) + 1 ELSE Rank(After(k)) = Rank(k) + 1
  <1> PICK w \in Nat, n \in Nat, h \in Nat : w = Width /\ n = FilesPerDir /\ h = Depth
    BY GeneratorAssumption
  <1>1. /\ k[1] \in 1 .. h /\ k[2] \in 0 .. LeafCount(k[1]) /\ k[3] \in 1 .. n
        /\ k = <<k[1], k[2], k[3]>>
    BY KeyParts
  <1>2. PICK l \in Nat, d \in Nat, f \in Nat : k = <<l, d, f>> /\ l > 0
    BY <1>1, GeneratorAssumption
  <1>3. Rank(k) = ((l - 1) * w + d) * n + f - 1
    BY <1>2 DEF Rank
  <1>4. CASE k[3] < FilesPerDir
    <2>1. After(k) = <<l, d, f + 1>>
      BY <1>1, <1>2, <1>4 DEF After
    <2>2. Rank(After(k)) = ((l - 1) * w + d) * n + f + 1 - 1
      BY <2>1 DEF Rank
    <2>3. After(k) # TreeEnd
      BY <1>1, <1>2, <2>1, GeneratorAssumption DEF TreeEnd
    <2>4. ((l - 1) * w + d) * n \in Int
      OBVIOUS
    <2> QED BY <1>3, <2>2, <2>3, <2>4
  <1>5. CASE k[3] = FilesPerDir /\ k[2] < LeafCount(k[1])
    <2>1. After(k) = <<l, d + 1, 1>> /\ f = n
      BY <1>1, <1>2, <1>5 DEF After
    <2>2. Rank(After(k)) = ((l - 1) * w + (d + 1)) * n + 1 - 1
      BY <2>1 DEF Rank
    <2>3. After(k) # TreeEnd
      BY <1>1, <1>2, <2>1, GeneratorAssumption DEF TreeEnd
    <2>4. ((l - 1) * w + (d + 1)) * n = ((l - 1) * w + d) * n + n
      OBVIOUS
    <2>5. ((l - 1) * w + d) * n \in Int
      OBVIOUS
    <2> QED BY <1>3, <2>1, <2>2, <2>3, <2>4, <2>5
  <1>6. CASE k[3] = FilesPerDir /\ k[2] = LeafCount(k[1])
    <2>1. After(k) = <<l + 1, 0, 1>> /\ f = n /\ d = LeafCount(l)
      BY <1>1, <1>2, <1>6 DEF After
    <2>2. CASE l = h
      <3>1. After(k) = TreeEnd /\ d = w
        BY <1>2, <2>1, <2>2, GeneratorAssumption DEF TreeEnd, LeafCount
      <3>2. Total = (h + (w - 1) * (h - 1) + w) * n
        BY DEF Total
      <3>3. (h + (w - 1) * (h - 1) + w) * n = ((h - 1) * w + w) * n + n
        OBVIOUS
      <3>4. ((h - 1) * w + w) * n \in Int
        OBVIOUS
      <3> QED BY <1>3, <2>1, <2>2, <3>1, <3>2, <3>3, <3>4
    <2>3. CASE l # h
      <3>1. After(k) # TreeEnd /\ d = w - 1
        BY <1>2, <2>1, <2>3, GeneratorAssumption DEF TreeEnd, LeafCount
      <3>2. Rank(After(k)) = ((l + 1 - 1) * w + 0) * n + 1 - 1
        BY <2>1 DEF Rank
      <3>3. ((l + 1 - 1) * w + 0) * n = ((l - 1) * w + (w - 1)) * n + n
        OBVIOUS
      <3>4. ((l - 1) * w + (w - 1)) * n \in Int
        OBVIOUS
      <3> QED BY <1>3, <2>1, <3>1, <3>2, <3>3, <3>4
    <2> QED BY <2>2, <2>3
  <1>7. \/ k[3] < FilesPerDir
        \/ k[3] = FilesPerDir /\ k[2] < LeafCount(k[1])
        \/ k[3] = FilesPerDir /\ k[2] = LeafCount(k[1])
    BY KeyParts, GeneratorAssumption
  <1> QED BY <1>4, <1>5, <1>6, <1>7

-----------------------------------------------------------------------------
(* The inductive invariant *)

Places == {"range", "put", "init", "part", "complete", "abort", "record", "gone"}
InHand == [key : Key, idx : Nat]
Task == [key : Key, idx : Nat, parts : Nat, part : Nat]
Busy(w) == pc[w] \notin {"range", "gone"}
Elements(s) == {s[i] : i \in 1 .. Len(s)}

WalkTypes ==
    /\ next \in Key \union {TreeEnd} /\ idx \in Nat
    /\ keyCh \in Seq(InHand) /\ Len(keyCh) <= KeyCap
WorkTypes ==
    /\ pc \in [Worker -> Places] /\ job \in [Worker -> Task \union {NoJob}]
    /\ \A w \in Worker : Busy(w) => job[w] \in Task
    /\ uploaded \in [Key -> Nat] /\ failed \in [Key -> Nat]
RecordTypes == records \in Seq(Key) /\ Len(records) <= RecordCap
FlagTypes ==
    /\ walked \in BOOLEAN /\ cancelled \in BOOLEAN /\ md5err \in BOOLEAN
    /\ md5 \in {"running", "draining", "gone"} /\ main \in {"workers", "closing", "done"}
Types == WalkTypes /\ WorkTypes /\ RecordTypes /\ FlagTypes

\* The keys that were handed out are those before the walk's position, numbered in its order.
Position == idx = IF next = TreeEnd THEN Total ELSE Rank(next)

\* The channel holds the last ordinals, the workers earlier ones, and no key is in two places.
Queued ==
    /\ \A i \in 1 .. Len(keyCh) : /\ keyCh[i].idx = idx - Len(keyCh) + i - 1
                                  /\ Before(keyCh[i].key, next)
    /\ \A i, j \in 1 .. Len(keyCh) : keyCh[i].key = keyCh[j].key => i = j
Working ==
    /\ \A w \in Worker : Busy(w) =>
          /\ job[w].idx < idx - Len(keyCh) /\ Before(job[w].key, next)
          /\ \A i \in 1 .. Len(keyCh) : keyCh[i].key # job[w].key
    /\ \A v, w \in Worker : v # w /\ Busy(v) /\ Busy(w) =>
          job[v].key # job[w].key /\ job[v].idx # job[w].idx

\* Without a signal a key that was handed out is counted, or somebody still has it.
Held(k) ==
    \/ \E i \in 1 .. Len(keyCh) : keyCh[i].key = k
    \/ \E w \in Worker : Busy(w) /\ job[w].key = k
Up == Counted(uploaded)
Down == Counted(failed)
Accounts ==
    /\ ~cancelled => \A k \in Key : Before(k, next) => k \in Up \union Down \/ Held(k)
    /\ \A w \in Worker : pc[w] = "record" => job[w].key \in Up

\* A key is counted after it was handed out, and while somebody has it only as the uploaded
\* object of a worker that is about to record it.
Uncounted(k) == k \notin Up \union Down
OncePerKey ==
    /\ \A k \in Key : uploaded[k] <= 1 /\ failed[k] <= 1
    /\ ~md5err => Up \cap Down = {}
FreshKeys ==
    /\ \A k \in Key : ~Before(k, next) => Uncounted(k)
    /\ \A i \in 1 .. Len(keyCh) : Uncounted(keyCh[i].key)
    /\ \A w \in Worker : Busy(w) => job[w].key \notin Down
    /\ \A w \in Worker : Busy(w) /\ pc[w] # "record" => job[w].key \notin Up

\* The workers leave a closed and empty channel, and main comes after them.
Ends ==
    /\ main # "workers" => \A w \in Worker : pc[w] = "gone"
    /\ ~cancelled /\ walked => next = TreeEnd
    /\ \A w \in Worker : ~cancelled /\ pc[w] = "gone" => walked /\ keyCh = <<>>

\* As long as the disk works, an uploaded object's line is on its way to the file, and the
\* writer ends after the last of them.
Recording == {job[w].key : w \in {v \in Worker : pc[v] = "record"}}
Lines ==
    /\ md5 = "draining" => main # "workers"
    /\ md5 = "gone" /\ ~md5err => main # "workers" /\ records = <<>> /\ buffered = {}
    /\ main = "done" => md5 = "gone"
    /\ ~md5err => Up = lines \union buffered \union Elements(records) \union Recording

\* The worker that may still settle an open upload has it in hand.
OpenUploads ==
    \A k \in open : k \in unaborted
                    \/ \E w \in Worker : pc[w] \in {"part", "complete", "abort"} /\ job[w].key = k

Inv ==
    /\ Types /\ Position /\ Queued /\ Working /\ Accounts /\ OncePerKey /\ FreshKeys
    /\ Ends /\ Lines /\ OpenUploads

-----------------------------------------------------------------------------
(* Sequences *)

LEMMA TailElements ==
    ASSUME NEW S, NEW s \in Seq(S), s # <<>>
    PROVE  /\ Head(s) = s[1] /\ s[1] \in S /\ Tail(s) \in Seq(S) /\ Len(Tail(s)) = Len(s) - 1
           /\ Len(s) \in Nat /\ Len(s) > 0
           /\ \A i \in 1 .. Len(Tail(s)) : Tail(s)[i] = s[i + 1] /\ i + 1 \in 1 .. Len(s)
           /\ Elements(s) = {Head(s)} \union Elements(Tail(s))
  <1>1. /\ Head(s) = s[1] /\ s[1] \in S /\ Tail(s) \in Seq(S) /\ Len(Tail(s)) = Len(s) - 1
        /\ Len(s) \in Nat /\ Len(s) > 0
        /\ \A i \in 1 .. Len(Tail(s)) : Tail(s)[i] = s[i + 1] /\ i + 1 \in 1 .. Len(s)
    OBVIOUS
  <1>2. ASSUME NEW i \in 1 .. Len(s), i # 1 PROVE s[i] \in Elements(Tail(s))
    <2>1. i - 1 \in 1 .. Len(Tail(s)) /\ Tail(s)[i - 1] = s[i]
      BY <1>1, <1>2
    <2> QED BY <2>1 DEF Elements
  <1>3. Elements(s) \subseteq {Head(s)} \union Elements(Tail(s))
    BY <1>1, <1>2 DEF Elements
  <1>4. 1 \in 1 .. Len(s)
    BY <1>1
  <1>5. {Head(s)} \union Elements(Tail(s)) \subseteq Elements(s)
    BY <1>1, <1>4 DEF Elements
  <1> QED BY <1>1, <1>3, <1>5

LEMMA AppendElements ==
    ASSUME NEW S, NEW s \in Seq(S), NEW x \in S
    PROVE  /\ Append(s, x) \in Seq(S) /\ Len(Append(s, x)) = Len(s) + 1 /\ Len(s) \in Nat
           /\ \A i \in 1 .. Len(s) : Append(s, x)[i] = s[i]
           /\ Append(s, x)[Len(s) + 1] = x
           /\ Elements(Append(s, x)) = Elements(s) \union {x}
  <1>1. /\ Append(s, x) \in Seq(S) /\ Len(Append(s, x)) = Len(s) + 1 /\ Len(s) \in Nat
        /\ \A i \in 1 .. Len(s) : Append(s, x)[i] = s[i]
        /\ Append(s, x)[Len(s) + 1] = x
    OBVIOUS
  <1>2. 1 .. Len(Append(s, x)) = (1 .. Len(s)) \union {Len(s) + 1}
    BY <1>1
  <1> QED BY <1>1, <1>2 DEF Elements

-----------------------------------------------------------------------------
(* What a worker's step does to the keys *)

\* Counting a key adds one to it, and it to the counted keys.
LEMMA CountAdds ==
    ASSUME NEW c \in [Key -> Nat], NEW k \in Key
    PROVE  /\ Count(c, k) \in [Key -> Nat] /\ Count(c, k)[k] = c[k] + 1
           /\ \A j \in Key \ {k} : Count(c, k)[j] = c[j]
           /\ Counted(Count(c, k)) = Counted(c) \union {k}
  <1>1. /\ Count(c, k) \in [Key -> Nat] /\ Count(c, k)[k] = c[k] + 1
        /\ \A j \in Key \ {k} : Count(c, k)[j] = c[j]
    BY DEF Count
  <1> QED BY <1>1 DEF Counted

\* A worker counts its object as uploaded before its record, or as failed when it lets go of
\* it: in place of an upload, or after one whose record the writer's error refused.
CountsOne(w) ==
    \/ /\ UNCHANGED <<uploaded, failed>>
       /\ Busy(w)' => pc[w] # "record" /\ pc'[w] # "record"
    \/ /\ Busy(w) /\ pc[w] # "record" /\ pc'[w] = "record"
       /\ uploaded' = Count(uploaded, job[w].key) /\ failed' = failed
    \/ /\ Busy(w) /\ ~Busy(w)' /\ (pc[w] = "record" => md5err)
       /\ failed' = Count(failed, job[w].key) /\ uploaded' = uploaded

\* A worker that has a key keeps it or counts it; nobody else's place changes.
Keeps(w) ==
    /\ \A v \in Worker \ {w} : pc'[v] = pc[v] /\ job'[v] = job[v]
    /\ pc'[w] \in Places /\ job'[w] \in Task \union {NoJob}
    /\ Busy(w)' => /\ Busy(w) /\ job'[w] \in Task
                   /\ job'[w].key = job[w].key /\ job'[w].idx = job[w].idx
    /\ pc' \in [Worker -> Places] /\ job' \in [Worker -> Task \union {NoJob}]
KeepsOrCounts(w) ==
    /\ Keeps(w) /\ CountsOne(w)
    /\ Busy(w) /\ ~Busy(w)' => job[w].key \in (Up \union Down)'
    /\ pc'[w] = "record" => job'[w].key \in Up'
    /\ Up \subseteq Up' /\ Down \subseteq Down'
    /\ uploaded' \in [Key -> Nat] /\ failed' \in [Key -> Nat]

\* What the three ways of counting come to for the sets of counted keys.
LEMMA CountsKeep ==
    ASSUME Inv, NEW w \in Worker, Keeps(w), CountsOne(w),
           Busy(w) /\ ~Busy(w)' => pc[w] = "record" \/ failed' = Count(failed, job[w].key)
    PROVE  KeepsOrCounts(w)
  <1>1. /\ uploaded \in [Key -> Nat] /\ failed \in [Key -> Nat]
        /\ Busy(w) => job[w].key \in Key
    BY DEF Inv, Types, WorkTypes, Task
  <1>2. pc[w] = "record" => job[w].key \in Up
    BY DEF Inv, Accounts
  <1>3. CASE UNCHANGED <<uploaded, failed>> /\ (Busy(w)' => pc[w] # "record" /\ pc'[w] # "record")
    <2>1. Up' = Up /\ Down' = Down
      BY <1>3 DEF Up, Down, Counted
    <2>2. pc'[w] # "record"
      BY <1>3 DEF Busy
    <2>3. ASSUME Busy(w), ~Busy(w)' PROVE job[w].key \in (Up \union Down)'
      <3>1. CASE pc[w] = "record"
        BY <1>2, <2>1, <3>1
      <3>2. CASE failed' = Count(failed, job[w].key)
        <4>1. Down' = Down \union {job[w].key}
          BY <1>1, <2>3, <3>2, CountAdds DEF Down, Counted
        <4> QED BY <4>1
      <3> QED BY <2>3, <3>1, <3>2
    <2> QED BY <1>1, <1>3, <2>1, <2>2, <2>3 DEF KeepsOrCounts
  <1>4. CASE /\ Busy(w) /\ pc[w] # "record" /\ pc'[w] = "record"
             /\ uploaded' = Count(uploaded, job[w].key) /\ failed' = failed
    <2>1. uploaded' \in [Key -> Nat] /\ Up' = Up \union {job[w].key} /\ Down' = Down
      BY <1>1, <1>4, CountAdds DEF Up, Down, Counted
    <2>2. Busy(w)' /\ job'[w].key = job[w].key
      BY <1>4 DEF Busy, Keeps
    <2> QED BY <1>1, <1>4, <2>1, <2>2 DEF KeepsOrCounts
  <1>5. CASE /\ Busy(w) /\ ~Busy(w)' /\ (pc[w] = "record" => md5err)
             /\ failed' = Count(failed, job[w].key) /\ uploaded' = uploaded
    <2>1. failed' \in [Key -> Nat] /\ Down' = Down \union {job[w].key} /\ Up' = Up
      BY <1>1, <1>5, CountAdds DEF Up, Down, Counted
    <2>2. pc'[w] # "record"
      BY <1>5 DEF Busy
    <2> QED BY <1>1, <1>5, <2>1, <2>2 DEF KeepsOrCounts
  <1> QED BY <1>3, <1>4, <1>5 DEF CountsOne

LEMMA CallMoves ==
    ASSUME Inv, NEW w \in Worker,
           \/ PutAnswers(w) \/ PutFails(w) \/ InitAnswers(w) \/ InitFails(w) \/ PartAnswers(w)
           \/ PartFails(w) \/ CompleteAnswers(w) \/ CompleteFails(w) \/ AbortReturns(w) \/ Write(w)
    PROVE  KeepsOrCounts(w) /\ pc'[w] # "gone"
  <1>1. job[w] \in Task /\ job[w].key \in Key /\ Busy(w)
    <2>1. Busy(w)
      BY DEF Busy, PutAnswers, PutFails, InitAnswers, InitFails, PartAnswers, PartFails,
             CompleteAnswers, CompleteFails, AbortReturns, Write, Calling
    <2> QED BY <2>1 DEF Inv, Types, WorkTypes, Task
  <1>2. CASE PutAnswers(w) \/ CompleteAnswers(w)
    <2>1. /\ uploaded' = Count(uploaded, job[w].key) /\ UNCHANGED <<failed, job>>
          /\ pc' = [pc EXCEPT ![w] = "record"] /\ pc[w] # "record"
      BY <1>2 DEF PutAnswers, CompleteAnswers, Calling, Uploaded, Goto
    <2>2. Keeps(w) /\ pc'[w] = "record"
      BY <1>1, <2>1 DEF Keeps, Busy, Places, Inv, Types, WorkTypes
    <2>3. CountsOne(w) /\ Busy(w)'
      BY <1>1, <2>1, <2>2 DEF CountsOne, Busy
    <2> QED BY <2>2, <2>3, CountsKeep
  <1>3. CASE PutFails(w) \/ InitFails(w) \/ AbortReturns(w)
    <2>1. /\ failed' = Count(failed, job[w].key) /\ uploaded' = uploaded /\ pc[w] # "record"
          /\ pc' = [pc EXCEPT ![w] = "range"] /\ job' = [job EXCEPT ![w] = NoJob]
      BY <1>3 DEF PutFails, InitFails, AbortReturns, Calling, Fail, Finish, Goto
    <2>2. Keeps(w) /\ pc'[w] = "range"
      BY <1>1, <2>1 DEF Keeps, Busy, Places, Inv, Types, WorkTypes
    <2>3. CountsOne(w)
      BY <1>1, <2>1, <2>2 DEF CountsOne, Busy
    <2> QED BY <2>1, <2>2, <2>3, CountsKeep
  <1>4. CASE InitAnswers(w) \/ PartFails(w) \/ CompleteFails(w)
    <2>1. /\ UNCHANGED <<uploaded, failed, job>> /\ pc[w] # "record"
          /\ \E p \in {"part", "abort"} : pc' = [pc EXCEPT ![w] = p]
      BY <1>4 DEF InitAnswers, PartFails, CompleteFails, Calling, Goto, statVars
    <2>2. Keeps(w) /\ pc'[w] \in {"part", "abort"}
      BY <1>1, <2>1 DEF Keeps, Busy, Places, Inv, Types, WorkTypes
    <2>3. CountsOne(w) /\ Busy(w)'
      BY <1>1, <2>1, <2>2 DEF CountsOne, Busy
    <2> QED BY <2>2, <2>3, CountsKeep
  <1>5. CASE PartAnswers(w)
    <2>1. UNCHANGED <<uploaded, failed>> /\ pc[w] = "part"
      BY <1>5 DEF PartAnswers, Calling, statVars
    <2>2. Keeps(w) /\ pc'[w] \in {"part", "complete"}
      <3>1. CASE job[w].part < job[w].parts
        <4>1. job' = [job EXCEPT ![w].part = @ + 1] /\ pc' = pc
          BY <1>5, <3>1 DEF PartAnswers
        <4>2. job'[w] \in Task /\ job'[w].key = job[w].key /\ job'[w].idx = job[w].idx
          BY <1>1, <4>1 DEF Task, Inv, Types, WorkTypes
        <4> QED BY <1>1, <2>1, <4>1, <4>2 DEF Keeps, Busy, Places, Inv, Types, WorkTypes
      <3>2. CASE ~(job[w].part < job[w].parts)
        <4>1. job' = job /\ pc' = [pc EXCEPT ![w] = "complete"]
          BY <1>5, <3>2 DEF PartAnswers, Goto
        <4> QED BY <1>1, <2>1, <4>1 DEF Keeps, Busy, Places, Inv, Types, WorkTypes
      <3> QED BY <3>1, <3>2
    <2>3. CountsOne(w) /\ Busy(w)'
      BY <2>1, <2>2 DEF CountsOne, Busy
    <2> QED BY <2>2, <2>3, CountsKeep
  <1>6. CASE Write(w)
    <2>1. /\ pc[w] = "record" /\ uploaded' = uploaded
          /\ pc' = [pc EXCEPT ![w] = "range"] /\ job' = [job EXCEPT ![w] = NoJob]
          /\ \/ failed' = failed
             \/ md5err /\ failed' = Count(failed, job[w].key)
      BY <1>6 DEF Write, Fail, Finish, Goto
    <2>2. Keeps(w) /\ pc'[w] = "range"
      BY <1>1, <2>1 DEF Keeps, Busy, Places, Inv, Types, WorkTypes
    <2>3. CountsOne(w)
      BY <1>1, <2>1, <2>2 DEF CountsOne, Busy
    <2> QED BY <2>1, <2>2, <2>3, CountsKeep
  <1> QED BY <1>2, <1>3, <1>4, <1>5, <1>6

\* A worker that takes the head of the channel has it in hand or counts it as failed.
LEMMA TakeMoves ==
    ASSUME Inv, NEW w \in Worker, TakeKey(w)
    PROVE  /\ keyCh # <<>> /\ keyCh' = Tail(keyCh) /\ ~Busy(w) /\ ~cancelled
           /\ Head(keyCh) \in InHand
           /\ \A v \in Worker \ {w} : pc'[v] = pc[v] /\ job'[v] = job[v]
           /\ pc' \in [Worker -> Places] /\ job' \in [Worker -> Task \union {NoJob}]
           /\ UNCHANGED <<next, idx, walked, uploaded>>
           /\ \/ /\ pc'[w] \in {"put", "init"} /\ job'[w] \in Task
                 /\ job'[w].key = Head(keyCh).key /\ job'[w].idx = Head(keyCh).idx
                 /\ failed' = failed
              \/ pc'[w] = "range" /\ failed' = Count(failed, Head(keyCh).key)
  <1>1. /\ keyCh # <<>> /\ keyCh' = Tail(keyCh) /\ pc[w] = "range" /\ ~cancelled
        /\ UNCHANGED <<next, idx, walked, uploaded>>
    BY DEF TakeKey, walkVars
  <1>2. Head(keyCh) \in InHand
    BY <1>1, TailElements DEF Inv, Types, WalkTypes
  <1>3. PICK s \in Size, p \in PartSize :
          LET parts == CeilDiv(s, p)
              task == [key |-> Head(keyCh).key, idx |-> Head(keyCh).idx, parts |-> parts, part |-> 1]
          IN \/ /\ patternLength = 0
                /\ Goto(w, "put") /\ job' = [job EXCEPT ![w] = task] /\ UNCHANGED failed
             \/ /\ patternLength = parts + 2
                /\ Goto(w, "init") /\ job' = [job EXCEPT ![w] = task] /\ UNCHANGED failed
             \/ /\ patternLength \notin {0, parts + 2}
                /\ Fail(w, task.key)
    BY DEF TakeKey
  <1> DEFINE task == [key |-> Head(keyCh).key, idx |-> Head(keyCh).idx,
                      parts |-> CeilDiv(s, p), part |-> 1]
  <1>4. CeilDiv(s, p) \in Nat
    <2>1. s \in Nat /\ p \in Nat \ {0}
      BY GeneratorAssumption
    <2>2. s + p - 1 \in Nat
      BY <2>1
    <2> QED BY <2>1, <2>2 DEF CeilDiv
  <1>5. task \in Task /\ task.key = Head(keyCh).key /\ task.idx = Head(keyCh).idx
    BY <1>2, <1>4 DEF Task, InHand
  <1>6. \/ (Goto(w, "put") \/ Goto(w, "init")) /\ job' = [job EXCEPT ![w] = task] /\ UNCHANGED failed
        \/ Fail(w, task.key)
    BY <1>3
  <1> HIDE DEF task
  <1>7. CASE (Goto(w, "put") \/ Goto(w, "init")) /\ job' = [job EXCEPT ![w] = task] /\ UNCHANGED failed
    <2>1. pc'[w] \in {"put", "init"} /\ pc' \in [Worker -> Places]
      BY <1>7 DEF Goto, Inv, Types, WorkTypes, Places
    <2>2. job'[w] = task /\ job' \in [Worker -> Task \union {NoJob}]
      BY <1>5, <1>7 DEF Inv, Types, WorkTypes
    <2>3. \A v \in Worker \ {w} : pc'[v] = pc[v] /\ job'[v] = job[v]
      BY <1>7 DEF Goto, Inv, Types, WorkTypes
    <2> QED BY <1>1, <1>2, <1>5, <1>7, <2>1, <2>2, <2>3 DEF Busy
  <1>8. CASE Fail(w, task.key)
    <2>1. pc' = [pc EXCEPT ![w] = "range"] /\ job' = [job EXCEPT ![w] = NoJob]
          /\ failed' = Count(failed, Head(keyCh).key)
      BY <1>5, <1>8 DEF Fail, Finish, Goto
    <2> QED BY <1>1, <1>2, <2>1 DEF Busy, Inv, Types, WorkTypes, Places
  <1> QED BY <1>6, <1>7, <1>8

\* The four kinds of steps, as far as keys are concerned.
Untouched == UNCHANGED <<next, idx, keyCh>>
LEMMA Kinds ==
    ASSUME Inv, [Next]_vars
    PROVE  \/ WalkEmits
           \/ \E w \in Worker : TakeKey(w)
           \/ \E w \in Worker : WorkerQuits(w)
           \/ \E w \in Worker : KeepsOrCounts(w) /\ Untouched
           \/ Untouched /\ UNCHANGED <<pc, job, uploaded, failed>>
  <1>1. ASSUME NEW w \in Worker, DoWork(w), ~TakeKey(w), ~WorkerQuits(w)
        PROVE  KeepsOrCounts(w) /\ Untouched
    <2>1. Untouched
      BY <1>1 DEF DoWork, WorkerEnds, PutAnswers, PutFails, InitAnswers, InitFails, PartAnswers,
                  PartFails, CompleteAnswers, CompleteFails, AbortReturns, Write, Calling, walkVars,
                  Untouched
    <2>2. CASE WorkerEnds(w)
      <3>1. /\ pc[w] = "range" /\ pc' = [pc EXCEPT ![w] = "gone"]
            /\ UNCHANGED <<job, uploaded, failed>>
        BY <2>2 DEF WorkerEnds, Goto, statVars
      <3>2. pc'[w] = "gone" /\ \A v \in Worker \ {w} : pc'[v] = pc[v]
        BY <3>1 DEF Inv, Types, WorkTypes
      <3>3. pc' \in [Worker -> Places]
        BY <3>1 DEF Inv, Types, WorkTypes, Places
      <3>4. Keeps(w)
        BY <3>1, <3>2, <3>3 DEF Keeps, Busy, Places, Inv, Types, WorkTypes
      <3>5. CountsOne(w) /\ ~Busy(w)
        BY <3>1, <3>2 DEF CountsOne, Busy
      <3> QED BY <2>1, <3>4, <3>5, CountsKeep
    <2>3. CASE ~WorkerEnds(w)
      BY <1>1, <2>1, <2>3, CallMoves DEF DoWork
    <2> QED BY <2>1, <2>2, <2>3
  <1>2. CASE WalkEnds \/ WriteOne \/ WriterEnds \/ CloseMD5 \/ MainEnds \/ Signal
    BY <1>2 DEF WalkEnds, WriteOne, WriterEnds, CloseMD5, MainEnds, Signal, Untouched, workVars,
                statVars, walkVars
  <1>3. CASE Terminated \/ UNCHANGED vars
    BY <1>3 DEF Terminated, vars, Untouched, workVars, statVars, walkVars
  <1> QED BY <1>1, <1>2, <1>3 DEF Next

-----------------------------------------------------------------------------
(* Every step keeps the invariant *)

LEMMA StepWalkTypes == ASSUME Inv, [Next]_vars PROVE WalkTypes'
  <1>1. CASE WalkEmits
    <2>1. next \in Key
      BY <1>1, GeneratorAssumption DEF WalkEmits, Inv, Types, WalkTypes, TreeEnd
    <2>2. [key |-> next, idx |-> idx] \in InHand
      BY <2>1 DEF InHand, Inv, Types, WalkTypes
    <2>3. keyCh' = Append(keyCh, [key |-> next, idx |-> idx]) /\ Len(keyCh) < KeyCap
          /\ next' = After(next) /\ idx' = idx + 1
      BY <1>1 DEF WalkEmits
    <2> QED BY <2>1, <2>2, <2>3, AfterKey, AppendElements, GeneratorAssumption
            DEF Inv, Types, WalkTypes
  <1>2. CASE \E w \in Worker : TakeKey(w) \/ WorkerQuits(w)
    <2>1. keyCh # <<>> /\ keyCh' = Tail(keyCh) /\ UNCHANGED <<next, idx>>
      BY <1>2 DEF TakeKey, WorkerQuits, walkVars
    <2> QED BY <2>1, TailElements, GeneratorAssumption DEF Inv, Types, WalkTypes
  <1>3. CASE Untouched
    BY <1>3 DEF Untouched, Inv, Types, WalkTypes
  <1> QED BY <1>1, <1>2, <1>3, Kinds

LEMMA StepWorkTypes == ASSUME Inv, [Next]_vars PROVE WorkTypes'
  <1>1. CASE WalkEmits \/ UNCHANGED <<pc, job, uploaded, failed>>
    BY <1>1 DEF WalkEmits, workVars, statVars, Inv, Types, WorkTypes, Busy
  <1>2. ASSUME NEW w \in Worker, TakeKey(w) PROVE WorkTypes'
    <2>1. \A v \in Worker : Busy(v)' => job'[v] \in Task
      BY <1>2, TakeMoves DEF Inv, Types, WorkTypes, Busy
    <2>2. Head(keyCh).key \in Key
      BY <1>2, TakeMoves DEF InHand
    <2>3. failed' \in [Key -> Nat] /\ uploaded' \in [Key -> Nat]
      <3>1. /\ failed \in [Key -> Nat] /\ uploaded \in [Key -> Nat]
            /\ Count(failed, Head(keyCh).key) \in [Key -> Nat]
        BY <2>2, CountAdds DEF Inv, Types, WorkTypes
      <3>2. uploaded' = uploaded /\ failed' \in {failed, Count(failed, Head(keyCh).key)}
        BY <1>2, TakeMoves
      <3> QED BY <3>1, <3>2
    <2> QED BY <1>2, <2>1, <2>3, TakeMoves DEF WorkTypes
  <1>3. ASSUME NEW w \in Worker, WorkerQuits(w) PROVE WorkTypes'
    BY <1>3 DEF WorkerQuits, Goto, Inv, Types, WorkTypes, Busy, Places, statVars
  <1>4. ASSUME NEW w \in Worker, KeepsOrCounts(w) PROVE WorkTypes'
    <2>1. \A v \in Worker : Busy(v)' => job'[v] \in Task
      BY <1>4 DEF KeepsOrCounts, Keeps, Inv, Types, WorkTypes, Busy
    <2> QED BY <1>4, <2>1 DEF KeepsOrCounts, Keeps, WorkTypes
  <1> QED BY <1>1, <1>2, <1>3, <1>4, Kinds

\* Steps of the workers other than the record leave the md5 writer alone.
LEMMA StepMD5 ==
    ASSUME NEW w \in Worker, DoWork(w), ~Write(w)
    PROVE  UNCHANGED <<records, md5, buffered, lines, md5err>>
  BY DEF DoWork, TakeKey, WorkerQuits, WorkerEnds, PutAnswers, PutFails, InitAnswers, InitFails,
         PartAnswers, PartFails, CompleteAnswers, CompleteFails, AbortReturns, Calling, md5Vars

LEMMA StepRecordTypes == ASSUME Inv, [Next]_vars PROVE RecordTypes'
  <1>1. ASSUME NEW w \in Worker, Write(w) PROVE RecordTypes'
    <2>1. job[w].key \in Key
      BY <1>1 DEF Write, Busy, Inv, Types, WorkTypes, Task
    <2>2. \/ records' = records
          \/ records' = Append(records, job[w].key) /\ Len(records) < RecordCap
      BY <1>1 DEF Write
    <2> QED BY <2>1, <2>2, AppendElements, GeneratorAssumption DEF Inv, Types, RecordTypes
  <1>2. CASE WriteOne
    <2>1. records # <<>> /\ records' = Tail(records)
      BY <1>2 DEF WriteOne
    <2> QED BY <2>1, TailElements, GeneratorAssumption DEF Inv, Types, RecordTypes
  <1>3. ASSUME NEW w \in Worker, DoWork(w), ~Write(w) PROVE RecordTypes'
    BY <1>3, StepMD5 DEF Inv, Types, RecordTypes
  <1>4. CASE WalkEmits \/ WalkEnds \/ WriterEnds \/ CloseMD5 \/ MainEnds \/ Signal \/ Terminated
             \/ UNCHANGED vars
    <2>1. records' = records
      BY <1>4 DEF WalkEmits, WalkEnds, WriterEnds, CloseMD5, MainEnds, Signal, Terminated, vars, md5Vars
    <2> QED BY <2>1 DEF Inv, Types, RecordTypes
  <1> QED BY <1>1, <1>2, <1>3, <1>4 DEF Next

LEMMA StepFlagTypes == ASSUME Inv, [Next]_vars PROVE FlagTypes'
  <1> USE DEF Inv, Types, FlagTypes
  <1>1. ASSUME NEW w \in Worker, DoWork(w) PROVE UNCHANGED <<walked, cancelled, md5err, md5, main>>
    BY <1>1 DEF DoWork, TakeKey, WorkerQuits, WorkerEnds, PutAnswers, PutFails, InitAnswers,
                InitFails, PartAnswers, PartFails, CompleteAnswers, CompleteFails, AbortReturns,
                Write, Calling, walkVars, md5Vars
  <1>2. CASE WalkEmits \/ WalkEnds \/ Signal
    <2>1. UNCHANGED <<md5, md5err, main>>
      BY <1>2 DEF WalkEmits, WalkEnds, Signal, md5Vars
    <2>2. walked' \in BOOLEAN /\ cancelled' \in BOOLEAN
      BY <1>2, Zenon DEF WalkEmits, WalkEnds, Signal, walkVars
    <2> QED BY <2>1, <2>2
  <1>3. CASE WriteOne \/ WriterEnds \/ CloseMD5 \/ MainEnds
    <2>1. UNCHANGED <<walked, cancelled>>
      BY <1>3 DEF WriteOne, WriterEnds, CloseMD5, MainEnds, walkVars
    <2>2. md5err' \in BOOLEAN
      BY <1>3, Zenon DEF WriteOne, WriterEnds, CloseMD5, MainEnds, md5Vars
    <2>3. md5' \in {"running", "draining", "gone"} /\ main' \in {"workers", "closing", "done"}
      BY <1>3 DEF WriteOne, WriterEnds, CloseMD5, MainEnds, md5Vars
    <2> QED BY <2>1, <2>2, <2>3
  <1>4. CASE Terminated \/ UNCHANGED vars
    BY <1>4 DEF Terminated, vars, walkVars, md5Vars
  <1>5. CASE \E w \in Worker : DoWork(w)
    BY <1>1, <1>5
  <1> QED BY <1>2, <1>3, <1>4, <1>5 DEF Next

LEMMA StepPosition == ASSUME Inv, [Next]_vars PROVE Position'
  <1>1. CASE WalkEmits
    <2>1. next \in Key
      BY <1>1, GeneratorAssumption DEF WalkEmits, Inv, Types, WalkTypes, TreeEnd
    <2>2. next # TreeEnd
      BY <1>1, GeneratorAssumption DEF WalkEmits, TreeEnd
    <2>3. next' = After(next) /\ idx' = Rank(next) + 1
      BY <1>1, <2>2 DEF WalkEmits, Inv, Position
    <2>4. IF next' = TreeEnd THEN Total = idx' ELSE Rank(next)' = idx'
      BY <2>1, <2>3, RankAfter DEF Rank
    <2> QED BY <2>4 DEF Position, Total, TreeEnd, Rank
  <1>2. CASE ~WalkEmits
    <2>1. UNCHANGED <<next, idx>>
      BY <1>2, Kinds, TakeMoves DEF WorkerQuits, walkVars, Untouched
    <2> QED BY <2>1 DEF Inv, Position, Rank
  <1> QED BY <1>1, <1>2

LEMMA ChannelKeys ==
    ASSUME Inv
    PROVE  \A i \in 1 .. Len(keyCh) : keyCh[i].key \in Key
  <1>1. \A i \in 1 .. Len(keyCh) : keyCh[i] \in InHand
    BY DEF Inv, Types, WalkTypes
  <1> QED BY <1>1 DEF InHand

LEMMA StepQueued == ASSUME Inv, [Next]_vars PROVE Queued'
  <1> USE DEF Inv, Queued
  <1>1. CASE WalkEmits
    <2>1. next \in Key
      BY <1>1, GeneratorAssumption DEF WalkEmits, Types, WalkTypes, TreeEnd
    <2>2. PICK x \in InHand : x = [key |-> next, idx |-> idx]
      BY <2>1 DEF InHand, Types, WalkTypes
    <2>3. /\ Len(keyCh') = Len(keyCh) + 1 /\ Len(keyCh) \in Nat
          /\ \A i \in 1 .. Len(keyCh) : keyCh'[i] = keyCh[i]
          /\ keyCh'[Len(keyCh) + 1] = x
      BY <1>1, <2>2, AppendElements DEF WalkEmits, Types, WalkTypes
    <2>4. \A k \in Key : Before(k, next') <=> Before(k, next) \/ k = next
      BY <1>1, <2>1, AfterKey DEF WalkEmits
    <2>5. \A i \in 1 .. Len(keyCh) : keyCh[i].key \in Key
      BY ChannelKeys
    <2>6. \A i \in 1 .. Len(keyCh') : i \in 1 .. Len(keyCh) \/ i = Len(keyCh) + 1
      BY <2>3
    <2>7. ~Before(next, next)
      BY <2>1, KeyParts DEF Before
    <2>8. idx' = idx + 1 /\ idx \in Nat
      BY <1>1 DEF WalkEmits, Types, WalkTypes
    <2>9. ASSUME NEW i \in 1 .. Len(keyCh')
          PROVE  keyCh'[i].idx = idx' - Len(keyCh') + i - 1 /\ Before(keyCh'[i].key, next')
      <3>1. CASE i \in 1 .. Len(keyCh)
        BY <2>3, <2>4, <2>5, <2>8, <3>1
      <3>2. CASE i = Len(keyCh) + 1
        <4>1. keyCh'[i] = x /\ idx' - Len(keyCh') + i - 1 = idx
          BY <2>3, <2>8, <3>2
        <4>2. x.key = next /\ x.idx = idx /\ Before(next, next')
          BY <2>1, <2>2, <2>4
        <4> QED BY <4>1, <4>2
      <3> QED BY <2>6, <3>1, <3>2
    <2>10. \A i, j \in 1 .. Len(keyCh') : keyCh'[i].key = keyCh'[j].key => i = j
      BY <2>2, <2>3, <2>6, <2>7
    <2> QED BY <2>9, <2>10
  <1>2. CASE \E w \in Worker : TakeKey(w) \/ WorkerQuits(w)
    <2>1. keyCh # <<>> /\ keyCh' = Tail(keyCh) /\ UNCHANGED <<next, idx>>
      BY <1>2 DEF TakeKey, WorkerQuits, walkVars
    <2>2. /\ Len(keyCh') = Len(keyCh) - 1 /\ Len(keyCh) \in Nat
          /\ \A i \in 1 .. Len(keyCh') : keyCh'[i] = keyCh[i + 1] /\ i + 1 \in 1 .. Len(keyCh)
      BY <2>1, TailElements DEF Types, WalkTypes
    <2>3. idx \in Nat
      BY DEF Types, WalkTypes
    <2>4. \A i \in 1 .. Len(keyCh') :
             keyCh'[i].idx = idx - Len(keyCh') + i - 1 /\ Before(keyCh'[i].key, next)
      BY <2>2, <2>3
    <2>5. ASSUME NEW i \in 1 .. Len(keyCh'), NEW j \in 1 .. Len(keyCh'),
                 keyCh'[i].key = keyCh'[j].key
          PROVE  i = j
      <3>1. keyCh[i + 1].key = keyCh[j + 1].key
        BY <2>2, <2>5
      <3>2. i + 1 = j + 1
        BY <2>2, <3>1
      <3> QED BY <3>2
    <2> QED BY <2>1, <2>4, <2>5
  <1>3. CASE Untouched
    BY <1>3 DEF Untouched
  <1> QED BY <1>1, <1>2, <1>3, Kinds

LEMMA StepWorking == ASSUME Inv, [Next]_vars PROVE Working'
  <1> USE DEF Inv, Working
  <1>1. /\ idx \in Nat /\ Len(keyCh) \in Nat
        /\ \A w \in Worker : Busy(w) => job[w].idx \in Nat /\ job[w].key \in Key
    BY DEF Types, WalkTypes, WorkTypes, Task
  <1>2. CASE WalkEmits
    <2>1. next \in Key
      BY <1>2, GeneratorAssumption DEF WalkEmits, Types, WalkTypes, TreeEnd
    <2>2. PICK x \in InHand : x = [key |-> next, idx |-> idx]
      BY <2>1 DEF InHand, Types, WalkTypes
    <2>3. /\ Len(keyCh') = Len(keyCh) + 1
          /\ \A i \in 1 .. Len(keyCh) : keyCh'[i] = keyCh[i]
          /\ keyCh'[Len(keyCh) + 1] = x
      BY <1>2, <2>2, AppendElements DEF WalkEmits, Types, WalkTypes
    <2>4. \A k \in Key : Before(k, next) => Before(k, next')
      BY <1>2, <2>1, AfterKey DEF WalkEmits
    <2>5. ~Before(next, next)
      BY <2>1, KeyParts DEF Before
    <2>6. \A i \in 1 .. Len(keyCh') : i \in 1 .. Len(keyCh) \/ i = Len(keyCh) + 1
      BY <1>1, <2>3
    <2>7. idx' = idx + 1 /\ UNCHANGED <<pc, job>>
      BY <1>2 DEF WalkEmits, workVars
    <2>8. ASSUME NEW w \in Worker, Busy(w)
          PROVE  /\ job[w].idx < idx' - Len(keyCh') /\ Before(job[w].key, next')
                 /\ \A i \in 1 .. Len(keyCh') : keyCh'[i].key # job[w].key
      <3>1. \A i \in 1 .. Len(keyCh) : keyCh'[i].key # job[w].key
        BY <2>3, <2>8
      <3>2. x.key # job[w].key
        BY <2>2, <2>5, <2>8
      <3> QED BY <1>1, <2>3, <2>4, <2>6, <2>7, <2>8, <3>1, <3>2
    <2> QED BY <2>7, <2>8 DEF Busy
  <1>3. ASSUME NEW w \in Worker, TakeKey(w) \/ WorkerQuits(w) PROVE Working'
    <2>1. keyCh # <<>> /\ keyCh' = Tail(keyCh) /\ UNCHANGED <<next, idx>>
      BY <1>3 DEF TakeKey, WorkerQuits, walkVars
    <2>2. /\ Len(keyCh') = Len(keyCh) - 1 /\ Head(keyCh) = keyCh[1] /\ 1 \in 1 .. Len(keyCh)
          /\ \A i \in 1 .. Len(keyCh') : /\ keyCh'[i] = keyCh[i + 1] /\ i + 1 \in 1 .. Len(keyCh)
                                         /\ i + 1 # 1
      BY <2>1, TailElements DEF Types, WalkTypes
    <2>3. \A v \in Worker \ {w} : pc'[v] = pc[v] /\ job'[v] = job[v]
      BY <1>3, TakeMoves DEF WorkerQuits, Goto, Types, WorkTypes
    <2>4. \A v \in Worker : Busy(v) =>
             /\ job[v].idx < idx - Len(keyCh') /\ \A i \in 1 .. Len(keyCh') : keyCh'[i].key # job[v].key
      BY <1>1, <2>2
    <2>5. ASSUME Busy(w)' PROVE job'[w].key = Head(keyCh).key /\ job'[w].idx = Head(keyCh).idx
      BY <1>3, <2>5, TakeMoves DEF WorkerQuits, Goto, Busy, Types, WorkTypes
    <2>6. /\ Before(Head(keyCh).key, next) /\ Head(keyCh).idx = idx - Len(keyCh)
          /\ \A i \in 1 .. Len(keyCh') : keyCh'[i].key # Head(keyCh).key
      <3>1. Head(keyCh).idx = idx - Len(keyCh) + 1 - 1 /\ Before(Head(keyCh).key, next)
        BY <2>2 DEF Queued
      <3>2. ASSUME NEW i \in 1 .. Len(keyCh') PROVE keyCh'[i].key # Head(keyCh).key
        BY <2>2, <3>2 DEF Queued
      <3> QED BY <1>1, <3>1, <3>2
    <2>7. ASSUME NEW v \in Worker, Busy(v)'
          PROVE  /\ job'[v].idx < idx - Len(keyCh') /\ Before(job'[v].key, next)
                 /\ \A i \in 1 .. Len(keyCh') : keyCh'[i].key # job'[v].key
      <3>1. CASE v = w
        BY <1>1, <2>2, <2>5, <2>6, <2>7, <3>1
      <3>2. CASE v # w
        BY <2>3, <2>4, <2>7, <3>2 DEF Busy
      <3> QED BY <3>1, <3>2
    <2>8. ASSUME NEW v \in Worker, Busy(v), v # w, Busy(w)'
          PROVE  job[v].key # job'[w].key /\ job[v].idx # job'[w].idx
      BY <1>1, <2>2, <2>5, <2>6, <2>8
    <2>9. ASSUME NEW u \in Worker, NEW v \in Worker, u # v, Busy(u)', Busy(v)'
          PROVE  job'[u].key # job'[v].key /\ job'[u].idx # job'[v].idx
      <3>1. CASE u # w /\ v # w
        BY <2>3, <2>9, <3>1 DEF Busy
      <3>2. CASE u = w
        BY <2>3, <2>8, <2>9, <3>2 DEF Busy
      <3>3. CASE v = w
        BY <2>3, <2>8, <2>9, <3>3 DEF Busy
      <3> QED BY <3>1, <3>2, <3>3
    <2> QED BY <2>1, <2>7, <2>9
  <1>4. ASSUME NEW w \in Worker, KeepsOrCounts(w), Untouched PROVE Working'
    <2>1. \A v \in Worker : Busy(v)' => Busy(v) /\ job'[v].key = job[v].key /\ job'[v].idx = job[v].idx
      BY <1>4 DEF KeepsOrCounts, Keeps, Busy
    <2> QED BY <1>4, <2>1 DEF Untouched
  <1>5. CASE Untouched /\ UNCHANGED <<pc, job, uploaded, failed>>
    BY <1>5 DEF Untouched, Busy
  <1> QED BY <1>2, <1>3, <1>4, <1>5, Kinds

LEMMA CancelledStays == ASSUME [Next]_vars, ~cancelled' PROVE ~cancelled
  <1>1. \A w \in Worker : DoWork(w) => cancelled' = cancelled
    BY DEF DoWork, TakeKey, WorkerQuits, WorkerEnds, PutAnswers, PutFails, InitAnswers, InitFails,
           PartAnswers, PartFails, CompleteAnswers, CompleteFails, AbortReturns, Write, Calling
  <1> QED BY <1>1 DEF Next, vars, WalkEmits, WalkEnds, WriteOne, WriterEnds, CloseMD5, MainEnds,
                      Signal, Terminated

\* A key that is taken is not counted yet, and then in hand or failed.
LEMMA TakeKeyCounts ==
    ASSUME Inv, NEW w \in Worker, TakeKey(w)
    PROVE  /\ Head(keyCh).key \in Key /\ Up' = Up /\ uploaded' = uploaded
           /\ \/ /\ Busy(w)' /\ pc'[w] # "record" /\ job'[w].key = Head(keyCh).key
                 /\ failed' = failed /\ Down' = Down
              \/ /\ ~Busy(w)' /\ failed' = Count(failed, Head(keyCh).key)
                 /\ Down' = Down \union {Head(keyCh).key}
  <1>1. Head(keyCh).key \in Key
    BY TakeMoves DEF InHand
  <1>2. uploaded' = uploaded /\ Up' = Up
    BY TakeMoves DEF Up, Counted
  <1>3. CASE pc'[w] \in {"put", "init"} /\ job'[w].key = Head(keyCh).key /\ failed' = failed
    BY <1>1, <1>2, <1>3 DEF Busy, Down, Counted
  <1>4. CASE pc'[w] = "range" /\ failed' = Count(failed, Head(keyCh).key)
    <2>1. Down' = Down \union {Head(keyCh).key}
      BY <1>1, <1>4, CountAdds DEF Down, Counted, Inv, Types, WorkTypes
    <2> QED BY <1>1, <1>2, <1>4, <2>1 DEF Busy
  <1> QED BY <1>3, <1>4, TakeMoves

LEMMA StepAccounts == ASSUME Inv, [Next]_vars PROVE Accounts'
  <1> USE DEF Inv, Accounts
  <1>1. CASE WalkEmits
    <2>1. next \in Key
      BY <1>1, GeneratorAssumption DEF WalkEmits, Types, WalkTypes, TreeEnd
    <2>2. PICK x \in InHand : x = [key |-> next, idx |-> idx]
      BY <2>1 DEF InHand, Types, WalkTypes
    <2>3. /\ Len(keyCh') = Len(keyCh) + 1 /\ Len(keyCh) \in Nat
          /\ \A i \in 1 .. Len(keyCh) : keyCh'[i] = keyCh[i]
          /\ keyCh'[Len(keyCh) + 1] = x
      BY <1>1, <2>2, AppendElements DEF WalkEmits, Types, WalkTypes
    <2>4. \A k \in Key : Before(k, next') <=> Before(k, next) \/ k = next
      BY <1>1, <2>1, AfterKey DEF WalkEmits
    <2>5. /\ \A i \in 1 .. Len(keyCh) : i \in 1 .. Len(keyCh')
          /\ Len(keyCh) + 1 \in 1 .. Len(keyCh')
      BY <2>3
    <2>6. \A k : Held(k) \/ k = next => Held(k)'
      <3>1. \E i \in 1 .. Len(keyCh') : keyCh'[i].key = next
        BY <2>2, <2>3, <2>5
      <3>2. UNCHANGED <<pc, job>>
        BY <1>1 DEF WalkEmits, workVars
      <3>3. \A k : Held(k) => Held(k)'
        BY <2>3, <2>5, <3>2 DEF Held, Busy
      <3>4. ASSUME NEW k, k = next PROVE Held(k)'
        BY <3>1, <3>4 DEF Held
      <3> QED BY <3>3, <3>4
    <2>7. UNCHANGED <<pc, job, Up, Down, cancelled>>
      BY <1>1 DEF WalkEmits, workVars, statVars, Up, Down, Counted
    <2> QED BY <2>4, <2>6, <2>7
  <1>2. ASSUME NEW w \in Worker, TakeKey(w) PROVE Accounts'
    <2>1. \A v \in Worker \ {w} : pc'[v] = pc[v] /\ job'[v] = job[v]
      BY <1>2, TakeMoves
    <2>2. ~Busy(w) /\ next' = next /\ ~cancelled
      BY <1>2, TakeMoves
    <2>a. Up' = Up /\ (Down' = Down \/ Down' = Down \union {Head(keyCh).key})
      BY <1>2, TakeKeyCounts
    <2>3. Head(keyCh).key \in Down' \/ (Busy(w)' /\ job'[w].key = Head(keyCh).key)
      BY <1>2, TakeKeyCounts DEF Busy
    <2>4. \A i \in 1 .. Len(keyCh) : keyCh[i] = Head(keyCh) \/ \E j \in 1 .. Len(keyCh') : keyCh'[j] = keyCh[i]
      <3>1. keyCh # <<>> /\ keyCh' = Tail(keyCh)
        BY <1>2, TakeMoves
      <3>2. Elements(keyCh) = {Head(keyCh)} \union Elements(Tail(keyCh))
        BY <3>1, TailElements DEF Types, WalkTypes
      <3> QED BY <3>1, <3>2 DEF Elements
    <2>5. ASSUME NEW k \in Key, Before(k, next) PROVE k \in (Up \union Down)' \/ Held(k)'
      <3>1. CASE k \in Up \union Down
        BY <2>a, <3>1
      <3>2. CASE \E i \in 1 .. Len(keyCh) : keyCh[i].key = k
        BY <2>3, <2>4, <3>2 DEF Held
      <3>3. CASE \E v \in Worker : Busy(v) /\ job[v].key = k
        BY <2>1, <2>2, <3>3 DEF Held, Busy
      <3> QED BY <2>2, <2>5, <3>1, <3>2, <3>3 DEF Held
    <2>6. \A v \in Worker : pc'[v] = "record" => job'[v].key \in Up'
      BY <1>2, <2>1, <2>2, <2>a, TakeMoves
    <2> QED BY <2>2, <2>5, <2>6
  <1>3. ASSUME NEW w \in Worker, WorkerQuits(w) PROVE Accounts'
    BY <1>3 DEF WorkerQuits, Goto, Types, WorkTypes, statVars, Up, Counted
  <1>4. ASSUME NEW w \in Worker, KeepsOrCounts(w), Untouched PROVE Accounts'
    <2>1. \A k \in Key : Held(k) => Held(k)' \/ k \in (Up \union Down)'
      BY <1>4 DEF KeepsOrCounts, Keeps, Held, Busy, Untouched
    <2>2. \A v \in Worker : pc'[v] = "record" => job'[v].key \in Up'
      BY <1>4 DEF KeepsOrCounts, Keeps
    <2>3. UNCHANGED next /\ Up \subseteq Up' /\ Down \subseteq Down'
      BY <1>4 DEF KeepsOrCounts, Untouched
    <2>4. ~cancelled' => ~cancelled
      BY CancelledStays
    <2> QED BY <2>1, <2>2, <2>3, <2>4
  <1>5. CASE Untouched /\ UNCHANGED <<pc, job, uploaded, failed>>
    <2>1. ~cancelled' => ~cancelled
      BY CancelledStays
    <2> QED BY <1>5, <2>1 DEF Untouched, Held, Busy, Up, Down, Counted
  <1> QED BY <1>1, <1>2, <1>3, <1>4, <1>5, Kinds

LEMMA ErrorStays == ASSUME [Next]_vars, ~md5err' PROVE ~md5err
  <1>1. \A w \in Worker : DoWork(w) => md5err' = md5err
    BY DEF DoWork, TakeKey, WorkerQuits, WorkerEnds, PutAnswers, PutFails, InitAnswers, InitFails,
           PartAnswers, PartFails, CompleteAnswers, CompleteFails, AbortReturns, Write, Calling,
           md5Vars
  <1> QED BY <1>1 DEF Next, vars, md5Vars, WalkEmits, WalkEnds, WriteOne, WriterEnds, CloseMD5,
                      MainEnds, Signal, Terminated

LEMMA StepOncePerKey == ASSUME Inv, [Next]_vars PROVE OncePerKey'
  <1> USE DEF OncePerKey
  <1>1. OncePerKey /\ FreshKeys /\ (~md5err' => ~md5err)
    BY ErrorStays DEF Inv
  <1>2. uploaded \in [Key -> Nat] /\ failed \in [Key -> Nat]
    BY DEF Inv, Types, WorkTypes
  <1>3. \A k \in Key : (k \notin Up => uploaded[k] = 0) /\ (k \notin Down => failed[k] = 0)
    BY <1>2 DEF Up, Down, Counted
  <1>4. CASE UNCHANGED <<uploaded, failed>>
    BY <1>1, <1>4 DEF Up, Down, Counted
  <1>5. ASSUME NEW w \in Worker, TakeKey(w) PROVE OncePerKey'
    <2> DEFINE k == Head(keyCh).key
    <2>1. k \in Key /\ Up' = Up /\ uploaded' = uploaded
      BY <1>5, TakeKeyCounts
    <2>2. k \notin Up /\ k \notin Down
      <3>1. Head(keyCh) = keyCh[1] /\ 1 \in 1 .. Len(keyCh)
        BY <1>5, TakeMoves, TailElements DEF Inv, Types, WalkTypes
      <3> QED BY <1>1, <3>1 DEF FreshKeys, Uncounted
    <2>3. CASE failed' = failed
      BY <1>4, <2>1, <2>3
    <2>4. CASE failed' = Count(failed, k) /\ Down' = Down \union {k}
      <3>1. failed'[k] = 1 /\ \A j \in Key \ {k} : failed'[j] = failed[j]
        BY <1>2, <1>3, <2>1, <2>2, <2>4, CountAdds
      <3> QED BY <1>1, <2>1, <2>2, <2>4, <3>1
    <2> QED BY <1>5, <2>3, <2>4, TakeKeyCounts
  <1>6. ASSUME NEW w \in Worker, KeepsOrCounts(w) PROVE OncePerKey'
    <2> DEFINE k == job[w].key
    <2>1. Busy(w) => k \in Key /\ k \notin Down /\ (pc[w] # "record" => k \notin Up)
      BY <1>1 DEF FreshKeys, Inv, Types, WorkTypes, Task
    <2>2. CASE /\ Busy(w) /\ pc[w] # "record"
               /\ uploaded' = Count(uploaded, k) /\ failed' = failed
      <3>1. Up' = Up \union {k} /\ Down' = Down
        BY <1>2, <2>1, <2>2, CountAdds DEF Up, Down, Counted
      <3>2. uploaded'[k] = 1 /\ \A j \in Key \ {k} : uploaded'[j] = uploaded[j]
        BY <1>2, <1>3, <2>1, <2>2, CountAdds
      <3> QED BY <1>1, <2>1, <2>2, <3>1, <3>2
    <2>3. CASE /\ Busy(w) /\ (pc[w] = "record" => md5err)
               /\ failed' = Count(failed, k) /\ uploaded' = uploaded
      <3>1. Down' = Down \union {k} /\ Up' = Up
        BY <1>2, <2>1, <2>3, CountAdds DEF Up, Down, Counted
      <3>2. failed'[k] = 1 /\ \A j \in Key \ {k} : failed'[j] = failed[j]
        BY <1>2, <1>3, <2>1, <2>3, CountAdds
      <3> QED BY <1>1, <2>1, <2>3, <3>1, <3>2
    <2> QED BY <1>4, <1>6, <2>2, <2>3 DEF KeepsOrCounts, CountsOne
  <1>7. CASE WalkEmits \/ \E w \in Worker : WorkerQuits(w)
    BY <1>4, <1>7 DEF WalkEmits, WorkerQuits, statVars
  <1> QED BY <1>4, <1>5, <1>6, <1>7, Kinds

LEMMA StepFreshKeys == ASSUME Inv, [Next]_vars PROVE FreshKeys'
  <1> USE DEF FreshKeys, Uncounted
  <1>1. FreshKeys /\ Queued /\ Working
    BY DEF Inv
  <1>2. ASSUME NEW w \in Worker, TakeKey(w) \/ WorkerQuits(w)
        PROVE  /\ Head(keyCh) = keyCh[1] /\ 1 \in 1 .. Len(keyCh) /\ next' = next
               /\ \A i \in 1 .. Len(keyCh') : /\ keyCh'[i] = keyCh[i + 1] /\ i + 1 \in 1 .. Len(keyCh)
                                              /\ keyCh'[i].key # Head(keyCh).key
    <2>1. keyCh # <<>> /\ keyCh' = Tail(keyCh) /\ next' = next
      BY <1>2 DEF TakeKey, WorkerQuits, walkVars
    <2>2. /\ Head(keyCh) = keyCh[1] /\ 1 \in 1 .. Len(keyCh)
          /\ \A i \in 1 .. Len(keyCh') : keyCh'[i] = keyCh[i + 1] /\ i + 1 \in 1 .. Len(keyCh) /\ i + 1 # 1
      BY <2>1, TailElements DEF Inv, Types, WalkTypes
    <2> QED BY <1>1, <2>1, <2>2 DEF Queued
  <1>3. CASE WalkEmits
    <2>1. next \in Key
      BY <1>3, GeneratorAssumption DEF WalkEmits, Inv, Types, WalkTypes, TreeEnd
    <2>2. PICK x \in InHand : x = [key |-> next, idx |-> idx]
      BY <2>1 DEF InHand, Inv, Types, WalkTypes
    <2>3. /\ Len(keyCh') = Len(keyCh) + 1 /\ Len(keyCh) \in Nat
          /\ \A i \in 1 .. Len(keyCh) : keyCh'[i] = keyCh[i]
          /\ keyCh'[Len(keyCh) + 1] = x
      BY <1>3, <2>2, AppendElements DEF WalkEmits, Inv, Types, WalkTypes
    <2>4. \A k \in Key : Before(k, next) => Before(k, next')
      BY <1>3, <2>1, AfterKey DEF WalkEmits
    <2>5. ~Before(next, next)
      BY <2>1, KeyParts DEF Before
    <2>6. UNCHANGED <<pc, job, Up, Down>>
      BY <1>3 DEF WalkEmits, workVars, statVars, Up, Down, Counted
    <2>7. \A i \in 1 .. Len(keyCh') : i \in 1 .. Len(keyCh) \/ i = Len(keyCh) + 1
      BY <2>3
    <2>8. \A i \in 1 .. Len(keyCh') : keyCh'[i].key \notin Up \union Down
      BY <1>1, <2>1, <2>2, <2>3, <2>5, <2>7
    <2> QED BY <1>1, <2>4, <2>6, <2>8 DEF Busy
  <1>4. ASSUME NEW w \in Worker, TakeKey(w) PROVE FreshKeys'
    <2> DEFINE k == Head(keyCh).key
    <2>1. k \in Key /\ k \notin Up \union Down /\ Before(k, next)
      BY <1>1, <1>2, <1>4, TakeKeyCounts DEF Queued
    <2>2. Up' = Up /\ Down' \subseteq Down \union {k}
      BY <1>4, TakeKeyCounts
    <2>3. \A j \in Key : ~Before(j, next') => j \notin (Up \union Down)'
      BY <1>1, <1>2, <1>4, <2>1, <2>2
    <2>4. \A i \in 1 .. Len(keyCh') : keyCh'[i].key \notin (Up \union Down)'
      BY <1>1, <1>2, <1>4, <2>2
    <2>5. ASSUME NEW v \in Worker, v # w, Busy(v)'
          PROVE  job'[v].key \notin Down' /\ (pc'[v] # "record" => job'[v].key \notin Up')
      <3>1. Busy(v) /\ job'[v] = job[v] /\ pc'[v] = pc[v]
        BY <1>4, <2>5, TakeMoves DEF Busy
      <3>2. job[v].key # k
        BY <1>1, <1>2, <1>4, <3>1 DEF Working
      <3> QED BY <1>1, <2>2, <3>1, <3>2
    <2>6. Busy(w)' => job'[w].key \notin Down' /\ job'[w].key \notin Up'
      BY <1>4, <2>1, <2>2, TakeKeyCounts
    <2> QED BY <2>3, <2>4, <2>5, <2>6
  <1>5. ASSUME NEW w \in Worker, WorkerQuits(w) PROVE FreshKeys'
    <2>1. UNCHANGED <<job, Up, Down>>
      BY <1>5 DEF WorkerQuits, statVars, Up, Down, Counted
    <2>2. \A v \in Worker : Busy(v)' => Busy(v) /\ pc'[v] = pc[v]
      BY <1>5 DEF WorkerQuits, Goto, Busy, Inv, Types, WorkTypes
    <2> QED BY <1>1, <1>2, <1>5, <2>1, <2>2
  <1>6. ASSUME NEW w \in Worker, KeepsOrCounts(w), Untouched PROVE FreshKeys'
    <2> DEFINE k == job[w].key
    <2>1. /\ uploaded \in [Key -> Nat] /\ failed \in [Key -> Nat] /\ (Busy(w) => k \in Key)
          /\ UNCHANGED <<next, keyCh>>
      BY <1>6 DEF Untouched, Inv, Types, WorkTypes, Task
    <2>2. /\ \A v \in Worker \ {w} : pc'[v] = pc[v] /\ job'[v] = job[v]
          /\ Busy(w)' => Busy(w) /\ job'[w].key = k
      BY <1>6 DEF KeepsOrCounts, Keeps
    <2>3. Busy(w) => /\ Before(k, next) /\ \A i \in 1 .. Len(keyCh) : keyCh[i].key # k
                     /\ \A v \in Worker \ {w} : Busy(v) => job[v].key # k
      BY <1>1 DEF Working
    <2>4. /\ Up' \subseteq Up \union {k} /\ Down' \subseteq Down \union {k}
          /\ ~Busy(w) => Up' = Up /\ Down' = Down
      <3>1. Busy(w) /\ uploaded' = Count(uploaded, k) => Up' = Up \union {k}
        BY <2>1, CountAdds DEF Up, Counted
      <3>2. Busy(w) /\ failed' = Count(failed, k) => Down' = Down \union {k}
        BY <2>1, CountAdds DEF Down, Counted
      <3>3. (uploaded' = uploaded => Up' = Up) /\ (failed' = failed => Down' = Down)
        BY DEF Up, Down, Counted
      <3> QED BY <1>6, <3>1, <3>2, <3>3 DEF KeepsOrCounts, CountsOne
    <2>5. \A j \in Key : ~Before(j, next') => j \notin (Up \union Down)'
      BY <1>1, <2>1, <2>3, <2>4
    <2>6. \A i \in 1 .. Len(keyCh') : keyCh'[i].key \notin (Up \union Down)'
      BY <1>1, <2>1, <2>3, <2>4
    <2>7. ASSUME NEW v \in Worker \ {w}, Busy(v)'
          PROVE  job'[v].key \notin Down' /\ (pc'[v] # "record" => job'[v].key \notin Up')
      <3>1. Busy(v) /\ job'[v] = job[v] /\ pc'[v] = pc[v]
        BY <2>2, <2>7 DEF Busy
      <3>2. CASE Busy(w)
        BY <1>1, <2>3, <2>4, <3>1, <3>2
      <3>3. CASE ~Busy(w)
        BY <1>1, <2>4, <3>1, <3>3
      <3> QED BY <3>2, <3>3
    <2>8. ASSUME Busy(w)'
          PROVE  job'[w].key \notin Down' /\ (pc'[w] # "record" => job'[w].key \notin Up')
      <3>1. Busy(w) /\ job'[w].key = k /\ k \notin Down
        BY <1>1, <2>2, <2>8
      <3>2. CASE UNCHANGED <<uploaded, failed>> /\ (Busy(w)' => pc[w] # "record")
        BY <1>1, <2>8, <3>1, <3>2 DEF Up, Down, Counted
      <3>3. CASE pc'[w] = "record" /\ failed' = failed
        BY <3>1, <3>3 DEF Down, Counted
      <3> QED BY <1>6, <2>8, <3>2, <3>3 DEF KeepsOrCounts, CountsOne
    <2> QED BY <2>5, <2>6, <2>7, <2>8
  <1>7. CASE Untouched /\ UNCHANGED <<pc, job, uploaded, failed>>
    BY <1>1, <1>7 DEF Untouched, Busy, Up, Down, Counted
  <1> QED BY <1>3, <1>4, <1>5, <1>6, <1>7, Kinds

LEMMA StepEnds == ASSUME Inv, [Next]_vars PROVE Ends'
  <1> USE DEF Inv, Ends
  <1>1. CASE WalkEmits
    <2>1. UNCHANGED <<pc, walked, main, cancelled>> /\ ~walked
      BY <1>1 DEF WalkEmits, workVars
    <2> QED BY <2>1
  <1>2. CASE WalkEnds
    <2>1. walked' /\ UNCHANGED <<pc, main, cancelled, next, keyCh>>
      BY <1>2 DEF WalkEnds, workVars
    <2>2. next[1] > Depth => next = TreeEnd
      BY GeneratorAssumption, KeyParts DEF Types, WalkTypes
    <2> QED BY <1>2, <2>1, <2>2 DEF WalkEnds
  <1>3. ASSUME NEW w \in Worker, DoWork(w) PROVE Ends'
    <2>1. UNCHANGED <<walked, cancelled, main, next>>
      BY <1>3 DEF DoWork, TakeKey, WorkerQuits, WorkerEnds, PutAnswers, PutFails, InitAnswers,
                  InitFails, PartAnswers, PartFails, CompleteAnswers, CompleteFails, AbortReturns,
                  Write, Calling, walkVars
    <2>2. pc[w] # "gone"
      BY <1>3 DEF DoWork, TakeKey, WorkerQuits, WorkerEnds, PutAnswers, PutFails, InitAnswers,
                  InitFails, PartAnswers, PartFails, CompleteAnswers, CompleteFails, AbortReturns,
                  Write, Calling
    <2>3. CASE TakeKey(w)
      BY <2>1, <2>2, <2>3, TakeMoves
    <2>4. CASE WorkerQuits(w)
      BY <2>1, <2>2, <2>4 DEF WorkerQuits
    <2>5. CASE WorkerEnds(w)
      BY <2>1, <2>2, <2>5 DEF WorkerEnds, Goto, Types, WorkTypes
    <2>6. CASE ~TakeKey(w) /\ ~WorkerQuits(w) /\ ~WorkerEnds(w)
      <3>1. KeepsOrCounts(w) /\ pc'[w] # "gone"
        BY <1>3, <2>6, CallMoves DEF DoWork
      <3>2. keyCh' = keyCh
        BY <1>3, <2>6 DEF DoWork, PutAnswers, PutFails, InitAnswers, InitFails, PartAnswers,
                          PartFails, CompleteAnswers, CompleteFails, AbortReturns, Write, Calling
      <3> QED BY <2>1, <2>2, <3>1, <3>2 DEF KeepsOrCounts, Keeps
    <2> QED BY <2>3, <2>4, <2>5, <2>6
  <1>4. CASE WriteOne \/ WriterEnds \/ CloseMD5 \/ MainEnds \/ Signal
    BY <1>4 DEF WriteOne, WriterEnds, CloseMD5, MainEnds, Signal, walkVars, workVars
  <1>5. CASE Terminated \/ UNCHANGED vars
    BY <1>5 DEF Terminated, vars, walkVars, workVars
  <1>6. CASE \E w \in Worker : DoWork(w)
    BY <1>3, <1>6
  <1> QED BY <1>1, <1>2, <1>4, <1>5, <1>6 DEF Next

LEMMA StepLines == ASSUME Inv, [Next]_vars PROVE Lines'
  <1> USE DEF Inv, Lines
  <1>1. CASE WalkEmits \/ WalkEnds \/ Signal \/ Terminated \/ UNCHANGED vars
    <2>1. UNCHANGED <<md5, md5err, main, records, buffered, lines, Up, pc, job>>
      BY <1>1 DEF WalkEmits, WalkEnds, Signal, Terminated, vars, md5Vars, statVars, workVars, Up,
                  Counted
    <2> QED BY <2>1 DEF Recording
  <1>2. ASSUME NEW w \in Worker, DoWork(w), ~Write(w) PROVE Lines'
    <2>1. UNCHANGED <<records, md5, buffered, lines, md5err, main>>
      BY <1>2, StepMD5 DEF DoWork, TakeKey, WorkerQuits, WorkerEnds, PutAnswers, PutFails,
                           InitAnswers, InitFails, PartAnswers, PartFails, CompleteAnswers,
                           CompleteFails, AbortReturns, Calling
    <2>2. CASE PutAnswers(w) \/ CompleteAnswers(w)
      <3>a. /\ uploaded' = Count(uploaded, job[w].key) /\ job' = job /\ Busy(w)
            /\ pc' = [pc EXCEPT ![w] = "record"]
        BY <2>2 DEF PutAnswers, CompleteAnswers, Calling, Uploaded, Goto, Busy
      <3>b. job[w].key \in Key /\ uploaded \in [Key -> Nat]
        BY <3>a DEF Types, WorkTypes, Task
      <3>1. /\ Up' = Up \union {job[w].key} /\ job' = job
            /\ pc' = [pc EXCEPT ![w] = "record"]
        BY <3>a, <3>b, CountAdds DEF Up, Counted
      <3>2. Recording' = Recording \union {job[w].key}
        BY <3>1 DEF Recording, Types, WorkTypes
      <3> QED BY <2>1, <3>1, <3>2
    <2>3. CASE ~PutAnswers(w) /\ ~CompleteAnswers(w)
      <3>a. uploaded' = uploaded
        BY <1>2, <2>3 DEF DoWork, TakeKey, WorkerQuits, WorkerEnds, PutFails, InitAnswers,
                          InitFails, PartAnswers, PartFails, CompleteFails, AbortReturns, statVars
      <3>1. Up' = Up
        BY <3>a DEF Up, Counted
      <3>2. /\ pc[w] # "record" /\ pc'[w] # "record"
            /\ \A v \in Worker \ {w} : pc'[v] = pc[v] /\ job'[v] = job[v]
        <4>1. CASE TakeKey(w)
          BY <4>1, TakeMoves DEF TakeKey
        <4>2. CASE ~TakeKey(w)
          BY <1>2, <2>3, <4>2 DEF DoWork, WorkerQuits, WorkerEnds, PutFails, InitAnswers,
              InitFails, PartAnswers, PartFails, CompleteFails, AbortReturns, Calling, Goto, Fail,
              Finish, Types, WorkTypes
        <4> QED BY <4>1, <4>2
      <3>3. Recording' = Recording
        BY <3>2 DEF Recording
      <3> QED BY <2>1, <3>1, <3>3
    <2> QED BY <2>2, <2>3
  <1>3. ASSUME NEW w \in Worker, Write(w) PROVE Lines'
    <2>1. /\ pc[w] = "record" /\ UNCHANGED <<md5, buffered, lines, md5err, main, Up>>
          /\ pc' = [pc EXCEPT ![w] = "range"] /\ job' = [job EXCEPT ![w] = NoJob]
          /\ \/ records' = Append(records, job[w].key)
             \/ md5 = "gone" /\ records' = records
      BY <1>3 DEF Write, Fail, Finish, Goto, Up, Counted
    <2>2. ~md5err => md5 # "gone"
      BY <2>1 DEF Ends
    <2>3. Recording \subseteq Recording' \union {job[w].key} /\ Recording' \subseteq Recording
          /\ job[w].key \in Recording
      BY <2>1 DEF Recording, Types, WorkTypes
    <2>4. job[w].key \in Key
      BY <2>1 DEF Busy, Types, WorkTypes, Task
    <2>5. ASSUME ~md5err PROVE Elements(records)' = Elements(records) \union {job[w].key}
      <3>1. records' = Append(records, job[w].key)
        BY <2>1, <2>2, <2>5
      <3> QED BY <2>4, <3>1, AppendElements DEF Types, RecordTypes, Elements
    <2> QED BY <2>1, <2>2, <2>3, <2>5
  <1>4. CASE WriteOne
    <2>1. records # <<>> /\ records' = Tail(records) /\ md5 # "gone"
          /\ UNCHANGED <<main, Up, pc, job>>
          /\ \/ md5err'
             \/ /\ UNCHANGED <<md5, md5err>>
                /\ lines' \union buffered' = lines \union buffered \union {Head(records)}
      BY <1>4 DEF WriteOne, statVars, workVars, Up, Counted
    <2>2. Elements(records) = {Head(records)} \union Elements(records)'
      <3>1. Elements(records) = {Head(records)} \union Elements(Tail(records))
        BY <2>1, TailElements DEF Types, RecordTypes
      <3>2. Elements(records)' = Elements(Tail(records))
        BY <2>1 DEF Elements
      <3> QED BY <3>1, <3>2
    <2>3. Recording' = Recording
      BY <2>1 DEF Recording
    <2>4. CASE md5err'
      <3>1. md5' \in {md5, "gone"}
        BY <1>4 DEF WriteOne
      <3> QED BY <2>1, <2>4, <3>1
    <2>5. CASE ~md5err'
      BY <2>1, <2>2, <2>3, <2>5
    <2> QED BY <2>4, <2>5
  <1>5. CASE WriterEnds
    <2>1. /\ records = <<>> /\ md5 = "draining" /\ md5' = "gone"
          /\ UNCHANGED <<records, main, Up, pc, job>>
          /\ \/ md5err'
             \/ lines' = lines \union buffered /\ buffered' = {} /\ UNCHANGED md5err
      BY <1>5 DEF WriterEnds, statVars, workVars, Up, Counted
    <2> QED BY <2>1 DEF Recording
  <1>6. CASE CloseMD5 \/ MainEnds
    <2>1. /\ UNCHANGED <<records, buffered, lines, md5err, Up, pc, job>> /\ main' # "workers"
          /\ \/ main = "workers" /\ main' = "closing" /\ md5' \in {md5, "draining"}
                /\ (md5 = "gone" => md5' = md5)
             \/ main' = "done" /\ md5 = "gone" /\ md5' = md5
      BY <1>6 DEF CloseMD5, MainEnds, statVars, workVars, md5Vars, Up, Counted
    <2> QED BY <2>1 DEF Recording, Types, FlagTypes
  <1>7. CASE \E w \in Worker : DoWork(w)
    BY <1>2, <1>3, <1>7
  <1> QED BY <1>1, <1>4, <1>5, <1>6, <1>7 DEF Next

LEMMA StepOpenUploads == ASSUME Inv, [Next]_vars PROVE OpenUploads'
  <1> USE DEF Inv, OpenUploads
  <1>1. CASE WalkEmits \/ WalkEnds \/ Signal \/ WriteOne \/ WriterEnds \/ CloseMD5 \/ MainEnds
             \/ Terminated \/ UNCHANGED vars
    BY <1>1 DEF WalkEmits, WalkEnds, Signal, WriteOne, WriterEnds, CloseMD5, MainEnds, Terminated,
                vars, s3Vars, workVars
  <1>2. ASSUME NEW w \in Worker, DoWork(w) PROVE OpenUploads'
    <2>1. \A v \in Worker \ {w} : pc'[v] = pc[v] /\ job'[v] = job[v]
      <3>1. CASE TakeKey(w)
        BY <3>1, TakeMoves
      <3>2. CASE WorkerQuits(w) \/ WorkerEnds(w)
        BY <3>2 DEF WorkerQuits, WorkerEnds, Goto, Types, WorkTypes
      <3> QED BY <1>2, <3>1, <3>2, CallMoves DEF DoWork, KeepsOrCounts, Keeps
    <2>2. CASE TakeKey(w) \/ WorkerQuits(w) \/ WorkerEnds(w) \/ PutAnswers(w) \/ PutFails(w)
               \/ Write(w)
      <3>1. pc[w] \notin {"part", "complete", "abort"} /\ UNCHANGED <<open, unaborted>>
        BY <2>2 DEF TakeKey, WorkerQuits, WorkerEnds, PutAnswers, PutFails, Write, Calling, s3Vars
      <3> QED BY <2>1, <3>1
    <2>3. CASE InitAnswers(w)
      <3>1. pc'[w] = "part" /\ job' = job /\ unaborted' = unaborted /\ pc[w] = "init"
            /\ open' = open \union {job[w].key}
        BY <2>3 DEF InitAnswers, Goto, Types, WorkTypes, Calling
      <3> QED BY <2>1, <3>1
    <2>4. CASE InitFails(w)
      <3>1. pc[w] = "init"
            /\ \/ UNCHANGED <<open, unaborted>>
               \/ open' = open \union {job[w].key} /\ unaborted' = unaborted \union {job[w].key}
        BY <2>4 DEF InitFails, Calling
      <3> QED BY <2>1, <3>1
    <2>5. CASE PartAnswers(w) \/ PartFails(w)
      <3>1. UNCHANGED <<open, unaborted>> /\ pc'[w] \in {"part", "complete", "abort"}
        BY <2>5 DEF PartAnswers, PartFails, Calling, Goto, s3Vars, Types, WorkTypes
      <3>2. job'[w].key = job[w].key
        BY <2>5, CallMoves, <3>1 DEF KeepsOrCounts, Keeps, Busy
      <3> QED BY <2>1, <3>1, <3>2
    <2>6. CASE CompleteAnswers(w)
      <3>1. open' = open \ {job[w].key} /\ unaborted' = unaborted /\ job' = job
        BY <2>6 DEF CompleteAnswers, Uploaded
      <3> QED BY <2>1, <3>1
    <2>7. CASE CompleteFails(w)
      <3>1. open' \subseteq open /\ unaborted' = unaborted /\ job' = job /\ pc'[w] = "abort"
        BY <2>7 DEF CompleteFails, Goto, Types, WorkTypes
      <3> QED BY <2>1, <3>1
    <2>8. CASE AbortReturns(w)
      <3>1. \/ open' = open \ {job[w].key} /\ unaborted' = unaborted
            \/ unaborted' = unaborted \union {job[w].key} /\ open' = open
        BY <2>8 DEF AbortReturns
      <3> QED BY <2>1, <3>1
    <2> QED BY <1>2, <2>2, <2>3, <2>4, <2>5, <2>6, <2>7, <2>8 DEF DoWork
  <1>3. CASE \E w \in Worker : DoWork(w)
    BY <1>2, <1>3
  <1> QED BY <1>1, <1>3 DEF Next

-----------------------------------------------------------------------------
(* The theorems *)

LEMMA InitInv == ASSUME Init PROVE Inv
  <1> USE GeneratorAssumption
  <1>1. <<1, 0, 1>> \in Key /\ <<1, 0, 1>> # TreeEnd
    BY DEF Key, LeafCount, TreeEnd
  <1>2. Types
    <2>1. \A w \in Worker : ~Busy(w)
      BY DEF Init, Busy
    <2>2. keyCh \in Seq(InHand) /\ Len(keyCh) = 0 /\ records \in Seq(Key) /\ Len(records) = 0
      BY DEF Init
    <2>3. WalkTypes /\ RecordTypes
      BY <1>1, <2>2 DEF Init, WalkTypes, RecordTypes
    <2>4. WorkTypes
      BY <2>1 DEF Init, WorkTypes, Places
    <2>5. FlagTypes
      BY DEF Init, FlagTypes
    <2> QED BY <2>3, <2>4, <2>5 DEF Types
  <1>3. Position
    <2>1. Rank(<<1, 0, 1>>) = 0
      <3>1. Rank(<<1, 0, 1>>) = ((1 - 1) * Width + 0) * FilesPerDir + 1 - 1
        BY DEF Rank
      <3> QED BY <3>1
    <2> QED BY <1>1, <2>1 DEF Init, Position
  <1>4. Queued /\ Working
    <2>1. Len(keyCh) = 0 /\ \A w \in Worker : ~Busy(w)
      BY DEF Init, Busy
    <2> QED BY <2>1 DEF Queued, Working
  <1>5. Accounts
    <2>1. \A k \in Key : ~Before(k, next)
      BY KeyParts DEF Init, Before
    <2> QED BY <2>1 DEF Init, Accounts
  <1>6. Ends /\ OpenUploads
    BY DEF Init, Ends, OpenUploads
  <1>8. OncePerKey /\ FreshKeys
    <2>1. Up = {} /\ Down = {} /\ Len(keyCh) = 0 /\ \A w \in Worker : ~Busy(w)
      BY DEF Init, Up, Down, Counted, Busy
    <2>2. \A k \in Key : uploaded[k] = 0 /\ failed[k] = 0
      BY DEF Init
    <2> QED BY <2>1, <2>2 DEF OncePerKey, FreshKeys, Uncounted
  <1>7. Lines
    <2>1. Elements(records) = {} /\ Recording = {} /\ Up = {}
      BY DEF Init, Elements, Recording, Up, Counted
    <2> QED BY <2>1 DEF Init, Lines
  <1> QED BY <1>2, <1>3, <1>4, <1>5, <1>6, <1>7, <1>8 DEF Inv

LEMMA StepInv == ASSUME Inv, [Next]_vars PROVE Inv'
  <1>1. Types'
    BY StepWalkTypes, StepWorkTypes, StepRecordTypes, StepFlagTypes DEF Types
  <1> QED BY <1>1, StepPosition, StepQueued, StepWorking, StepAccounts, StepOncePerKey,
             StepFreshKeys, StepEnds, StepLines, StepOpenUploads DEF Inv

LEMMA InvHolds == Spec => []Inv
  BY InitInv, StepInv, PTL DEF Spec

\* Every key of the tree is before its end.
LEMMA EndIsLast == ASSUME NEW k \in Key PROVE Before(k, TreeEnd)
  <1>1. k[1] \in 1 .. Depth /\ TreeEnd[1] = Depth + 1
    BY KeyParts DEF TreeEnd
  <1> QED BY <1>1, GeneratorAssumption DEF Before

LEMMA InvTypeOK == ASSUME Inv PROVE TypeOK
  <1>1. Len(keyCh) <= KeyCap /\ Len(records) <= RecordCap
    BY DEF Inv, Types, WalkTypes, RecordTypes
  <1>2. DOMAIN keyCh = 1 .. Len(keyCh)
    BY DEF Inv, Types, WalkTypes
  <1>3. \A i \in DOMAIN keyCh : keyCh[i].key \in Key /\ keyCh[i].idx = idx - Len(keyCh) + i - 1
    BY <1>2, ChannelKeys DEF Inv, Queued
  <1>4. \A v, w \in Worker : v # w /\ pc[v] \notin {"range", "gone"} /\ pc[w] \notin {"range", "gone"}
          => job[v].key # job[w].key /\ job[v].idx # job[w].idx
    BY DEF Inv, Working, Busy
  <1> QED BY <1>1, <1>3, <1>4 DEF TypeOK

LEMMA InvEveryKeyAccounted == ASSUME Inv PROVE EveryKeyAccounted
  <1>a. \A k \in Key : uploaded[k] <= 1 /\ failed[k] <= 1
    BY DEF Inv, OncePerKey
  <1>b. ASSUME ~md5err PROVE \A k \in Key : uploaded[k] = 0 \/ failed[k] = 0
    <2>1. uploaded \in [Key -> Nat] /\ failed \in [Key -> Nat]
      BY DEF Inv, Types, WorkTypes
    <2> QED BY <1>b, <2>1 DEF Inv, OncePerKey, Up, Down, Counted
  <1> SUFFICES ASSUME main = "done", ~cancelled
               PROVE  idx = Total /\ Up \union Down = Key
    BY <1>a, <1>b DEF EveryKeyAccounted, Total, Up, Down
  <1>1. \A w \in Worker : pc[w] = "gone" /\ walked /\ keyCh = <<>>
    BY DEF Inv, Ends
  <1>2. walked /\ keyCh = <<>> /\ next = TreeEnd
    BY <1>1, GeneratorAssumption DEF Inv, Ends
  <1>3. \A k \in Key : ~Held(k)
    <2>1. Len(keyCh) = 0
      BY <1>2
    <2> QED BY <1>1, <2>1 DEF Held, Busy
  <1>4. Key \subseteq Up \union Down
    BY <1>2, <1>3, EndIsLast DEF Inv, Accounts
  <1> QED BY <1>2, <1>4 DEF Inv, Position, Up, Down, Counted

LEMMA InvMd5Complete == ASSUME Inv PROVE Md5Complete
  <1> SUFFICES ASSUME main = "done", ~md5err PROVE lines = Up
    BY DEF Md5Complete, Up
  <1>1. records = <<>> /\ buffered = {}
    BY DEF Inv, Lines
  <1>2. Elements(records) = {}
    BY <1>1 DEF Elements
  <1>3. Recording = {}
    BY DEF Inv, Ends, Recording
  <1> QED BY <1>1, <1>2, <1>3 DEF Inv, Lines

\* In every tree, with any number of workers, channel capacities, draws and failures, the keys
\* in the channel and in the workers' hands are distinct keys of the tree with distinct ordinals
\* (treegen.go:29), and the channels never hold more than they can.
THEOREM KeysDistinct == Spec => []TypeOK
  BY InvHolds, InvTypeOK, PTL

\* No object is ever counted twice: it is uploaded or failed, and both only where the md5 writer's
\* error refused its line.  A run that was not interrupted handed out exactly the documented
\* number of keys (treegen.go:28) and counted every key of the tree.
THEOREM EveryKeyIsAccounted == Spec => []EveryKeyAccounted
  BY InvHolds, InvEveryKeyAccounted, PTL

\* A run that ends without an error wrote a line for exactly the objects it uploaded, whatever
\* the signal interrupted: no record is lost between worker, channel, buffer and file.
THEOREM Md5FileComplete == Spec => []Md5Complete
  BY InvHolds, InvMd5Complete, PTL

\* When the run is over, every multipart upload was completed or aborted, but for those whose
\* create or abort call returned an error (s3client.go:171-172).
THEOREM NoUploadLeftOpen == Spec => []UploadsSettled
  <1>1. Inv => UploadsSettled
    <2> SUFFICES ASSUME Inv, main = "done" PROVE open \subseteq unaborted
      BY DEF UploadsSettled
    <2> QED BY DEF Inv, Ends, OpenUploads
  <1> QED BY <1>1, InvHolds, PTL
=============================================================================
