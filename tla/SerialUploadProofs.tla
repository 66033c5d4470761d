------------------------ MODULE SerialUploadProofs ------------------------
(***************************************************************************)
(* Proofs that an upload that returns has delivered its file, and that one *)
(* fault does not make it give up, for every number of parts, size of      *)
(* batches, limit of attempts and of faults.                               *)
(*                                                                         *)
(* Lines reach the guest in the order they were sent, and a line is sent   *)
(* only after the witnesses of the lines before it were read.  So behind a *)
(* witness that the guest printed no line of an earlier kind can be        *)
(* waiting, however late the witness is read and however often its line    *)
(* was sent again: what a witness attests is never undone by a late line.  *)
(***************************************************************************)
EXTENDS SerialUpload, TLAPS

\* The order in which upload() sends its kinds of lines.
Order == [mkdir |-> 1, rmtarget |-> 2, rmparts |-> 3, part |-> 4, join |-> 5,
          decode |-> 6, size |-> 7, cksum |-> 8, final |-> 9]

UploadLines == [op : DOMAIN Order, n : Nat]
Rank(l) == Order[l.op]

NBatches == (NParts + Batch - 1) \div Batch

\* The rank of the lines of the i-th call.
StageRank(i) == IF i <= 3 THEN i ELSE IF i <= 3 + NBatches THEN 4 ELSE i - NBatches + 1

\* The lines on the wire are sorted.
Sorted(w) == \A i, j \in DOMAIN w : i < j /\ w[i] \in UploadLines /\ w[j] \in UploadLines => Rank(w[i]) <= Rank(w[j])

\* No line of a set is of an earlier, or a later, kind than r.
From(S, r) == \A l \in S \cap UploadLines : r <= Rank(l)
UpTo(S, r) == \A l \in S \cap UploadLines : Rank(l) <= r

Printed(op) == \E x \in ToSet(console) : x.op = op

UploadType ==
    /\ wire \in Seq(UploadLines \cup {Blank, CtrlC})
    /\ console \in Seq(UploadLines \cup {Prompt})
    /\ stage \in Stages

Cleaned == (encoded = "none" \/ "final" \in strayed) /\ parts = EmptyDir /\ ~partdir

UploadInv ==
    /\ UploadType
    /\ Sorted(wire) /\ UpTo(ToSet(wire), StageRank(stage)) /\ UpTo(ToSet(console), StageRank(stage))
    /\ \A x \in ToSet(console) \cap UploadLines : From(ToSet(wire), Rank(x))
    /\ Printed("cksum") \/ StageRank(stage) = 9 => target = "good" /\ From(ToSet(wire), 8)
    /\ at = "done" => StageRank(stage) = 9
    /\ Printed("final") \/ at = "done" => target = "good" /\ Cleaned /\ From(ToSet(wire), 9)

LEMMA BatchCount == NBatches \in Nat
  BY UploadAssumption DEF NBatches

-----------------------------------------------------------------------------
(* The calls of upload(). *)

LEMMA LineFacts ==
    /\ \A op \in DOMAIN Order : Item(op) \in UploadLines /\ Rank(Item(op)) = Order[op]
    /\ \A n \in Nat : Part(n) \in UploadLines /\ Rank(Part(n)) = 4
    /\ Blank \notin UploadLines /\ CtrlC \notin UploadLines /\ Prompt \notin UploadLines
    /\ \A l \in UploadLines : Rank(l) \in 1..9 /\ (l.op = "cksum" <=> Rank(l) = 8) /\ (l.op = "final" <=> Rank(l) = 9)
    /\ Prompt.op \notin DOMAIN Order
  BY DEF Item, Part, UploadLines, Rank, Order, Blank, CtrlC, Prompt

\* All lines of one call are of one kind.
OfRank(q, r) == q \in Seq(UploadLines) /\ \A i \in DOMAIN q : Rank(q[i]) = r

LEMMA DoRank ==
    ASSUME NEW op \in DOMAIN Order PROVE OfRank(Do(op), Order[op])
  <1>1. Item(op) \in UploadLines /\ Rank(Item(op)) = Order[op]
    BY LineFacts
  <1> QED BY <1>1 DEF OfRank, Do

LEMMA BatchRank ==
    ASSUME NEW b \in 1..NBatches PROVE OfRank(BatchLines(b), 4)
  <1> DEFINE m == IF b * Batch <= NParts THEN Batch ELSE NParts - (b - 1) * Batch
             k == IF m > 0 THEN m ELSE 0
             from == (b - 1) * Batch
  <1>1. NBatches \in Nat /\ Batch \in Nat /\ NParts \in Nat
    BY BatchCount, UploadAssumption
  <1>2. b \in Nat /\ b - 1 \in Nat
    BY <1>1
  <1>3. from \in Nat
    BY <1>1, <1>2
  <1>4. m \in Int
    BY <1>1, <1>3
  <1>5. BatchLines(b) = [i \in 1..m |-> Part(from + i)]
    BY DEF BatchLines
  <1> HIDE DEF m, from
  <1>6. k \in Nat /\ 1..m = 1..k
    BY <1>4
  <1> HIDE DEF k
  <1>7. BatchLines(b) = [i \in 1..k |-> Part(from + i)]
    BY <1>5, <1>6
  <1>8. \A i \in 1..k : Part(from + i) \in UploadLines /\ Rank(Part(from + i)) = 4
    BY <1>3, <1>6, LineFacts
  <1>9. BatchLines(b) \in Seq(UploadLines) /\ DOMAIN BatchLines(b) = 1..k
    BY <1>6, <1>7, <1>8
  <1> QED BY <1>7, <1>8, <1>9 DEF OfRank

\* Concatenation, element by element.
LEMMA Concatenated ==
    ASSUME NEW S, NEW p \in Seq(S), NEW q \in Seq(S), NEW r, r = p \o q
    PROVE  /\ r \in Seq(S) /\ Len(r) = Len(p) + Len(q)
           /\ \A i \in 1..Len(p) : r[i] = p[i]
           /\ \A i \in 1..Len(q) : r[Len(p) + i] = q[i]
  OBVIOUS

LEMMA ScriptRank ==
    /\ Len(Script) = 8 + NBatches
    /\ \A i \in 1..8 + NBatches : OfRank(Script[i], StageRank(i))
    /\ Script[7 + NBatches] = Do("cksum") /\ Script[8 + NBatches] = Do("final")
  <1> DEFINE S == Seq(UploadLines)
  <1>1. /\ OfRank(Do("mkdir"), 1) /\ OfRank(Do("rmtarget"), 2) /\ OfRank(Do("rmparts"), 3)
        /\ OfRank(Do("join"), 5) /\ OfRank(Do("decode"), 6) /\ OfRank(Do("size"), 7)
        /\ OfRank(Do("cksum"), 8) /\ OfRank(Do("final"), 9)
    BY DoRank DEF Order
  <1>2. \A b \in 1..NBatches : OfRank(BatchLines(b), 4)
    BY BatchRank
  <1>3. /\ Setup \in Seq(S) /\ Len(Setup) = 3
        /\ Setup[1] = Do("mkdir") /\ Setup[2] = Do("rmtarget") /\ Setup[3] = Do("rmparts")
    BY <1>1 DEF Setup, OfRank
  <1>4. /\ Closing \in Seq(S) /\ Len(Closing) = 5
        /\ Closing[1] = Do("join") /\ Closing[2] = Do("decode") /\ Closing[3] = Do("size")
        /\ Closing[4] = Do("cksum") /\ Closing[5] = Do("final")
    BY <1>1 DEF Closing, OfRank
  <1>5. NBatches \in Nat
    BY BatchCount
  <1>6. Batches = [b \in 1..NBatches |-> BatchLines(b)]
    BY DEF Batches, NBatches
  <1>7. Batches \in Seq(S) /\ Len(Batches) = NBatches /\ \A b \in 1..NBatches : Batches[b] = BatchLines(b)
    BY <1>2, <1>5, <1>6 DEF OfRank
  <1> DEFINE P == Setup \o Batches
  <1>8. /\ P \in Seq(S) /\ Len(P) = 3 + NBatches
        /\ \A i \in 1..3 : P[i] = Setup[i]
        /\ \A b \in 1..NBatches : P[3 + b] = BatchLines(b)
    <2>0. P = Setup \o Batches
      OBVIOUS
    <2> HIDE DEF S, P
    <2>1. /\ P \in Seq(S) /\ Len(P) = Len(Setup) + Len(Batches)
          /\ \A i \in 1..Len(Setup) : P[i] = Setup[i]
          /\ \A i \in 1..Len(Batches) : P[Len(Setup) + i] = Batches[i]
      <3>1. Setup \in Seq(S) /\ Batches \in Seq(S)
        BY <1>3, <1>7
      <3> QED BY <2>0, <3>1, Concatenated
    <2>2. P \in Seq(S) /\ Len(P) = 3 + NBatches /\ \A i \in 1..3 : P[i] = Setup[i]
      BY <1>3, <1>7, <2>1
    <2>3. \A b \in 1..NBatches : P[3 + b] = BatchLines(b)
      BY <1>3, <1>7, <2>1
    <2> QED BY <2>2, <2>3
  <1>9. Script = P \o Closing
    BY DEF Script
  <1> HIDE DEF S, P
  <1>10. /\ Len(Script) = 8 + NBatches
         /\ \A i \in 1..3 + NBatches : Script[i] = P[i]
         /\ \A i \in 1..5 : Script[3 + NBatches + i] = Closing[i]
    <2>1. /\ Len(Script) = Len(P) + Len(Closing)
          /\ \A i \in 1..Len(P) : Script[i] = P[i]
          /\ \A i \in 1..Len(Closing) : Script[Len(P) + i] = Closing[i]
      <3>1. P \in Seq(S) /\ Closing \in Seq(S)
        BY <1>4, <1>8
      <3> QED BY <1>9, <3>1, Concatenated
    <2>2. /\ Len(Script) = 3 + NBatches + 5
          /\ \A i \in 1..3 + NBatches : Script[i] = P[i]
          /\ \A i \in 1..5 : Script[3 + NBatches + i] = Closing[i]
      BY <1>4, <1>8, <2>1
    <2>3. 3 + NBatches + 5 = 8 + NBatches
      BY <1>5
    <2> QED BY <2>2, <2>3
  <1>11. ASSUME NEW i \in 1..8 + NBatches PROVE OfRank(Script[i], StageRank(i))
    <2>1. CASE i \in 1..3
      <3>1. Script[i] = Setup[i] /\ StageRank(i) = i
        BY <1>5, <1>8, <1>10, <2>1 DEF StageRank
      <3>2. i = 1 \/ i = 2 \/ i = 3
        BY <2>1
      <3> QED BY <1>1, <1>3, <3>1, <3>2
    <2>2. CASE i \in 4..3 + NBatches
      <3> DEFINE b == i - 3
      <3>1. b \in 1..NBatches /\ i = 3 + b /\ i \in 1..3 + NBatches
        BY <1>5, <2>2
      <3>2. StageRank(i) = 4
        BY <1>5, <2>2 DEF StageRank
      <3>3. Script[i] = BatchLines(b)
        BY <1>8, <1>10, <3>1
      <3> HIDE DEF b
      <3> QED BY <1>2, <3>1, <3>2, <3>3
    <2>3. CASE i \in 4 + NBatches..8 + NBatches
      <3> DEFINE c == i - 3 - NBatches
      <3>1. c \in 1..5 /\ i = 3 + NBatches + c
        BY <1>5, <2>3
      <3>2. StageRank(i) = c + 4
        BY <1>5, <2>3 DEF StageRank
      <3>3. Script[i] = Closing[c]
        BY <1>10, <3>1
      <3> HIDE DEF c
      <3>4. c = 1 \/ c = 2 \/ c = 3 \/ c = 4 \/ c = 5
        BY <3>1
      <3>5. OfRank(Closing[c], c + 4)
        BY <1>1, <1>4, <3>4
      <3> QED BY <3>2, <3>3, <3>5
    <2> QED BY <1>5, <2>1, <2>2, <2>3
  <1>12. Script[7 + NBatches] = Do("cksum") /\ Script[8 + NBatches] = Do("final")
    <2>1. 7 + NBatches = 3 + NBatches + 4 /\ 8 + NBatches = 3 + NBatches + 5
      BY <1>5
    <2> QED BY <1>4, <1>10, <2>1
  <1> QED BY <1>10, <1>11, <1>12

\* The kinds follow each other; only the last call has the last kind.
LEMMA RankFacts ==
    ASSUME NEW i \in 1..8 + NBatches
    PROVE  /\ StageRank(i) \in 1..9
           /\ StageRank(i) = 9 <=> i = 8 + NBatches
           /\ i < 8 + NBatches => /\ StageRank(i) <= StageRank(i + 1)
                                  /\ StageRank(i + 1) = 9 => i = 7 + NBatches /\ StageRank(i) = 8
  BY BatchCount DEF StageRank

-----------------------------------------------------------------------------
(* What the wire and the console keep. *)

\* v is w without its first k items; v is w with q behind it.
Drops(v, w, k) == v = SubSeq(w, k + 1, Len(w))
Joins(v, w, q) == v = w \o q

\* Reading, and the guest's taking of a line, leave a suffix.
LEMMA Suffix ==
    ASSUME NEW S, NEW w \in Seq(S), NEW k \in 0..Len(w), NEW v, Drops(v, w, k)
    PROVE  /\ v \in Seq(S) /\ ToSet(v) \subseteq ToSet(w)
           /\ Sorted(w) => Sorted(v)
           /\ \A i \in DOMAIN v : i + k \in DOMAIN w /\ v[i] = w[i + k]
  <1>1. /\ Len(w) \in Nat /\ k \in Nat /\ Len(w) - k \in Nat /\ DOMAIN w = 1..Len(w)
        /\ v = SubSeq(w, k + 1, Len(w))
    BY DEF Drops
  <1>2. v \in Seq(S)
    <2>1. \A i \in k + 1..Len(w) : w[i] \in S
      BY <1>1
    <2> QED BY <1>1, <2>1
  <1>3. DOMAIN v = 1..Len(w) - k /\ \A i \in 1..Len(w) - k : v[i] = w[i + k]
    BY <1>1
  <1>4. \A i \in DOMAIN v : i \in Nat /\ i + k \in DOMAIN w /\ v[i] = w[i + k]
    BY <1>1, <1>3
  <1>5. ToSet(v) \subseteq ToSet(w)
    BY <1>4 DEF ToSet
  <1>6. ASSUME Sorted(w) PROVE Sorted(v)
    <2> SUFFICES ASSUME NEW i \in DOMAIN v, NEW j \in DOMAIN v, i < j, v[i] \in UploadLines, v[j] \in UploadLines
                 PROVE  Rank(v[i]) <= Rank(v[j])
      BY DEF Sorted
    <2>1. i + k < j + k
      BY <1>1, <1>4
    <2> QED BY <1>4, <1>6, <2>1 DEF Sorted
  <1> QED BY <1>2, <1>4, <1>5, <1>6

\* Behind the first line are lines of its kind and later ones.
LEMMA BehindHead ==
    ASSUME NEW S, NEW w \in Seq(S), NEW k \in 1..Len(w), NEW v, Drops(v, w, k),
           Sorted(w), Head(w) \in UploadLines
    PROVE  From(ToSet(v), Rank(Head(w)))
  <1>1. Head(w) = w[1] /\ 1 \in DOMAIN w /\ k \in 0..Len(w) /\ k \in Nat /\ Len(w) \in Nat
    OBVIOUS
  <1>2. \A i \in DOMAIN v : i + k \in DOMAIN w /\ v[i] = w[i + k]
    BY <1>1, Suffix
  <1>3. v \in Seq(S)
    BY <1>1, Suffix
  <1>4. \A i \in DOMAIN v : i \in Nat \ {0}
    BY <1>3
  <1>5. \A i \in DOMAIN v : 1 < i + k
    BY <1>4
  <1> SUFFICES ASSUME NEW i \in DOMAIN v, v[i] \in UploadLines PROVE Rank(w[1]) <= Rank(v[i])
    BY <1>1 DEF From, ToSet
  <1> QED BY <1>1, <1>2, <1>5 DEF Sorted

LEMMA TailIsSuffix ==
    ASSUME NEW S, NEW w \in Seq(S), w # <<>>
    PROVE  1 \in 1..Len(w) /\ Tail(w) = SubSeq(w, 2, Len(w))
  OBVIOUS

\* A concatenation holds what its parts hold.
LEMMA Joined ==
    ASSUME NEW S, NEW w \in Seq(S), NEW q \in Seq(S), NEW v, Joins(v, w, q)
    PROVE  /\ v \in Seq(S) /\ ToSet(v) = ToSet(w) \cup ToSet(q)
           /\ Len(w) \in Nat /\ DOMAIN v = 1..Len(v) /\ DOMAIN w = 1..Len(w)
           /\ \A i \in 1..Len(w) : v[i] = w[i]
           /\ \A i \in 1..Len(v) : i \in 1..Len(w) \/ v[i] \in ToSet(q)
  <1>1. /\ v \in Seq(S) /\ Len(v) = Len(w) + Len(q) /\ Len(w) \in Nat /\ Len(q) \in Nat
        /\ \A i \in 1..Len(w) : v[i] = w[i]
        /\ \A i \in 1..Len(q) : v[Len(w) + i] = q[i]
        /\ DOMAIN v = 1..Len(v) /\ DOMAIN w = 1..Len(w) /\ DOMAIN q = 1..Len(q)
    BY DEF Joins
  <1>2. \A i \in 1..Len(v) : i \in 1..Len(w) \/ (i - Len(w) \in 1..Len(q) /\ v[i] = q[i - Len(w)])
    <2> SUFFICES ASSUME NEW i \in 1..Len(v), i \notin 1..Len(w)
                 PROVE  i - Len(w) \in 1..Len(q) /\ v[i] = q[i - Len(w)]
      OBVIOUS
    <2>1. i - Len(w) \in 1..Len(q) /\ i = Len(w) + (i - Len(w))
      BY <1>1
    <2> QED BY <1>1, <2>1
  <1>3. \A i \in 1..Len(q) : Len(w) + i \in 1..Len(v)
    BY <1>1
  <1>4. \A i \in 1..Len(w) : i \in 1..Len(v)
    BY <1>1
  <1>5. ToSet(v) = ToSet(w) \cup ToSet(q)
    <2>1. \A x \in ToSet(v) : x \in ToSet(w) \cup ToSet(q)
      BY <1>1, <1>2 DEF ToSet
    <2>2. \A x \in ToSet(w) \cup ToSet(q) : x \in ToSet(v)
      BY <1>1, <1>3, <1>4 DEF ToSet
    <2> QED BY <2>1, <2>2
  <1>6. \A i \in 1..Len(v) : i \in 1..Len(w) \/ v[i] \in ToSet(q)
    BY <1>1, <1>2 DEF ToSet
  <1> QED BY <1>1, <1>5, <1>6

\* What is sent goes behind what was sent before.
LEMMA Sent ==
    ASSUME NEW S, NEW w \in Seq(S), NEW q \in Seq(S), NEW v, Joins(v, w, q), NEW r \in Nat,
           Sorted(w), UpTo(ToSet(w), r), \A x \in ToSet(q) \cap UploadLines : Rank(x) = r
    PROVE  v \in Seq(S) /\ ToSet(v) = ToSet(w) \cup ToSet(q) /\ Sorted(v)
  <1>1. /\ v \in Seq(S) /\ ToSet(v) = ToSet(w) \cup ToSet(q)
        /\ Len(w) \in Nat /\ DOMAIN v = 1..Len(v) /\ DOMAIN w = 1..Len(w)
        /\ \A i \in 1..Len(w) : v[i] = w[i]
        /\ \A i \in 1..Len(v) : i \in 1..Len(w) \/ v[i] \in ToSet(q)
    BY Joined
  <1>2. Sorted(v)
    <2> SUFFICES ASSUME NEW i \in DOMAIN v, NEW j \in DOMAIN v, i < j, v[i] \in UploadLines, v[j] \in UploadLines
                 PROVE  Rank(v[i]) <= Rank(v[j])
      BY DEF Sorted
    <2>1. CASE j \in 1..Len(w)
      <3>1. i \in 1..Len(w)
        BY <1>1, <2>1
      <3> QED BY <1>1, <2>1, <3>1 DEF Sorted
    <2>2. CASE j \notin 1..Len(w)
      <3>1. v[j] \in ToSet(q)
        BY <1>1, <2>2
      <3>2. v[i] \in ToSet(w) \/ v[i] \in ToSet(q)
        BY <1>1 DEF ToSet
      <3> QED BY <3>1, <3>2 DEF UpTo
    <2> QED BY <2>1, <2>2
  <1> QED BY <1>1, <1>2

-----------------------------------------------------------------------------
(* The steps. *)

\* A witness in the output is of the current kind or an earlier one.
LEMMA PrintedRank ==
    ASSUME UploadInv
    PROVE  /\ StageRank(stage) \in 1..9
           /\ Printed("cksum") => 8 <= StageRank(stage)
           /\ Printed("final") => StageRank(stage) = 9
  <1>1. StageRank(stage) \in 1..9
    BY RankFacts, ScriptRank DEF UploadInv, UploadType, Stages
  <1>2. \A x \in ToSet(console) : x \in UploadLines \cup {Prompt}
    BY DEF UploadInv, UploadType, ToSet
  <1>3. Prompt.op # "cksum" /\ Prompt.op # "final"
    BY LineFacts DEF Order
  <1>4. \A x \in ToSet(console) : x.op \in {"cksum", "final"} => x \in UploadLines
    BY <1>2, <1>3
  <1>5. \A x \in ToSet(console) \cap UploadLines : Rank(x) <= StageRank(stage)
    BY DEF UploadInv, UpTo
  <1>6. Printed("cksum") => 8 <= StageRank(stage)
    BY <1>4, <1>5, LineFacts DEF Printed
  <1>7. Printed("final") => 9 <= StageRank(stage)
    BY <1>4, <1>5, LineFacts DEF Printed
  <1> QED BY <1>1, <1>6, <1>7

\* Sending, reading and taking leave the files and what is attested alone.
LEMMA QuietKeeps ==
    ASSUME UploadInv, UploadType', stage' = stage, at' = "done" => at = "done", Sorted(wire'),
           UNCHANGED files, UNCHANGED strayed, ToSet(console') \subseteq ToSet(console) \cup {Prompt},
           \A l \in ToSet(wire') \cap UploadLines : l \in ToSet(wire) \/ Rank(l) = StageRank(stage)
    PROVE  UploadInv'
  <1> DEFINE sr == StageRank(stage)
  <1>1. sr \in 1..9 /\ StageRank(stage)' = sr
    BY PrintedRank DEF StageRank
  <1>2. Prompt \notin UploadLines /\ Prompt.op # "cksum" /\ Prompt.op # "final"
    BY LineFacts DEF Order
  <1>3. (Printed("cksum")' => Printed("cksum")) /\ (Printed("final")' => Printed("final"))
    BY <1>2 DEF Printed
  <1>4. UNCHANGED target /\ (Cleaned => Cleaned')
    BY DEF files, Cleaned, EmptyDir, Slots
  <1>5. \A r \in 1..9 : r <= sr /\ From(ToSet(wire), r) => From(ToSet(wire'), r)
    BY <1>1 DEF From
  <1>6. UpTo(ToSet(wire), sr) /\ UpTo(ToSet(console), sr)
    BY DEF UploadInv
  <1>7. UpTo(ToSet(wire'), sr)
    <2> HIDE DEF sr
    <2>1. \A l \in ToSet(wire') \cap UploadLines : l \in ToSet(wire) \/ Rank(l) = sr
      BY DEF sr
    <2> QED BY <1>1, <1>6, <2>1 DEF UpTo
  <1>8. UpTo(ToSet(console'), sr)
    BY <1>2, <1>6 DEF UpTo
  <1>9. \A x \in ToSet(console') \cap UploadLines : From(ToSet(wire'), Rank(x))
    <2> SUFFICES ASSUME NEW x \in ToSet(console') \cap UploadLines PROVE From(ToSet(wire'), Rank(x))
      OBVIOUS
    <2>1. x \in ToSet(console) \cap UploadLines
      BY <1>2
    <2>2. From(ToSet(wire), Rank(x)) /\ Rank(x) <= sr
      BY <2>1, <1>6 DEF UploadInv, UpTo
    <2>3. Rank(x) \in 1..9
      BY LineFacts
    <2> QED BY <1>5, <2>2, <2>3
  <1>10. Printed("cksum")' \/ sr = 9 => target' = "good" /\ From(ToSet(wire'), 8)
    BY <1>1, <1>3, <1>4, <1>5, PrintedRank DEF UploadInv
  <1>11. Printed("final")' \/ at' = "done" => target' = "good" /\ Cleaned' /\ From(ToSet(wire'), 9)
    BY <1>1, <1>3, <1>4, <1>5, PrintedRank DEF UploadInv
  <1>12. at' = "done" => sr = 9
    BY DEF UploadInv
  <1> HIDE DEF sr
  <1> QED BY <1>1, <1>7, <1>8, <1>9, <1>10, <1>11, <1>12 DEF UploadInv

\* A line was executed to its end or half-way: the hypotheses say what it may
\* leave of the file and of the cleaning, whoever waits for what.
LEMMA RunKeeps ==
    ASSUME UploadInv, UploadType', UNCHANGED <<stage, at>>, Sorted(wire'),
           NEW l \in ToSet(wire) \cap UploadLines, NEW answers \in BOOLEAN,
           ToSet(console') \subseteq ToSet(console) \cup {Prompt} \cup (IF answers THEN {l} ELSE {}),
           ToSet(wire') \subseteq ToSet(wire), From(ToSet(wire'), Rank(l)),
           8 <= Rank(l) /\ target = "good" => target' = "good",
           Rank(l) = 8 /\ answers => target' = "good",
           Rank(l) = 9 /\ (answers \/ Cleaned) => Cleaned'
    PROVE  UploadInv'
  <1> DEFINE sr == StageRank(stage)
  <1>1. sr \in 1..9 /\ StageRank(stage)' = sr
    BY PrintedRank DEF StageRank
  <1>2. Prompt \notin UploadLines /\ Prompt.op # "cksum" /\ Prompt.op # "final"
    BY LineFacts DEF Order
  <1>3. Rank(l) \in 1..9 /\ Rank(l) <= sr /\ (l.op = "cksum" <=> Rank(l) = 8) /\ (l.op = "final" <=> Rank(l) = 9)
    BY LineFacts DEF UploadInv, UpTo
  <1>4. Printed("cksum")' => Printed("cksum") \/ (answers /\ Rank(l) = 8)
    BY <1>2, <1>3 DEF Printed
  <1>5. Printed("final")' => Printed("final") \/ (answers /\ Rank(l) = 9)
    BY <1>2, <1>3 DEF Printed
  <1>6. \A r \in 1..9 : From(ToSet(wire), r) => r <= Rank(l) /\ From(ToSet(wire'), r)
    BY DEF From
  <1>7. UpTo(ToSet(wire'), sr) /\ UpTo(ToSet(console'), sr)
    BY <1>2, <1>3 DEF UploadInv, UpTo
  <1>8. \A x \in ToSet(console') \cap UploadLines : From(ToSet(wire'), Rank(x))
    <2> SUFFICES ASSUME NEW x \in ToSet(console') \cap UploadLines, x # l PROVE From(ToSet(wire'), Rank(x))
      OBVIOUS
    <2>1. x \in ToSet(console) \cap UploadLines
      BY <1>2
    <2>2. From(ToSet(wire), Rank(x)) /\ Rank(x) \in 1..9
      BY <2>1, LineFacts DEF UploadInv
    <2> QED BY <1>6, <2>2
  <1>9. Printed("cksum")' \/ sr = 9 => target' = "good" /\ From(ToSet(wire'), 8)
    <2>1. CASE Printed("cksum") \/ sr = 9
      <3>1. target = "good" /\ From(ToSet(wire), 8)
        BY <2>1 DEF UploadInv
      <3> QED BY <3>1, <1>6
    <2>2. CASE answers /\ Rank(l) = 8
      BY <2>2
    <2> QED BY <1>4, <2>1, <2>2
  <1>10. Printed("final")' \/ at' = "done" => target' = "good" /\ Cleaned' /\ From(ToSet(wire'), 9)
    <2>1. CASE Printed("final") \/ at = "done"
      <3>1. target = "good" /\ Cleaned /\ From(ToSet(wire), 9)
        BY <2>1 DEF UploadInv
      <3>2. 9 <= Rank(l) /\ From(ToSet(wire'), 9)
        BY <3>1, <1>6
      <3>3. Rank(l) = 9
        BY <3>2, <1>3
      <3> QED BY <3>1, <3>2, <3>3
    <2>2. CASE answers /\ Rank(l) = 9
      <3>1. sr = 9
        BY <1>1, <1>3, <2>2
      <3>2. target' = "good"
        BY <3>1, <1>9
      <3> QED BY <2>2, <3>2
    <2> QED BY <1>5, <2>1, <2>2
  <1>11. at' = "done" => sr = 9
    BY DEF UploadInv
  <1> HIDE DEF sr
  <1> QED BY <1>1, <1>7, <1>8, <1>9, <1>10, <1>11 DEF UploadInv

\* What the shell does to the files when it runs a line, or stops half-way.
LEMMA RunsFacts ==
    ASSUME NEW l \in UploadLines, NEW answers \in BOOLEAN, Runs(l, answers)
    PROVE  /\ 8 <= Rank(l) /\ target = "good" => target' = "good"
           /\ Rank(l) = 8 /\ answers => target' = "good"
           /\ Rank(l) = 9 => Cleaned'
  <1>1. Rank(l) \in 1..9 /\ (l.op = "cksum" <=> Rank(l) = 8) /\ (l.op = "final" <=> Rank(l) = 9)
    BY LineFacts
  <1>2. CASE Rank(l) = 8
    <2>1. l.op = "cksum"
      BY <1>1, <1>2
    <2>2. answers = (target = "good") /\ UNCHANGED files
      BY <2>1 DEF Runs
    <2>3. target' = target
      BY <2>2 DEF files
    <2>4. answers => target = "good"
      BY <2>2
    <2>5. Rank(l) # 9
      BY <1>2
    <2> QED BY <2>3, <2>4, <2>5
  <1>3. CASE Rank(l) = 9
    <2>1. l.op = "final"
      BY <1>1, <1>3
    <2>2. encoded' = "none" /\ parts' = EmptyDir /\ partdir' = FALSE /\ UNCHANGED target
      BY <2>1 DEF Runs
    <2> QED BY <1>3, <2>2 DEF Cleaned, EmptyDir, Slots
  <1>4. CASE Rank(l) \in 1..7
    BY <1>4
  <1> QED BY <1>1, <1>2, <1>3, <1>4

LEMMA StoppedFacts ==
    ASSUME NEW l \in UploadLines, Stopped(l)
    PROVE  /\ 8 <= Rank(l) /\ target = "good" => target' = "good"
           /\ Rank(l) = 9 /\ Cleaned => Cleaned'
  <1>1. Rank(l) \in 1..9 /\ (l.op = "cksum" <=> Rank(l) = 8) /\ (l.op = "final" <=> Rank(l) = 9)
    BY LineFacts
  <1>2. CASE Rank(l) = 8
    <2>1. l.op = "cksum"
      BY <1>1, <1>2
    <2> QED BY <1>2, <2>1 DEF Stopped
  <1>3. CASE Rank(l) = 9
    <2>1. l.op = "final"
      BY <1>1, <1>3
    <2>2. encoded' = "none" /\ parts' = EmptyDir /\ UNCHANGED <<partdir, target>>
      BY <2>1 DEF Stopped
    <2> QED BY <1>3, <2>2 DEF Cleaned, EmptyDir, Slots
  <1>4. CASE Rank(l) \in 1..7
    BY <1>4
  <1> QED BY <1>1, <1>2, <1>3, <1>4

LEMMA StraysFacts ==
    ASSUME NEW l \in UploadLines, NEW answers \in BOOLEAN, Strays(l, answers), strayed' = strayed \cup {l.op}
    PROVE  /\ 8 <= Rank(l) /\ target = "good" => target' = "good"
           /\ Rank(l) # 8
           /\ Rank(l) = 9 => Cleaned'
  <1>1. Rank(l) \in 1..9 /\ (l.op = "cksum" <=> Rank(l) = 8) /\ (l.op = "final" <=> Rank(l) = 9)
    BY LineFacts
  <1>2. l.op # "cksum"
    BY DEF Strays
  <1>3. CASE Rank(l) = 9
    <2>1. l.op = "final"
      BY <1>1, <1>3
    <2>2. parts' = EmptyDir /\ partdir' = FALSE /\ UNCHANGED target
      BY <2>1 DEF Strays
    <2>3. "final" \in strayed'
      BY <2>1
    <2> QED BY <1>3, <2>2, <2>3 DEF Cleaned, EmptyDir, Slots
  <1>4. CASE Rank(l) \in 1..7
    BY <1>4
  <1> QED BY <1>1, <1>2, <1>3, <1>4

\* Steps that only read.
LEMMA ReadKeeps ==
    ASSUME UploadInv, NEW k \in 0..Len(console), Read(k), stage' = stage, at' = "done" => at = "done",
           UNCHANGED files, UNCHANGED strayed, wire' = wire \/ wire' = Append(wire, CtrlC) \/ wire' = wire \o Lines
    PROVE  UploadInv'
  <1> DEFINE S == UploadLines \cup {Blank, CtrlC}
             C == UploadLines \cup {Prompt}
  <1>1. wire \in Seq(S) /\ console \in Seq(C) /\ stage \in Stages /\ Sorted(wire)
        /\ UpTo(ToSet(wire), StageRank(stage))
    BY DEF UploadInv, UploadType
  <1>2. StageRank(stage) \in Nat /\ OfRank(Lines, StageRank(stage))
    BY <1>1, PrintedRank, ScriptRank DEF Stages, Lines
  <1>3. console' \in Seq(C) /\ ToSet(console') \subseteq ToSet(console)
    <2>1. Drops(console', console, k)
      BY DEF Read, Drops
    <2> HIDE DEF C
    <2> QED BY <1>1, <2>1, Suffix
  <1>4. /\ wire' \in Seq(S) /\ Sorted(wire')
        /\ \A l \in ToSet(wire') \cap UploadLines : l \in ToSet(wire) \/ Rank(l) = StageRank(stage)
    <2>1. CASE wire' = wire
      BY <1>1, <2>1
    <2>2. CASE wire' = Append(wire, CtrlC)
      <3> DEFINE q == <<CtrlC>>
      <3>1. wire' = wire \o q /\ q \in Seq(S) /\ ToSet(q) = {CtrlC}
        BY <1>1, <2>2 DEF ToSet
      <3>2. CtrlC \notin UploadLines
        BY LineFacts
      <3> HIDE DEF q, S
      <3>3. wire' \in Seq(S) /\ ToSet(wire') = ToSet(wire) \cup ToSet(q) /\ Sorted(wire')
        <4>1. \A x \in ToSet(q) \cap UploadLines : Rank(x) = StageRank(stage)
          BY <3>1, <3>2
        <4>2. Joins(wire', wire, q) /\ q \in Seq(S)
          BY <3>1 DEF Joins
        <4>3. StageRank(stage) \in Nat
          BY <1>2
        <4> QED BY <1>1, <4>1, <4>2, <4>3, Sent
      <3> QED BY <3>1, <3>2, <3>3
    <2>3. CASE wire' = wire \o Lines
      <3>1. Lines \in Seq(S) /\ \A x \in ToSet(Lines) : Rank(x) = StageRank(stage)
        BY <1>2 DEF OfRank, ToSet
      <3> HIDE DEF S
      <3>2. wire' \in Seq(S) /\ ToSet(wire') = ToSet(wire) \cup ToSet(Lines) /\ Sorted(wire')
        <4>1. \A x \in ToSet(Lines) \cap UploadLines : Rank(x) = StageRank(stage)
          BY <3>1
        <4>2. Joins(wire', wire, Lines) /\ Lines \in Seq(S)
          BY <2>3, <3>1 DEF Joins
        <4>3. StageRank(stage) \in Nat
          BY <1>2
        <4> QED BY <1>1, <4>1, <4>2, <4>3, Sent
      <3> QED BY <3>1, <3>2
    <2> QED BY <2>1, <2>2, <2>3
  <1>5. UploadType'
    BY <1>1, <1>3, <1>4 DEF UploadType, Stages
  <1> QED BY <1>3, <1>4, <1>5, QuietKeeps

\* Every witness was read: the next call, or the end.
LEMMA WitnessedKeeps ==
    ASSUME UploadInv, Witnessed
    PROVE  UploadInv'
  <1>1. /\ stage \in 1..8 + NBatches /\ StageRank(stage) \in 1..9 /\ Len(Script) = 8 + NBatches
        /\ console \in Seq(UploadLines \cup {Prompt}) /\ NBatches \in Nat
    BY ScriptRank, PrintedRank, BatchCount DEF UploadInv, UploadType, Stages
  <1>2. PICK k \in 1..Len(console) : Answered(k) /\ Read(k)
    BY DEF Witnessed
  <1>3. console' \in Seq(UploadLines \cup {Prompt}) /\ ToSet(console') \subseteq ToSet(console)
    <2>1. k \in 0..Len(console)
      BY <1>1
    <2> DEFINE C == UploadLines \cup {Prompt}
    <2>2. console \in Seq(C)
      BY <1>1
    <2> HIDE DEF C
    <2>3. Drops(console', console, k)
      BY <1>2 DEF Read, Drops
    <2>4. console' \in Seq(C) /\ ToSet(console') \subseteq ToSet(console)
      BY <2>1, <2>2, <2>3, Suffix
    <2> QED BY <2>4 DEF C
  <1>4. ToSet(Lines) \subseteq ToSet(console)
    <2>1. Among(k) \subseteq ToSet(console)
      <3> DEFINE c == SubSeq(console, 1, k)
      <3>1. DOMAIN console = 1..Len(console) /\ Len(console) \in Nat /\ k \in Nat
        BY <1>1
      <3>2. \A i \in DOMAIN c : i \in DOMAIN console /\ c[i] = console[i]
        BY <1>1, <3>1
      <3> QED BY <3>2 DEF Among, ToSet
    <2> QED BY <1>2, <2>1 DEF Answered
  <1>5. UNCHANGED <<wire, target>> /\ (Cleaned' <=> Cleaned)
    BY DEF Witnessed, files, Cleaned, EmptyDir, Slots
  <1>6. (Printed("cksum")' => Printed("cksum")) /\ (Printed("final")' => Printed("final"))
    BY <1>3 DEF Printed
  <1>7. ASSUME NEW op, Script[stage] = Do(op) PROVE Printed(op)
    <2>1. Item(op) \in ToSet(Lines) /\ Item(op).op = op
      BY <1>7 DEF Lines, Do, Item, ToSet
    <2> QED BY <1>4, <2>1 DEF Printed
  <1>8. CASE stage = 8 + NBatches
    <2>1. at' = "done" /\ stage' = stage
      BY <1>1, <1>8 DEF Witnessed
    <2>2. Printed("final") /\ StageRank(stage) = 9
      BY <1>1, <1>7, <1>8, ScriptRank, RankFacts
    <2>3. target = "good" /\ Cleaned /\ From(ToSet(wire), 9) /\ From(ToSet(wire), 8)
      BY <2>2 DEF UploadInv
    <2>4. StageRank(stage)' = StageRank(stage)
      BY <2>1 DEF StageRank
    <2>5. UploadType'
      BY <1>3, <1>5, <2>1 DEF UploadInv, UploadType, Stages
    <2>6. UpTo(ToSet(console'), StageRank(stage)) /\ \A x \in ToSet(console') \cap UploadLines : From(ToSet(wire), Rank(x))
      BY <1>3 DEF UploadInv, UpTo
    <2> QED BY <1>5, <2>1, <2>2, <2>3, <2>4, <2>5, <2>6 DEF UploadInv
  <1>9. CASE stage < 8 + NBatches
    <2>1. at' = "handshake" /\ stage' = stage + 1 /\ stage + 1 \in 1..8 + NBatches
      BY <1>1, <1>9 DEF Witnessed
    <2>2. /\ StageRank(stage) <= StageRank(stage + 1) /\ StageRank(stage + 1) \in 1..9
          /\ StageRank(stage + 1) = 9 => stage = 7 + NBatches
      BY <1>1, <1>9, <2>1, RankFacts
    <2>3. StageRank(stage)' = StageRank(stage + 1)
      BY <2>1 DEF StageRank
    <2>4. UploadType'
      BY <1>1, <1>3, <1>5, <2>1, ScriptRank DEF UploadInv, UploadType, Stages
    <2>5. UpTo(ToSet(wire), StageRank(stage)) /\ UpTo(ToSet(console), StageRank(stage))
      BY DEF UploadInv
    <2>6. ASSUME NEW x \in UploadLines, Rank(x) <= StageRank(stage) PROVE Rank(x) <= StageRank(stage + 1)
      <3>1. Rank(x) \in 1..9
        BY LineFacts
      <3> QED BY <1>1, <2>2, <2>6, <3>1
    <2>7. UpTo(ToSet(wire), StageRank(stage + 1)) /\ UpTo(ToSet(console'), StageRank(stage + 1))
      BY <1>3, <2>5, <2>6 DEF UpTo
    <2>8. \A x \in ToSet(console') \cap UploadLines : From(ToSet(wire), Rank(x))
      BY <1>3 DEF UploadInv
    <2>9. Printed("cksum")' \/ StageRank(stage + 1) = 9 => target = "good" /\ From(ToSet(wire), 8)
      <3>1. StageRank(stage + 1) = 9 => Printed("cksum")
        BY <2>2, <1>7, ScriptRank
      <3> QED BY <3>1, <1>6 DEF UploadInv
    <2>10. Printed("final")' => target = "good" /\ Cleaned /\ From(ToSet(wire), 9)
      BY <1>6 DEF UploadInv
    <2> QED BY <1>5, <2>1, <2>3, <2>4, <2>7, <2>8, <2>9, <2>10 DEF UploadInv
  <1> QED BY <1>1, <1>8, <1>9

\* What the guest takes off the wire and prints.
LEMMA TakenFacts ==
    ASSUME UploadInv, NEW k \in 1..Len(wire), Drops(wire', wire, k),
           UNCHANGED stage, NEW out \in Seq(UploadLines \cup {Prompt}), Joins(console', console, out)
    PROVE  /\ UploadType' /\ Sorted(wire') /\ ToSet(wire') \subseteq ToSet(wire)
           /\ ToSet(console') = ToSet(console) \cup ToSet(out)
           /\ Head(wire) \in ToSet(wire)
           /\ Head(wire) \in UploadLines => From(ToSet(wire'), Rank(Head(wire)))
  <1> DEFINE S == UploadLines \cup {Blank, CtrlC}
             C == UploadLines \cup {Prompt}
  <1>1. wire \in Seq(S) /\ console \in Seq(C) /\ out \in Seq(C) /\ Sorted(wire) /\ stage \in Stages
    BY DEF UploadInv, UploadType
  <1>2. k \in 0..Len(wire) /\ Head(wire) = wire[1] /\ 1 \in DOMAIN wire
    BY <1>1
  <1>3. Head(wire) \in ToSet(wire)
    BY <1>2 DEF ToSet
  <1> HIDE DEF S, C
  <1>4. wire' \in Seq(S) /\ ToSet(wire') \subseteq ToSet(wire) /\ Sorted(wire')
    BY <1>1, <1>2, Suffix
  <1>5. Head(wire) \in UploadLines => From(ToSet(wire'), Rank(Head(wire)))
    BY <1>1, BehindHead
  <1>6. console' \in Seq(C) /\ ToSet(console') = ToSet(console) \cup ToSet(out)
    BY <1>1, Joined
  <1>7. UploadType'
    BY <1>1, <1>4, <1>6 DEF UploadType, Stages, S, C
  <1> QED BY <1>3, <1>4, <1>5, <1>6, <1>7

LEMMA WireHead ==
    ASSUME UploadInv, wire # <<>>, IsLine(Head(wire))
    PROVE  Head(wire) \in UploadLines
  <1>1. wire \in Seq(UploadLines \cup {Blank, CtrlC})
    BY DEF UploadInv, UploadType
  <1>2. Head(wire) \in UploadLines \cup {Blank, CtrlC}
    BY <1>1
  <1> QED BY <1>2 DEF IsLine

LEMMA TailFacts ==
    ASSUME UploadInv, wire # <<>>
    PROVE  1 \in 1..Len(wire) /\ Drops(Tail(wire), wire, 1)
  <1>1. wire \in Seq(UploadLines \cup {Blank, CtrlC})
    BY DEF UploadInv, UploadType
  <1> QED BY <1>1, TailIsSuffix DEF Drops

LEMMA Outputs ==
    /\ ToSet(<<Prompt>>) = {Prompt} /\ <<Prompt>> \in Seq(UploadLines \cup {Prompt})
    /\ \A l \in UploadLines : /\ ToSet(<<l, Prompt>>) = {l, Prompt}
                              /\ <<l, Prompt>> \in Seq(UploadLines \cup {Prompt})
    /\ ToSet(<<>>) = {} /\ <<>> \in Seq(UploadLines \cup {Prompt})
  BY DEF ToSet

LEMMA HostKeeps ==
    ASSUME UploadInv, Host PROVE UploadInv'
  <1>1. console \in Seq(UploadLines \cup {Prompt}) /\ Len(console) \in Nat /\ 0 \in 0..Len(console)
    BY DEF UploadInv, UploadType
  <1>2. SubSeq(console, 1, Len(console)) = console
    BY <1>1
  <1>3. console' = console => Read(0)
    BY <1>2 DEF Read
  <1>4. CASE Handshake
    <2>1. wire' = Append(wire, Blank) /\ UNCHANGED <<stage, console, files, strayed>> /\ at' # "done"
      BY <1>4 DEF Handshake
    <2> DEFINE S == UploadLines \cup {Blank, CtrlC}
               q == <<Blank>>
    <2>2. wire \in Seq(S) /\ Sorted(wire) /\ UpTo(ToSet(wire), StageRank(stage))
      BY DEF UploadInv, UploadType
    <2>3. wire' = wire \o q /\ q \in Seq(S) /\ ToSet(q) = {Blank}
      BY <2>1, <2>2 DEF ToSet
    <2>4. Blank \notin UploadLines
      BY LineFacts
    <2>5. \A x \in ToSet(q) \cap UploadLines : Rank(x) = StageRank(stage)
      BY <2>3, <2>4
    <2>6. StageRank(stage) \in Nat
      BY PrintedRank
    <2>7. Joins(wire', wire, q) /\ q \in Seq(S)
      BY <2>3 DEF Joins
    <2> HIDE DEF S, q
    <2>8. wire' \in Seq(S) /\ ToSet(wire') = ToSet(wire) \cup ToSet(q) /\ Sorted(wire')
      BY <2>2, <2>5, <2>6, <2>7, Sent
    <2>9. UploadType'
      BY <2>1, <2>8 DEF UploadInv, UploadType, S, Stages
    <2>10. \A l \in ToSet(wire') \cap UploadLines : l \in ToSet(wire)
      BY <2>3, <2>4, <2>8
    <2> QED BY <2>1, <2>8, <2>9, <2>10, QuietKeeps
  <1>5. CASE PromptSeen
    <2>1. PICK k \in 1..Len(console) : Read(k)
      BY <1>5 DEF PromptSeen
    <2>2. k \in 0..Len(console)
      BY <1>1
    <2>3. wire' = wire \o Lines /\ UNCHANGED <<stage, files, strayed>> /\ at' # "done"
      BY <1>5 DEF PromptSeen
    <2> QED BY <2>1, <2>2, <2>3, ReadKeeps
  <1>6. CASE PromptMissing
    <2>1. PICK k \in 0..Len(console) : Read(k)
      BY <1>6 DEF PromptMissing
    <2>2. UNCHANGED <<wire, stage, files, strayed>> /\ at' # "done"
      BY <1>6 DEF PromptMissing
    <2> QED BY <2>1, <2>2, ReadKeeps
  <1>7. CASE Witnessed
    BY <1>7, WitnessedKeeps
  <1>8. CASE WitnessMissing
    <2>1. PICK k \in 0..Len(console) : Read(k)
      BY <1>8 DEF WitnessMissing
    <2>2. UNCHANGED <<stage, files, strayed>> /\ at' # "done" /\ (wire' = wire \/ wire' = Append(wire, CtrlC))
      BY <1>8 DEF WitnessMissing, Recovery
    <2> QED BY <2>1, <2>2, ReadKeeps
  <1>9. CASE Closed
    <2>1. UNCHANGED <<wire, console, stage, files, strayed>> /\ at' # "done"
      BY <1>9 DEF Closed
    <2> QED BY <1>1, <1>3, <2>1, ReadKeeps
  <1> QED BY <1>4, <1>5, <1>6, <1>7, <1>8, <1>9 DEF Host

\* Whatever of a line the guest takes without running it.
LEMMA SilentKeeps ==
    ASSUME UploadInv, NEW k \in 1..Len(wire), Drops(wire', wire, k),
           UNCHANGED <<stage, at, files, strayed>>, NEW out \in {<<>>, <<Prompt>>}, Joins(console', console, out)
    PROVE  UploadInv'
  <1>1. out \in Seq(UploadLines \cup {Prompt}) /\ ToSet(out) \subseteq {Prompt}
    BY Outputs
  <1>2. /\ UploadType' /\ Sorted(wire') /\ ToSet(wire') \subseteq ToSet(wire)
        /\ ToSet(console') = ToSet(console) \cup ToSet(out)
    BY <1>1, TakenFacts
  <1> QED BY <1>1, <1>2, QuietKeeps

LEMMA GuestKeeps ==
    ASSUME UploadInv, Guest PROVE UploadInv'
  <1>1. CASE LineRuns
    <2>1. wire # <<>> /\ IsLine(Head(wire)) /\ UNCHANGED <<stage, at>> /\ wire' = Tail(wire)
      BY <1>1 DEF LineRuns, Taken
    <2> DEFINE l == Head(wire)
    <2>2. l \in UploadLines
      BY <2>1, WireHead
    <2>3. PICK answers \in BOOLEAN : /\ Runs(l, answers)
                                     /\ \/ Says(IF answers THEN <<l, Prompt>> ELSE <<Prompt>>)
                                        \/ answers /\ Says(<<Prompt>>)
      BY <1>1 DEF LineRuns
    <2>4. PICK out \in {<<l, Prompt>>, <<Prompt>>} : Joins(console', console, out) /\ (out = <<l, Prompt>> => answers)
      <3>1. CASE answers
        BY <2>3, <3>1 DEF Says, Joins
      <3>2. CASE ~answers
        BY <2>3, <3>2 DEF Says, Joins
      <3> QED BY <3>1, <3>2
    <2>5. out \in Seq(UploadLines \cup {Prompt}) /\ ToSet(out) \subseteq {Prompt} \cup (IF answers THEN {l} ELSE {})
      BY <2>2, <2>4, Outputs
    <2>6. 1 \in 1..Len(wire) /\ Drops(wire', wire, 1)
      BY <2>1, TailFacts
    <2>7. /\ UploadType' /\ Sorted(wire') /\ ToSet(wire') \subseteq ToSet(wire)
          /\ ToSet(console') = ToSet(console) \cup ToSet(out)
          /\ l \in ToSet(wire) /\ From(ToSet(wire'), Rank(l))
      BY <2>1, <2>2, <2>4, <2>5, <2>6, TakenFacts
    <2>8. /\ 8 <= Rank(l) /\ target = "good" => target' = "good"
          /\ Rank(l) = 8 /\ answers => target' = "good"
          /\ Rank(l) = 9 => Cleaned'
      BY <2>2, <2>3, RunsFacts
    <2>9. ToSet(console') \subseteq ToSet(console) \cup {Prompt} \cup (IF answers THEN {l} ELSE {})
      BY <2>5, <2>7
    <2>10. l \in ToSet(wire) \cap UploadLines
      BY <2>2, <2>7
    <2> HIDE DEF l
    <2> QED BY <2>1, <2>7, <2>8, <2>9, <2>10, RunKeeps
  <1>2. CASE LineGarbled
    <2>1. /\ wire # <<>> /\ IsLine(Head(wire)) /\ UNCHANGED <<stage, at, strayed>> /\ wire' = Tail(wire)
          /\ Joins(console', console, <<Prompt>>)
      BY <1>2 DEF LineGarbled, Taken, Says, Joins
    <2> DEFINE l == Head(wire)
               no == FALSE
    <2>2. l \in UploadLines
      BY <2>1, WireHead
    <2>3. Rank(l) = 4 \/ Stopped(l)
      BY <1>2, <2>2 DEF LineGarbled, Rank, Order
    <2>4. 1 \in 1..Len(wire) /\ Drops(wire', wire, 1)
      BY <2>1, TailFacts
    <2>5. /\ UploadType' /\ Sorted(wire') /\ ToSet(wire') \subseteq ToSet(wire)
          /\ ToSet(console') = ToSet(console) \cup ToSet(<<Prompt>>)
          /\ l \in ToSet(wire) /\ From(ToSet(wire'), Rank(l))
      BY <2>1, <2>2, <2>4, TakenFacts, Outputs
    <2>6. ToSet(console') \subseteq ToSet(console) \cup {Prompt} \cup (IF no THEN {l} ELSE {})
      BY <2>5, Outputs
    <2>7. /\ 8 <= Rank(l) /\ target = "good" => target' = "good"
          /\ Rank(l) = 8 /\ no => target' = "good"
          /\ Rank(l) = 9 /\ (no \/ Cleaned) => Cleaned'
      BY <2>2, <2>3, StoppedFacts
    <2>8. l \in ToSet(wire) \cap UploadLines /\ no \in BOOLEAN
      BY <2>2, <2>5
    <2> HIDE DEF l, no
    <2> QED BY <2>1, <2>5, <2>6, <2>7, <2>8, RunKeeps
  <1>5. CASE LineStrays
    <2>1. wire # <<>> /\ IsLine(Head(wire)) /\ UNCHANGED <<stage, at>> /\ wire' = Tail(wire)
      BY <1>5 DEF LineStrays, Taken
    <2> DEFINE l == Head(wire)
    <2>2. l \in UploadLines
      BY <2>1, WireHead
    <2>3. PICK answers \in BOOLEAN : Strays(l, answers) /\ Says(IF answers THEN <<l, Prompt>> ELSE <<Prompt>>)
      BY <1>5 DEF LineStrays
    <2>4. PICK out \in {<<l, Prompt>>, <<Prompt>>} : Joins(console', console, out) /\ (out = <<l, Prompt>> => answers)
      <3>1. CASE answers
        BY <2>3, <3>1 DEF Says, Joins
      <3>2. CASE ~answers
        BY <2>3, <3>2 DEF Says, Joins
      <3> QED BY <3>1, <3>2
    <2>5. out \in Seq(UploadLines \cup {Prompt}) /\ ToSet(out) \subseteq {Prompt} \cup (IF answers THEN {l} ELSE {})
      BY <2>2, <2>4, Outputs
    <2>6. 1 \in 1..Len(wire) /\ Drops(wire', wire, 1)
      BY <2>1, TailFacts
    <2>7. /\ UploadType' /\ Sorted(wire') /\ ToSet(wire') \subseteq ToSet(wire)
          /\ ToSet(console') = ToSet(console) \cup ToSet(out)
          /\ l \in ToSet(wire) /\ From(ToSet(wire'), Rank(l))
      BY <2>1, <2>2, <2>4, <2>5, <2>6, TakenFacts
    <2>8. strayed' = strayed \cup {l.op}
      BY <1>5 DEF LineStrays
    <2>9. /\ 8 <= Rank(l) /\ target = "good" => target' = "good"
          /\ Rank(l) # 8
          /\ Rank(l) = 9 => Cleaned'
      BY <2>2, <2>3, <2>8, StraysFacts
    <2>10. ToSet(console') \subseteq ToSet(console) \cup {Prompt} \cup (IF answers THEN {l} ELSE {})
      BY <2>5, <2>7
    <2>11. l \in ToSet(wire) \cap UploadLines
      BY <2>2, <2>7
    <2> HIDE DEF l
    <2> QED BY <2>1, <2>7, <2>9, <2>10, <2>11, RunKeeps
  <1>3. CASE LineLost \/ Swallow \/ Newline
    <2>1. wire # <<>> /\ wire' = Tail(wire) /\ UNCHANGED <<stage, at, files, strayed>>
      BY <1>3 DEF LineLost, Swallow, Newline, Taken
    <2>2. console' = console \/ console' = console \o <<Prompt>>
      BY <1>3 DEF LineLost, Swallow, Newline, Says
    <2>3. console = console \o <<>>
      BY DEF UploadInv, UploadType
    <2>4. 1 \in 1..Len(wire) /\ Drops(wire', wire, 1)
      BY <2>1, TailFacts
    <2>5. \E out \in {<<>>, <<Prompt>>} : Joins(console', console, out)
      BY <2>2, <2>3 DEF Joins
    <2> QED BY <2>1, <2>4, <2>5, SilentKeeps
  <1>4. CASE Interrupt
    <2>1. PICK k \in 1..Len(wire) : Drops(wire', wire, k)
      BY <1>4 DEF Interrupt, Drops
    <2>2. Joins(console', console, <<Prompt>>) /\ UNCHANGED <<stage, at, strayed>>
      BY <1>4 DEF Interrupt, Says, Joins
    <2>3. CASE UNCHANGED files
      BY <2>1, <2>2, <2>3, SilentKeeps
    <2>4. CASE IsLine(Head(wire)) /\ (Stopped(Head(wire)) \/ \E answers \in BOOLEAN : Runs(Head(wire), answers))
      <3> DEFINE l == Head(wire)
                 no == FALSE
      <3>1. wire # <<>>
        BY <2>1 DEF UploadInv, UploadType
      <3>2. l \in UploadLines
        BY <2>4, <3>1, WireHead
      <3>3. /\ UploadType' /\ Sorted(wire') /\ ToSet(wire') \subseteq ToSet(wire)
            /\ ToSet(console') = ToSet(console) \cup ToSet(<<Prompt>>)
            /\ l \in ToSet(wire) /\ From(ToSet(wire'), Rank(l))
        BY <2>1, <2>2, <3>2, TakenFacts, Outputs
      <3>4. ToSet(console') \subseteq ToSet(console) \cup {Prompt} \cup (IF no THEN {l} ELSE {})
        BY <3>3, Outputs
      <3>5. /\ 8 <= Rank(l) /\ target = "good" => target' = "good"
            /\ Rank(l) = 9 /\ Cleaned => Cleaned'
        BY <2>4, <3>2, RunsFacts, StoppedFacts
      <3>6. /\ Rank(l) = 8 /\ no => target' = "good"
            /\ Rank(l) = 9 /\ (no \/ Cleaned) => Cleaned'
        BY <3>5
      <3>7. l \in ToSet(wire) \cap UploadLines /\ no \in BOOLEAN
        BY <3>2, <3>3
      <3> HIDE DEF l, no
      <3> QED BY <2>2, <3>3, <3>4, <3>5, <3>6, <3>7, RunKeeps
    <2> QED BY <1>4, <2>3, <2>4 DEF Interrupt
  <1> QED BY <1>1, <1>2, <1>3, <1>4, <1>5 DEF Guest

LEMMA UploadInitially == Init => UploadInv
  <1> SUFFICES ASSUME Init PROVE UploadInv
    OBVIOUS
  <1>1. wire = <<>> /\ console = <<>> /\ stage = 1 /\ at = "handshake"
    BY DEF Init
  <1>2. NBatches \in Nat
    BY BatchCount
  <1>3. stage \in Stages /\ StageRank(stage) = 1
    BY <1>1, <1>2, ScriptRank DEF Stages, StageRank
  <1>4. ToSet(wire) = {} /\ ToSet(console) = {} /\ DOMAIN wire = {}
    BY <1>1 DEF ToSet
  <1>5. wire \in Seq(UploadLines \cup {Blank, CtrlC}) /\ console \in Seq(UploadLines \cup {Prompt})
    BY <1>1
  <1> QED BY <1>1, <1>3, <1>4, <1>5 DEF UploadInv, UploadType, Sorted, UpTo, Printed

LEMMA UploadStep == UploadInv /\ [Next]_vars => UploadInv'
  <1> SUFFICES ASSUME UploadInv, [Next]_vars PROVE UploadInv'
    OBVIOUS
  <1>1. CASE UNCHANGED vars
    <2>1. UNCHANGED <<at, stage, wire, console, files, strayed>>
      BY <1>1 DEF vars, files
    <2>2. UploadType' /\ Sorted(wire')
      BY <2>1 DEF UploadInv, UploadType, Stages
    <2> QED BY <2>1, <2>2, QuietKeeps
  <1> QED BY <1>1, HostKeeps, GuestKeeps DEF Next

\* An upload() that returns has put exactly the file at its path and taken its
\* transport files away, whatever the number of parts, the size of the batches
\* and the limits, and however many lines and witnesses the console damages,
\* delays or repeats.
THEOREM UploadDelivers == Spec => []Delivered
  <1>1. UploadInv => Delivered
    BY DEF UploadInv, Delivered, Cleaned
  <1> QED BY <1>1, UploadInitially, UploadStep, PTL DEF Spec

-----------------------------------------------------------------------------
(***************************************************************************)
(* One fault is survived.  A call relies on what the lines of the calls    *)
(* before it left in the guest.  Until the fault these lines have all run; *)
(* after it some may be on the wire once more, in order, so that each has  *)
(* its effect again before a line that relies on it runs (Kept).  The      *)
(* Ctrl-C behind the fault flushes nothing but lines of the current call,  *)
(* which are sent again.                                                   *)
(***************************************************************************)

(* Which lines are sent before which. *)

\* Division with rest.
LEMMA DivFacts ==
    ASSUME NEW a \in Nat, NEW d \in Nat \ {0}
    PROVE  /\ a \div d \in Nat
           /\ (a \div d) * d <= a /\ a < (a \div d) * d + d
  OBVIOUS

LEMMA MulMono ==
    ASSUME NEW a \in Nat, NEW b \in Nat, NEW d \in Nat, a <= b
    PROVE  a * d <= b * d
  OBVIOUS

\* Every part falls into one batch.
LEMMA EveryPart ==
    ASSUME NEW n \in 1..NParts
    PROVE  \E b \in 1..NBatches : (b - 1) * Batch < n /\ n <= b * Batch
  <1>1. NParts \in Nat /\ Batch \in Nat /\ Batch >= 1
    BY UploadAssumption
  <1> DEFINE q == (n - 1) \div Batch
             e == NParts + Batch - 1
  <1>2. q \in Nat /\ q * Batch <= n - 1 /\ n - 1 < q * Batch + Batch
    BY <1>1, DivFacts
  <1>3. NBatches \in Nat /\ e < NBatches * Batch + Batch
    BY <1>1, DivFacts DEF NBatches
  <1> HIDE DEF q
  <1>4. n <= NBatches * Batch
    <2>1. NBatches * Batch \in Nat
      BY <1>1, <1>3
    <2> QED BY <1>1, <1>3, <2>1
  <1>5. q < NBatches
    <2> SUFFICES ASSUME NBatches <= q PROVE FALSE
      BY <1>2, <1>3
    <2>1. NBatches * Batch <= q * Batch
      BY <1>1, <1>2, <1>3, MulMono
    <2>2. NBatches * Batch \in Nat /\ q * Batch \in Nat
      BY <1>1, <1>2, <1>3
    <2> QED BY <1>2, <1>4, <2>1, <2>2
  <1>6. (q + 1) - 1 = q /\ (q + 1) * Batch = q * Batch + Batch /\ q * Batch \in Nat
    BY <1>1, <1>2
  <1>7. q * Batch < n /\ n <= (q + 1) * Batch
    BY <1>1, <1>2, <1>6
  <1>8. q + 1 \in 1..NBatches
    BY <1>2, <1>3, <1>5
  <1> WITNESS q + 1 \in 1..NBatches
  <1> QED BY <1>6, <1>7

\* A batch holds the parts of its stretch of the file.
LEMMA BatchParts ==
    ASSUME NEW b \in 1..NBatches, NEW l \in ToSet(BatchLines(b))
    PROVE  \E n \in 1..NParts : l = Part(n) /\ (b - 1) * Batch < n /\ n <= b * Batch
  <1> DEFINE from == (b - 1) * Batch
             to == b * Batch
             m == IF to <= NParts THEN Batch ELSE NParts - from
  <1>1. NBatches \in Nat /\ Batch \in Nat /\ NParts \in Nat
    BY BatchCount, UploadAssumption
  <1>2. b \in Nat /\ b - 1 \in Nat
    BY <1>1
  <1>3. from \in Nat /\ to \in Nat /\ to = from + Batch
    BY <1>1, <1>2
  <1>4. BatchLines(b) = [i \in 1..m |-> Part(from + i)]
    BY DEF BatchLines
  <1> HIDE DEF from, to
  <1>5. PICK i \in 1..m : l = Part(from + i)
    BY <1>4 DEF ToSet
  <1>6. m \in Int /\ from + i \in 1..NParts /\ from < from + i /\ from + i <= to
    BY <1>1, <1>3
  <1> HIDE DEF m
  <1>7. \E n \in 1..NParts : l = Part(n) /\ from < n /\ n <= to
    BY <1>5, <1>6
  <1> QED BY <1>7 DEF from, to

\* Every part is sent.
LEMMA PartIsSent ==
    ASSUME NEW n \in 1..NParts
    PROVE  \E b \in 1..NBatches : Part(n) \in ToSet(BatchLines(b))
  <1>1. PICK b \in 1..NBatches : (b - 1) * Batch < n /\ n <= b * Batch
    BY EveryPart
  <1> DEFINE from == (b - 1) * Batch
             to == b * Batch
             m == IF to <= NParts THEN Batch ELSE NParts - from
  <1>2. NBatches \in Nat /\ Batch \in Nat /\ NParts \in Nat
    BY BatchCount, UploadAssumption
  <1>3. b \in Nat /\ b - 1 \in Nat
    BY <1>2
  <1>4. from \in Nat /\ to \in Nat /\ to = from + Batch
    BY <1>2, <1>3
  <1>5. BatchLines(b) = [i \in 1..m |-> Part(from + i)]
    BY DEF BatchLines
  <1>6. from < n /\ n <= to
    BY <1>1
  <1> HIDE DEF from, to
  <1>7. n - from \in 1..m /\ from + (n - from) = n
    BY <1>2, <1>4, <1>6
  <1> HIDE DEF m
  <1>8. Part(n) = BatchLines(b)[n - from] /\ n - from \in DOMAIN BatchLines(b)
    BY <1>5, <1>7
  <1> QED BY <1>8 DEF ToSet

\* The lines of the calls before the i-th.
Past(i) == UNION {ToSet(Script[j]) : j \in 1..i - 1}

\* What the calls are, each with its place.
LEMMA Calls ==
    /\ Script[1] = Do("mkdir") /\ Script[2] = Do("rmtarget") /\ Script[3] = Do("rmparts")
    /\ \A b \in 1..NBatches : Script[3 + b] = BatchLines(b)
    /\ Script[4 + NBatches] = Do("join") /\ Script[5 + NBatches] = Do("decode")
    /\ Script[6 + NBatches] = Do("size")
  <1> DEFINE S == Seq(UploadLines)
  <1>1. NBatches \in Nat
    BY BatchCount
  <1>2. Batches = [b \in 1..NBatches |-> BatchLines(b)]
    BY DEF Batches, NBatches
  <1>3. \A b \in 1..NBatches : BatchLines(b) \in S
    BY BatchRank DEF OfRank
  <1>4. Batches \in Seq(S) /\ Len(Batches) = NBatches /\ \A b \in 1..NBatches : Batches[b] = BatchLines(b)
    BY <1>1, <1>2, <1>3
  <1>5. \A op \in DOMAIN Order : Do(op) \in S
    BY DoRank DEF OfRank
  <1>6. /\ Do("mkdir") \in S /\ Do("rmtarget") \in S /\ Do("rmparts") \in S /\ Do("join") \in S
        /\ Do("decode") \in S /\ Do("size") \in S /\ Do("cksum") \in S /\ Do("final") \in S
    BY <1>5 DEF Order
  <1> HIDE DEF S
  <1>7. /\ Setup \in Seq(S) /\ Len(Setup) = 3
        /\ Setup[1] = Do("mkdir") /\ Setup[2] = Do("rmtarget") /\ Setup[3] = Do("rmparts")
    BY <1>6 DEF Setup
  <1>8. /\ Closing \in Seq(S) /\ Len(Closing) = 5
        /\ Closing[1] = Do("join") /\ Closing[2] = Do("decode") /\ Closing[3] = Do("size")
    BY <1>6 DEF Closing
  <1> DEFINE P == Setup \o Batches
  <1>9. P = Setup \o Batches /\ Script = P \o Closing
    BY DEF Script
  <1> HIDE DEF P
  <1>10. /\ P \in Seq(S) /\ Len(P) = Len(Setup) + Len(Batches)
         /\ \A i \in 1..Len(Setup) : P[i] = Setup[i]
         /\ \A i \in 1..Len(Batches) : P[Len(Setup) + i] = Batches[i]
    <2>1. Setup \in Seq(S) /\ Batches \in Seq(S) /\ P = Setup \o Batches
      BY <1>4, <1>7, <1>9
    <2> QED BY <2>1, Concatenated
  <1>11. /\ \A i \in 1..Len(P) : Script[i] = P[i]
         /\ \A i \in 1..Len(Closing) : Script[Len(P) + i] = Closing[i]
    <2>1. P \in Seq(S) /\ Closing \in Seq(S) /\ Script = P \o Closing
      BY <1>8, <1>9, <1>10
    <2> QED BY <2>1, Concatenated
  <1>12. Len(P) = 3 + NBatches /\ Len(Setup) = 3 /\ Len(Batches) = NBatches
    BY <1>4, <1>7, <1>10
  <1>13. /\ \A i \in 1..3 : P[i] = Setup[i] /\ Script[i] = P[i]
         /\ \A b \in 1..NBatches : Script[3 + b] = P[3 + b] /\ P[3 + b] = Batches[b]
    BY <1>1, <1>10, <1>11, <1>12
  <1>14. /\ 4 + NBatches = Len(P) + 1 /\ 5 + NBatches = Len(P) + 2 /\ 6 + NBatches = Len(P) + 3
         /\ 1 \in 1..Len(Closing) /\ 2 \in 1..Len(Closing) /\ 3 \in 1..Len(Closing)
    BY <1>1, <1>8, <1>12
  <1>15. /\ Script[4 + NBatches] = Closing[1] /\ Script[5 + NBatches] = Closing[2]
         /\ Script[6 + NBatches] = Closing[3]
    BY <1>11, <1>14
  <1>16. Script[1] = Setup[1] /\ Script[2] = Setup[2] /\ Script[3] = Setup[3]
    BY <1>13
  <1> QED BY <1>4, <1>7, <1>8, <1>13, <1>15, <1>16

\* The lines of a call are of its kind, and those of a batch of its stretch.
LEMMA CallLines ==
    ASSUME NEW j \in 1..8 + NBatches, NEW l \in ToSet(Script[j])
    PROVE  /\ l \in UploadLines /\ Rank(l) = StageRank(j)
           /\ StageRank(j) = 4 =>
                /\ j - 3 \in 1..NBatches
                /\ \E n \in 1..NParts : l = Part(n) /\ (j - 4) * Batch < n /\ n <= (j - 3) * Batch
  <1>1. l \in UploadLines /\ Rank(l) = StageRank(j)
    BY ScriptRank DEF OfRank, ToSet
  <1>2. ASSUME StageRank(j) = 4
        PROVE  /\ j - 3 \in 1..NBatches
               /\ \E n \in 1..NParts : l = Part(n) /\ (j - 4) * Batch < n /\ n <= (j - 3) * Batch
    <2> DEFINE b == j - 3
    <2>1. b \in 1..NBatches /\ j = 3 + b /\ b - 1 = j - 4
      BY <1>2, BatchCount DEF StageRank
    <2>2. l \in ToSet(BatchLines(b))
      BY <2>1, Calls
    <2> HIDE DEF b
    <2>3. \E n \in 1..NParts : l = Part(n) /\ (b - 1) * Batch < n /\ n <= b * Batch
      BY <2>1, <2>2, BatchParts
    <2> QED BY <2>1, <2>3 DEF b
  <1> QED BY <1>1, <1>2

\* Two calls are of one kind only if both send parts.
LEMMA RanksGrow ==
    ASSUME NEW i \in 1..8 + NBatches, NEW j \in 1..i - 1
    PROVE  /\ j \in 1..8 + NBatches
           /\ StageRank(j) <= StageRank(i)
           /\ StageRank(j) = StageRank(i) => StageRank(i) = 4
  BY BatchCount DEF StageRank

\* The lines upload() knows: a part for each number, one of every other kind.
Known == {Item(op) : op \in DOMAIN Order \ {"part"}} \cup {Part(n) : n \in 1..NParts}

LEMMA KnownFacts ==
    /\ Known \subseteq UploadLines
    /\ \A l \in Known : (l.op = "part" /\ l.n \in 1..NParts) \/ (l.op # "part" /\ l = Item(l.op))
  <1>1. NParts \in Nat
    BY UploadAssumption
  <1>2. \A op \in DOMAIN Order : Item(op) \in UploadLines /\ Item(op).op = op
    BY LineFacts DEF Item
  <1>3. \A n \in 1..NParts : Part(n) \in UploadLines /\ Part(n).op = "part" /\ Part(n).n = n
    <2>1. \A n \in 1..NParts : n \in Nat
      BY <1>1
    <2>2. \A n \in 1..NParts : Part(n) \in UploadLines
      BY <2>1, LineFacts
    <2> QED BY <2>2 DEF Part
  <1> QED BY <1>2, <1>3 DEF Known

\* No call sends anything else.
LEMMA CallsKnown ==
    ASSUME NEW i \in 1..8 + NBatches PROVE ToSet(Script[i]) \subseteq Known
  <1>1. NBatches \in Nat
    BY BatchCount
  <1>2. ASSUME NEW op \in DOMAIN Order \ {"part"}, Script[i] = Do(op) PROVE ToSet(Script[i]) \subseteq Known
    BY <1>2 DEF Do, ToSet, Known
  <1>3. CASE StageRank(i) = 4
    BY <1>3, CallLines DEF Known
  <1>4. CASE StageRank(i) # 4
    <2>1. i \in {1, 2, 3, 4 + NBatches, 5 + NBatches, 6 + NBatches, 7 + NBatches, 8 + NBatches}
      BY <1>1, <1>4 DEF StageRank
    <2>2. \E op \in DOMAIN Order \ {"part"} : Script[i] = Do(op)
      <3>1. \A op \in {"mkdir", "rmtarget", "rmparts", "join", "decode", "size", "cksum", "final"} :
                op \in DOMAIN Order \ {"part"}
        BY DEF Order
      <3> QED BY <2>1, <3>1, Calls, ScriptRank
    <2> QED BY <1>2, <2>2
  <1> QED BY <1>3, <1>4

\* No line is sent by two calls.
LEMMA PastFacts ==
    ASSUME NEW i \in 1..8 + NBatches, NEW p \in Past(i)
    PROVE  p \in Known /\ Rank(p) <= StageRank(i) /\ p \notin ToSet(Script[i])
  <1>1. PICK j \in 1..i - 1 : p \in ToSet(Script[j])
    BY DEF Past
  <1>2. j \in 1..8 + NBatches /\ StageRank(j) <= StageRank(i) /\ (StageRank(j) = StageRank(i) => StageRank(i) = 4)
    BY RanksGrow
  <1>3. /\ p \in UploadLines /\ Rank(p) = StageRank(j)
        /\ StageRank(j) = 4 => \E n \in 1..NParts : p = Part(n) /\ (j - 4) * Batch < n /\ n <= (j - 3) * Batch
    BY <1>1, <1>2, CallLines
  <1>4. ASSUME p \in ToSet(Script[i]) PROVE FALSE
    <2>1. /\ Rank(p) = StageRank(i)
          /\ StageRank(i) = 4 =>
               /\ i - 3 \in 1..NBatches
               /\ \E n \in 1..NParts : p = Part(n) /\ (i - 4) * Batch < n /\ n <= (i - 3) * Batch
      BY <1>4, CallLines
    <2>2. StageRank(i) = 4 /\ StageRank(j) = 4
      BY <1>2, <1>3, <2>1
    <2>3. PICK n \in 1..NParts : p = Part(n) /\ (i - 4) * Batch < n
      BY <2>1, <2>2
    <2>4. PICK m \in 1..NParts : p = Part(m) /\ m <= (j - 3) * Batch
      BY <1>3, <2>2
    <2>5. n = m
      BY <2>3, <2>4 DEF Part
    <2>6. j - 3 \in Nat /\ i - 4 \in Nat /\ j - 3 <= i - 4 /\ Batch \in Nat /\ NParts \in Nat
      <3>1. j - 3 \in 1..NBatches
        BY <1>1, <1>2, <2>2, CallLines
      <3>2. j \in Int /\ i \in Int /\ j < i /\ NBatches \in Nat
        BY <1>2, BatchCount
      <3> QED BY <3>1, <3>2, UploadAssumption
    <2>7. (j - 3) * Batch <= (i - 4) * Batch
      BY <2>6, MulMono
    <2>8. (j - 3) * Batch \in Int /\ (i - 4) * Batch \in Int
      BY <2>6
    <2> QED BY <2>3, <2>4, <2>5, <2>6, <2>7, <2>8
  <1> QED BY <1>1, <1>2, <1>3, <1>4, CallsKnown

LEMMA PastNext ==
    ASSUME NEW i \in 1..8 + NBatches
    PROVE  Past(i + 1) = Past(i) \cup ToSet(Script[i])
  <1>1. i \in Int /\ 1..(i + 1) - 1 = (1..i - 1) \cup {i}
    BY BatchCount
  <1> QED BY <1>1 DEF Past

\* Every line of an earlier kind is one of an earlier call.
LEMMA PastHolds ==
    ASSUME NEW i \in 1..8 + NBatches, NEW p \in Known, Rank(p) < StageRank(i)
    PROVE  p \in Past(i)
  <1>1. NBatches \in Nat
    BY BatchCount
  <1>2. ASSUME NEW j \in 1..i - 1, NEW op, Script[j] = Do(op) PROVE Item(op) \in Past(i)
    <2>1. Item(op) \in ToSet(Script[j])
      BY <1>2 DEF Do, ToSet
    <2> QED BY <2>1 DEF Past
  <1>3. CASE p.op = "part"
    <2>1. PICK n \in 1..NParts : p = Part(n)
      BY <1>3 DEF Known, Item
    <2>2. PICK b \in 1..NBatches : Part(n) \in ToSet(BatchLines(b))
      BY PartIsSent
    <2>3. StageRank(i) > 4
      BY <1>3 DEF Rank, Order
    <2>4. Script[3 + b] = BatchLines(b) /\ 3 + b \in 1..i - 1
      BY <1>1, <2>3, Calls DEF StageRank
    <2> QED BY <2>1, <2>2, <2>4 DEF Past
  <1>4. CASE p.op # "part"
    <2>1. p = Item(p.op) /\ p.op \in DOMAIN Order \ {"part"} /\ Order[p.op] < StageRank(i)
      BY <1>4, KnownFacts DEF Rank, UploadLines
    <2>2. CASE p.op \in {"mkdir", "rmtarget", "rmparts"}
      <3>1. \/ p.op = "mkdir" /\ 1 \in 1..i - 1
            \/ p.op = "rmtarget" /\ 2 \in 1..i - 1
            \/ p.op = "rmparts" /\ 3 \in 1..i - 1
        BY <1>1, <2>1, <2>2 DEF StageRank, Order
      <3> QED BY <1>2, <2>1, <3>1, Calls
    <2>3. CASE p.op \in {"join", "decode", "size", "cksum", "final"}
      <3>1. \/ p.op = "join" /\ 4 + NBatches \in 1..i - 1
            \/ p.op = "decode" /\ 5 + NBatches \in 1..i - 1
            \/ p.op = "size" /\ 6 + NBatches \in 1..i - 1
            \/ p.op = "cksum" /\ 7 + NBatches \in 1..i - 1
        BY <1>1, <2>1, <2>3 DEF StageRank, Order
      <3> QED BY <1>2, <2>1, <3>1, Calls, ScriptRank
    <2> QED BY <2>1, <2>2, <2>3 DEF Order
  <1> QED BY <1>3, <1>4

-----------------------------------------------------------------------------
(* One fault. *)

\* What no Ctrl-C on the wire will flush.
LiveOf(w) == {w[i] : i \in {i \in DOMAIN w : \A j \in DOMAIN w : w[j] = CtrlC => j < i}}
OneCtrlC(w) == \A i, j \in DOMAIN w : w[i] = CtrlC /\ w[j] = CtrlC => i = j
NoTwice(w) == \A i, j \in DOMAIN w : w[i] = w[j] /\ w[i] \in UploadLines => i = j

\* Without a Ctrl-C everything is live.
LEMMA LiveFacts ==
    ASSUME NEW w
    PROVE  /\ LiveOf(w) \subseteq ToSet(w)
           /\ CtrlC \notin ToSet(w) => LiveOf(w) = ToSet(w)
  <1>1. LiveOf(w) \subseteq ToSet(w)
    BY DEF LiveOf, ToSet
  <1>2. ASSUME CtrlC \notin ToSet(w) PROVE LiveOf(w) = ToSet(w)
    <2>1. \A j \in DOMAIN w : w[j] # CtrlC
      BY <1>2 DEF ToSet
    <2> QED BY <2>1 DEF LiveOf, ToSet
  <1> QED BY <1>1, <1>2

\* Lines that are sent stay until they are taken.
LEMMA LiveSent ==
    ASSUME NEW S, NEW w \in Seq(S), NEW q \in Seq(S), NEW v, Joins(v, w, q), CtrlC \notin ToSet(q)
    PROVE  /\ LiveOf(w) \subseteq LiveOf(v) /\ ToSet(q) \subseteq LiveOf(v)
           /\ OneCtrlC(w) => OneCtrlC(v)
  <1>1. /\ v \in Seq(S) /\ Len(v) = Len(w) + Len(q) /\ Len(w) \in Nat /\ Len(q) \in Nat
        /\ \A i \in 1..Len(w) : v[i] = w[i]
        /\ \A i \in 1..Len(q) : v[Len(w) + i] = q[i]
        /\ DOMAIN v = 1..Len(v) /\ DOMAIN w = 1..Len(w) /\ DOMAIN q = 1..Len(q)
    BY DEF Joins
  <1>2. \A i \in 1..Len(v) : i \in 1..Len(w) \/ v[i] \in ToSet(q)
    BY Joined
  <1>3. \A i \in 1..Len(v) : v[i] = CtrlC => i \in 1..Len(w) /\ w[i] = CtrlC
    BY <1>1, <1>2
  <1>4. ASSUME NEW x \in LiveOf(w) PROVE x \in LiveOf(v)
    <2>1. PICK i \in DOMAIN w : x = w[i] /\ \A j \in DOMAIN w : w[j] = CtrlC => j < i
      BY DEF LiveOf
    <2>2. i \in DOMAIN v /\ x = v[i]
      BY <1>1, <2>1
    <2>3. \A j \in DOMAIN v : v[j] = CtrlC => j < i
      BY <1>1, <1>3, <2>1
    <2> QED BY <2>2, <2>3 DEF LiveOf
  <1>5. ASSUME NEW x \in ToSet(q) PROVE x \in LiveOf(v)
    <2>1. PICK i \in 1..Len(q) : x = q[i]
      BY <1>1 DEF ToSet
    <2>2. Len(w) + i \in DOMAIN v /\ x = v[Len(w) + i]
      BY <1>1, <2>1
    <2>3. \A j \in DOMAIN v : v[j] = CtrlC => j < Len(w) + i
      BY <1>1, <1>3
    <2> QED BY <2>2, <2>3 DEF LiveOf
  <1>6. OneCtrlC(w) => OneCtrlC(v)
    BY <1>1, <1>3 DEF OneCtrlC
  <1> QED BY <1>4, <1>5, <1>6

\* The guest takes the first thing.
LEMMA LiveTaken ==
    ASSUME NEW S, NEW w \in Seq(S), w # <<>>, NEW v, Drops(v, w, 1)
    PROVE  /\ \A x \in LiveOf(w) : x \in LiveOf(v) \/ (x = Head(w) /\ CtrlC \notin ToSet(w))
           /\ ToSet(w) = ToSet(v) \cup {Head(w)}
           /\ OneCtrlC(w) => OneCtrlC(v)
           /\ NoTwice(w) => NoTwice(v) /\ (Head(w) \in UploadLines => Head(w) \notin ToSet(v))
  <1>1. /\ 1 \in 0..Len(w) /\ Len(w) \in Nat /\ DOMAIN w = 1..Len(w) /\ Head(w) = w[1]
        /\ v = SubSeq(w, 2, Len(w))
    BY DEF Drops
  <1>2. v \in Seq(S) /\ \A i \in DOMAIN v : i + 1 \in DOMAIN w /\ v[i] = w[i + 1]
    BY <1>1, Suffix
  <1>3. DOMAIN v = 1..Len(w) - 1 /\ \A i \in DOMAIN w : i # 1 => i - 1 \in DOMAIN v /\ v[i - 1] = w[i]
    BY <1>1
  <1>4. \A i \in DOMAIN v : i \in Nat \ {0}
    BY <1>3
  <1>5. ASSUME NEW x \in LiveOf(w), ~(x = Head(w) /\ CtrlC \notin ToSet(w)) PROVE x \in LiveOf(v)
    <2>1. PICK i \in DOMAIN w : x = w[i] /\ \A j \in DOMAIN w : w[j] = CtrlC => j < i
      BY DEF LiveOf
    <2>2. i # 1
      <3> SUFFICES ASSUME i = 1 PROVE FALSE
        OBVIOUS
      <3>1. \A j \in DOMAIN w : w[j] # CtrlC
        BY <1>1, <2>1
      <3> QED BY <1>1, <1>5, <2>1, <3>1 DEF ToSet
    <2>3. i - 1 \in DOMAIN v /\ v[i - 1] = x
      BY <1>3, <2>1, <2>2
    <2>4. \A j \in DOMAIN v : v[j] = CtrlC => j < i - 1
      BY <1>1, <1>2, <1>4, <2>1
    <2> QED BY <2>3, <2>4 DEF LiveOf
  <1>6. ToSet(w) = ToSet(v) \cup {Head(w)}
    <2>1. ASSUME NEW i \in DOMAIN w, i # 1 PROVE w[i] \in ToSet(v)
      BY <1>3, <2>1 DEF ToSet
    <2>2. \A x \in ToSet(v) \cup {Head(w)} : x \in ToSet(w)
      BY <1>1, <1>2 DEF ToSet
    <2>3. \A x \in ToSet(w) : x \in ToSet(v) \cup {Head(w)}
      BY <1>1, <2>1 DEF ToSet
    <2> QED BY <2>2, <2>3
  <1>7. \A i, j \in DOMAIN v : i + 1 = j + 1 => i = j
    BY <1>4
  <1>8. OneCtrlC(w) => OneCtrlC(v)
    BY <1>2, <1>7 DEF OneCtrlC
  <1>9. NoTwice(w) => NoTwice(v)
    BY <1>2, <1>7 DEF NoTwice
  <1>10. ASSUME NoTwice(w), Head(w) \in UploadLines, Head(w) \in ToSet(v) PROVE FALSE
    <2>1. PICK i \in DOMAIN v : v[i] = Head(w)
      BY <1>10 DEF ToSet
    <2>2. i + 1 \in DOMAIN w /\ w[i + 1] = w[1] /\ 1 \in DOMAIN w /\ i + 1 # 1
      BY <1>1, <1>2, <1>4, <2>1
    <2> QED BY <1>1, <1>10, <2>2 DEF NoTwice
  <1> QED BY <1>5, <1>6, <1>8, <1>9, <1>10

\* The only Ctrl-C flushes what is not live.
LEMMA LiveFlushed ==
    ASSUME NEW S, NEW w \in Seq(S), OneCtrlC(w), NEW k \in 1..Len(w), w[k] = CtrlC,
           NEW v, Drops(v, w, k)
    PROVE  /\ v \in Seq(S) /\ ToSet(v) \subseteq ToSet(w) /\ CtrlC \notin ToSet(v)
           /\ LiveOf(w) \subseteq ToSet(v) /\ LiveOf(v) = ToSet(v)
  <1>1. /\ k \in 0..Len(w) /\ k \in Nat /\ Len(w) \in Nat /\ DOMAIN w = 1..Len(w)
        /\ v = SubSeq(w, k + 1, Len(w))
    BY DEF Drops
  <1>2. v \in Seq(S) /\ ToSet(v) \subseteq ToSet(w) /\ \A i \in DOMAIN v : i + k \in DOMAIN w /\ v[i] = w[i + k]
    BY <1>1, Suffix
  <1>3. DOMAIN v = 1..Len(w) - k /\ \A i \in DOMAIN w : k < i => i - k \in DOMAIN v /\ v[i - k] = w[i]
    BY <1>1
  <1>4. CtrlC \notin ToSet(v)
    <2> SUFFICES ASSUME NEW i \in DOMAIN v, v[i] = CtrlC PROVE FALSE
      BY DEF ToSet
    <2>1. i + k \in DOMAIN w /\ w[i + k] = CtrlC /\ k \in DOMAIN w /\ i + k # k
      BY <1>1, <1>2, <1>3
    <2> QED BY <2>1 DEF OneCtrlC
  <1>5. ASSUME NEW x \in LiveOf(w) PROVE x \in ToSet(v)
    <2>1. PICK i \in DOMAIN w : x = w[i] /\ \A j \in DOMAIN w : w[j] = CtrlC => j < i
      BY DEF LiveOf
    <2>2. k < i
      BY <1>1, <2>1
    <2>3. i - k \in DOMAIN v /\ v[i - k] = x
      BY <1>3, <2>1, <2>2
    <2> QED BY <2>3 DEF ToSet
  <1> QED BY <1>2, <1>4, <1>5, LiveFacts

-----------------------------------------------------------------------------
(* What a line leaves in the guest that later lines rely on. *)

Effect(l) ==
    /\ l.op = "mkdir" => partdir
    /\ l.op = "rmparts" => parts[NParts + 1] = "none"
    /\ l.op = "part" => parts[l.n] = "good"
    /\ l.op = "join" => encoded = "good"
    /\ l.op = "decode" => target = "good"

RecType ==
    /\ parts \in [Slots -> {"none", "good"} \cup Wrong]
    /\ faults \in Nat

\* What line l may do to the files, whole, half-way or garbled.
Touches(l) ==
    \/ UNCHANGED files
    \/ \E answers \in BOOLEAN : Runs(l, answers)
    \/ Stopped(l)
    \/ /\ l.op = "part" /\ UNCHANGED <<partdir, encoded, target>>
       /\ \E c \in Wrong : parts' = [parts EXCEPT ![l.n] = c]

\* Which files a line touches.
LEMMA TouchFacts ==
    ASSUME NEW l, l.op \in DOMAIN Order \ {"final"}, Touches(l)
    PROVE  /\ partdir => partdir'
           /\ l.op \notin {"rmparts", "part"} => parts' = parts
           /\ l.op = "part" => parts' = parts \/ \E c \in {"good"} \cup Wrong : parts' = [parts EXCEPT ![l.n] = c]
           /\ l.op \notin {"rmtarget", "join"} => encoded' = encoded
           /\ l.op \notin {"rmtarget", "decode"} => target' = target
  <1>1. CASE UNCHANGED files
    BY <1>1 DEF files
  <1>2. ASSUME NEW answers \in BOOLEAN, Runs(l, answers)
        PROVE  /\ partdir => partdir'
               /\ l.op \notin {"rmparts", "part"} => parts' = parts
               /\ l.op = "part" => parts' = parts \/ \E c \in {"good"} \cup Wrong : parts' = [parts EXCEPT ![l.n] = c]
               /\ l.op \notin {"rmtarget", "join"} => encoded' = encoded
               /\ l.op \notin {"rmtarget", "decode"} => target' = target
    <2>1. CASE l.op = "mkdir"
      <3>1. partdir' = TRUE /\ UNCHANGED <<parts, encoded, target>>
        BY <1>2, <2>1 DEF Runs
      <3> QED BY <2>1, <3>1
    <2>2. CASE l.op = "rmtarget"
      <3>1. UNCHANGED <<partdir, parts>>
        BY <1>2, <2>2 DEF Runs
      <3> QED BY <2>2, <3>1
    <2>3. CASE l.op = "rmparts"
      <3>1. UNCHANGED <<partdir, encoded, target>>
        BY <1>2, <2>3 DEF Runs
      <3> QED BY <2>3, <3>1
    <2>4. CASE l.op = "part"
      <3>1. /\ parts' = IF partdir THEN [parts EXCEPT ![l.n] = "good"] ELSE parts
            /\ UNCHANGED <<partdir, encoded, target>>
        BY <1>2, <2>4 DEF Runs
      <3>2. parts' = parts \/ parts' = [parts EXCEPT ![l.n] = "good"]
        BY <3>1
      <3> QED BY <2>4, <3>1, <3>2
    <2>5. CASE l.op = "join"
      <3>1. UNCHANGED <<partdir, parts, target>>
        BY <1>2, <2>5 DEF Runs
      <3> QED BY <2>5, <3>1
    <2>6. CASE l.op = "decode"
      <3>1. UNCHANGED <<partdir, parts, encoded>>
        BY <1>2, <2>6 DEF Runs
      <3> QED BY <2>6, <3>1
    <2>7. CASE l.op \in {"size", "cksum"}
      <3>1. UNCHANGED <<partdir, parts, encoded, target>>
        BY <1>2, <2>7 DEF Runs, files
      <3> QED BY <2>7, <3>1
    <2>8. l.op \in {"mkdir", "rmtarget", "rmparts", "part", "join", "decode", "size", "cksum"}
      BY DEF Order
    <2> QED BY <2>1, <2>2, <2>3, <2>4, <2>5, <2>6, <2>7, <2>8
  <1>3. CASE Stopped(l)
    <2>1. /\ UNCHANGED partdir
          /\ parts' = CASE l.op = "part" /\ partdir -> [parts EXCEPT ![l.n] = "short"]
                        [] l.op = "final" -> EmptyDir
                        [] OTHER -> parts
          /\ encoded' = CASE l.op = "join" -> "short"
                          [] l.op = "final" -> "none"
                          [] OTHER -> encoded
          /\ target' = IF l.op = "decode" THEN "short" ELSE target
      BY <1>3 DEF Stopped
    <2>2. l.op # "final"
      OBVIOUS
    <2>3. l.op # "part" => parts' = parts
      BY <2>1, <2>2
    <2>4. l.op = "part" => parts' = parts \/ parts' = [parts EXCEPT ![l.n] = "short"]
      BY <2>1, <2>2
    <2>5. l.op # "join" => encoded' = encoded
      BY <2>1, <2>2
    <2>6. l.op # "decode" => target' = target
      BY <2>1
    <2> QED BY <2>1, <2>3, <2>4, <2>5, <2>6 DEF Wrong
  <1>4. CASE l.op = "part" /\ UNCHANGED <<partdir, encoded, target>> /\ \E c \in Wrong : parts' = [parts EXCEPT ![l.n] = c]
    BY <1>4
  <1> QED BY <1>1, <1>2, <1>3, <1>4 DEF Touches

\* A line that does not come before p leaves the effect of p.
LEMMA EffectStays ==
    ASSUME RecType, NEW p \in Known, NEW l \in Known, p # l, Rank(p) <= Rank(l), Rank(l) < 9,
           Effect(p), Touches(l)
    PROVE  Effect(p)'
  <1>1. NParts \in Nat /\ NParts + 1 \in Slots /\ \A n \in 1..NParts : n \in Slots /\ n # NParts + 1
    BY UploadAssumption DEF Slots
  <1>2. /\ p \in UploadLines /\ l \in UploadLines
        /\ p.op = "part" => p.n \in 1..NParts
        /\ l.op = "part" => l.n \in 1..NParts
        /\ p.op = l.op => p.op = "part"
    BY KnownFacts
  <1>3. p.op = "part" /\ l.op = "part" => p.n # l.n
    BY <1>2 DEF UploadLines
  <1>4. /\ p.op \in DOMAIN Order /\ l.op \in DOMAIN Order
        /\ Order[p.op] <= Order[l.op] /\ Order[l.op] < 9
    BY <1>2 DEF Rank, UploadLines
  <1>5. l.op \in DOMAIN Order \ {"final"}
    BY <1>4 DEF Order
  <1>6. /\ partdir => partdir'
        /\ l.op \notin {"rmparts", "part"} => parts' = parts
        /\ l.op = "part" => parts' = parts \/ \E c \in {"good"} \cup Wrong : parts' = [parts EXCEPT ![l.n] = c]
        /\ l.op \notin {"rmtarget", "join"} => encoded' = encoded
        /\ l.op \notin {"rmtarget", "decode"} => target' = target
    BY <1>5, TouchFacts
  <1>7. /\ p.op = "rmparts" => l.op \notin {"rmparts"}
        /\ p.op = "part" => l.op \notin {"rmparts"}
        /\ p.op = "join" => l.op \notin {"rmtarget", "join"}
        /\ p.op = "decode" => l.op \notin {"rmtarget", "decode"}
    BY <1>2, <1>4 DEF Order
  <1>8. p.op = "mkdir" => partdir'
    BY <1>6 DEF Effect
  <1>9. p.op = "rmparts" => parts'[NParts + 1] = "none"
    BY <1>1, <1>2, <1>6, <1>7 DEF Effect, RecType
  <1>10. p.op = "part" => parts'[p.n] = "good"
    BY <1>1, <1>2, <1>3, <1>6, <1>7 DEF Effect, RecType
  <1>11. p.op = "join" => encoded' = "good"
    BY <1>6, <1>7 DEF Effect
  <1>12. p.op = "decode" => target' = "good"
    BY <1>6, <1>7 DEF Effect
  <1> QED BY <1>8, <1>9, <1>10, <1>11, <1>12 DEF Effect

\* A line that finds what the earlier kinds leave prints its witness.
LEMMA RunAnswers ==
    ASSUME RecType, NParts > 0, NEW l \in Known, Rank(l) < 9, NEW answers \in BOOLEAN, Runs(l, answers),
           \A p \in Known : Rank(p) < Rank(l) => Effect(p)
    PROVE  answers /\ Effect(l)'
  <1>1. NParts \in Nat /\ 1 \in 1..NParts
    BY UploadAssumption
  <1>2. l \in UploadLines /\ Rank(l) = Order[l.op] /\ l.op \in DOMAIN Order
    BY KnownFacts DEF Rank, UploadLines
  <1>3. /\ \A op \in DOMAIN Order \ {"part"} : Item(op) \in Known /\ Rank(Item(op)) = Order[op] /\ Item(op).op = op
        /\ \A n \in 1..NParts : Part(n) \in Known /\ Rank(Part(n)) = 4 /\ Part(n).op = "part" /\ Part(n).n = n
    <2>1. \A n \in 1..NParts : n \in Nat
      BY <1>1
    <2>2. \A n \in 1..NParts : Rank(Part(n)) = 4
      BY <2>1, LineFacts
    <2>3. \A n \in 1..NParts : Part(n) \in Known /\ Part(n).op = "part" /\ Part(n).n = n
      BY DEF Known, Part
    <2>4. \A op \in DOMAIN Order \ {"part"} : Item(op) \in Known /\ Item(op).op = op
      BY DEF Known, Item
    <2> QED BY <2>2, <2>3, <2>4, LineFacts
  <1>4. Rank(l) > 1 => partdir
    <2>1. Item("mkdir") \in Known /\ Rank(Item("mkdir")) = 1 /\ Item("mkdir").op = "mkdir"
      BY <1>3 DEF Order
    <2> QED BY <2>1 DEF Effect
  <1>5. Rank(l) > 4 => Whole /\ parts # EmptyDir
    <2> SUFFICES ASSUME Rank(l) > 4 PROVE Whole /\ parts # EmptyDir
      OBVIOUS
    <2>1. Item("rmparts") \in Known /\ Rank(Item("rmparts")) = 3 /\ Item("rmparts").op = "rmparts"
      BY <1>3 DEF Order
    <2>2. Rank(l) \in 1..9
      BY <1>2, LineFacts
    <2>3. parts[NParts + 1] = "none"
      BY <2>1, <2>2 DEF Effect
    <2>4. \A n \in 1..NParts : parts[n] = "good"
      BY <1>3, <2>2 DEF Effect
    <2>5. Whole
      BY <1>1, <2>3, <2>4 DEF Whole, Slots
    <2>6. parts[1] = "good" /\ EmptyDir[1] = "none"
      BY <1>1, <2>4 DEF EmptyDir, Slots
    <2> QED BY <2>5, <2>6
  <1>6. Rank(l) > 5 => encoded = "good"
    <2>1. Item("join") \in Known /\ Rank(Item("join")) = 5 /\ Item("join").op = "join"
      BY <1>3 DEF Order
    <2> QED BY <2>1 DEF Effect
  <1>7. Rank(l) > 6 => target = "good"
    <2>1. Item("decode") \in Known /\ Rank(Item("decode")) = 6 /\ Item("decode").op = "decode"
      BY <1>3 DEF Order
    <2> QED BY <2>1 DEF Effect
  <1>8. /\ (l.op = "mkdir" => Rank(l) = 1) /\ (l.op = "rmtarget" => Rank(l) = 2)
        /\ (l.op = "rmparts" => Rank(l) = 3) /\ (l.op = "part" => Rank(l) = 4)
        /\ (l.op = "join" => Rank(l) = 5) /\ (l.op = "decode" => Rank(l) = 6)
        /\ (l.op = "size" => Rank(l) = 7) /\ (l.op = "cksum" => Rank(l) = 8)
        /\ (l.op = "final" => Rank(l) = 9)
    BY <1>2 DEF Order
  <1>9. l.op = "part" => l.n \in 1..NParts /\ l.n \in Slots
    BY <1>1, KnownFacts DEF Slots
  <1>10. NParts + 1 \in Slots
    BY <1>1 DEF Slots
  <1>11. l.op \in {"mkdir", "rmtarget", "rmparts", "part", "join", "decode", "size", "cksum"}
    BY <1>2, <1>8 DEF Order
  <1>12. CASE l.op \in {"mkdir", "rmtarget", "rmparts"}
    BY <1>10, <1>12 DEF Runs, Effect, EmptyDir
  <1>13. CASE l.op = "part"
    <2>1. answers = partdir /\ parts' = IF partdir THEN [parts EXCEPT ![l.n] = "good"] ELSE parts
      BY <1>13 DEF Runs
    <2>2. Rank(l) > 1
      BY <1>8, <1>13
    <2>3. answers /\ parts' = [parts EXCEPT ![l.n] = "good"]
      BY <1>4, <2>1, <2>2
    <2>4. parts'[l.n] = "good"
      BY <1>9, <1>13, <2>3 DEF RecType
    <2> QED BY <1>13, <2>3, <2>4 DEF Effect
  <1>14. CASE l.op = "join"
    <2>1. answers = (parts # EmptyDir) /\ encoded' \in IF Whole THEN {"good"} ELSE Wrong
      BY <1>14 DEF Runs
    <2>2. Whole /\ parts # EmptyDir
      BY <1>5, <1>8, <1>14
    <2>3. answers
      BY <2>1, <2>2
    <2>4. encoded' = "good"
      BY <2>1, <2>2
    <2> QED BY <1>14, <2>3, <2>4 DEF Effect
  <1>15. CASE l.op = "decode"
    <2>1. /\ answers \in IF encoded = "good" THEN {TRUE} ELSE BOOLEAN
          /\ target' \in IF encoded = "good" THEN {"good"} ELSE Wrong
      BY <1>15 DEF Runs
    <2>2. encoded = "good"
      BY <1>6, <1>8, <1>15
    <2>3. answers = TRUE
      BY <2>1, <2>2
    <2>4. target' = "good"
      BY <2>1, <2>2
    <2> QED BY <1>15, <2>3, <2>4 DEF Effect
  <1>16. CASE l.op \in {"size", "cksum"}
    <2>1. target = "good"
      BY <1>7, <1>8, <1>16
    <2>2. answers = (target \in {"good", "other"}) \/ answers = (target = "good")
      BY <1>16 DEF Runs
    <2>3. answers
      BY <2>1, <2>2
    <2> QED BY <1>16, <2>3 DEF Effect
  <1> QED BY <1>11, <1>12, <1>13, <1>14, <1>15, <1>16

\* serial.py is in a call.
Busy == {"handshake", "prompt", "witness"}

\* Line l will have had its effect when what is on the wire has run: it is
\* still there, or it has run and nothing that could undo it is left.
Kept(l) ==
    \/ l \in LiveOf(wire)
    \/ l \notin ToSet(wire) /\ From(ToSet(wire), Rank(l)) /\ Effect(l)

\* What serial.py waits for is there or will come.
Answering ==
    /\ at = "prompt" => Prompt \in ToSet(console) \/ wire # <<>>
    /\ at = "witness" => \A l \in ToSet(Lines) : Kept(l) /\ (l \in LiveOf(wire) \/ l \in ToSet(console))

Asked == IF at = "witness" THEN ToSet(Lines) ELSE {}

\* No fault so far: the lines of a call are on the wire once, and are gone
\* when it ends.
Calm ==
    /\ faults = 0 /\ attempt = 1 /\ shell = "ready" /\ CtrlC \notin ToSet(wire) /\ NoTwice(wire)
    /\ ToSet(wire) \cap ToSet(console) \cap UploadLines = {}
    /\ ToSet(wire) \cap UploadLines \subseteq Asked
    /\ ToSet(console) \cap UploadLines \subseteq Past(stage) \cup Asked
    /\ Answering

\* The fault hit a line of this call: its witness will not come.
Struck ==
    /\ faults = 1 /\ attempt = 1 /\ CtrlC \notin ToSet(wire) /\ at = "witness"
    /\ ToSet(wire) \cap UploadLines \subseteq ToSet(Lines)
    /\ \E l \in ToSet(Lines) : l \notin ToSet(wire) /\ l \notin ToSet(console)

\* The fault is behind: the second attempt, or a later call.
Mending ==
    /\ faults = 1 /\ OneCtrlC(wire)
    /\ shell = "ready" \/ (shell = "open" /\ CtrlC \in ToSet(wire))
    /\ Answering

OnTheWay ==
    /\ \A p \in Past(stage) : Kept(p)
    /\ ToSet(wire) \cap UploadLines \subseteq Past(stage) \cup ToSet(Lines)
    /\ Calm \/ Struck \/ Mending

Going ==
    /\ UploadInv /\ RecType /\ faults <= 1
    /\ stage \in 1..7 + NBatches /\ at \in Busy /\ OnTheWay

LEMMA SameCall ==
    ASSUME stage' = stage
    PROVE  /\ Past(stage)' = Past(stage) /\ Lines' = Lines
           /\ StageRank(stage)' = StageRank(stage)
           /\ at' = at => Asked' = Asked
  BY DEF Past, Lines, StageRank, Asked

LEMMA GoingFacts ==
    ASSUME Going
    PROVE  /\ wire \in Seq(UploadLines \cup {Blank, CtrlC}) /\ Sorted(wire)
           /\ console \in Seq(UploadLines \cup {Prompt})
           /\ NBatches \in Nat /\ stage \in 1..8 + NBatches /\ Len(Script) = 8 + NBatches
           /\ StageRank(stage) \in 1..8 /\ Lines \in Seq(UploadLines)
           /\ \A l \in ToSet(Lines) : l \in Known /\ l \in UploadLines /\ Rank(l) = StageRank(stage) /\ l \notin Past(stage)
           /\ \A p \in Past(stage) : p \in Known /\ p \in UploadLines /\ Rank(p) <= StageRank(stage)
           /\ \A l \in ToSet(wire) \cap UploadLines : l \in Known /\ Rank(l) <= StageRank(stage)
           /\ faults \in {0, 1}
  <1>1. /\ wire \in Seq(UploadLines \cup {Blank, CtrlC}) /\ Sorted(wire)
        /\ console \in Seq(UploadLines \cup {Prompt})
    BY DEF Going, UploadInv, UploadType
  <1>2. NBatches \in Nat /\ stage \in 1..8 + NBatches /\ stage # 8 + NBatches /\ Len(Script) = 8 + NBatches
    BY BatchCount, ScriptRank DEF Going
  <1>3. StageRank(stage) \in 1..8
    BY <1>2, RankFacts
  <1>4. OfRank(Script[stage], StageRank(stage)) /\ Lines = Script[stage]
    BY <1>2, ScriptRank DEF Lines
  <1>5. Lines \in Seq(UploadLines) /\ \A l \in ToSet(Lines) : l \in UploadLines /\ Rank(l) = StageRank(stage)
    BY <1>4 DEF OfRank, ToSet
  <1>6. \A l \in ToSet(Lines) : l \in Known
    BY <1>2, <1>4, CallsKnown
  <1>7. \A p \in Past(stage) : p \in Known /\ Rank(p) <= StageRank(stage) /\ p \notin ToSet(Lines)
    BY <1>2, <1>4, PastFacts
  <1>8. \A l \in ToSet(wire) \cap UploadLines : l \in Known /\ Rank(l) <= StageRank(stage)
    BY <1>3, <1>5, <1>6, <1>7 DEF Going, OnTheWay
  <1>9. faults \in {0, 1}
    BY DEF Going, RecType
  <1> QED BY <1>1, <1>2, <1>3, <1>5, <1>6, <1>7, <1>8, <1>9, KnownFacts

\* Sending more lines breaks no promise.
LEMMA KeptSent ==
    ASSUME Going, NEW q \in Seq(UploadLines \cup {Blank, CtrlC}), Joins(wire', wire, q),
           CtrlC \notin ToSet(q), UNCHANGED files,
           \A x \in ToSet(q) \cap UploadLines : Rank(x) = StageRank(stage),
           NEW p \in UploadLines, Rank(p) <= StageRank(stage), Kept(p)
    PROVE  Kept(p)'
  <1> DEFINE S == UploadLines \cup {Blank, CtrlC}
  <1>1. wire \in Seq(S) /\ q \in Seq(S)
    BY GoingFacts
  <1> HIDE DEF S
  <1>2. LiveOf(wire) \subseteq LiveOf(wire') /\ ToSet(q) \subseteq LiveOf(wire')
    BY <1>1, LiveSent
  <1>3. ToSet(wire') = ToSet(wire) \cup ToSet(q)
    BY <1>1, Joined
  <1>4. Effect(p) => Effect(p)'
    BY DEF Effect, files
  <1>5. CASE p \in LiveOf(wire) \cup ToSet(q)
    BY <1>2, <1>5 DEF Kept
  <1>6. CASE p \notin LiveOf(wire) \cup ToSet(q)
    <2>1. p \notin ToSet(wire) /\ From(ToSet(wire), Rank(p)) /\ Effect(p)
      BY <1>6 DEF Kept
    <2>2. From(ToSet(wire'), Rank(p))
      BY <1>3, <2>1 DEF From
    <2> QED BY <1>3, <1>4, <1>6, <2>1, <2>2 DEF Kept
  <1> QED BY <1>5, <1>6

\* Behind the first line of a sorted wire.
LEMMA HeadFirst ==
    ASSUME Going, wire # <<>>, Drops(wire', wire, 1)
    PROVE  /\ Head(wire) \in ToSet(wire) /\ ToSet(wire) = ToSet(wire') \cup {Head(wire)}
           /\ Head(wire) \in UploadLines =>
                /\ From(ToSet(wire), Rank(Head(wire)))
                /\ Head(wire) \in Known /\ Rank(Head(wire)) \in 1..8 /\ Rank(Head(wire)) <= StageRank(stage)
  <1> DEFINE S == UploadLines \cup {Blank, CtrlC}
  <1>1. wire \in Seq(S) /\ Sorted(wire) /\ StageRank(stage) \in 1..8
        /\ \A l \in ToSet(wire) \cap UploadLines : l \in Known /\ Rank(l) <= StageRank(stage)
    BY GoingFacts
  <1> HIDE DEF S
  <1>2. ToSet(wire) = ToSet(wire') \cup {Head(wire)}
    BY <1>1, LiveTaken
  <1>3. 1 \in 1..Len(wire)
    BY <1>1
  <1>4. ASSUME Head(wire) \in UploadLines PROVE From(ToSet(wire'), Rank(Head(wire)))
    BY <1>1, <1>3, <1>4, BehindHead
  <1>5. Head(wire) \in UploadLines => Rank(Head(wire)) \in 1..9
    BY LineFacts
  <1>6. Head(wire) \in UploadLines => From(ToSet(wire), Rank(Head(wire)))
    BY <1>2, <1>4, <1>5 DEF From
  <1> QED BY <1>1, <1>2, <1>5, <1>6

\* Taking the first thing keeps a promise if its own line has its effect.
LEMMA KeptTaken ==
    ASSUME Going, wire # <<>>, Drops(wire', wire, 1), NEW p \in UploadLines, Kept(p),
           p # Head(wire) /\ Effect(p) /\ (Head(wire) \in UploadLines => Rank(p) <= Rank(Head(wire))) => Effect(p)',
           p = Head(wire) => p \in LiveOf(wire') \/ Effect(p)'
    PROVE  Kept(p)'
  <1> DEFINE S == UploadLines \cup {Blank, CtrlC}
  <1>1. wire \in Seq(S)
    BY GoingFacts
  <1> HIDE DEF S
  <1>2. /\ ToSet(wire) = ToSet(wire') \cup {Head(wire)}
        /\ Head(wire) \in UploadLines => From(ToSet(wire), Rank(Head(wire)))
    BY HeadFirst
  <1>3. \A x \in LiveOf(wire) : x \in LiveOf(wire') \/ (x = Head(wire) /\ CtrlC \notin ToSet(wire))
    BY <1>1, LiveTaken
  <1>4. CASE p \in LiveOf(wire')
    BY <1>4 DEF Kept
  <1>5. CASE p \in LiveOf(wire) /\ p \notin LiveOf(wire')
    <2>1. p = Head(wire) /\ CtrlC \notin ToSet(wire)
      BY <1>3, <1>5
    <2>2. LiveOf(wire') = ToSet(wire')
      BY <1>2, <2>1, LiveFacts
    <2>3. From(ToSet(wire'), Rank(p))
      BY <1>2, <2>1 DEF From
    <2> QED BY <1>5, <2>1, <2>2, <2>3 DEF Kept
  <1>6. CASE p \notin LiveOf(wire)
    <2>1. p \notin ToSet(wire) /\ From(ToSet(wire), Rank(p)) /\ Effect(p)
      BY <1>6 DEF Kept
    <2>2. p # Head(wire) /\ p \notin ToSet(wire') /\ From(ToSet(wire'), Rank(p))
      BY <1>2, <2>1 DEF From
    <2>3. Head(wire) \in UploadLines => Rank(p) <= Rank(Head(wire))
      BY <1>2, <2>1 DEF From
    <2> QED BY <2>1, <2>2, <2>3 DEF Kept
  <1> QED BY <1>4, <1>5, <1>6

\* The first line finds what the earlier kinds leave.
LEMMA HeadEffects ==
    ASSUME Going, wire # <<>>, Head(wire) \in UploadLines, Drops(wire', wire, 1),
           NEW p \in Known, Rank(p) < Rank(Head(wire))
    PROVE  Effect(p)
  <1>1. /\ From(ToSet(wire), Rank(Head(wire)))
        /\ Rank(Head(wire)) \in 1..8 /\ Rank(Head(wire)) <= StageRank(stage)
    BY HeadFirst
  <1>2. p \in UploadLines /\ Rank(p) \in 1..9
    BY KnownFacts, LineFacts
  <1>3. stage \in 1..8 + NBatches /\ StageRank(stage) \in 1..8
    BY GoingFacts
  <1>4. Rank(p) < StageRank(stage)
    BY <1>1, <1>2, <1>3
  <1>5. p \in Past(stage)
    BY <1>3, <1>4, PastHolds
  <1>6. p \notin ToSet(wire)
    BY <1>1, <1>2 DEF From
  <1>7. Kept(p)
    BY <1>5 DEF Going, OnTheWay
  <1> QED BY <1>6, <1>7, LiveFacts DEF Kept

LEMMA Onward ==
    ASSUME Going, stage' = stage, \A p \in Past(stage) : Kept(p)',
           \A l \in ToSet(wire') \cap UploadLines : l \in ToSet(wire) \/ l \in ToSet(Lines),
           Calm' \/ Struck' \/ Mending'
    PROVE  OnTheWay'
  <1>1. Past(stage)' = Past(stage) /\ Lines' = Lines
    BY SameCall
  <1>2. ToSet(wire) \cap UploadLines \subseteq Past(stage) \cup ToSet(Lines)
    BY DEF Going, OnTheWay
  <1>3. ToSet(wire') \cap UploadLines \subseteq Past(stage) \cup ToSet(Lines)
    BY <1>2
  <1> QED BY <1>1, <1>3 DEF OnTheWay

\* The guest takes the first thing, without a fault.
LEMMA Progress ==
    ASSUME Going, wire # <<>>, Drops(wire', wire, 1), UNCHANGED <<at, stage, attempt, faults>>,
           ToSet(console) \subseteq ToSet(console'),
           ToSet(console') \subseteq ToSet(console) \cup {Prompt, Head(wire)},
           \A p \in Past(stage) : Kept(p)',
           Calm \/ Mending => /\ \A l \in ToSet(Lines) : Kept(l) => Kept(l)'
                              /\ Head(wire) \in LiveOf(wire') \cup ToSet(console') \/ Head(wire) \notin UploadLines
                              /\ Prompt \in ToSet(console') \/ wire' # <<>>
                              /\ shell' = "ready" \/ (shell' = "open" /\ CtrlC \in ToSet(wire')),
           Calm => shell' = "ready"
    PROVE  OnTheWay'
  <1> DEFINE S == UploadLines \cup {Blank, CtrlC}
  <1>1. wire \in Seq(S) /\ \A l \in ToSet(Lines) : l \in UploadLines
    BY GoingFacts
  <1> HIDE DEF S
  <1>2. /\ \A x \in LiveOf(wire) : x \in LiveOf(wire') \/ x = Head(wire)
        /\ ToSet(wire) = ToSet(wire') \cup {Head(wire)}
        /\ OneCtrlC(wire) => OneCtrlC(wire')
        /\ NoTwice(wire) => NoTwice(wire') /\ (Head(wire) \in UploadLines => Head(wire) \notin ToSet(wire'))
    BY <1>1, LiveTaken
  <1>3. Past(stage)' = Past(stage) /\ Lines' = Lines /\ Asked' = Asked
    BY SameCall
  <1>4. Prompt \notin UploadLines
    BY LineFacts
  <1>5. ASSUME Calm \/ Mending PROVE Answering'
    <2>1. Answering
      BY <1>5 DEF Calm, Mending
    <2>2. at' = "prompt" => Prompt \in ToSet(console') \/ wire' # <<>>
      BY <1>5
    <2>3. ASSUME at' = "witness", NEW l \in ToSet(Lines) PROVE Kept(l)' /\ (l \in LiveOf(wire') \/ l \in ToSet(console'))
      <3>1. Kept(l) /\ (l \in LiveOf(wire) \/ l \in ToSet(console))
        BY <2>1, <2>3 DEF Answering
      <3>2. Kept(l)'
        BY <1>5, <3>1
      <3>3. l \in LiveOf(wire') \/ l \in ToSet(console')
        BY <1>1, <1>2, <1>5, <3>1
      <3> QED BY <3>2, <3>3
    <2> QED BY <1>3, <2>2, <2>3 DEF Answering
  <1>6. CASE Calm
    <2>1. Answering'
      BY <1>5, <1>6
    <2>2. /\ faults' = 0 /\ attempt' = 1 /\ shell' = "ready" /\ CtrlC \notin ToSet(wire') /\ NoTwice(wire')
      BY <1>2, <1>6 DEF Calm
    <2>3. ToSet(wire') \cap ToSet(console') \cap UploadLines = {}
      BY <1>2, <1>4, <1>6 DEF Calm
    <2>4. ToSet(wire') \cap UploadLines \subseteq Asked
      BY <1>2, <1>6 DEF Calm
    <2>5. ToSet(console') \cap UploadLines \subseteq Past(stage) \cup Asked
      BY <1>2, <1>4, <1>6 DEF Calm
    <2>6. Calm'
      BY <1>3, <2>1, <2>2, <2>3, <2>4, <2>5 DEF Calm
    <2> QED BY <1>2, <2>6, Onward
  <1>7. CASE Struck
    <2>1. PICK l \in ToSet(Lines) : l \notin ToSet(wire) /\ l \notin ToSet(console)
      BY <1>7 DEF Struck
    <2>2. l \notin ToSet(wire') /\ l \notin ToSet(console')
      BY <1>1, <1>2, <1>4, <2>1
    <2>3. Struck'
      BY <1>2, <1>3, <1>7, <2>2 DEF Struck
    <2> QED BY <1>2, <2>3, Onward
  <1>8. CASE Mending
    <2>1. Answering'
      BY <1>5, <1>8
    <2>2. Mending'
      BY <1>2, <1>8, <2>1 DEF Mending
    <2> QED BY <1>2, <2>2, Onward
  <1> QED BY <1>6, <1>7, <1>8 DEF Going, OnTheWay

\* The first fault hits the first line.
LEMMA Damage ==
    ASSUME Going, Calm, wire # <<>>, Drops(wire', wire, 1), Head(wire) \in UploadLines,
           UNCHANGED <<at, stage, attempt>>, faults' = 1, Touches(Head(wire)),
           ToSet(console') \subseteq ToSet(console) \cup {Prompt}
    PROVE  OnTheWay'
  <1> DEFINE l == Head(wire)
             S == UploadLines \cup {Blank, CtrlC}
  <1>1. wire \in Seq(S) /\ RecType
        /\ \A x \in ToSet(Lines) : x \notin Past(stage)
        /\ \A p \in Past(stage) : p \in Known /\ p \in UploadLines
    BY GoingFacts DEF Going
  <1>2. /\ l \in ToSet(wire) /\ ToSet(wire) = ToSet(wire') \cup {l}
        /\ l \in Known /\ Rank(l) \in 1..8
    BY HeadFirst
  <1> HIDE DEF S
  <1>3. l \notin ToSet(wire')
    BY <1>1, LiveTaken DEF Calm
  <1>4. l \in Asked /\ l \notin ToSet(console)
    BY <1>2 DEF Calm
  <1>5. at = "witness" /\ l \in ToSet(Lines)
    BY <1>4 DEF Asked
  <1>6. Past(stage)' = Past(stage) /\ Lines' = Lines
    BY SameCall
  <1>7. l \notin ToSet(console')
    BY <1>4, LineFacts
  <1>8. ToSet(wire') \cap UploadLines \subseteq ToSet(Lines)
    BY <1>2, <1>5 DEF Calm, Asked
  <1>9. Struck'
    BY <1>2, <1>3, <1>5, <1>6, <1>7, <1>8 DEF Calm, Struck
  <1>10. ASSUME NEW p \in Past(stage) PROVE Kept(p)'
    <2>1. Kept(p) /\ p # l /\ p \in Known /\ p \in UploadLines
      BY <1>1, <1>5 DEF Going, OnTheWay
    <2>2. Effect(p) /\ Rank(p) <= Rank(l) => Effect(p)'
      <3>1. Rank(l) < 9
        BY <1>2
      <3> QED BY <1>1, <1>2, <2>1, <3>1, EffectStays
    <2> QED BY <2>1, <2>2, KeptTaken
  <1> QED BY <1>2, <1>9, <1>10, Onward

\* What the guest prints.
LEMMA Printing ==
    ASSUME Going, NEW out \in Seq(UploadLines \cup {Prompt}), Says(out)
    PROVE  ToSet(console') = ToSet(console) \cup ToSet(out)
  <1> DEFINE C == UploadLines \cup {Prompt}
  <1>1. console \in Seq(C) /\ out \in Seq(C) /\ Joins(console', console, out)
    BY GoingFacts DEF Says, Joins
  <1> HIDE DEF C
  <1> QED BY <1>1, Joined

LEMMA TakenHead ==
    ASSUME Going, wire # <<>>, Taken
    PROVE  /\ Drops(wire', wire, 1) /\ UNCHANGED <<at, stage, attempt>>
           /\ IsLine(Head(wire)) => Head(wire) \in UploadLines
  <1>1. UploadInv
    BY DEF Going
  <1>2. Drops(wire', wire, 1)
    BY <1>1, TailFacts DEF Taken
  <1> QED BY <1>1, <1>2, WireHead DEF Taken

LEMMA LineRunsOn ==
    ASSUME Going, NParts > 0, LineRuns, faults' <= 1 PROVE OnTheWay'
  <1>1. /\ wire # <<>> /\ IsLine(Head(wire)) /\ shell' = "ready" /\ Taken
    BY DEF LineRuns
  <1>0. PICK l : l = Head(wire)
    OBVIOUS
  <1>2. Drops(wire', wire, 1) /\ UNCHANGED <<at, stage, attempt>> /\ l \in UploadLines
    BY <1>0, <1>1, TakenHead
  <1>3. l \in Known /\ Rank(l) \in 1..8 /\ ToSet(wire) = ToSet(wire') \cup {l}
    BY <1>0, <1>1, <1>2, HeadFirst
  <1>4. PICK answers \in BOOLEAN :
            /\ Runs(l, answers)
            /\ \/ Says(IF answers THEN <<l, Prompt>> ELSE <<Prompt>>) /\ UNCHANGED faults
               \/ answers /\ Says(<<Prompt>>) /\ Fault
    BY <1>0 DEF LineRuns
  <1>5. RecType /\ faults \in {0, 1} /\ Rank(l) < 9
    BY <1>3, GoingFacts DEF Going
  <1>6. \A p \in Known : Rank(p) < Rank(l) => Effect(p)
    BY <1>0, <1>1, <1>2, HeadEffects
  <1>7. answers /\ Effect(l)'
    BY <1>3, <1>4, <1>5, <1>6, RunAnswers
  <1>8. Touches(l)
    BY <1>4 DEF Touches
  <1>9. ASSUME NEW p \in Known, Kept(p) PROVE Kept(p)'
    <2>1. p # l /\ Effect(p) /\ Rank(p) <= Rank(l) => Effect(p)'
      BY <1>3, <1>5, <1>8, EffectStays
    <2>2. p \in UploadLines
      BY KnownFacts
    <2> QED BY <1>0, <1>1, <1>2, <1>7, <1>9, <2>1, <2>2, KeptTaken
  <1>10. CASE Says(<<l, Prompt>>) /\ UNCHANGED faults
    <2>1. ToSet(console') = ToSet(console) \cup {l, Prompt}
      <3>1. <<l, Prompt>> \in Seq(UploadLines \cup {Prompt}) /\ ToSet(<<l, Prompt>>) = {l, Prompt}
        BY <1>2, Outputs
      <3> QED BY <1>10, <3>1, Printing
    <2>2. \A p \in Past(stage) : Kept(p)'
      BY <1>9, GoingFacts DEF Going, OnTheWay
    <2>3. \A x \in ToSet(Lines) : Kept(x) => Kept(x)'
      BY <1>9, GoingFacts
    <2> QED BY <1>0, <1>1, <1>2, <1>10, <2>1, <2>2, <2>3, Progress
  <1>11. CASE Says(<<Prompt>>) /\ Fault
    <2>1. ToSet(console') = ToSet(console) \cup {Prompt}
      BY <1>11, Outputs, Printing
    <2>2. faults = 0 /\ faults' = 1
      BY <1>5, <1>11 DEF Fault
    <2>3. Calm
      BY <2>2 DEF Going, OnTheWay, Struck, Mending
    <2> QED BY <1>0, <1>1, <1>2, <1>8, <2>1, <2>2, <2>3, Damage
  <1> QED BY <1>4, <1>7, <1>10, <1>11

LEMMA LineDamagedOn ==
    ASSUME Going, LineGarbled \/ LineLost, faults' <= 1 PROVE OnTheWay'
  <1>1. /\ wire # <<>> /\ IsLine(Head(wire)) /\ Taken /\ Fault
    BY DEF LineGarbled, LineLost
  <1>2. Drops(wire', wire, 1) /\ UNCHANGED <<at, stage, attempt>> /\ Head(wire) \in UploadLines
    BY <1>1, TakenHead
  <1>3. Touches(Head(wire))
    BY DEF LineGarbled, LineLost, Touches
  <1>4. Says(<<Prompt>>) \/ console' = console
    BY DEF LineGarbled, LineLost
  <1>5. ToSet(console') \subseteq ToSet(console) \cup {Prompt}
    BY <1>4, Outputs, Printing
  <1>6. faults \in {0, 1}
    BY GoingFacts
  <1>7. faults = 0 /\ faults' = 1
    BY <1>1, <1>6 DEF Fault
  <1>8. Calm
    BY <1>7 DEF Going, OnTheWay, Struck, Mending
  <1> QED BY <1>1, <1>2, <1>3, <1>5, <1>7, <1>8, Damage

LEMMA SwallowOn ==
    ASSUME Going, Swallow PROVE OnTheWay'
  <1>1. /\ wire # <<>> /\ Head(wire) # CtrlC /\ shell = "open" /\ Taken
        /\ UNCHANGED <<console, shell, files, faults>>
    BY DEF Swallow
  <1>2. Drops(wire', wire, 1) /\ UNCHANGED <<at, stage, attempt>>
    BY <1>1, TakenHead
  <1> DEFINE S == UploadLines \cup {Blank, CtrlC}
  <1>3. /\ wire \in Seq(S)
        /\ \A x \in ToSet(Lines) : x \in UploadLines /\ x \notin Past(stage)
        /\ \A p \in Past(stage) : p \in UploadLines
    BY GoingFacts
  <1>4. ~Calm
    BY <1>1 DEF Calm
  <1>5. ToSet(wire) = ToSet(wire') \cup {Head(wire)} /\ Head(wire) \in ToSet(wire)
    BY <1>1, <1>2, HeadFirst
  <1>6. \A p : Effect(p) => Effect(p)'
    BY <1>1 DEF Effect, files
  <1> HIDE DEF S
  <1>7. \A x \in LiveOf(wire) : x \in LiveOf(wire') \/ CtrlC \notin ToSet(wire)
    BY <1>1, <1>2, <1>3, LiveTaken
  <1>8. ASSUME NEW p \in UploadLines, Kept(p), p # Head(wire) \/ CtrlC \in ToSet(wire) PROVE Kept(p)'
    <2>1. p = Head(wire) => p \in LiveOf(wire')
      BY <1>5, <1>7, <1>8 DEF Kept
    <2> QED BY <1>1, <1>2, <1>6, <1>8, <2>1, KeptTaken
  <1>9. CASE Mending
    <2>1. CtrlC \in ToSet(wire) /\ CtrlC \in ToSet(wire')
      BY <1>1, <1>5, <1>9 DEF Mending
    <2>2. wire' # <<>>
      BY <2>1 DEF ToSet
    <2>3. \A p \in Past(stage) : Kept(p)'
      BY <1>3, <1>8, <2>1 DEF Going, OnTheWay
    <2>4. \A x \in ToSet(Lines) : Kept(x) => Kept(x)'
      BY <1>3, <1>8, <2>1
    <2>5. Answering'
      <3>1. Lines' = Lines
        BY <1>2, SameCall
      <3>2. \A x \in LiveOf(wire) : x \in LiveOf(wire')
        BY <1>7, <2>1
      <3>3. Answering
        BY <1>9 DEF Mending
      <3> QED BY <1>1, <1>2, <2>2, <2>4, <3>1, <3>2, <3>3 DEF Answering
    <2>6. OneCtrlC(wire')
      BY <1>1, <1>2, <1>3, <1>9, LiveTaken DEF Mending
    <2>7. Mending'
      BY <1>1, <1>9, <2>1, <2>5, <2>6 DEF Mending
    <2> QED BY <1>2, <1>5, <2>3, <2>7, Onward
  <1>10. CASE ~Mending
    <2>1. Struck
      BY <1>4, <1>10 DEF Going, OnTheWay
    <2>2. ASSUME NEW p \in Past(stage) PROVE Kept(p)'
      <3>1. p # Head(wire) /\ p \in UploadLines /\ Kept(p)
        BY <1>3, <1>5, <2>1 DEF Struck, Going, OnTheWay
      <3> QED BY <1>8, <3>1
    <2>3. ToSet(console') = ToSet(console)
      BY <1>1
    <2> QED BY <1>1, <1>2, <1>4, <1>10, <2>2, <2>3, Progress
  <1> QED BY <1>9, <1>10

LEMMA NewlineOn ==
    ASSUME Going, Newline PROVE OnTheWay'
  <1>1. /\ wire # <<>> /\ Head(wire) = Blank /\ shell' = "ready" /\ Taken /\ Says(<<Prompt>>)
        /\ UNCHANGED <<files, faults>>
    BY DEF Newline
  <1>2. Drops(wire', wire, 1) /\ UNCHANGED <<at, stage, attempt>> /\ Head(wire) \notin UploadLines
    BY <1>1, TakenHead, LineFacts
  <1>3. ToSet(console') = ToSet(console) \cup {Prompt}
    BY <1>1, Outputs, Printing
  <1>4. \A p : Effect(p) => Effect(p)'
    BY <1>1 DEF Effect, files
  <1>5. \A p \in UploadLines : Kept(p) => Kept(p)'
    BY <1>1, <1>2, <1>4, KeptTaken
  <1>6. \A p \in Past(stage) : Kept(p)'
    BY <1>5, GoingFacts DEF Going, OnTheWay
  <1>7. \A x \in ToSet(Lines) : Kept(x) => Kept(x)'
    BY <1>5, GoingFacts
  <1> QED BY <1>1, <1>2, <1>3, <1>6, <1>7, Progress

LEMMA InterruptOn ==
    ASSUME Going, Interrupt PROVE OnTheWay'
  <1> DEFINE S == UploadLines \cup {Blank, CtrlC}
  <1>1. PICK k \in 1..Len(wire) : wire[k] = CtrlC /\ wire' = SubSeq(wire, k + 1, Len(wire))
    BY DEF Interrupt
  <1>2. /\ shell' = "ready" /\ Says(<<Prompt>>) /\ UNCHANGED <<at, stage, attempt, faults>>
        /\ UNCHANGED files \/ (IsLine(Head(wire)) /\ Touches(Head(wire)))
    BY DEF Interrupt, Touches
  <1>3. /\ wire \in Seq(S) /\ StageRank(stage) \in 1..8
        /\ \A p \in Past(stage) : p \in Known /\ p \in UploadLines
        /\ \A x \in ToSet(Lines) : x \in Known /\ x \in UploadLines
        /\ \A l \in ToSet(wire) \cap UploadLines : l \in Known /\ Rank(l) <= StageRank(stage)
    BY GoingFacts
  <1>4. Drops(wire', wire, k) /\ CtrlC \in ToSet(wire) /\ Head(wire) \in ToSet(wire) /\ wire # <<>>
    BY <1>1, <1>3 DEF Drops, ToSet
  <1>5. Mending
    BY <1>4 DEF Going, OnTheWay, Calm, Struck
  <1> HIDE DEF S
  <1>6. /\ ToSet(wire') \subseteq ToSet(wire) /\ CtrlC \notin ToSet(wire')
        /\ LiveOf(wire) \subseteq ToSet(wire') /\ LiveOf(wire') = ToSet(wire')
    BY <1>1, <1>3, <1>4, <1>5, LiveFlushed DEF Mending
  <1>7. ASSUME NEW p \in Known, Kept(p) PROVE Kept(p)'
    <2>1. CASE p \in LiveOf(wire)
      BY <1>6, <2>1 DEF Kept
    <2>2. CASE p \notin LiveOf(wire)
      <3>1. p \notin ToSet(wire) /\ From(ToSet(wire), Rank(p)) /\ Effect(p)
        BY <1>7, <2>2 DEF Kept
      <3>2. Effect(p)'
        <4>1. CASE UNCHANGED files
          BY <3>1, <4>1 DEF Effect, files
        <4>2. CASE IsLine(Head(wire)) /\ Touches(Head(wire))
          <5>1. Head(wire) \in UploadLines
            BY <1>4, <4>2, WireHead DEF Going
          <5>2. Head(wire) \in Known /\ Rank(Head(wire)) <= StageRank(stage) /\ Rank(p) <= Rank(Head(wire)) /\ p # Head(wire)
            BY <1>3, <1>4, <3>1, <5>1 DEF From
          <5>3. Rank(Head(wire)) < 9
            BY <1>3, <5>1, <5>2, LineFacts
          <5>4. RecType
            BY DEF Going
          <5> QED BY <3>1, <4>2, <5>2, <5>3, <5>4, EffectStays
        <4> QED BY <1>2, <4>1, <4>2
      <3>3. p \notin ToSet(wire') /\ From(ToSet(wire'), Rank(p))
        BY <1>6, <3>1 DEF From
      <3> QED BY <3>2, <3>3 DEF Kept
    <2> QED BY <2>1, <2>2
  <1>8. ToSet(console') = ToSet(console) \cup {Prompt}
    BY <1>2, Outputs, Printing
  <1>9. Lines' = Lines
    BY <1>2, SameCall
  <1>10. Answering'
    <2>1. Answering
      BY <1>5 DEF Mending
    <2> QED BY <1>2, <1>3, <1>6, <1>7, <1>8, <1>9, <2>1 DEF Answering
  <1>11. OneCtrlC(wire')
    BY <1>6 DEF OneCtrlC, ToSet
  <1>12. Mending'
    BY <1>2, <1>5, <1>10, <1>11 DEF Mending
  <1>13. \A p \in Past(stage) : Kept(p)'
    BY <1>3, <1>7 DEF Going, OnTheWay
  <1> QED BY <1>2, <1>6, <1>12, <1>13, Onward

\* A call sends every line once.
LEMMA CallOnce ==
    ASSUME NEW i \in 1..8 + NBatches PROVE NoTwice(Script[i])
  <1>1. NBatches \in Nat
    BY BatchCount
  <1>2. ASSUME NEW op, Script[i] = Do(op) PROVE NoTwice(Script[i])
    <2>1. DOMAIN Script[i] = {1}
      BY <1>2 DEF Do
    <2> QED BY <2>1 DEF NoTwice
  <1>3. CASE i \in {1, 2, 3, 4 + NBatches, 5 + NBatches, 6 + NBatches, 7 + NBatches, 8 + NBatches}
    BY <1>2, <1>3, Calls, ScriptRank
  <1>4. CASE i \in 4..3 + NBatches
    <2> DEFINE b == i - 3
    <2>1. b \in 1..NBatches /\ i = 3 + b
      BY <1>1, <1>4
    <2>2. Script[i] = BatchLines(b)
      BY <2>1, Calls
    <2> HIDE DEF b
    <2> DEFINE from == (b - 1) * Batch
               m == IF b * Batch <= NParts THEN Batch ELSE NParts - from
    <2>3. from \in Nat
      <3>1. b - 1 \in Nat /\ Batch \in Nat
        BY <1>1, <2>1, UploadAssumption
      <3> QED BY <3>1
    <2>4. BatchLines(b) = [j \in 1..m |-> Part(from + j)]
      BY DEF BatchLines
    <2> HIDE DEF from, m
    <2> SUFFICES ASSUME NEW j \in 1..m, NEW k \in 1..m, Part(from + j) = Part(from + k) PROVE j = k
      BY <2>2, <2>4 DEF NoTwice
    <2>5. from + j = from + k
      BY DEF Part
    <2>6. j \in Int /\ k \in Int
      OBVIOUS
    <2> QED BY <2>3, <2>5, <2>6
  <1> QED BY <1>1, <1>3, <1>4

\* Lines that follow none are on the wire once if they are sent once.
LEMMA SentOnce ==
    ASSUME NEW S, NEW w \in Seq(S), NEW q \in Seq(S), NEW v, Joins(v, w, q),
           ToSet(w) \cap UploadLines = {}, NoTwice(q)
    PROVE  NoTwice(v)
  <1>1. /\ v \in Seq(S) /\ Len(v) = Len(w) + Len(q) /\ Len(w) \in Nat /\ Len(q) \in Nat
        /\ \A i \in 1..Len(w) : v[i] = w[i]
        /\ \A i \in 1..Len(q) : v[Len(w) + i] = q[i]
        /\ DOMAIN v = 1..Len(v) /\ DOMAIN w = 1..Len(w) /\ DOMAIN q = 1..Len(q)
    BY DEF Joins
  <1>2. ASSUME NEW i \in DOMAIN v, v[i] \in UploadLines
        PROVE  i \in Int /\ i - Len(w) \in DOMAIN q /\ v[i] = q[i - Len(w)]
    <2>1. i \notin 1..Len(w)
      BY <1>1, <1>2 DEF ToSet
    <2>2. i - Len(w) \in 1..Len(q) /\ i = Len(w) + (i - Len(w))
      BY <1>1, <2>1
    <2> QED BY <1>1, <2>2
  <1> SUFFICES ASSUME NEW i \in DOMAIN v, NEW j \in DOMAIN v, v[i] = v[j], v[i] \in UploadLines PROVE i = j
    BY DEF NoTwice
  <1>3. /\ i \in Int /\ i - Len(w) \in DOMAIN q /\ v[i] = q[i - Len(w)]
        /\ j \in Int /\ j - Len(w) \in DOMAIN q /\ v[j] = q[j - Len(w)]
    BY <1>2
  <1>4. i - Len(w) = j - Len(w)
    BY <1>3 DEF NoTwice
  <1> QED BY <1>1, <1>3, <1>4

\* serial.py reads what was printed.
LEMMA Reading ==
    ASSUME Going, NEW k \in 0..Len(console), Read(k)
    PROVE  ToSet(console') \subseteq ToSet(console) /\ Among(k) \subseteq ToSet(console)
  <1> DEFINE C == UploadLines \cup {Prompt}
  <1>1. console \in Seq(C) /\ Drops(console', console, k)
    BY GoingFacts DEF Read, Drops
  <1>2. Among(k) \subseteq ToSet(console)
    <2> DEFINE c == SubSeq(console, 1, k)
    <2>1. DOMAIN console = 1..Len(console) /\ Len(console) \in Nat /\ k \in Nat
      BY <1>1
    <2>2. \A i \in DOMAIN c : i \in DOMAIN console /\ c[i] = console[i]
      BY <1>1, <2>1
    <2> QED BY <2>2 DEF Among, ToSet
  <1> HIDE DEF C
  <1> QED BY <1>1, <1>2, Suffix

LEMMA HandshakeOn ==
    ASSUME Going, Handshake PROVE OnTheWay'
  <1> DEFINE S == UploadLines \cup {Blank, CtrlC}
             q == <<Blank>>
  <1>1. /\ at = "handshake" /\ at' = "prompt" /\ wire' = Append(wire, Blank)
        /\ UNCHANGED <<stage, attempt, console, shell, files, faults>>
    BY DEF Handshake
  <1>2. wire \in Seq(S) /\ StageRank(stage) \in 1..8
    BY GoingFacts
  <1>3. q \in Seq(S) /\ ToSet(q) = {Blank} /\ Joins(wire', wire, q) /\ wire' # <<>>
    BY <1>1, <1>2 DEF ToSet, Joins
  <1>4. Blank \notin UploadLines /\ Blank # CtrlC
    BY LineFacts DEF Blank, CtrlC, Item
  <1> HIDE DEF S, q
  <1>5. ToSet(wire') = ToSet(wire) \cup {Blank}
    BY <1>2, <1>3, Joined
  <1>6. OneCtrlC(wire) => OneCtrlC(wire')
    BY <1>2, <1>3, <1>4, LiveSent
  <1>7. Past(stage)' = Past(stage) /\ Asked = {} /\ Asked' = {}
    BY <1>1, SameCall DEF Asked
  <1>8. Answering'
    BY <1>1, <1>3 DEF Answering
  <1>9. ASSUME NEW p \in Past(stage) PROVE Kept(p)'
    <2>1. Kept(p) /\ p \in UploadLines /\ Rank(p) <= StageRank(stage)
      BY GoingFacts DEF Going, OnTheWay
    <2>2. q \in Seq(UploadLines \cup {Blank, CtrlC})
      BY <1>3 DEF S
    <2> QED BY <1>1, <1>3, <1>4, <2>1, <2>2, KeptSent
  <1>10. CASE Calm
    <2>1. ToSet(wire') \cap UploadLines = {}
      BY <1>4, <1>5, <1>7, <1>10 DEF Calm
    <2>2. NoTwice(wire')
      BY <2>1 DEF NoTwice, ToSet
    <2>3. ToSet(console') \cap UploadLines \subseteq Past(stage)
      BY <1>1, <1>7, <1>10 DEF Calm
    <2>4. faults' = 0 /\ attempt' = 1 /\ shell' = "ready" /\ CtrlC \notin ToSet(wire')
      BY <1>1, <1>4, <1>5, <1>10 DEF Calm
    <2>5. Calm'
      BY <1>7, <1>8, <2>1, <2>2, <2>3, <2>4 DEF Calm
    <2> QED BY <1>1, <1>4, <1>5, <1>9, <2>5, Onward
  <1>11. CASE Mending
    <2>1. Mending'
      BY <1>1, <1>5, <1>6, <1>8, <1>11 DEF Mending
    <2> QED BY <1>1, <1>4, <1>5, <1>9, <2>1, Onward
  <1> QED BY <1>1, <1>10, <1>11 DEF Going, OnTheWay, Struck

LEMMA PromptSeenOn ==
    ASSUME Going, PromptSeen PROVE OnTheWay'
  <1> DEFINE S == UploadLines \cup {Blank, CtrlC}
  <1>1. /\ at = "prompt" /\ at' = "witness" /\ wire' = wire \o Lines
        /\ UNCHANGED <<stage, attempt, shell, files, faults>>
    BY DEF PromptSeen
  <1>2. PICK k \in 1..Len(console) : Read(k)
    BY DEF PromptSeen
  <1>3. ToSet(console') \subseteq ToSet(console)
    <2>1. k \in 0..Len(console)
      BY GoingFacts
    <2> QED BY <1>2, <2>1, Reading
  <1>4. /\ wire \in Seq(S) /\ Lines \in Seq(S) /\ stage \in 1..8 + NBatches /\ StageRank(stage) \in 1..8
        /\ \A l \in ToSet(Lines) : l \in UploadLines /\ Rank(l) = StageRank(stage) /\ l \notin Past(stage)
        /\ \A p \in Past(stage) : p \in UploadLines /\ Rank(p) <= StageRank(stage)
    BY GoingFacts
  <1>5. CtrlC \notin ToSet(Lines) /\ Joins(wire', wire, Lines)
    BY <1>1, <1>4, LineFacts DEF Joins
  <1>6. ASSUME NEW p \in UploadLines, Rank(p) <= StageRank(stage), Kept(p) PROVE Kept(p)'
    <2>1. \A x \in ToSet(Lines) \cap UploadLines : Rank(x) = StageRank(stage)
      BY <1>4
    <2> QED BY <1>1, <1>4, <1>5, <1>6, <2>1, KeptSent
  <1> HIDE DEF S
  <1>7. ToSet(wire') = ToSet(wire) \cup ToSet(Lines)
    BY <1>4, <1>5, Joined
  <1>8. ToSet(Lines) \subseteq LiveOf(wire') /\ (OneCtrlC(wire) => OneCtrlC(wire'))
    BY <1>4, <1>5, LiveSent
  <1>9. Past(stage)' = Past(stage) /\ Lines' = Lines
    BY <1>1, SameCall
  <1>10. Asked = {} /\ Asked' = ToSet(Lines)
    BY <1>1, <1>9 DEF Asked
  <1>11. Answering'
    BY <1>1, <1>8, <1>9 DEF Answering, Kept
  <1>12. \A p \in Past(stage) : Kept(p)'
    BY <1>4, <1>6 DEF Going, OnTheWay
  <1>13. CASE Calm
    <2>1. ToSet(wire) \cap UploadLines = {} /\ ToSet(console) \cap UploadLines \subseteq Past(stage)
      BY <1>10, <1>13 DEF Calm
    <2>2. NoTwice(Lines)
      BY <1>4, CallOnce DEF Lines
    <2>3. NoTwice(wire')
      BY <1>4, <1>5, <2>1, <2>2, SentOnce
    <2>4. ToSet(wire') \cap UploadLines \subseteq ToSet(Lines)
      BY <1>7, <2>1
    <2>5. ToSet(wire') \cap ToSet(console') \cap UploadLines = {}
      BY <1>3, <1>4, <2>1, <2>4
    <2>6. ToSet(console') \cap UploadLines \subseteq Past(stage)
      BY <1>3, <2>1
    <2>7. faults' = 0 /\ attempt' = 1 /\ shell' = "ready" /\ CtrlC \notin ToSet(wire')
      BY <1>1, <1>5, <1>7, <1>13 DEF Calm
    <2>8. Calm'
      BY <1>9, <1>10, <1>11, <2>3, <2>4, <2>5, <2>6, <2>7 DEF Calm
    <2> QED BY <1>1, <1>7, <1>12, <2>8, Onward
  <1>14. CASE Mending
    <2>1. Mending'
      BY <1>1, <1>7, <1>8, <1>11, <1>14 DEF Mending
    <2> QED BY <1>1, <1>7, <1>12, <2>1, Onward
  <1> QED BY <1>1, <1>13, <1>14 DEF Going, OnTheWay, Struck

\* A file that is not empty, and a second attempt for every call.
Retries == NParts > 0 /\ Attempts > 1 /\ BatchAttempts > 1

LEMMA NotExhausted ==
    ASSUME Retries, attempt = 1 PROVE ~Exhausted
  <1>1. Attempts # 1 /\ BatchAttempts # 1
    BY UploadAssumption DEF Retries
  <1> QED BY <1>1 DEF Exhausted, Limit

LEMMA PromptMissingOn ==
    ASSUME Going, Retries, PromptMissing, faults' <= 1 PROVE at' # "failed" /\ OnTheWay'
  <1>1. /\ at = "prompt" /\ TimesOut(Prompt \in ToSet(console)) /\ UNCHANGED <<stage, wire, shell, files>>
    BY DEF PromptMissing
  <1>2. ~Struck /\ (Calm \/ Mending => Answering)
    BY <1>1 DEF Struck, Calm, Mending
  <1>3. Prompt \in ToSet(console) \/ wire # <<>>
    BY <1>1, <1>2 DEF Going, OnTheWay, Answering
  <1>4. faults \in {0, 1} /\ faults' = faults + 1
    BY <1>1, <1>3, GoingFacts DEF TimesOut
  <1>5. faults = 0 /\ faults' = 1
    BY <1>4
  <1>6. Calm
    BY <1>5 DEF Going, OnTheWay, Struck, Mending
  <1>7. attempt = 1 /\ shell = "ready" /\ CtrlC \notin ToSet(wire)
    BY <1>6 DEF Calm
  <1>8. at' = "handshake"
    BY <1>7, NotExhausted DEF PromptMissing
  <1>9. OneCtrlC(wire')
    BY <1>1, <1>7 DEF OneCtrlC, ToSet
  <1>10. Mending'
    BY <1>1, <1>5, <1>7, <1>8, <1>9 DEF Mending, Answering
  <1>11. \A p \in Past(stage) : Kept(p)'
    BY <1>1 DEF Going, OnTheWay, Kept, Effect, files
  <1> QED BY <1>1, <1>8, <1>10, <1>11, Onward

\* A Ctrl-C flushes only lines of this call.
LEMMA CtrlCSent ==
    ASSUME Going, wire' = Append(wire, CtrlC), CtrlC \notin ToSet(wire), UNCHANGED <<stage, shell, files>>,
           ToSet(wire) \cap UploadLines \subseteq ToSet(Lines), shell \in {"ready", "open"},
           at' = "handshake", faults' = 1
    PROVE  OnTheWay'
  <1> DEFINE S == UploadLines \cup {Blank, CtrlC}
             q == <<CtrlC>>
  <1>1. /\ wire \in Seq(S)
        /\ \A l \in ToSet(Lines) : l \notin Past(stage)
        /\ \A p \in Past(stage) : p \in UploadLines
    BY GoingFacts
  <1>2. q \in Seq(S) /\ ToSet(q) = {CtrlC} /\ Joins(wire', wire, q)
    BY <1>1 DEF ToSet, Joins
  <1>3. CtrlC \notin UploadLines
    BY LineFacts
  <1>4. OneCtrlC(wire')
    <2>1. /\ DOMAIN wire = 1..Len(wire) /\ Len(wire) \in Nat /\ DOMAIN wire' = 1..Len(wire) + 1
          /\ \A i \in 1..Len(wire) : wire'[i] = wire[i]
      BY <1>1
    <2>2. \A i \in DOMAIN wire' : wire'[i] = CtrlC => i = Len(wire) + 1
      BY <2>1 DEF ToSet
    <2> QED BY <2>2 DEF OneCtrlC
  <1> HIDE DEF S, q
  <1>5. ToSet(wire') = ToSet(wire) \cup {CtrlC}
    BY <1>1, <1>2, Joined
  <1>6. ASSUME NEW p \in Past(stage) PROVE Kept(p)'
    <2>1. p \notin ToSet(wire) /\ p \in UploadLines /\ Kept(p)
      BY <1>1 DEF Going, OnTheWay
    <2>2. From(ToSet(wire), Rank(p)) /\ Effect(p)
      BY <2>1, LiveFacts DEF Kept
    <2>3. p \notin ToSet(wire') /\ From(ToSet(wire'), Rank(p))
      BY <1>3, <1>5, <2>1, <2>2 DEF From
    <2>4. Effect(p)'
      BY <2>2 DEF Effect, files
    <2> QED BY <2>3, <2>4 DEF Kept
  <1>7. Mending'
    BY <1>4, <1>5 DEF Mending, Answering
  <1> QED BY <1>3, <1>5, <1>6, <1>7, Onward

LEMMA WitnessMissingOn ==
    ASSUME Going, Retries, shell \in {"ready", "open"}, WitnessMissing, faults' <= 1
    PROVE  at' # "failed" /\ OnTheWay'
  <1>1. at = "witness" /\ TimesOut(Answered(Len(console))) /\ UNCHANGED <<stage, shell, files>>
    BY DEF WitnessMissing
  <1>2. faults \in {0, 1}
    BY GoingFacts
  <1>3. ASSUME ~Exhausted, faults' = 1, CtrlC \notin ToSet(wire), ToSet(wire) \cap UploadLines \subseteq ToSet(Lines)
        PROVE  at' # "failed" /\ OnTheWay'
    <2>1. at' = "handshake" /\ wire' = Append(wire, CtrlC)
      BY <1>3 DEF WitnessMissing, Recovery
    <2> QED BY <1>1, <1>3, <2>1, CtrlCSent
  <1>4. CASE Struck
    <2>1. faults' = 1 /\ CtrlC \notin ToSet(wire) /\ ToSet(wire) \cap UploadLines \subseteq ToSet(Lines) /\ attempt = 1
      <3>1. faults = 1 /\ attempt = 1 /\ CtrlC \notin ToSet(wire) /\ ToSet(wire) \cap UploadLines \subseteq ToSet(Lines)
        BY <1>4 DEF Struck
      <3>2. faults' = faults + 1 \/ faults' = faults
        BY <1>1 DEF TimesOut
      <3> QED BY <3>1, <3>2
    <2> QED BY <1>3, <2>1, NotExhausted
  <1>5. CASE Calm \/ Mending
    <2>1. \A l \in ToSet(Lines) : l \in LiveOf(wire) \/ l \in ToSet(console)
      BY <1>1, <1>5 DEF Calm, Mending, Answering
    <2>2. Answered(Len(console)) \/ wire # <<>>
      <3> SUFFICES ASSUME wire = <<>> PROVE Answered(Len(console))
        OBVIOUS
      <3>1. ToSet(wire) = {}
        BY DEF ToSet
      <3>2. ToSet(Lines) \subseteq ToSet(console)
        BY <2>1, <3>1, LiveFacts
      <3>3. SubSeq(console, 1, Len(console)) = console
        BY GoingFacts
      <3> QED BY <3>2, <3>3 DEF Answered, Among
    <2>3. faults' = faults + 1
      BY <1>1, <2>2 DEF TimesOut
    <2>4. faults = 0 /\ faults' = 1
      BY <1>2, <2>3
    <2>5. Calm
      BY <1>5, <2>4 DEF Mending
    <2>6. attempt = 1 /\ CtrlC \notin ToSet(wire) /\ ToSet(wire) \cap UploadLines \subseteq ToSet(Lines)
      BY <1>1, <2>5 DEF Calm, Asked
    <2> QED BY <1>3, <2>4, <2>6, NotExhausted
  <1> QED BY <1>4, <1>5 DEF Going, OnTheWay

LEMMA WitnessedOn ==
    ASSUME Going, Witnessed, stage' < Len(Script) PROVE at' # "failed" /\ OnTheWay'
  <1>1. /\ at = "witness" /\ attempt' = 1 /\ UNCHANGED <<wire, shell, files, faults>>
    BY DEF Witnessed
  <1>2. /\ NBatches \in Nat /\ stage \in 1..8 + NBatches /\ stage # 8 + NBatches /\ Len(Script) = 8 + NBatches
        /\ \A l \in ToSet(Lines) : l \in UploadLines
    BY GoingFacts DEF Going
  <1>3. at' = "handshake" /\ stage' = stage + 1
    BY <1>2 DEF Witnessed
  <1>4. PICK k \in 1..Len(console) : Answered(k) /\ Read(k)
    BY DEF Witnessed
  <1>5. ToSet(console') \subseteq ToSet(console) /\ ToSet(Lines) \subseteq ToSet(console)
    <2>1. k \in 0..Len(console)
      BY GoingFacts
    <2> QED BY <1>4, <2>1, Reading DEF Answered
  <1>6. Past(stage') = Past(stage) \cup ToSet(Lines)
    BY <1>2, <1>3, PastNext DEF Lines
  <1>7. Past(stage)' = Past(stage') /\ Asked' = {} /\ Asked = ToSet(Lines)
    BY <1>1, <1>3 DEF Past, Asked
  <1>8. Calm \/ Mending
    BY <1>5 DEF Going, OnTheWay, Struck
  <1>9. \A p \in Past(stage') : Kept(p)
    BY <1>1, <1>6, <1>8 DEF Going, OnTheWay, Calm, Mending, Answering
  <1>10. \A p \in Past(stage') : Kept(p)'
    BY <1>1, <1>9 DEF Kept, Effect, files
  <1>11. ToSet(wire') \cap UploadLines \subseteq Past(stage')
    BY <1>1, <1>6 DEF Going, OnTheWay
  <1>12. Answering'
    BY <1>3 DEF Answering
  <1>13. CASE Calm
    <2>1. ToSet(wire') \cap UploadLines = {}
      BY <1>1, <1>5, <1>7, <1>13 DEF Calm
    <2>2. ToSet(console') \cap UploadLines \subseteq Past(stage')
      BY <1>5, <1>6, <1>7, <1>13 DEF Calm
    <2>3. Calm'
      BY <1>1, <1>7, <1>12, <1>13, <2>1, <2>2 DEF Calm
    <2> QED BY <1>3, <1>7, <1>10, <1>11, <2>3 DEF OnTheWay
  <1>14. CASE Mending
    <2>1. Mending'
      BY <1>1, <1>12, <1>14 DEF Mending
    <2> QED BY <1>3, <1>7, <1>10, <1>11, <2>1 DEF OnTheWay
  <1> QED BY <1>8, <1>13, <1>14

-----------------------------------------------------------------------------
\* Until the last call, and as long as there was at most one fault, serial.py
\* has not given up and is on the way.
RecoverInv ==
    /\ UploadInv /\ RecType /\ shell \in {"ready", "open"}
    /\ faults <= 1 /\ strayed = {} /\ stage < Len(Script) => at # "failed" /\ (at \in Busy => OnTheWay)

\* The files stay files, and faults are not forgotten.
LEMMA RecTypeStep ==
    ASSUME RecType, [Next]_vars PROVE RecType' /\ faults <= faults'
  <1> DEFINE V == {"none", "good"} \cup Wrong
  <1>1. parts \in [Slots -> V] /\ faults \in Nat
    BY DEF RecType
  <1>2. EmptyDir \in [Slots -> V]
    BY DEF EmptyDir
  <1>3. \A n, c : c \in V => [parts EXCEPT ![n] = c] \in [Slots -> V]
    BY <1>1
  <1>4. /\ "good" \in V /\ "short" \in V /\ \A c \in Wrong : c \in V
    BY DEF Wrong
  <1>5. ASSUME NEW l, NEW answers \in BOOLEAN, Runs(l, answers) PROVE parts' \in [Slots -> V]
    <2>1. parts' = parts \/ parts' = EmptyDir \/ parts' = [parts EXCEPT ![l.n] = "good"]
      BY <1>5 DEF Runs, files
    <2> HIDE DEF V
    <2> QED BY <1>1, <1>2, <1>3, <1>4, <2>1
  <1>6. ASSUME NEW l, Stopped(l) PROVE parts' \in [Slots -> V]
    <2>1. parts' = parts \/ parts' = EmptyDir \/ parts' = [parts EXCEPT ![l.n] = "short"]
      BY <1>6 DEF Stopped
    <2> HIDE DEF V
    <2> QED BY <1>1, <1>2, <1>3, <1>4, <2>1
  <1>7. CASE LineRuns
    <2>1. \E answers \in BOOLEAN : Runs(Head(wire), answers)
      BY <1>7 DEF LineRuns
    <2>2. faults' = faults \/ faults' = faults + 1
      BY <1>7 DEF LineRuns, Fault
    <2>3. parts' \in [Slots -> V]
      BY <1>5, <2>1
    <2> QED BY <1>1, <2>2, <2>3 DEF RecType
  <1>8. CASE LineGarbled
    <2>1. (\E c \in Wrong : parts' = [parts EXCEPT ![Head(wire).n] = c]) \/ Stopped(Head(wire))
      BY <1>8 DEF LineGarbled
    <2>2. faults' = faults + 1
      BY <1>8 DEF LineGarbled, Fault
    <2>3. parts' \in [Slots -> V]
      <3> HIDE DEF V
      <3> QED BY <1>3, <1>4, <1>6, <2>1
    <2> QED BY <1>1, <2>2, <2>3 DEF RecType
  <1>11. CASE LineStrays
    <2>1. parts' = parts \/ parts' = EmptyDir \/ parts' = [parts EXCEPT ![NParts + 1] = "other"]
      BY <1>11 DEF LineStrays, Strays, files
    <2>2. faults' = faults + 1
      BY <1>11 DEF LineStrays, Fault
    <2>3. parts' \in [Slots -> V]
      <3>1. "other" \in V
        BY DEF Wrong
      <3> HIDE DEF V
      <3> QED BY <1>1, <1>2, <1>3, <2>1, <3>1
    <2> QED BY <1>1, <2>2, <2>3 DEF RecType
  <1>9. CASE Interrupt
    <2>1. faults' = faults
      BY <1>9 DEF Interrupt
    <2>2. CASE UNCHANGED files
      BY <1>1, <2>1, <2>2 DEF files, RecType
    <2>3. CASE Stopped(Head(wire)) \/ \E answers \in BOOLEAN : Runs(Head(wire), answers)
      <3>1. parts' \in [Slots -> V]
        BY <1>5, <1>6, <2>3
      <3> QED BY <1>1, <2>1, <3>1 DEF RecType
    <2> QED BY <1>9, <2>2, <2>3 DEF Interrupt
  <1>10. CASE Host \/ LineLost \/ Swallow \/ Newline \/ UNCHANGED vars
    <2>1. parts' = parts
      BY <1>10 DEF Host, Handshake, PromptSeen, PromptMissing, Witnessed, WitnessMissing, Closed, LineLost, Swallow, Newline, vars, files
    <2>2. faults' = faults \/ faults' = faults + 1
      BY <1>10 DEF Host, Handshake, PromptSeen, PromptMissing, Witnessed, WitnessMissing, Closed, LineLost, Swallow, Newline, vars, TimesOut, Fault
    <2> QED BY <1>1, <2>1, <2>2 DEF RecType
  <1> QED BY <1>7, <1>8, <1>9, <1>10, <1>11 DEF Next, Guest

LEMMA RecoverStep ==
    ASSUME Retries, RecoverInv, [Next]_vars PROVE RecoverInv'
  <1>1. UploadInv' /\ RecType' /\ faults <= faults'
    BY UploadStep, RecTypeStep DEF RecoverInv
  <1>2. shell' \in {"ready", "open"}
    <2>1. CASE Host \/ UNCHANGED vars
      BY <2>1 DEF RecoverInv, Host, Handshake, PromptSeen, PromptMissing, Witnessed, WitnessMissing, Closed, vars
    <2>2. CASE Guest
      BY <2>2 DEF RecoverInv, Guest, LineRuns, LineGarbled, LineStrays, LineLost, Swallow, Newline, Interrupt
    <2> QED BY <2>1, <2>2 DEF Next
  <1>3. ASSUME faults' <= 1, strayed' = {}, stage' < Len(Script) PROVE at' # "failed" /\ (at' \in Busy => OnTheWay')
    <2>0. strayed = {} /\ ~LineStrays
      BY <1>3 DEF Next, Host, Guest, Handshake, PromptSeen, PromptMissing, Witnessed, WitnessMissing, Closed,
             LineRuns, LineGarbled, LineStrays, LineLost, Swallow, Newline, Interrupt, Taken, vars
    <2>1. faults \in Nat /\ faults' \in Nat /\ faults <= 1
      BY <1>1, <1>3 DEF RecoverInv, RecType
    <2>2. /\ Len(Script) = 8 + NBatches /\ NBatches \in Nat /\ stage \in 1..8 + NBatches
          /\ UploadInv /\ RecType /\ shell \in {"ready", "open"}
      BY ScriptRank, BatchCount DEF RecoverInv, UploadInv, UploadType, Stages
    <2>3. stage' = stage \/ stage' = stage + 1
      BY DEF Next, Host, Guest, Handshake, PromptSeen, PromptMissing, Witnessed, WitnessMissing, Closed,
             LineRuns, LineGarbled, LineStrays, LineLost, Swallow, Newline, Interrupt, Taken, vars
    <2>4. stage \in 1..7 + NBatches /\ stage < Len(Script)
      BY <1>3, <2>2, <2>3
    <2>5. at # "failed" /\ (at \in Busy => Going)
      BY <2>0, <2>1, <2>2, <2>4 DEF RecoverInv, Going
    <2>6. CASE at \notin Busy
      <3>1. at' = at
        BY <2>6 DEF Busy, Next, Host, Guest, Handshake, PromptSeen, PromptMissing, Witnessed, WitnessMissing, Closed,
             LineRuns, LineGarbled, LineStrays, LineLost, Swallow, Newline, Interrupt, Taken, vars
      <3> QED BY <2>5, <2>6, <3>1
    <2>7. CASE Going
      <3>1. CASE Closed
        BY <3>1 DEF Closed, Busy
      <3>2. CASE Handshake \/ PromptSeen
        <4>1. at' # "failed"
          BY <3>2 DEF Handshake, PromptSeen
        <4> QED BY <2>7, <3>2, <4>1, HandshakeOn, PromptSeenOn
      <3>3. CASE PromptMissing \/ WitnessMissing
        BY <1>3, <2>2, <2>7, <3>3, PromptMissingOn, WitnessMissingOn
      <3>4. CASE Witnessed
        BY <1>3, <2>7, <3>4, WitnessedOn
      <3>5. CASE Guest
        <4>1. at' = at
          BY <3>5 DEF Guest, LineRuns, LineGarbled, LineStrays, LineLost, Swallow, Newline, Interrupt, Taken
        <4>2. NParts > 0
          BY DEF Retries
        <4>3. OnTheWay'
          BY <1>3, <2>0, <2>7, <3>5, <4>2, LineRunsOn, LineDamagedOn, SwallowOn, NewlineOn, InterruptOn DEF Guest
        <4> QED BY <2>5, <4>1, <4>3
      <3>6. CASE UNCHANGED vars
        <4>1. UNCHANGED <<at, stage, attempt, wire, console, shell, files, faults>>
          BY <3>6 DEF vars, files
        <4>2. Past(stage)' = Past(stage) /\ Lines' = Lines /\ Asked' = Asked
          BY <4>1, SameCall
        <4>3. \A p : Kept(p)' <=> Kept(p)
          BY <4>1 DEF Kept, Effect, files
        <4>4. Answering' <=> Answering
          BY <4>1, <4>2, <4>3 DEF Answering
        <4>5. Calm' \/ Struck' \/ Mending'
          BY <2>7, <4>1, <4>2, <4>4 DEF Going, OnTheWay, Calm, Struck, Mending
        <4>6. OnTheWay'
          BY <2>7, <4>1, <4>3, <4>5, Onward DEF Going, OnTheWay
        <4> QED BY <2>5, <4>1, <4>6
      <3> QED BY <3>1, <3>2, <3>3, <3>4, <3>5, <3>6 DEF Next, Host
    <2> QED BY <2>5, <2>6, <2>7
  <1>4. (Len(Script))' = Len(Script)
    BY DEF Script
  <1> QED BY <1>1, <1>2, <1>3, <1>4 DEF RecoverInv

LEMMA RecoverInitially == Init => RecoverInv
  <1> SUFFICES ASSUME Init PROVE RecoverInv
    OBVIOUS
  <1>1. /\ at = "handshake" /\ stage = 1 /\ attempt = 1 /\ wire = <<>> /\ console = <<>> /\ shell = "ready" /\ faults = 0
        /\ parts \in {EmptyDir, [n \in Slots |-> "other"]}
    BY DEF Init
  <1>2. UploadInv
    BY UploadInitially
  <1>3. RecType
    BY <1>1 DEF RecType, EmptyDir, Wrong
  <1>4. ToSet(wire) = {} /\ ToSet(console) = {} /\ DOMAIN wire = {}
    BY <1>1 DEF ToSet
  <1>5. Past(stage) = {}
    BY <1>1 DEF Past
  <1>6. Calm
    BY <1>1, <1>4 DEF Calm, NoTwice, Answering
  <1>7. OnTheWay
    BY <1>4, <1>5, <1>6 DEF OnTheWay
  <1> QED BY <1>1, <1>2, <1>3, <1>7 DEF RecoverInv

\* One lost, garbled or late line never makes upload() of a file that is not
\* empty give up before its last call, which removes a directory and cannot be
\* repeated, as long as no line runs on a damaged path: whatever the size of
\* the file and of the batches, if every call has a second attempt.
THEOREM OneFaultIsSurvived == ASSUME Retries PROVE Spec => []OneFaultRecovers
  <1>1. RecoverInv => OneFaultRecovers
    <2> SUFFICES ASSUME RecoverInv, at = "failed", faults <= 1, strayed = {} PROVE stage = Len(Script)
      BY DEF OneFaultRecovers
    <2>1. stage \in 1..8 + NBatches /\ Len(Script) = 8 + NBatches /\ NBatches \in Nat
      BY ScriptRank, BatchCount DEF RecoverInv, UploadInv, UploadType, Stages
    <2>2. ~(stage < Len(Script))
      BY DEF RecoverInv
    <2> QED BY <2>1, <2>2
  <1>2. RecoverInv /\ [Next]_vars => RecoverInv'
    BY RecoverStep
  <1> QED BY <1>1, <1>2, RecoverInitially, PTL DEF Spec

=============================================================================
