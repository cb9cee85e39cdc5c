---------------------- MODULE EaFileOfflineQueueProofs ----------------------
(***************************************************************************)
(* Proofs about EaFileOfflineQueue, for any items, any number of crashes   *)
(* and of failed or partial writes.  The lemmas about loops come from      *)
(* SessionOpsProofs, nothing else of that module is used.                  *)
(***************************************************************************)
EXTENDS EaFileOfflineQueue, SessionOpsProofs

Records == [id : Items, attempts : Nat]
Lines == [record : Records, parses : BOOLEAN, ended : BOOLEAN]

RecordsOf(f) == [i \in DOMAIN f |-> f[i].record]

Readable(f) == {f[i].record.id : i \in {j \in DOMAIN f : f[j].parses}}

(* FirstInFirstOut of one queue, for the items accepted in the order acc,  *)
(* and for the others that no two records have the same id.                *)
Orderly(q, acc) ==
  /\ \A i, j \in DOMAIN q : q[i].id = q[j].id => i = j
  /\ \A i, j \in DOMAIN q : \A k, l \in DOMAIN acc :
       q[i].id = acc[k] /\ q[j].id = acc[l] /\ i < j => k < l

(* The ids of q are among those of p, in the same order. *)
Follows(q, p) ==
  /\ \A i \in 1 .. Len(q) : \E k \in 1 .. Len(p) : q[i].id = p[k].id
  /\ \A i, j \in 1 .. Len(q) :
       i < j => \E k, l \in 1 .. Len(p) : k < l /\ q[i].id = p[k].id /\ q[j].id = p[l].id

Used == Range(accepted) \cup refused \cup unanswered

(* What SurvivesReload and FirstInFirstOut need to be inductive: the       *)
(* lines that do not parse are in order as well, the next rewriting of the *)
(* file does not lose what is in memory, and every id that is anywhere was *)
(* enqueued, so that none is there when it is enqueued.                    *)
QueueInv ==
  /\ items \in Seq(Records)
  /\ file \in Seq(Lines)
  /\ accepted \in Seq(Items)
  /\ Orderly(items, accepted) /\ Orderly(RecordsOf(file), accepted)
  /\ Ids(items) \cup Ids(RecordsOf(file)) \cup removed \subseteq Used
  /\ removed \cap (Ids(items) \cup Ids(RecordsOf(file))) = {}
  /\ Range(accepted) \subseteq Readable(file) \cup removed \cup forgotten \cup torn \cup unread
  /\ Range(accepted) \subseteq Ids(items) \cup removed \cup forgotten \cup torn \cup unread

-----------------------------------------------------------------------------
(* Order                                                                   *)

LEMMA SeqFacts ==
  ASSUME NEW S, NEW q \in Seq(S)
  PROVE  Len(q) \in Nat /\ DOMAIN q = 1 .. Len(q) /\ \A i \in 1 .. Len(q) : q[i] \in S
BY LenProperties, ElementOfSeq

LEMMA FollowsOrderly ==
  ASSUME NEW q \in Seq(Records), NEW p \in Seq(Records), NEW acc,
         Follows(q, p), Orderly(p, acc)
  PROVE  Orderly(q, acc) /\ Ids(q) \subseteq Ids(p)
<1>1. DOMAIN q = 1 .. Len(q) /\ DOMAIN p = 1 .. Len(p) /\ Len(q) \in Nat /\ Len(p) \in Nat
  BY SeqFacts
<1>6. ASSUME NEW i \in DOMAIN q, NEW j \in DOMAIN q, i < j
      PROVE  \E k, l \in 1 .. Len(p) : k < l /\ q[i].id = p[k].id /\ q[j].id = p[l].id
  <2>1. \A a, b \in 1 .. Len(q) :
          a < b => \E k, l \in 1 .. Len(p) : k < l /\ q[a].id = p[k].id /\ q[b].id = p[l].id
    BY DEF Follows
  <2>2. i \in 1 .. Len(q) /\ j \in 1 .. Len(q)
    BY <1>1
  <2> QED BY <1>6, <2>1, <2>2
<1>2. ASSUME NEW i \in DOMAIN q, NEW j \in DOMAIN q, i < j
      PROVE  q[i].id # q[j].id
  <2>1. PICK k \in 1 .. Len(p), l \in 1 .. Len(p) :
             k < l /\ q[i].id = p[k].id /\ q[j].id = p[l].id
    BY <1>2, <1>6
  <2>2. k # l
    BY <1>1, <2>1
  <2> QED BY <1>1, <2>1, <2>2 DEF Orderly
<1>3. \A i, j \in DOMAIN q : q[i].id = q[j].id => i = j
  <2> SUFFICES ASSUME NEW i \in DOMAIN q, NEW j \in DOMAIN q, q[i].id = q[j].id, i # j
               PROVE  FALSE
    OBVIOUS
  <2>1. i < j \/ j < i
    BY <1>1
  <2> QED BY <1>2, <2>1
<1>4. ASSUME NEW i \in DOMAIN q, NEW j \in DOMAIN q, NEW k \in DOMAIN acc, NEW l \in DOMAIN acc,
             q[i].id = acc[k], q[j].id = acc[l], i < j
      PROVE  k < l
  <2>1. PICK m \in 1 .. Len(p), n \in 1 .. Len(p) :
             m < n /\ q[i].id = p[m].id /\ q[j].id = p[n].id
    BY <1>4, <1>6
  <2> QED BY <1>1, <1>4, <2>1 DEF Orderly
<1>5. Ids(q) \subseteq Ids(p)
  BY <1>1 DEF Follows, Ids
<1> QED BY <1>3, <1>4, <1>5 DEF Orderly

(* A new id at the end, accepted or not, is in order. *)
LEMMA AppendOrderly ==
  ASSUME NEW q \in Seq(Records), NEW acc \in Seq(Items), Orderly(q, acc),
         NEW item \in Records, item.id \notin Ids(q) \cup Range(acc)
  PROVE  LET longer == Append(q, item)
             more   == Append(acc, item.id)
         IN  /\ longer \in Seq(Records) /\ more \in Seq(Items)
             /\ Ids(longer) = Ids(q) \cup {item.id}
             /\ Range(more) = Range(acc) \cup {item.id}
             /\ Orderly(longer, acc) /\ Orderly(longer, more) /\ Orderly(q, more)
<1> DEFINE longer == Append(q, item)
           more == Append(acc, item.id)
           n == Len(q)
           m == Len(acc)
<1>1. /\ n \in Nat /\ DOMAIN q = 1 .. n
      /\ m \in Nat /\ DOMAIN acc = 1 .. m
  BY SeqFacts
<1>2. item.id \in Items
  BY DEF Records
<1>3. /\ longer \in Seq(Records) /\ DOMAIN longer = 1 .. n + 1
      /\ \A i \in 1 .. n : longer[i] = q[i]
      /\ longer[n + 1] = item
  BY AppendProperties, SeqFacts
<1>4. /\ more \in Seq(Items) /\ DOMAIN more = 1 .. m + 1
      /\ \A i \in 1 .. m : more[i] = acc[i]
      /\ more[m + 1] = item.id
  BY <1>2, AppendProperties, SeqFacts
<1> HIDE DEF longer, more, n, m
<1>5. /\ \A i \in 1 .. n : q[i].id # item.id
      /\ \A k \in 1 .. m : acc[k] # item.id
  BY <1>1 DEF Ids, Range
<1>6. \A i \in 1 .. n + 1 : i \in 1 .. n \/ i = n + 1
  BY <1>1
<1>7. \A i \in 1 .. m + 1 : i \in 1 .. m \/ i = m + 1
  BY <1>1
<1>8. Ids(longer) = Ids(q) \cup {item.id}
  BY <1>1, <1>3, <1>6 DEF Ids
<1>9. Range(more) = Range(acc) \cup {item.id}
  BY <1>1, <1>4, <1>7 DEF Range
<1>10. \A i, j \in DOMAIN longer : longer[i].id = longer[j].id => i = j
  BY <1>1, <1>3, <1>5, <1>6 DEF Orderly
<1>11. ASSUME NEW i \in 1 .. n, NEW j \in 1 .. n, NEW k \in 1 .. m, NEW l \in 1 .. m,
              q[i].id = acc[k], q[j].id = acc[l], i < j
       PROVE  k < l
  BY <1>1, <1>11 DEF Orderly
<1>12. ASSUME NEW i \in DOMAIN longer, NEW j \in DOMAIN longer,
              NEW k \in DOMAIN acc, NEW l \in DOMAIN acc,
              longer[i].id = acc[k], longer[j].id = acc[l], i < j
       PROVE  k < l
  <2>1. i \in 1 .. n /\ j \in 1 .. n
    BY <1>1, <1>3, <1>5, <1>6, <1>12
  <2> QED BY <1>1, <1>3, <1>11, <1>12, <2>1
<1>13. ASSUME NEW i \in DOMAIN longer, NEW j \in DOMAIN longer,
              NEW k \in DOMAIN more, NEW l \in DOMAIN more,
              longer[i].id = more[k], longer[j].id = more[l], i < j
       PROVE  k < l
  <2>1. i \in 1 .. n
    BY <1>1, <1>3, <1>6, <1>13
  <2>2. k \in 1 .. m
    BY <1>3, <1>4, <1>5, <1>7, <1>13, <2>1
  <2>3. CASE l = m + 1
    BY <1>1, <2>2, <2>3
  <2>4. CASE l # m + 1
    <3>1. l \in 1 .. m
      BY <1>4, <1>7, <2>4
    <3>2. j \in 1 .. n
      BY <1>3, <1>4, <1>5, <1>6, <1>13, <3>1
    <3> QED BY <1>3, <1>4, <1>11, <1>13, <2>1, <2>2, <3>1, <3>2
  <2> QED BY <2>3, <2>4
<1>14. Orderly(longer, acc) /\ Orderly(longer, more)
  BY <1>10, <1>12, <1>13 DEF Orderly
<1>15. ASSUME NEW i \in DOMAIN q, NEW j \in DOMAIN q,
              NEW k \in DOMAIN more, NEW l \in DOMAIN more,
              q[i].id = more[k], q[j].id = more[l], i < j
       PROVE  k < l
  <2>1. i \in DOMAIN longer /\ j \in DOMAIN longer /\ longer[i] = q[i] /\ longer[j] = q[j]
    BY <1>1, <1>3
  <2> QED BY <1>13, <1>15, <2>1
<1>16. Orderly(q, more)
  BY <1>15 DEF Orderly
<1> QED BY <1>3, <1>4, <1>8, <1>9, <1>14, <1>16 DEF longer, more

-----------------------------------------------------------------------------
(* The file                                                                *)

(* load() reads every record of a line that parses, in the order of the    *)
(* lines.                                                                  *)
Reads(f, n, r) ==
  /\ r \in Seq(Records)
  /\ \A k \in 1 .. n : f[k].parses => \E i \in 1 .. Len(r) : r[i] = f[k].record
  /\ \A i \in 1 .. Len(r) : \E k \in 1 .. n : f[k].parses /\ r[i] = f[k].record
  /\ \A i, j \in 1 .. Len(r) :
       i < j => \E k, l \in 1 .. n : k < l /\ r[i] = f[k].record /\ r[j] = f[l].record

LEMMA ReadsNext ==
  ASSUME NEW f \in Seq(Lines), NEW n \in 1 .. Len(f), NEW r, Reads(f, n - 1, r)
  PROVE  Reads(f, n, IF f[n].parses THEN Append(r, f[n].record) ELSE r)
<1>1. Len(f) \in Nat /\ f[n] \in Lines /\ n \in Nat
  BY SeqFacts
<1>2. /\ r \in Seq(Records) /\ Len(r) \in Nat
      /\ f[n].record \in Records /\ f[n].parses \in BOOLEAN
  BY <1>1, SeqFacts DEF Reads, Lines
<1>3. \A k \in 1 .. n - 1 : k \in 1 .. n
  BY <1>1
<1>4. \A k \in 1 .. n : k \in 1 .. n - 1 \/ k = n
  BY <1>1
<1>5. CASE ~ f[n].parses
  <2>1. \A k \in 1 .. n : f[k].parses => \E i \in 1 .. Len(r) : r[i] = f[k].record
    BY <1>4, <1>5 DEF Reads
  <2>2. \A i \in 1 .. Len(r) : \E k \in 1 .. n : f[k].parses /\ r[i] = f[k].record
    BY <1>3 DEF Reads
  <2>3. \A i, j \in 1 .. Len(r) :
          i < j => \E k, l \in 1 .. n : k < l /\ r[i] = f[k].record /\ r[j] = f[l].record
    BY <1>3 DEF Reads
  <2> QED BY <1>2, <1>5, <2>1, <2>2, <2>3 DEF Reads
<1>6. CASE f[n].parses
  <2> DEFINE a == Append(r, f[n].record)
             m == Len(r)
  <2>1. /\ a \in Seq(Records) /\ Len(a) = m + 1 /\ m \in Nat
        /\ \A i \in 1 .. m : a[i] = r[i]
        /\ a[m + 1] = f[n].record
    BY <1>2, AppendProperties
  <2>2. \A k \in 1 .. n - 1 : f[k].parses => \E i \in 1 .. m : r[i] = f[k].record
    BY DEF Reads
  <2>3. \A i \in 1 .. m : \E k \in 1 .. n - 1 : f[k].parses /\ r[i] = f[k].record
    BY DEF Reads
  <2>4. \A i, j \in 1 .. m :
          i < j => \E k, l \in 1 .. n - 1 : k < l /\ r[i] = f[k].record /\ r[j] = f[l].record
    BY DEF Reads
  <2> HIDE DEF a, m
  <2>5. \A i \in 1 .. m : i \in 1 .. m + 1
    BY <2>1
  <2>6. \A i \in 1 .. m + 1 : i \in 1 .. m \/ i = m + 1
    BY <2>1
  <2>7. ASSUME NEW k \in 1 .. n, f[k].parses
        PROVE  \E i \in 1 .. m + 1 : a[i] = f[k].record
    <3>1. CASE k = n
      BY <2>1, <3>1
    <3>2. CASE k # n
      <4>1. PICK i \in 1 .. m : r[i] = f[k].record
        BY <1>4, <2>2, <2>7, <3>2
      <4> QED BY <2>1, <2>5, <4>1
    <3> QED BY <3>1, <3>2
  <2>8. ASSUME NEW i \in 1 .. m + 1
        PROVE  \E k \in 1 .. n : f[k].parses /\ a[i] = f[k].record
    <3>1. CASE i = m + 1
      BY <1>1, <1>6, <2>1, <3>1
    <3>2. CASE i # m + 1
      <4>1. i \in 1 .. m
        BY <2>6, <3>2
      <4>2. PICK k \in 1 .. n - 1 : f[k].parses /\ r[i] = f[k].record
        BY <2>3, <4>1
      <4> QED BY <1>3, <2>1, <4>1, <4>2
    <3> QED BY <3>1, <3>2
  <2>9. ASSUME NEW i \in 1 .. m + 1, NEW j \in 1 .. m + 1, i < j
        PROVE  \E k, l \in 1 .. n : k < l /\ a[i] = f[k].record /\ a[j] = f[l].record
    <3>1. i \in 1 .. m
      BY <2>1, <2>9
    <3>2. CASE j = m + 1
      <4>1. PICK k \in 1 .. n - 1 : f[k].parses /\ r[i] = f[k].record
        BY <2>3, <3>1
      <4>2. k \in 1 .. n /\ n \in 1 .. n /\ k < n
        BY <1>1
      <4>3. a[i] = f[k].record /\ a[j] = f[n].record
        BY <2>1, <3>1, <3>2, <4>1
      <4> QED BY <4>2, <4>3
    <3>3. CASE j # m + 1
      <4>1. j \in 1 .. m
        BY <2>6, <3>3
      <4>2. PICK k \in 1 .. n - 1, l \in 1 .. n - 1 :
               k < l /\ r[i] = f[k].record /\ r[j] = f[l].record
        BY <2>4, <2>9, <3>1, <4>1
      <4> QED BY <1>3, <2>1, <3>1, <4>1, <4>2
    <3> QED BY <3>2, <3>3
  <2>10. Reads(f, n, a)
    BY <2>1, <2>7, <2>8, <2>9 DEF Reads
  <2> QED BY <1>6, <2>10 DEF a
<1> QED BY <1>2, <1>5, <1>6

LEMMA LoadableReads ==
  ASSUME NEW f \in Seq(Lines)
  PROVE  Reads(f, Len(f), Loadable(f))
<1> DEFINE n == Len(f)
           Round(i, r) == IF f[i].parses THEN Append(r, f[i].record) ELSE r
           read == CHOOSE g : g = [i \in 0 .. n |->
                     IF i = 0 THEN << >>
                     ELSE IF f[i].parses THEN Append(g[i - 1], f[i].record) ELSE g[i - 1]]
           step == [i \in 1 .. n |-> [r \in Seq(Records) |-> Round(i, r)]]
<1>1. n \in Nat /\ \A i \in 1 .. n : f[i] \in Lines
  BY SeqFacts
<1>2. Loadable(f) = read[n]
  BY DEF Loadable
<1>3. step \in Loops(n, Seq(Records))
  <2>1. ASSUME NEW i \in 1 .. n, NEW r \in Seq(Records)
        PROVE  Round(i, r) \in Seq(Records)
    <3>1. f[i].record \in Records
      BY <1>1 DEF Lines
    <3> QED BY <3>1, AppendProperties
  <2> HIDE DEF Round
  <2> QED BY <2>1 DEF Loops
<1> HIDE DEF n
<1>4. PICK g : /\ g \in [0 .. n -> Seq(Records)] /\ g[0] = << >>
               /\ \A i \in 1 .. n : g[i] = step[i][g[i - 1]]
  <2>1. << >> \in Seq(Records)
    BY EmptySeq
  <2> HIDE DEF step
  <2>2. \E g : LoopRun(n, Seq(Records), << >>, step, g)
    BY <1>1, <1>3, <2>1, LoopValues
  <2> QED BY <2>2 DEF LoopRun
<1>5. ASSUME NEW i \in 1 .. n
      PROVE  g[i] = Round(i, g[i - 1])
  <2>1. i - 1 \in 0 .. n
    BY <1>1
  <2>2. g[i] = step[i][g[i - 1]] /\ g[i - 1] \in Seq(Records)
    BY <1>4, <2>1
  <2> HIDE DEF Round
  <2> QED BY <2>2
<1>6. g = [i \in 0 .. n |->
             IF i = 0 THEN << >>
             ELSE IF f[i].parses THEN Append(g[i - 1], f[i].record) ELSE g[i - 1]]
  <2>1. \A i \in 0 .. n : i # 0 => i \in 1 .. n
    BY <1>1
  <2> QED BY <1>4, <1>5, <2>1
<1>7. read = [i \in 0 .. n |->
             IF i = 0 THEN << >>
             ELSE IF f[i].parses THEN Append(read[i - 1], f[i].record) ELSE read[i - 1]]
  BY <1>6
<1> HIDE DEF read
<1>8. read[0] = << >> /\ \A i \in 1 .. n : read[i] = Round(i, read[i - 1])
  <2>1. 0 \in 0 .. n /\ \A i \in 1 .. n : i \in 0 .. n /\ i # 0
    BY <1>1
  <2>2. read[0] = << >>
    BY <1>7, <2>1
  <2>3. ASSUME NEW i \in 1 .. n
        PROVE  read[i] = Round(i, read[i - 1])
    BY <1>7, <2>1
  <2> HIDE DEF Round
  <2> QED BY <2>2, <2>3
<1> DEFINE I == {i \in 0 .. n : Reads(f, i, read[i])}
<1>9. 0 \in I
  <2>1. << >> \in Seq(Records) /\ Len(<< >>) = 0 /\ 1 .. 0 = {} /\ 0 \in 0 .. n
    BY <1>1, EmptySeq
  <2> QED BY <1>8, <2>1 DEF Reads
<1>10. ASSUME NEW i \in 1 .. n, i - 1 \in I
       PROVE  i \in I
  <2>1. Reads(f, i - 1, read[i - 1]) /\ i \in 0 .. n /\ i \in 1 .. Len(f)
    BY <1>1, <1>10 DEF n
  <2>2. Reads(f, i, Round(i, read[i - 1]))
    BY <2>1, ReadsNext
  <2> QED BY <1>8, <2>1, <2>2
<1>11. n \in I
  <2> HIDE DEF I
  <2>1. \A i \in 0 .. n : i \in I
    BY <1>1, <1>9, <1>10, LoopInduction
  <2> QED BY <1>1, <2>1
<1> QED BY <1>2, <1>11 DEF n

LEMMA RecordsOfFacts ==
  ASSUME NEW f \in Seq(Lines)
  PROVE  /\ RecordsOf(f) \in Seq(Records) /\ Len(RecordsOf(f)) = Len(f)
         /\ \A i \in 1 .. Len(f) : RecordsOf(f)[i] = f[i].record
         /\ Readable(f) \subseteq Ids(RecordsOf(f))
<1> DEFINE n == Len(f)
           r == RecordsOf(f)
<1>1. n \in Nat /\ DOMAIN f = 1 .. n /\ \A i \in 1 .. n : f[i].record \in Records
  <2>1. n \in Nat /\ DOMAIN f = 1 .. n /\ \A i \in 1 .. n : f[i] \in Lines
    BY SeqFacts
  <2> QED BY <2>1 DEF Lines
<1>2. r = [i \in 1 .. n |-> f[i].record]
  BY <1>1 DEF RecordsOf
<1> HIDE DEF n, r
<1>3. r \in [1 .. n -> Records]
  BY <1>1, <1>2
<1>4. r \in Seq(Records)
  BY <1>1, <1>3, SeqDef
<1>5. 1 .. Len(r) = 1 .. n /\ Len(r) \in Nat
  BY <1>3, <1>4, LenProperties
<1>6. Len(r) = n
  BY <1>1, <1>5
<1>7. \A i \in 1 .. n : r[i] = f[i].record
  BY <1>2
<1>8. Readable(f) \subseteq Ids(r)
  BY <1>1, <1>2 DEF Readable, Ids
<1> QED BY <1>4, <1>6, <1>7, <1>8 DEF n, r

LEMMA LoadableFacts ==
  ASSUME NEW f \in Seq(Lines)
  PROVE  /\ Loadable(f) \in Seq(Records)
         /\ Ids(Loadable(f)) = Readable(f)
         /\ Follows(Loadable(f), RecordsOf(f))
<1> DEFINE n == Len(f)
           r == Loadable(f)
           p == RecordsOf(f)
<1>1. Reads(f, n, r)
  BY LoadableReads
<1>2. n \in Nat /\ DOMAIN f = 1 .. n
  BY SeqFacts
<1>3. p \in Seq(Records) /\ Len(p) = n /\ \A i \in 1 .. n : p[i] = f[i].record
  BY RecordsOfFacts
<1> HIDE DEF n, r, p
<1>4. /\ r \in Seq(Records)
      /\ \A k \in 1 .. n : f[k].parses => \E i \in 1 .. Len(r) : r[i] = f[k].record
      /\ \A i \in 1 .. Len(r) : \E k \in 1 .. n : f[k].parses /\ r[i] = f[k].record
      /\ \A i, j \in 1 .. Len(r) :
           i < j => \E k, l \in 1 .. n : k < l /\ r[i] = f[k].record /\ r[j] = f[l].record
  BY <1>1 DEF Reads
<1>5. Len(r) \in Nat /\ DOMAIN r = 1 .. Len(r)
  BY <1>4, SeqFacts
<1>6. Readable(f) \subseteq Ids(r)
  <2> SUFFICES ASSUME NEW k \in 1 .. n, f[k].parses
               PROVE  f[k].record.id \in Ids(r)
    BY <1>2 DEF Readable
  <2>1. PICK i \in 1 .. Len(r) : r[i] = f[k].record
    BY <1>4
  <2> QED BY <1>5, <2>1 DEF Ids
<1>7. Ids(r) \subseteq Readable(f)
  <2> SUFFICES ASSUME NEW i \in 1 .. Len(r)
               PROVE  r[i].id \in Readable(f)
    BY <1>5 DEF Ids
  <2>1. PICK k \in 1 .. n : f[k].parses /\ r[i] = f[k].record
    BY <1>4
  <2> QED BY <1>2, <2>1 DEF Readable
<1>8. ASSUME NEW i \in 1 .. Len(r)
      PROVE  \E k \in 1 .. Len(p) : r[i].id = p[k].id
  <2>1. PICK k \in 1 .. n : f[k].parses /\ r[i] = f[k].record
    BY <1>4
  <2> QED BY <1>3, <2>1
<1>9. ASSUME NEW i \in 1 .. Len(r), NEW j \in 1 .. Len(r), i < j
      PROVE  \E k, l \in 1 .. Len(p) : k < l /\ r[i].id = p[k].id /\ r[j].id = p[l].id
  <2>1. PICK k \in 1 .. n, l \in 1 .. n :
           k < l /\ r[i] = f[k].record /\ r[j] = f[l].record
    BY <1>4, <1>9
  <2> QED BY <1>3, <2>1
<1> QED BY <1>4, <1>6, <1>7, <1>8, <1>9 DEF Follows, r, p

(* Rewriting the file makes it hold what is in memory. *)
LEMMA RewrittenFacts ==
  ASSUME NEW q \in Seq(Records)
  PROVE  /\ Rewritten(q) \in Seq(Lines)
         /\ RecordsOf(Rewritten(q)) = q
         /\ Readable(Rewritten(q)) = Ids(q)
<1> DEFINE n == Len(q)
           f == Rewritten(q)
<1>1. n \in Nat /\ DOMAIN q = 1 .. n /\ \A i \in 1 .. n : q[i] \in Records
  BY SeqFacts
<1>2. f = [i \in 1 .. n |-> [record |-> q[i], parses |-> TRUE, ended |-> TRUE]]
  BY <1>1 DEF Rewritten, Line
<1> HIDE DEF n, f
<1>3. f \in [1 .. n -> Lines]
  BY <1>1, <1>2 DEF Lines
<1>4. f \in Seq(Lines)
  BY <1>1, <1>3, SeqDef
<1>5. DOMAIN f = 1 .. n /\ \A i \in 1 .. n : f[i].record = q[i] /\ f[i].parses = TRUE
  BY <1>2
<1>6. Readable(f) = Ids(q)
  BY <1>1, <1>5 DEF Readable, Ids
<1>7. 1 .. Len(f) = 1 .. n /\ Len(f) \in Nat
  BY <1>3, <1>4, LenProperties
<1>8. Len(f) = n
  BY <1>1, <1>7
<1>9. RecordsOf(f) = q
  <2>1. RecordsOf(f) \in Seq(Records) /\ Len(RecordsOf(f)) = n
        /\ \A i \in 1 .. n : RecordsOf(f)[i] = q[i]
    BY <1>4, <1>5, <1>8, RecordsOfFacts
  <2> QED BY <2>1, SeqEqual DEF n
<1> QED BY <1>4, <1>6, <1>9 DEF f

(* A line is appended to a file, or shares the last line of it. *)
LEMMA AppendToFacts ==
  ASSUME NEW f \in Seq(Lines), NEW line \in Lines
  PROVE  LET g  == AppendTo(f, line)
             id == line.record.id
         IN  /\ g \in Seq(Lines)
             /\ Follows(RecordsOf(g), Append(RecordsOf(f), line.record))
             /\ Ids(RecordsOf(g)) \subseteq Ids(RecordsOf(f)) \cup {id}
             /\ Readable(f) \subseteq Readable(g) \cup Spoiled(f, id)
             /\ line.parses => id \in Readable(g) \cup Spoiled(f, id)
<1> DEFINE n == Len(f)
           g == AppendTo(f, line)
           id == line.record.id
           p == Append(RecordsOf(f), line.record)
<1>1. n \in Nat /\ DOMAIN f = 1 .. n /\ \A i \in 1 .. n : f[i] \in Lines
  BY SeqFacts
<1>2. line.record \in Records /\ line.parses \in BOOLEAN
  BY DEF Lines
<1>3. /\ RecordsOf(f) \in Seq(Records) /\ Len(RecordsOf(f)) = n
      /\ \A i \in 1 .. n : RecordsOf(f)[i] = f[i].record
  BY RecordsOfFacts
<1>4. /\ p \in Seq(Records) /\ Len(p) = n + 1
      /\ \A i \in 1 .. n : p[i] = f[i].record
      /\ p[n + 1] = line.record
  BY <1>2, <1>3, AppendProperties
<1>5. f # << >> => n >= 1 /\ Last(f) = f[n]
  BY <1>1, EmptySeq DEF Last
<1> DEFINE merged == f # << >> /\ ~ Last(f).ended
           m == IF merged THEN n ELSE n + 1
<1>6. /\ g \in Seq(Lines) /\ Len(g) = m
      /\ \A i \in 1 .. m - 1 : g[i] = f[i]
      /\ g[m].record = line.record
      /\ ~ merged => g[m].parses = line.parses
  <2>1. CASE ~ merged
    <3>1. g = Append(f, line)
      BY <2>1 DEF AppendTo
    <3>2. /\ g \in Seq(Lines) /\ Len(g) = n + 1
          /\ \A i \in 1 .. n : g[i] = f[i]
          /\ g[n + 1] = line
      BY <3>1, AppendProperties
    <3>3. m = n + 1 /\ m - 1 = n
      BY <1>1, <2>1
    <3> QED BY <2>1, <3>2, <3>3
  <2>2. CASE merged
    <3> DEFINE spoiled == [line EXCEPT !.parses = FALSE]
               h == Front(f)
    <3>1. g = Append(h, spoiled)
      BY <2>2 DEF AppendTo
    <3>2. spoiled \in Lines /\ spoiled.record = line.record
      BY DEF Lines
    <3>3. n >= 1 /\ h = SubSeq(f, 1, n - 1) /\ n - 1 \in Nat
      BY <1>1, <1>5, <2>2 DEF Front
    <3> DEFINE k == n - 1
    <3>4. \A i \in 1 .. k : f[i] \in Lines
      BY <1>1, <3>3
    <3> HIDE DEF h, spoiled, n, g, k
    <3>5. /\ h \in Seq(Lines) /\ Len(h) = IF 1 <= k THEN k - 1 + 1 ELSE 0
          /\ \A i \in 1 .. k - 1 + 1 : h[i] = f[1 + i - 1]
      BY <3>3, <3>4, SubSeqProperties DEF k
    <3>6. k \in Nat /\ k + 1 = n
      BY <1>1, <3>3 DEF k
    <3>7. Len(h) = k
      BY <3>5, <3>6
    <3>8. ASSUME NEW i \in 1 .. k
          PROVE  h[i] = f[i]
      <4>1. i \in 1 .. k - 1 + 1 /\ 1 + i - 1 = i
        BY <3>6
      <4> QED BY <3>5, <4>1
    <3>9. /\ g \in Seq(Lines) /\ Len(g) = k + 1
          /\ \A i \in 1 .. k : g[i] = h[i]
          /\ g[k + 1] = spoiled
      BY <3>1, <3>2, <3>5, <3>7, AppendProperties
    <3>10. m = n /\ m - 1 = k
      BY <2>2, <3>6
    <3> QED BY <2>2, <3>2, <3>6, <3>8, <3>9, <3>10
  <2> QED BY <2>1, <2>2
<1>7. m \in Nat /\ m >= 1 /\ m <= n + 1 /\ m - 1 <= n
  BY <1>1, <1>5
<1>8. /\ RecordsOf(g) \in Seq(Records) /\ Len(RecordsOf(g)) = m
      /\ \A i \in 1 .. m : RecordsOf(g)[i] = g[i].record
  BY <1>6, RecordsOfFacts
<1>9. DOMAIN g = 1 .. m
  BY <1>6, SeqFacts
<1> DEFINE r == RecordsOf(g)
<1>10. /\ \A i \in 1 .. m : i # m => i \in 1 .. m - 1 /\ i \in 1 .. n
       /\ m \in 1 .. m /\ n + 1 \in 1 .. n + 1
       /\ \A i \in 1 .. n : i \in 1 .. n + 1 /\ i < n + 1
  <2> HIDE DEF m, n
  <2>1. \A i \in 1 .. m : i # m => i \in 1 .. m - 1 /\ i \in 1 .. n
    BY <1>1, <1>7
  <2>2. m \in 1 .. m /\ n + 1 \in 1 .. n + 1
    BY <1>1, <1>7
  <2>3. \A i \in 1 .. n : i \in 1 .. n + 1 /\ i < n + 1
    BY <1>1
  <2> QED BY <2>1, <2>2, <2>3
<1>11. Spoiled(f, id) = IF merged THEN {f[n].record.id, id} ELSE {}
  BY <1>5 DEF Spoiled
<1>12. ~ merged => m = n + 1
  OBVIOUS
<1>13. merged => m = n
  OBVIOUS
<1> HIDE DEF g, m, merged, n, p, id, r
<1>14. /\ \A i \in 1 .. m : i # m => r[i] = f[i].record /\ r[i] = p[i]
       /\ r[m] = line.record /\ r[m] = p[n + 1]
  BY <1>4, <1>6, <1>8, <1>10 DEF r
<1>15. ASSUME NEW i \in 1 .. m
       PROVE  \E k \in 1 .. Len(p) : r[i].id = p[k].id
  <2>1. CASE i = m
    BY <1>4, <1>10, <1>14, <2>1
  <2>2. CASE i # m
    <3>1. i \in 1 .. n + 1 /\ r[i] = p[i]
      BY <1>10, <1>14, <2>2
    <3> QED BY <1>4, <3>1
  <2> QED BY <2>1, <2>2
<1>16. ASSUME NEW i \in 1 .. m, NEW j \in 1 .. m, i < j
       PROVE  \E k, l \in 1 .. Len(p) : k < l /\ r[i].id = p[k].id /\ r[j].id = p[l].id
  <2>1. i # m
    BY <1>7, <1>16
  <2>2. i \in 1 .. n /\ i \in 1 .. n + 1 /\ i < n + 1 /\ r[i] = p[i]
    BY <1>10, <1>14, <2>1
  <2>3. CASE j = m
    BY <1>4, <1>10, <1>14, <2>2, <2>3
  <2>4. CASE j # m
    <3>1. j \in 1 .. n + 1 /\ r[j] = p[j]
      BY <1>10, <1>14, <2>4
    <3> QED BY <1>4, <1>16, <2>2, <3>1
  <2> QED BY <2>3, <2>4
<1>17. Follows(r, p)
  BY <1>8, <1>15, <1>16 DEF Follows, r
<1>18. Ids(r) \subseteq Ids(RecordsOf(f)) \cup {id}
  <2>1. DOMAIN r = 1 .. m /\ DOMAIN RecordsOf(f) = 1 .. n
    BY <1>3, <1>8, SeqFacts DEF r
  <2> SUFFICES ASSUME NEW i \in 1 .. m
               PROVE  r[i].id \in Ids(RecordsOf(f)) \cup {id}
    BY <2>1 DEF Ids
  <2>2. CASE i = m
    BY <1>14, <2>2 DEF id
  <2>3. CASE i # m
    <3>1. i \in 1 .. n /\ r[i] = RecordsOf(f)[i]
      BY <1>3, <1>10, <1>14, <2>3
    <3> QED BY <2>1, <3>1 DEF Ids
  <2> QED BY <2>2, <2>3
<1>19. Readable(f) \subseteq Readable(g) \cup Spoiled(f, id)
  <2> SUFFICES ASSUME NEW i \in 1 .. n, f[i].parses
               PROVE  f[i].record.id \in Readable(g) \cup Spoiled(f, id)
    BY <1>1 DEF Readable
  <2>1. CASE merged /\ i = n
    BY <1>11, <2>1
  <2>2. CASE ~ (merged /\ i = n)
    <3>1. i \in 1 .. m - 1 /\ i \in 1 .. m
      BY <1>1, <1>12, <1>13, <2>2
    <3>2. g[i] = f[i]
      BY <1>6, <3>1
    <3> QED BY <1>9, <3>1, <3>2 DEF Readable
  <2> QED BY <2>1, <2>2
<1>20. line.parses => id \in Readable(g) \cup Spoiled(f, id)
  <2>1. CASE merged
    BY <1>11, <2>1
  <2>2. CASE ~ merged
    BY <1>6, <1>9, <1>10, <2>2 DEF Readable, id
  <2> QED BY <2>1, <2>2
<1> QED BY <1>6, <1>17, <1>18, <1>19, <1>20 DEF g, p, id, r

(* One that was being written is in the file whole, in part, or not at all. *)
LEMMA PartlyAppendedFacts ==
  ASSUME NEW f \in Seq(Lines), NEW item \in Records,
         NEW g \in PartlyAppended(f, item)
  PROVE  \/ g = f
         \/ \E line \in Lines : line.record = item /\ g = AppendTo(f, line)
<1> DEFINE part(whole) == [Line(item) EXCEPT !.ended = FALSE, !.parses = whole]
<1>1. ASSUME NEW whole \in BOOLEAN
      PROVE  part(whole) \in Lines /\ part(whole).record = item
  BY DEF Line, Lines
<1>2. g \in {f} \cup {AppendTo(f, part(whole)) : whole \in BOOLEAN}
  BY DEF PartlyAppended
<1> HIDE DEF part
<1>3. CASE g = f
  BY <1>3
<1>4. CASE g # f
  <2>1. PICK whole \in BOOLEAN : g = AppendTo(f, part(whole))
    BY <1>2, <1>4
  <2> QED BY <1>1, <2>1
<1> QED BY <1>3, <1>4

(* What a new id's line, written by enqueue(), leaves of the order and of  *)
(* the ids of the file, whether or not all of it is written.               *)
LEMMA WrittenFacts ==
  ASSUME NEW f \in Seq(Lines), NEW acc \in Seq(Items), NEW item \in Records,
         Orderly(RecordsOf(f), acc),
         item.id \notin Ids(RecordsOf(f)) \cup Range(acc),
         NEW g, g \in {AppendTo(f, Line(item))} \cup PartlyAppended(f, item)
  PROVE  /\ g \in Seq(Lines)
         /\ Orderly(RecordsOf(g), acc) /\ Orderly(RecordsOf(g), Append(acc, item.id))
         /\ Ids(RecordsOf(g)) \subseteq Ids(RecordsOf(f)) \cup {item.id}
         /\ Readable(f) \subseteq Readable(g) \cup Spoiled(f, item.id)
         /\ g = AppendTo(f, Line(item)) => item.id \in Readable(g) \cup Spoiled(f, item.id)
<1>1. RecordsOf(f) \in Seq(Records)
  BY RecordsOfFacts
<1> DEFINE p == Append(RecordsOf(f), item)
           more == Append(acc, item.id)
<1>2. /\ p \in Seq(Records)
      /\ Orderly(p, acc) /\ Orderly(p, more) /\ Orderly(RecordsOf(f), more)
  BY <1>1, AppendOrderly
<1>3. Line(item) \in Lines /\ Line(item).record = item /\ Line(item).parses = TRUE
  BY DEF Line, Lines
<1> HIDE DEF p, more
<1>4. ASSUME NEW line \in Lines, line.record = item, g = AppendTo(f, line)
      PROVE  /\ g \in Seq(Lines)
             /\ Orderly(RecordsOf(g), acc) /\ Orderly(RecordsOf(g), more)
             /\ Ids(RecordsOf(g)) \subseteq Ids(RecordsOf(f)) \cup {item.id}
             /\ Readable(f) \subseteq Readable(g) \cup Spoiled(f, item.id)
             /\ line.parses => item.id \in Readable(g) \cup Spoiled(f, item.id)
  <2>1. /\ g \in Seq(Lines)
        /\ Follows(RecordsOf(g), p)
        /\ Ids(RecordsOf(g)) \subseteq Ids(RecordsOf(f)) \cup {item.id}
        /\ Readable(f) \subseteq Readable(g) \cup Spoiled(f, item.id)
        /\ line.parses => item.id \in Readable(g) \cup Spoiled(f, item.id)
    BY <1>4, AppendToFacts DEF p
  <2>2. RecordsOf(g) \in Seq(Records)
    BY <2>1, RecordsOfFacts
  <2>3. Orderly(RecordsOf(g), acc) /\ Orderly(RecordsOf(g), more)
    BY <1>2, <2>1, <2>2, FollowsOrderly
  <2> QED BY <2>1, <2>3
<1>5. CASE g = AppendTo(f, Line(item))
  BY <1>3, <1>4, <1>5 DEF more
<1>6. CASE g # AppendTo(f, Line(item)) /\ g = f
  BY <1>2, <1>6 DEF more
<1>7. CASE g # AppendTo(f, Line(item)) /\ g # f
  <2>1. PICK line \in Lines : line.record = item /\ g = AppendTo(f, line)
    BY <1>7, PartlyAppendedFacts
  <2> QED BY <1>4, <1>7, <2>1 DEF more
<1> QED BY <1>5, <1>6, <1>7

(* The front taken off, or changed but for its id, what is left is in order. *)
LEMMA TailFacts ==
  ASSUME NEW q \in Seq(Records), q # << >>
  PROVE  /\ Tail(q) \in Seq(Records) /\ Follows(Tail(q), q)
         /\ Ids(q) = Ids(Tail(q)) \cup {Head(q).id}
<1> DEFINE n == Len(q)
           t == Tail(q)
<1>1. n \in Nat /\ n >= 1 /\ DOMAIN q = 1 .. n
  BY SeqFacts, EmptySeq
<1>2. t \in Seq(Records) /\ Len(t) = n - 1 /\ Head(q) = q[1]
      /\ \A i \in 1 .. n - 1 : t[i] = q[i + 1]
  BY HeadTailProperties
<1>3. DOMAIN t = 1 .. n - 1
  BY <1>2, SeqFacts
<1> HIDE DEF n, t
<1>4. /\ \A i \in 1 .. n - 1 : i + 1 \in 1 .. n
      /\ \A i \in 1 .. n : i # 1 => i - 1 \in 1 .. n - 1 /\ (i - 1) + 1 = i
      /\ 1 \in 1 .. n
  BY <1>1
<1>5. ASSUME NEW i \in 1 .. n - 1
      PROVE  \E k \in 1 .. n : t[i].id = q[k].id
  BY <1>2, <1>4
<1>6. ASSUME NEW i \in 1 .. n - 1, NEW j \in 1 .. n - 1, i < j
      PROVE  \E k, l \in 1 .. n : k < l /\ t[i].id = q[k].id /\ t[j].id = q[l].id
  <2>1. i + 1 < j + 1
    BY <1>1, <1>6
  <2> QED BY <1>2, <1>4, <2>1
<1>7. Follows(t, q)
  BY <1>2, <1>5, <1>6 DEF Follows, n
<1>8. Ids(t) \cup {Head(q).id} \subseteq Ids(q)
  BY <1>1, <1>2, <1>3, <1>4 DEF Ids
<1>9. Ids(q) \subseteq Ids(t) \cup {Head(q).id}
  <2> SUFFICES ASSUME NEW i \in 1 .. n
               PROVE  q[i].id \in Ids(t) \cup {Head(q).id}
    BY <1>1 DEF Ids
  <2>1. CASE i = 1
    BY <1>2, <2>1
  <2>2. CASE i # 1
    <3>1. i - 1 \in 1 .. n - 1 /\ t[i - 1] = q[i]
      BY <1>2, <1>4, <2>2
    <3> QED BY <1>3, <3>1 DEF Ids
  <2> QED BY <2>1, <2>2
<1> QED BY <1>2, <1>7, <1>8, <1>9 DEF t

LEMMA SameIdsFacts ==
  ASSUME NEW q \in Seq(Records), NEW p \in Seq(Records), Len(q) = Len(p),
         \A i \in 1 .. Len(q) : q[i].id = p[i].id
  PROVE  Follows(q, p) /\ Ids(q) = Ids(p)
<1>1. DOMAIN q = 1 .. Len(q) /\ DOMAIN p = 1 .. Len(q)
  BY SeqFacts
<1>2. Ids(q) = Ids(p)
  BY <1>1 DEF Ids
<1>3. \A i \in 1 .. Len(q) : \E k \in 1 .. Len(p) : q[i].id = p[k].id
  OBVIOUS
<1>4. ASSUME NEW i \in 1 .. Len(q), NEW j \in 1 .. Len(q), i < j
      PROVE  \E k, l \in 1 .. Len(p) : k < l /\ q[i].id = p[k].id /\ q[j].id = p[l].id
  BY <1>4
<1> QED BY <1>2, <1>3, <1>4 DEF Follows

LEMMA OrderlyEmpty ==
  ASSUME NEW acc
  PROVE  << >> \in Seq(Records) /\ Ids(<< >>) = {} /\ Orderly(<< >>, acc)
<1>1. << >> \in Seq(Records) /\ DOMAIN << >> = {}
  BY EmptySeq
<1> QED BY <1>1 DEF Ids, Orderly

-----------------------------------------------------------------------------
(* The steps keep QueueInv                                                 *)

LEMMA InitialQueue ==
  Init => QueueInv
<1> SUFFICES ASSUME Init PROVE QueueInv
  OBVIOUS
<1>1. << >> \in Seq(Records) /\ Ids(<< >>) = {} /\ Orderly(<< >>, accepted)
  BY OrderlyEmpty
<1>2. << >> \in Seq(Lines) /\ << >> \in Seq(Items) /\ DOMAIN << >> = {}
  BY EmptySeq
<1>3. RecordsOf(<< >>) = << >>
  BY <1>2, RecordsOfFacts, EmptySeq
<1>4. Range(accepted) = {}
  BY <1>2 DEF Init, Range
<1> QED BY <1>1, <1>2, <1>3, <1>4 DEF Init, QueueInv

(* load() finds no more than the file holds, in its order. *)
LEMMA LoadFacts ==
  ASSUME NEW f \in Seq(Lines), NEW acc, Orderly(RecordsOf(f), acc), Load(f)
  PROVE  /\ items' \in Seq(Records)
         /\ Orderly(items', acc)
         /\ Ids(items') \subseteq Ids(RecordsOf(f))
         /\ Readable(f) \cup unread \subseteq Ids(items') \cup unread'
         /\ unread \subseteq unread'
<1>1. RecordsOf(f) \in Seq(Records)
  BY RecordsOfFacts
<1>2. /\ Loadable(f) \in Seq(Records)
      /\ Ids(Loadable(f)) = Readable(f)
      /\ Follows(Loadable(f), RecordsOf(f))
  BY LoadableFacts
<1>3. CASE items' = Loadable(f) /\ UNCHANGED unread
  <2>1. Orderly(Loadable(f), acc) /\ Ids(Loadable(f)) \subseteq Ids(RecordsOf(f))
    BY <1>1, <1>2, FollowsOrderly
  <2> QED BY <1>2, <1>3, <2>1
<1>4. CASE items' = << >> /\ unread' = unread \cup Ids(Loadable(f))
  BY <1>2, <1>4, OrderlyEmpty
<1> QED BY <1>3, <1>4 DEF Load

LEMMA EnqueueStep ==
  ASSUME QueueInv, NEW id \in Items, Enqueue(id)
  PROVE  QueueInv'
<1> DEFINE item == [id |-> id, attempts |-> 0]
<1>1. item \in Records /\ item.id = id
  BY DEF Records
<1>2. items \in Seq(Records) /\ file \in Seq(Lines) /\ accepted \in Seq(Items)
  BY DEF QueueInv
<1>3. id \notin Used /\ id \notin Range(accepted)
  BY DEF Enqueue, New, Used
<1>4. id \notin Ids(items) /\ id \notin Ids(RecordsOf(file)) /\ id \notin removed
  BY <1>3 DEF QueueInv
<1>5. RecordsOf(file) \in Seq(Records)
  BY <1>2, RecordsOfFacts
<1> DEFINE more == Append(accepted, id)
<1>6. /\ items' = Append(items, item)
      /\ UNCHANGED <<unanswered, removed, forgotten, unread, crashes>>
  BY DEF Enqueue
<1>7. /\ items' \in Seq(Records) /\ more \in Seq(Items)
      /\ Ids(items') = Ids(items) \cup {id}
      /\ Range(more) = Range(accepted) \cup {id}
      /\ Orderly(items', accepted) /\ Orderly(items', more)
  <2>1. Orderly(items, accepted) /\ item.id \notin Ids(items) \cup Range(accepted)
    BY <1>1, <1>3, <1>4 DEF QueueInv
  <2> HIDE DEF item
  <2>2. LET longer == Append(items, item)
            longerAcc == Append(accepted, item.id)
        IN  /\ longer \in Seq(Records) /\ longerAcc \in Seq(Items)
            /\ Ids(longer) = Ids(items) \cup {item.id}
            /\ Range(longerAcc) = Range(accepted) \cup {item.id}
            /\ Orderly(longer, accepted) /\ Orderly(longer, longerAcc)
            /\ Orderly(items, longerAcc)
    BY <1>1, <1>2, <2>1, AppendOrderly
  <2> QED BY <1>1, <1>6, <2>2
<1>8. CASE /\ file' \in {AppendTo(file, Line(item))} \cup PartlyAppended(file, item)
           /\ torn \cup Spoiled(file, id) \subseteq torn'
           /\ file' = AppendTo(file, Line(item)) \/ id \in torn'
           /\ accepted' = more
           /\ UNCHANGED refused
  <2>1. Orderly(RecordsOf(file), accepted)
        /\ item.id \notin Ids(RecordsOf(file)) \cup Range(accepted)
    BY <1>1, <1>3, <1>4 DEF QueueInv
  <2> DEFINE g == file'
  <2>2. g \in {AppendTo(file, Line(item))} \cup PartlyAppended(file, item)
    BY <1>8
  <2> HIDE DEF g, item
  <2>3. /\ g \in Seq(Lines)
        /\ Orderly(RecordsOf(g), accepted) /\ Orderly(RecordsOf(g), Append(accepted, item.id))
        /\ Ids(RecordsOf(g)) \subseteq Ids(RecordsOf(file)) \cup {item.id}
        /\ Readable(file) \subseteq Readable(g) \cup Spoiled(file, item.id)
        /\ g = AppendTo(file, Line(item)) => item.id \in Readable(g) \cup Spoiled(file, item.id)
    BY <1>1, <1>2, <2>1, <2>2, WrittenFacts
  <2>4. /\ g \in Seq(Lines) /\ Orderly(RecordsOf(g), more)
        /\ Ids(RecordsOf(g)) \subseteq Ids(RecordsOf(file)) \cup {id}
        /\ Readable(file) \subseteq Readable(g) \cup torn'
        /\ id \in Readable(g) \cup torn'
    BY <1>1, <1>8, <2>3 DEF g
  <2> HIDE DEF more
  <2>5. Used' = Used \cup {id}
    BY <1>6, <1>7, <1>8 DEF Used
  <2>6. Ids(items') \cup Ids(RecordsOf(g)) \cup removed' \subseteq Used'
    BY <1>6, <1>7, <2>4, <2>5 DEF QueueInv
  <2>7. removed' \cap (Ids(items') \cup Ids(RecordsOf(g))) = {}
    BY <1>4, <1>6, <1>7, <2>4 DEF QueueInv
  <2>8. Range(more) \subseteq Readable(g) \cup removed' \cup forgotten' \cup torn' \cup unread'
    BY <1>6, <1>7, <1>8, <2>4 DEF QueueInv
  <2>9. Range(more) \subseteq Ids(items') \cup removed' \cup forgotten' \cup torn' \cup unread'
    BY <1>6, <1>7, <1>8 DEF QueueInv
  <2> QED BY <1>7, <1>8, <2>4, <2>6, <2>7, <2>8, <2>9 DEF QueueInv, g
<1>9. CASE refused' = refused \cup {id} /\ UNCHANGED <<file, torn, accepted>>
  <2>1. Used' = Used \cup {id}
    BY <1>6, <1>9 DEF Used
  <2>2. Ids(items') \cup Ids(RecordsOf(file)) \cup removed \subseteq Used'
    BY <1>7, <2>1 DEF QueueInv
  <2>3. removed \cap (Ids(items') \cup Ids(RecordsOf(file))) = {}
    BY <1>4, <1>7 DEF QueueInv
  <2> QED BY <1>6, <1>7, <1>9, <2>2, <2>3 DEF QueueInv
<1> QED BY <1>8, <1>9 DEF Enqueue

LEMMA DieInEnqueueStep ==
  ASSUME QueueInv, NEW id \in Items, DieInEnqueue(id)
  PROVE  QueueInv'
<1> DEFINE item == [id |-> id, attempts |-> 0]
           g == file'
<1>1. item \in Records /\ item.id = id
  BY DEF Records
<1>2. file \in Seq(Lines) /\ accepted \in Seq(Items)
  BY DEF QueueInv
<1>3. id \notin Used /\ id \notin Range(accepted)
  BY DEF DieInEnqueue, New, Used
<1>4. id \notin Ids(RecordsOf(file)) /\ id \notin removed
  BY <1>3 DEF QueueInv
<1>5. /\ unanswered' = unanswered \cup {id}
      /\ g \in {AppendTo(file, Line(item))} \cup PartlyAppended(file, item)
      /\ torn' = torn \cup Spoiled(file, id)
      /\ Load(g)
      /\ UNCHANGED <<accepted, refused, removed, forgotten>>
  BY DEF DieInEnqueue
<1> HIDE DEF g, item
<1>6. /\ g \in Seq(Lines) /\ Orderly(RecordsOf(g), accepted)
      /\ Ids(RecordsOf(g)) \subseteq Ids(RecordsOf(file)) \cup {id}
      /\ Readable(file) \subseteq Readable(g) \cup torn'
  <2>1. Orderly(RecordsOf(file), accepted)
        /\ item.id \notin Ids(RecordsOf(file)) \cup Range(accepted)
    BY <1>1, <1>3, <1>4 DEF QueueInv
  <2>2. /\ g \in Seq(Lines)
        /\ Orderly(RecordsOf(g), accepted) /\ Orderly(RecordsOf(g), Append(accepted, item.id))
        /\ Ids(RecordsOf(g)) \subseteq Ids(RecordsOf(file)) \cup {item.id}
        /\ Readable(file) \subseteq Readable(g) \cup Spoiled(file, item.id)
        /\ g = AppendTo(file, Line(item)) => item.id \in Readable(g) \cup Spoiled(file, item.id)
    BY <1>1, <1>2, <1>5, <2>1, WrittenFacts
  <2> QED BY <1>1, <1>5, <2>2
<1>7. /\ items' \in Seq(Records)
      /\ Orderly(items', accepted)
      /\ Ids(items') \subseteq Ids(RecordsOf(g))
      /\ Readable(g) \cup unread \subseteq Ids(items') \cup unread'
      /\ unread \subseteq unread'
  BY <1>5, <1>6, LoadFacts
<1>8. Used' = Used \cup {id}
  BY <1>5 DEF Used
<1>9. Ids(items') \cup Ids(RecordsOf(g)) \cup removed \subseteq Used'
  BY <1>6, <1>7, <1>8 DEF QueueInv
<1>10. removed \cap (Ids(items') \cup Ids(RecordsOf(g))) = {}
  BY <1>4, <1>6, <1>7 DEF QueueInv
<1>11. torn \subseteq torn'
  BY <1>5
<1>12. Range(accepted) \subseteq Readable(g) \cup removed \cup forgotten \cup torn' \cup unread'
  BY <1>6, <1>7, <1>11 DEF QueueInv
<1>13. Range(accepted) \subseteq Ids(items') \cup removed \cup forgotten \cup torn' \cup unread'
  BY <1>7, <1>12
<1> QED BY <1>2, <1>5, <1>6, <1>7, <1>9, <1>10, <1>12, <1>13 DEF QueueInv, g

LEMMA RemoveFrontStep ==
  ASSUME QueueInv, RemoveFront
  PROVE  QueueInv'
<1> DEFINE id == Head(items).id
           q == items'
<1>1. items \in Seq(Records) /\ items # << >> /\ q = Tail(items)
  BY DEF QueueInv, RemoveFront
<1>2. UNCHANGED <<accepted, refused, unanswered, torn, unread, crashes>>
  BY DEF RemoveFront
<1>3. q \in Seq(Records) /\ Follows(q, items) /\ Ids(items) = Ids(q) \cup {id}
  BY <1>1, TailFacts
<1>4. \/ PersistAll(q) /\ removed' = removed \cup {id} /\ UNCHANGED forgotten
      \/ file' = file /\ forgotten' = forgotten \cup {id} /\ UNCHANGED removed
  BY DEF RemoveFront
<1>5. id \notin Ids(q)
  <2>1. Len(items) \in Nat /\ DOMAIN items = 1 .. Len(items) /\ Len(items) >= 1
    BY <1>1, SeqFacts, EmptySeq
  <2>2. /\ Head(items) = items[1] /\ Len(q) = Len(items) - 1
        /\ \A i \in 1 .. Len(q) : q[i] = items[i + 1]
    BY <1>1, HeadTailProperties
  <2>3. DOMAIN q = 1 .. Len(q)
    BY <1>3, SeqFacts
  <2> SUFFICES ASSUME NEW i \in 1 .. Len(q)
               PROVE  q[i].id # id
    BY <2>3 DEF Ids
  <2>4. q[i] = items[i + 1] /\ i + 1 \in DOMAIN items /\ 1 \in DOMAIN items /\ i + 1 # 1
    BY <2>1, <2>2
  <2>5. \A k, l \in DOMAIN items : items[k].id = items[l].id => k = l
    BY DEF QueueInv, Orderly
  <2> HIDE DEF q
  <2> QED BY <2>2, <2>4, <2>5
<1>6. Orderly(q, accepted)
  BY <1>1, <1>3, FollowsOrderly DEF QueueInv
<1> HIDE DEF id, q
<1>7. Used' = Used
  BY <1>2 DEF Used
<1>8. CASE PersistAll(q) /\ removed' = removed \cup {id} /\ UNCHANGED forgotten
  <2>1. file' = Rewritten(q)
    BY <1>8 DEF PersistAll
  <2>2. file' \in Seq(Lines) /\ RecordsOf(file') = q /\ Readable(file') = Ids(q)
    BY <1>3, <2>1, RewrittenFacts
  <2>3. Ids(q) \cup removed' \subseteq Used'
    BY <1>3, <1>7, <1>8 DEF QueueInv
  <2>4. removed' \cap Ids(q) = {}
    BY <1>3, <1>5, <1>8 DEF QueueInv
  <2>5. Range(accepted) \subseteq Ids(q) \cup removed' \cup forgotten' \cup torn \cup unread
    BY <1>3, <1>8 DEF QueueInv
  <2>6. accepted \in Seq(Items)
    BY DEF QueueInv
  <2> QED BY <1>2, <1>3, <1>6, <2>2, <2>3, <2>4, <2>5, <2>6 DEF QueueInv, q
<1>9. CASE file' = file /\ forgotten' = forgotten \cup {id} /\ UNCHANGED removed
  <2>1. /\ Ids(q) \cup Ids(RecordsOf(file)) \cup removed \subseteq Used'
        /\ removed \cap (Ids(q) \cup Ids(RecordsOf(file))) = {}
    BY <1>3, <1>7 DEF QueueInv
  <2>2. /\ Range(accepted) \subseteq Ids(q) \cup removed \cup forgotten' \cup torn \cup unread
        /\ Range(accepted)
             \subseteq Readable(file) \cup removed \cup forgotten' \cup torn \cup unread
    BY <1>3, <1>9 DEF QueueInv
  <2>3. /\ accepted \in Seq(Items) /\ file \in Seq(Lines)
        /\ Orderly(RecordsOf(file), accepted)
    BY DEF QueueInv
  <2> QED BY <1>2, <1>3, <1>6, <1>9, <2>1, <2>2, <2>3 DEF QueueInv, q
<1> QED BY <1>4, <1>8, <1>9

LEMMA UpdateFrontAttemptStep ==
  ASSUME QueueInv, UpdateFrontAttempt
  PROVE  QueueInv'
<1> DEFINE q == items'
           n == Len(items)
<1>1. items \in Seq(Records) /\ items # << >>
  BY DEF QueueInv, UpdateFrontAttempt
<1>2. /\ q = [items EXCEPT ![1].attempts = @ + 1]
      /\ PersistAll(q) \/ file' = file
      /\ UNCHANGED <<accepted, refused, unanswered, removed, forgotten, torn, unread, crashes>>
  BY DEF UpdateFrontAttempt
<1>3. n \in Nat /\ DOMAIN items = 1 .. n /\ \A i \in 1 .. n : items[i] \in Records
  BY <1>1, SeqFacts
<1>4. q \in Seq(Records) /\ Len(q) = n /\ \A i \in 1 .. n : q[i].id = items[i].id
  <2> DEFINE counted == [items[1] EXCEPT !.attempts = @ + 1]
  <2>1. q = [items EXCEPT ![1] = counted]
    BY <1>2
  <2>2. 1 \in 1 .. n
    BY <1>1, <1>3, EmptySeq
  <2>3. counted \in Records /\ counted.id = items[1].id
    BY <1>3, <2>2 DEF Records
  <2> HIDE DEF counted, q, n
  <2>4. q \in Seq(Records) /\ Len(q) = n
    BY <1>1, <2>1, <2>2, <2>3, ExceptSeq DEF n
  <2>5. \A i \in 1 .. n : q[i].id = items[i].id
    BY <1>3, <2>1, <2>2, <2>3
  <2> QED BY <2>4, <2>5
<1> HIDE DEF q
<1>5. Follows(q, items) /\ Ids(q) = Ids(items)
  BY <1>1, <1>4, SameIdsFacts
<1>6. Orderly(q, accepted)
  BY <1>1, <1>4, <1>5, FollowsOrderly DEF QueueInv
<1>7. Used' = Used
  BY <1>2 DEF Used
<1>8. CASE PersistAll(q)
  <2>1. file' \in Seq(Lines) /\ RecordsOf(file') = q /\ Readable(file') = Ids(q)
    BY <1>4, <1>8, RewrittenFacts DEF PersistAll
  <2> QED BY <1>2, <1>4, <1>5, <1>6, <1>7, <2>1 DEF QueueInv, q
<1>9. CASE file' = file
  BY <1>2, <1>4, <1>5, <1>6, <1>7, <1>9 DEF QueueInv, q
<1> QED BY <1>2, <1>8, <1>9

LEMMA RestartStep ==
  ASSUME QueueInv, Restart
  PROVE  QueueInv'
<1>1. /\ Load(file)
      /\ UNCHANGED <<file, accepted, refused, unanswered, removed, forgotten, torn>>
  BY DEF Restart
<1>2. file \in Seq(Lines) /\ accepted \in Seq(Items) /\ Orderly(RecordsOf(file), accepted)
  BY DEF QueueInv
<1>3. /\ items' \in Seq(Records)
      /\ Orderly(items', accepted)
      /\ Ids(items') \subseteq Ids(RecordsOf(file))
      /\ Readable(file) \cup unread \subseteq Ids(items') \cup unread'
      /\ unread \subseteq unread'
  BY <1>1, <1>2, LoadFacts
<1>4. Used' = Used
  BY <1>1 DEF Used
<1>5. /\ Ids(items') \cup Ids(RecordsOf(file)) \cup removed \subseteq Used'
      /\ removed \cap (Ids(items') \cup Ids(RecordsOf(file))) = {}
  BY <1>3, <1>4 DEF QueueInv
<1>6. /\ Range(accepted) \subseteq Readable(file) \cup removed \cup forgotten \cup torn \cup unread'
      /\ Range(accepted) \subseteq Ids(items') \cup removed \cup forgotten \cup torn \cup unread'
  BY <1>3 DEF QueueInv
<1> QED BY <1>1, <1>2, <1>3, <1>5, <1>6 DEF QueueInv

LEMMA QueueInvAlways ==
  Spec => []QueueInv
<1>1. ASSUME QueueInv, [Next]_vars
      PROVE  QueueInv'
  <2>1. CASE \E id \in Items : Enqueue(id) \/ DieInEnqueue(id)
    BY <1>1, <2>1, EnqueueStep, DieInEnqueueStep
  <2>2. CASE RemoveFront
    BY <1>1, <2>2, RemoveFrontStep
  <2>3. CASE UpdateFrontAttempt
    BY <1>1, <2>3, UpdateFrontAttemptStep
  <2>4. CASE Restart
    BY <1>1, <2>4, RestartStep
  <2>5. CASE UNCHANGED vars
    BY <1>1, <2>5 DEF vars, QueueInv, Used, Ids, RecordsOf, Readable, Orderly
  <2> QED BY <1>1, <2>1, <2>2, <2>3, <2>4, <2>5 DEF Next
<1> QED BY <1>1, InitialQueue, PTL DEF Spec

-----------------------------------------------------------------------------
(* Theorems                                                                *)

(* However often writing the file fails and the process dies, what         *)
(* enqueue() answered true for is found by load() until it is taken off,   *)
(* but for the lines written in part and the files load() cannot open, and *)
(* what removeFront() or dequeue() reported gone does not come back.       *)
THEOREM NothingIsLost ==
  Spec => []SurvivesReload
<1>1. ASSUME QueueInv PROVE SurvivesReload
  <2>1. file \in Seq(Lines) /\ accepted \in Seq(Items)
    BY <1>1 DEF QueueInv
  <2>2. Ids(Loadable(file)) = Readable(file) /\ Readable(file) \subseteq Ids(RecordsOf(file))
    BY <2>1, LoadableFacts, RecordsOfFacts
  <2>3. AcceptedSurvives
    <3>1. \A i \in DOMAIN accepted : accepted[i] \in Range(accepted)
      BY DEF Range
    <3> QED BY <1>1, <2>2, <3>1 DEF AcceptedSurvives, QueueInv
  <2>4. RemovedStaysRemoved
    BY <1>1, <2>2 DEF RemovedStaysRemoved, QueueInv
  <2> QED BY <2>3, <2>4 DEF SurvivesReload
<1> QED BY <1>1, QueueInvAlways, PTL

(* The queue that load() finds, and the one in memory, keep the order in   *)
(* which enqueue() accepted the items, across rewrites that fail, partial  *)
(* lines and restarts.                                                     *)
THEOREM ServedInOrder ==
  Spec => []FirstInFirstOut
<1>1. ASSUME QueueInv PROVE FirstInFirstOut
  <2>1. file \in Seq(Lines) /\ Orderly(items, accepted) /\ Orderly(RecordsOf(file), accepted)
    BY <1>1 DEF QueueInv
  <2>2. Orderly(Loadable(file), accepted)
    BY <2>1, LoadableFacts, RecordsOfFacts, FollowsOrderly
  <2> QED BY <2>1, <2>2 DEF FirstInFirstOut, InOrder, Orderly
<1> QED BY <1>1, QueueInvAlways, PTL
=============================================================================
