------------------------- MODULE DiskReserveProofs -------------------------
(***************************************************************************)
(* The disks hold what is written to them; uploads admitted beside one     *)
(* another leave the reserve up to all but one of them; and a backup finds *)
(* room for what was measured.                                             *)
(***************************************************************************)
EXTENDS DiskReserve, SumTheorems, SequenceTheorems

\* An upload and a backup, with sizes of any number of bytes.
UploadState == [busy : BOOLEAN, size : 0..MaxUpload, done : Nat]
BackupState == [pc : {"idle", "asking", "database", "storage", "retaining"},
                target : Nat, done : Nat, source : Nat]

\* Who is not writing has announced nothing, and nobody writes more than was announced.
UploadsTyped(ups) ==
    /\ ups \in [Uploads -> UploadState]
    /\ \A u \in Uploads : /\ ups[u].done <= ups[u].size
                          /\ ~ups[u].busy => ups[u].size = 0

\* What is counted is counted in natural numbers.
DiskTyped ==
    /\ shared \in BOOLEAN
    /\ stored \in Nat /\ deleting \in Nat /\ stale \in Nat /\ residue \in Nat /\ debris \in Nat
    /\ UploadsTyped(upload)
    /\ backups \in Seq(Nat)
    /\ backup \in BackupState
    /\ backup.done <= backup.target
    /\ ~Copying => backup.done = 0

\* The invariant: nothing overruns, and what is announced leaves what the properties say.
DiskInv ==
    /\ DiskTyped
    /\ Free >= 0 /\ BackupFree >= 0
    /\ UploadsLeaveReserve
    /\ BackupLeavesReserve

-----------------------------------------------------------------------------
(* Sums over the requests and over the backups *)

\* What the requests of a state of the uploads have written, and what they announced.
DoneOf(ups) == [u \in Uploads |-> ups[u].done]
SizeOf(ups) == [u \in Uploads |-> ups[u].size]

\* The sums of the model are those of the lemmas.
LEMMA RequestSums ==
  /\ \A us : Written(us) = SumOf(DoneOf(upload), us)
  /\ Announced = SumOf(SizeOf(upload), Uploads)
BY DEF Written, Announced, DoneOf, SizeOf, SumFunctionOnSet, FoldFunctionOnSet, MapThenFoldSet,
       SumOf, SumRule, Chosen

\* The same after a step.
LEMMA RequestSumsThen ==
  /\ \A us : Written(us)' = SumOf(DoneOf(upload'), us)
  /\ Announced' = SumOf(SizeOf(upload'), Uploads)
BY DEF Written, Announced, DoneOf, SizeOf, SumFunctionOnSet, FoldFunctionOnSet, MapThenFoldSet,
       SumOf, SumRule, Chosen

\* The published backups take up the sum of their sizes.
LEMMA BackupsSum ==
  /\ OldBackups = debris + SumOf(backups, DOMAIN backups)
  /\ OldBackups' = debris' + SumOf(backups', DOMAIN backups')
BY DEF OldBackups, SumFunction, SumFunctionOnSet, FoldFunctionOnSet, MapThenFoldSet, SumOf,
       SumRule, Chosen

\* The sizes of the disks, and what the uploads take from the reserve, are numbers.
LEMMA SizesAreNumbers ==
  /\ Capacity \in Nat /\ BackupCapacity \in Nat /\ Reserve \in Nat /\ BackupReserve \in Nat
  /\ MaxUpload \in Nat /\ DatabaseSize \in Nat /\ ManifestSize \in Nat /\ MaxLog \in Nat
  /\ Overlap \in Nat /\ Cardinality(Uploads) * MaxUpload = Overlap + MaxUpload
<1>1. Cardinality(Uploads) \in Nat /\ Cardinality(Uploads) # 0
  BY UploadAssumption, FS_CardinalityType, FS_EmptySet
<1>2. \A n, m \in Nat : n # 0 => (n - 1) * m \in Nat /\ n * m = (n - 1) * m + m
  OBVIOUS
<1>3. MaxUpload \in Nat
  BY SizeAssumption
<1>4. Overlap \in Nat /\ Cardinality(Uploads) * MaxUpload = Overlap + MaxUpload
  BY <1>1, <1>2, <1>3 DEF Overlap
<1>5. QED
  BY <1>4, SizeAssumption

\* In a state of the uploads: nobody writes more than was announced, an idle one announces
\* nothing, and no one more than the limit.
LEMMA SumsOfUploads ==
  ASSUME NEW ups, UploadsTyped(ups)
  PROVE  /\ SumOf(DoneOf(ups), Uploads) \in Nat /\ SumOf(SizeOf(ups), Uploads) \in Nat
         /\ SumOf(DoneOf(ups), Uploads) <= SumOf(SizeOf(ups), Uploads)
         /\ SumOf(SizeOf(ups), Uploads) <= Overlap + MaxUpload
         /\ \A u \in Uploads : SumOf(SizeOf(ups), Uploads) <= ups[u].size + Overlap
<1> DEFINE f == DoneOf(ups)
           g == SizeOf(ups)
<1>1. \A u \in Uploads : /\ f[u] \in Nat /\ g[u] \in 0..MaxUpload /\ f[u] <= g[u]
                         /\ g[u] = ups[u].size
  BY SizesAreNumbers DEF UploadsTyped, UploadState, DoneOf, SizeOf
<1> HIDE DEF f, g
<1>2. MaxUpload \in Nat /\ \A u \in Uploads : g[u] \in Nat /\ g[u] \in Int
  BY <1>1, SizesAreNumbers
<1>3. SumOf(f, Uploads) \in Nat /\ SumOf(g, Uploads) \in Nat
  BY <1>1, <1>2, UploadAssumption, SumIsNatural
<1>4. SumOf(f, Uploads) <= SumOf(g, Uploads)
  BY <1>1, <1>2, UploadAssumption, SumAtMost
<1>5. SumOf(g, Uploads) <= Cardinality(Uploads) * MaxUpload
  BY <1>1, <1>2, UploadAssumption, SumBounded
<1>6. ASSUME NEW u \in Uploads
      PROVE  SumOf(g, Uploads) <= ups[u].size + Overlap
  <2> DEFINE others == Uploads \ {u}
  <2>1. SumOf(g, Uploads) = g[u] + SumOf(g, others)
    BY <1>2, UploadAssumption, SumWithout
  <2>2. IsFiniteSet(others) /\ Cardinality(others) = Cardinality(Uploads) - 1
    BY UploadAssumption, FS_RemoveElement
  <2>3. \A v \in others : g[v] \in 0..MaxUpload /\ g[v] \in Nat
    BY <1>1, <1>2
  <2> HIDE DEF others
  <2>4. SumOf(g, others) \in Nat /\ SumOf(g, others) <= Cardinality(others) * MaxUpload
    BY <1>2, <2>2, <2>3, SumIsNatural, SumBounded
  <2>5. SumOf(g, others) <= Overlap
    BY <2>2, <2>4 DEF Overlap
  <2>6. g[u] \in Nat /\ g[u] = ups[u].size
    BY <1>1, <1>2
  <2>7. QED
    BY <2>1, <2>4, <2>5, <2>6, SizesAreNumbers
<1>7. QED
  BY <1>3, <1>4, <1>5, <1>6, SizesAreNumbers DEF f, g

\* One request begins, writes or ends.
LEMMA RequestMoves ==
  ASSUME DiskTyped, NEW u \in Uploads, NEW new \in UploadState,
         upload' = [upload EXCEPT ![u] = new]
  PROVE  /\ Written(Uploads)' = Written(Uploads) + (new.done - upload[u].done)
         /\ Announced' = Announced + (new.size - upload[u].size)
<1>1. /\ upload \in [Uploads -> UploadState]
      /\ new.done - upload[u].done \in Int /\ new.size - upload[u].size \in Int
  BY SizesAreNumbers DEF DiskTyped, UploadsTyped, UploadState
<1>2. ASSUME NEW k \in Int, NEW f, NEW g, \A x \in Uploads : f[x] \in Int,
             \A x \in Uploads : g[x] = IF x = u THEN f[x] + k ELSE f[x]
      PROVE  SumOf(g, Uploads) = SumOf(f, Uploads) + k
  <2>1. SumOf(g, Uploads) = SumOf(f, Uploads) + (IF u \in Uploads THEN k ELSE 0)
    BY <1>2, UploadAssumption, SumMoves
  <2>2. QED
    BY <2>1
<1>3. SumOf(DoneOf(upload'), Uploads)
        = SumOf(DoneOf(upload), Uploads) + (new.done - upload[u].done)
  <2> DEFINE f == DoneOf(upload)
             g == DoneOf(upload')
             k == new.done - upload[u].done
  <2>1. k \in Int /\ \A x \in Uploads : f[x] \in Int
    BY <1>1 DEF UploadState, DoneOf
  <2>2. \A x \in Uploads : g[x] = IF x = u THEN f[x] + k ELSE f[x]
    BY <1>1 DEF UploadState, DoneOf
  <2> HIDE DEF f, g, k
  <2>3. SumOf(g, Uploads) = SumOf(f, Uploads) + k
    BY <1>2, <2>1, <2>2
  <2>4. QED
    BY <2>3 DEF f, g, k
<1>4. SumOf(SizeOf(upload'), Uploads)
        = SumOf(SizeOf(upload), Uploads) + (new.size - upload[u].size)
  <2> DEFINE f == SizeOf(upload)
             g == SizeOf(upload')
             k == new.size - upload[u].size
  <2>1. k \in Int /\ \A x \in Uploads : f[x] \in Int
    BY <1>1, SizesAreNumbers DEF UploadState, SizeOf
  <2>2. \A x \in Uploads : g[x] = IF x = u THEN f[x] + k ELSE f[x]
    BY <1>1, SizesAreNumbers DEF UploadState, SizeOf
  <2> HIDE DEF f, g, k
  <2>3. SumOf(g, Uploads) = SumOf(f, Uploads) + k
    BY <1>2, <2>1, <2>2
  <2>4. QED
    BY <2>3 DEF f, g, k
<1>5. QED
  BY <1>3, <1>4, RequestSums, RequestSumsThen

\* What is written is a natural number.
LEMMA WrittenIsNatural ==
  ASSUME DiskTyped, NEW us \in SUBSET Uploads
  PROVE  Written(us) \in Nat
<1>1. \A u \in us : DoneOf(upload)[u] \in Nat
  BY DEF DiskTyped, UploadsTyped, UploadState, DoneOf
<1>2. IsFiniteSet(us)
  BY UploadAssumption, FS_Subset
<1>3. SumOf(DoneOf(upload), us) \in Nat
  BY <1>1, <1>2, SumIsNatural
<1>4. QED
  BY <1>3, RequestSums

\* When the server stops, what was written is what the scanned uploads and the others wrote.
LEMMA WrittenSplits ==
  ASSUME DiskTyped, NEW us \in SUBSET Uploads
  PROVE  Written(Uploads) = Written(us) + Written(Uploads \ us)
<1>1. \A u \in Uploads : DoneOf(upload)[u] \in Nat
  BY DEF DiskTyped, UploadsTyped, UploadState, DoneOf
<1>2. SumOf(DoneOf(upload), Uploads)
        = SumOf(DoneOf(upload), Uploads \cap us) + SumOf(DoneOf(upload), Uploads \ us)
  BY <1>1, UploadAssumption, SumOfParts
<1>3. Uploads \cap us = us
  OBVIOUS
<1>4. QED
  BY <1>2, <1>3, RequestSums

\* Where nobody has announced anything, nothing is written.
LEMMA NothingWritten ==
  /\ (\A u \in Uploads : upload[u].done = 0) => Written(Uploads) = 0
  /\ (\A u \in Uploads : upload[u].size = 0) => Announced = 0
  /\ (\A u \in Uploads : upload'[u].done = 0) => Written(Uploads)' = 0
  /\ (\A u \in Uploads : upload'[u].size = 0) => Announced' = 0
<1>1. ASSUME NEW f, \A u \in Uploads : f[u] = 0
      PROVE  SumOf(f, Uploads) = 0
  <2>1. \A u \in Uploads : f[u] \in Nat
    BY <1>1
  <2>2. QED
    BY <1>1, <2>1, UploadAssumption, SumIsNatural
<1>2. ASSUME NEW ups
      PROVE  /\ (\A u \in Uploads : ups[u].done = 0) => SumOf(DoneOf(ups), Uploads) = 0
             /\ (\A u \in Uploads : ups[u].size = 0) => SumOf(SizeOf(ups), Uploads) = 0
  <2>1. /\ \A u \in Uploads : DoneOf(ups)[u] = ups[u].done
        /\ \A u \in Uploads : SizeOf(ups)[u] = ups[u].size
    BY DEF DoneOf, SizeOf
  <2>2. QED
    BY <1>1, <2>1
<1>3. QED
  BY <1>2, RequestSums, RequestSumsThen

\* A sequence of sizes has a sum.
LEMMA SizesSum ==
  ASSUME NEW s \in Seq(Nat)
  PROVE  IsFiniteSet(DOMAIN s) /\ SumOf(s, DOMAIN s) \in Nat
<1>1. DOMAIN s = 1..Len(s) /\ Len(s) \in Nat /\ \A i \in 1..Len(s) : s[i] \in Nat
  OBVIOUS
<1>2. IsFiniteSet(1..Len(s))
  BY <1>1, FS_Interval
<1>3. SumOf(s, 1..Len(s)) \in Nat
  BY <1>1, <1>2, SumIsNatural
<1>4. QED
  BY <1>1, <1>2, <1>3

\* One more backup adds its size.
LEMMA AppendedSum ==
  ASSUME NEW s \in Seq(Nat), NEW x \in Nat
  PROVE  SumOf(Append(s, x), DOMAIN Append(s, x)) = SumOf(s, DOMAIN s) + x
<1> DEFINE n == Len(s)
           t == Append(s, x)
<1>1. /\ n \in Nat /\ DOMAIN s = 1..n /\ DOMAIN t = 1..(n + 1) /\ t[n + 1] = x
      /\ \A i \in 1..n : s[i] \in Nat /\ t[i] = s[i]
  OBVIOUS
<1>2. IsFiniteSet(1..n) /\ IsFiniteSet(1..(n + 1))
  BY <1>1, FS_Interval
<1> HIDE DEF n, t
<1>3. \A i \in 1..(n + 1) : t[i] \in Int
  BY <1>1
<1>4. SumOf(t, 1..(n + 1)) = t[n + 1] + SumOf(t, (1..(n + 1)) \ {n + 1})
  <2>1. n + 1 \in 1..(n + 1)
    BY <1>1
  <2>2. QED
    BY <1>2, <1>3, <2>1, SumWithout
<1>5. (1..(n + 1)) \ {n + 1} = 1..n
  BY <1>1
<1>6. SumOf(t, 1..n) = SumOf(s, 1..n) /\ SumOf(s, 1..n) \in Int
  <2>1. \A i \in 1..n : s[i] \in Int /\ t[i] = s[i]
    BY <1>1
  <2>2. QED
    BY <1>2, <2>1, SumSame
<1>7. SumOf(t, DOMAIN t) = SumOf(s, DOMAIN s) + x
  <2>1. SumOf(t, DOMAIN t) = x + SumOf(s, DOMAIN s)
    BY <1>1, <1>4, <1>5, <1>6, Zenon
  <2>2. SumOf(s, DOMAIN s) \in Int
    BY <1>1, <1>6
  <2>3. QED
    BY <2>1, <2>2
<1>8. QED
  BY <1>7 DEF t

\* One backup less takes its size away.
LEMMA RemovedSum ==
  ASSUME NEW s \in Seq(Nat), NEW i \in DOMAIN s
  PROVE  /\ RemoveAt(s, i) \in Seq(Nat)
         /\ SumOf(s, DOMAIN s) = s[i] + SumOf(RemoveAt(s, i), DOMAIN RemoveAt(s, i))
<1> DEFINE n == Len(s)
           t == RemoveAt(s, i)
           b == [j \in 1..(n - 1) |-> IF j < i THEN j ELSE j + 1]
<1>1. n \in Nat /\ DOMAIN s = 1..n /\ i \in 1..n /\ \A j \in 1..n : s[j] \in Nat
  OBVIOUS
<1>2. t = SubSeq(s, 1, i - 1) \o SubSeq(s, i + 1, n)
  BY DEF RemoveAt
<1> HIDE DEF n, t
<1>3. /\ SubSeq(s, 1, i - 1) \in Seq(Nat) /\ Len(SubSeq(s, 1, i - 1)) = i - 1
      /\ \A j \in 1..(i - 1) : SubSeq(s, 1, i - 1)[j] = s[j]
  <2>1. i - 1 \in Int /\ \A j \in 1..(i - 1) : s[j] \in Nat
    BY <1>1
  <2>2. /\ SubSeq(s, 1, i - 1) \in Seq(Nat)
        /\ Len(SubSeq(s, 1, i - 1)) = IF 1 <= i - 1 THEN i - 1 - 1 + 1 ELSE 0
        /\ \A j \in 1..(i - 1 - 1 + 1) : SubSeq(s, 1, i - 1)[j] = s[1 + j - 1]
    BY <2>1, SubSeqProperties
  <2>3. i - 1 - 1 + 1 = i - 1 /\ \A j \in 1..(i - 1) : 1 + j - 1 = j
    BY <1>1
  <2>4. (IF 1 <= i - 1 THEN i - 1 - 1 + 1 ELSE 0) = i - 1
    BY <1>1
  <2>5. QED
    BY <2>2, <2>3, <2>4
<1>4. /\ SubSeq(s, i + 1, n) \in Seq(Nat) /\ Len(SubSeq(s, i + 1, n)) = n - i
      /\ \A j \in 1..(n - i) : SubSeq(s, i + 1, n)[j] = s[i + j]
  <2>1. i + 1 \in Int /\ n \in Int /\ \A j \in (i + 1)..n : s[j] \in Nat
    BY <1>1
  <2>2. /\ SubSeq(s, i + 1, n) \in Seq(Nat)
        /\ Len(SubSeq(s, i + 1, n)) = IF i + 1 <= n THEN n - (i + 1) + 1 ELSE 0
        /\ \A j \in 1..(n - (i + 1) + 1) : SubSeq(s, i + 1, n)[j] = s[i + 1 + j - 1]
    BY <2>1, SubSeqProperties
  <2>3. n - (i + 1) + 1 = n - i /\ \A j \in 1..(n - i) : i + 1 + j - 1 = i + j
    BY <1>1
  <2>4. (IF i + 1 <= n THEN n - (i + 1) + 1 ELSE 0) = n - i
    BY <1>1
  <2>5. QED
    BY <2>2, <2>3, <2>4
<1>5. /\ t \in Seq(Nat) /\ Len(t) = n - 1
      /\ \A j \in 1..(n - 1) : t[j] = IF j <= i - 1 THEN s[j] ELSE s[i + (j - (i - 1))]
  <2> DEFINE p == SubSeq(s, 1, i - 1)
             q == SubSeq(s, i + 1, n)
  <2>1. /\ p \in Seq(Nat) /\ q \in Seq(Nat) /\ Len(p) = i - 1 /\ Len(q) = n - i /\ t = p \o q
        /\ \A j \in 1..(i - 1) : p[j] = s[j]
        /\ \A j \in 1..(n - i) : q[j] = s[i + j]
    BY <1>2, <1>3, <1>4
  <2> HIDE DEF p, q
  <2>2. /\ p \o q \in Seq(Nat) /\ Len(p \o q) = Len(p) + Len(q)
        /\ \A j \in 1..(Len(p) + Len(q)) :
             (p \o q)[j] = IF j <= Len(p) THEN p[j] ELSE q[j - Len(p)]
    BY <2>1, ConcatProperties
  <2>3. (i - 1) + (n - i) = n - 1
    BY <1>1
  <2>4. \A j \in 1..(n - 1) : t[j] = IF j <= i - 1 THEN p[j] ELSE q[j - (i - 1)]
    BY <2>1, <2>2, <2>3
  <2>5. \A j \in 1..(n - 1) : IF j <= i - 1 THEN j \in 1..(i - 1) ELSE j - (i - 1) \in 1..(n - i)
    BY <1>1
  <2>6. QED
    BY <2>1, <2>2, <2>3, <2>4, <2>5
<1>6. DOMAIN t = 1..(n - 1) /\ \A j \in 1..(n - 1) : t[j] = s[b[j]] /\ s[b[j]] \in Int
  <2>1. DOMAIN t = 1..(n - 1)
    BY <1>5
  <2>2. \A j \in 1..(n - 1) : i + (j - (i - 1)) = j + 1 /\ (j < i <=> j <= i - 1)
    BY <1>1
  <2>3. \A j \in 1..(n - 1) : t[j] = s[b[j]]
    <3> SUFFICES ASSUME NEW j \in 1..(n - 1) PROVE t[j] = s[b[j]]
      OBVIOUS
    <3>1. CASE j < i
      BY <1>5, <2>2, <3>1
    <3>2. CASE ~(j < i)
      <4>1. t[j] = s[i + (j - (i - 1))] /\ b[j] = j + 1
        BY <1>5, <2>2, <3>2
      <4>2. QED
        BY <2>2, <4>1
    <3>3. QED
      BY <3>1, <3>2
  <2>4. \A j \in 1..(n - 1) : b[j] \in 1..n
    BY <1>1
  <2>5. QED
    BY <1>1, <2>1, <2>3, <2>4
<1>7. \A j, k \in 1..(n - 1) : b[j] = b[k] => j = k
  BY <1>1
<1>8. {b[j] : j \in 1..(n - 1)} = (1..n) \ {i}
  <2>1. \A j \in 1..(n - 1) : b[j] \in (1..n) \ {i}
    BY <1>1
  <2>2. ASSUME NEW k \in (1..n) \ {i}
        PROVE  \E j \in 1..(n - 1) : k = b[j]
    <3>1. CASE k < i
      <4>1. k \in 1..(n - 1) /\ b[k] = k
        BY <1>1, <3>1
      <4>2. QED
        BY <4>1
    <3>2. CASE k > i
      <4>1. k - 1 \in 1..(n - 1) /\ b[k - 1] = k
        BY <1>1, <3>2
      <4>2. QED
        BY <4>1
    <3>3. QED
      BY <1>1, <3>1, <3>2
  <2> HIDE DEF b
  <2>3. QED
    BY <2>1, <2>2
<1>9. IsFiniteSet(1..n) /\ IsFiniteSet(1..(n - 1))
  BY <1>1, FS_Interval
<1> HIDE DEF b
<1>10. SumOf(t, 1..(n - 1)) = SumOf(s, {b[j] : j \in 1..(n - 1)})
  <2> DEFINE S == 1..(n - 1)
  <2>1. /\ IsFiniteSet(S) /\ \A j \in S : s[b[j]] \in Int /\ t[j] = s[b[j]]
        /\ \A j, k \in S : b[j] = b[k] => j = k
    BY <1>6, <1>7, <1>9
  <2> HIDE DEF S
  <2>2. SumOf(t, S) = SumOf(s, {b[j] : j \in S})
    BY <2>1, SumRenamed
  <2>3. QED
    BY <2>2 DEF S
<1>11. SumOf(s, 1..n) = s[i] + SumOf(s, (1..n) \ {i})
  <2>1. \A j \in 1..n : s[j] \in Int
    BY <1>1
  <2>2. QED
    BY <1>1, <1>9, <2>1, SumWithout
<1>12. SumOf(s, DOMAIN s) = s[i] + SumOf(t, DOMAIN t)
  BY <1>1, <1>6, <1>8, <1>10, <1>11, Zenon
<1>13. QED
  BY <1>5, <1>12 DEF t

-----------------------------------------------------------------------------
(* What a step keeps *)

\* What is free and what there is room for, before and after a step.
LEMMA Spaces ==
  /\ Free = Capacity - Settled - Written(Uploads) - (IF shared THEN InBackups ELSE 0)
  /\ Free' = Capacity - Settled' - Written(Uploads)' - (IF shared' THEN InBackups' ELSE 0)
  /\ BackupFree = IF shared THEN Free ELSE BackupCapacity - InBackups
  /\ BackupFree' = IF shared' THEN Free' ELSE BackupCapacity - InBackups'
  /\ Room = Capacity - Settled - Announced
  /\ Room' = Capacity - Settled' - Announced'
  /\ Settled = stored + deleting + stale + residue
  /\ Settled' = stored' + deleting' + stale' + residue'
  /\ InBackups = OldBackups + backup.done
  /\ InBackups' = OldBackups' + backup'.done
BY DEF Free, BackupFree, Room, Settled, InBackups

\* What is counted is a number.
LEMMA Numbers ==
  ASSUME DiskTyped
  PROVE  /\ Settled \in Nat /\ Written(Uploads) \in Nat /\ Announced \in Nat
         /\ OldBackups \in Nat /\ backup.done \in Nat /\ backup.source \in Nat
         /\ shared \in BOOLEAN
         /\ Written(Uploads) <= Announced /\ Announced <= Overlap + MaxUpload
         /\ \A u \in Uploads : Announced <= upload[u].size + Overlap
<1>1. /\ UploadsTyped(upload)
      /\ stored \in Nat /\ deleting \in Nat /\ stale \in Nat /\ residue \in Nat /\ debris \in Nat
      /\ backups \in Seq(Nat) /\ backup \in BackupState /\ shared \in BOOLEAN
  BY DEF DiskTyped
<1>2. /\ Written(Uploads) \in Nat /\ Announced \in Nat
      /\ Written(Uploads) <= Announced /\ Announced <= Overlap + MaxUpload
      /\ \A u \in Uploads : Announced <= upload[u].size + Overlap
  BY <1>1, SumsOfUploads, RequestSums
<1>3. SumOf(backups, DOMAIN backups) \in Nat
  BY <1>1, SizesSum
<1>4. OldBackups \in Nat
  BY <1>1, <1>3, BackupsSum
<1>5. Settled \in Nat /\ backup.done \in Nat /\ backup.source \in Nat
  BY <1>1 DEF Settled, BackupState
<1>6. QED
  BY <1>1, <1>2, <1>4, <1>5

\* The same after a step.
LEMMA NumbersThen ==
  ASSUME DiskTyped'
  PROVE  /\ Settled' \in Nat /\ Written(Uploads)' \in Nat /\ Announced' \in Nat
         /\ OldBackups' \in Nat /\ backup'.done \in Nat /\ backup'.source \in Nat
         /\ shared' \in BOOLEAN
         /\ Announced' <= Overlap + MaxUpload
         /\ \A u \in Uploads : Announced' <= upload'[u].size + Overlap
<1>1. /\ UploadsTyped(upload')
      /\ stored' \in Nat /\ deleting' \in Nat /\ stale' \in Nat /\ residue' \in Nat
      /\ debris' \in Nat
      /\ backups' \in Seq(Nat) /\ backup' \in BackupState /\ shared' \in BOOLEAN
  BY DEF DiskTyped
<1>2. /\ Written(Uploads)' \in Nat /\ Announced' \in Nat
      /\ Announced' <= Overlap + MaxUpload
      /\ \A u \in Uploads : Announced' <= upload'[u].size + Overlap
  BY <1>1, SumsOfUploads, RequestSumsThen
<1>3. SumOf(backups', DOMAIN backups') \in Nat
  BY <1>1, SizesSum
<1>4. OldBackups' \in Nat
  BY <1>1, <1>3, BackupsSum
<1>5. Settled' \in Nat /\ backup'.done \in Nat /\ backup'.source \in Nat
  <2>1. Settled' = stored' + deleting' + stale' + residue'
    BY Spaces
  <2>2. Settled' \in Nat
    <3>1. \A m, n, k, l \in Nat : m + n + k + l \in Nat
      OBVIOUS
    <3>2. stored' \in Nat /\ deleting' \in Nat /\ stale' \in Nat /\ residue' \in Nat
      BY <1>1
    <3>3. QED
      BY <2>1, <3>1, <3>2, Zenon
  <2>3. QED
    BY <1>1, <2>2 DEF BackupState
<1>6. QED
  BY <1>1, <1>2, <1>4, <1>5

\* A step of an upload, a deletion or the server that announces and writes no more than
\* before, whatever it has given back.
LEMMA StorageKeeps ==
  ASSUME DiskInv, DiskTyped', UNCHANGED <<shared, backupVars>>,
         Settled' + Written(Uploads)' <= Settled + Written(Uploads),
         Settled' + Announced' <= Settled + Announced
  PROVE  DiskInv'
<1>1. /\ OldBackups' = OldBackups /\ InBackups' = InBackups /\ (Copying' <=> Copying)
      /\ UNCHANGED <<shared, backup>>
  BY BackupsSum DEF backupVars, InBackups, Copying
<1>2. /\ Settled \in Nat /\ Settled' \in Nat /\ Announced \in Nat /\ Announced' \in Nat
      /\ Written(Uploads) \in Nat /\ Written(Uploads)' \in Nat
      /\ OldBackups \in Nat /\ InBackups \in Nat /\ backup.source \in Nat
      /\ Capacity \in Nat /\ BackupCapacity \in Nat /\ Reserve \in Nat /\ BackupReserve \in Nat
      /\ Overlap \in Nat /\ MaxUpload \in Nat /\ shared \in BOOLEAN
  BY Numbers, NumbersThen, SizesAreNumbers DEF DiskInv, InBackups
<1>3. Free >= 0 /\ BackupFree >= 0 /\ UploadsLeaveReserve /\ BackupLeavesReserve
  BY DEF DiskInv
<1>4. Free' >= 0 /\ BackupFree' >= 0
  <2>1. Free' >= Free /\ Free \in Int /\ Free' \in Int
    BY <1>1, <1>2, Spaces
  <2>2. BackupFree' >= 0
    BY <1>1, <1>2, <1>3, <2>1, Spaces
  <2>3. QED
    BY <1>3, <2>1, <2>2
<1>5. Room \in Int /\ Room' \in Int /\ Room' >= Room
  BY <1>2, Spaces
<1>6. UploadsLeaveReserve'
  BY <1>2, <1>3, <1>5 DEF UploadsLeaveReserve
<1>7. BackupLeavesReserve'
  <2>1. SUFFICES ASSUME Copying'
                 PROVE  IF shared
                        THEN \/ Room' - OldBackups
                                  >= BackupReserve + backup.source - Overlap - MaxUpload
                             \/ Room' - OldBackups >= Reserve - Overlap
                        ELSE BackupCapacity - OldBackups >= BackupReserve + backup.source
    BY <1>1 DEF BackupLeavesReserve
  <2>2. IF shared
        THEN \/ Room - OldBackups >= BackupReserve + backup.source - Overlap - MaxUpload
             \/ Room - OldBackups >= Reserve - Overlap
        ELSE BackupCapacity - OldBackups >= BackupReserve + backup.source
    BY <1>1, <1>3, <2>1 DEF BackupLeavesReserve
  <2>3. CASE shared
    <3>1. \A x, y, o, c \in Int : y >= x /\ x - o >= c => y - o >= c
      OBVIOUS
    <3>2. /\ Room \in Int /\ Room' \in Int /\ OldBackups \in Int /\ Reserve - Overlap \in Int
          /\ BackupReserve + backup.source - Overlap - MaxUpload \in Int /\ Room' >= Room
      BY <1>2, <1>5
    <3>3. QED
      BY <2>2, <2>3, <3>1, <3>2
  <2>4. QED
    BY <1>2, <2>2, <2>3
<1>8. QED
  BY <1>4, <1>6, <1>7 DEF DiskInv

\* A step of the backup that writes nothing: it removes, or it goes on with what it has.
LEMMA BackupKeeps ==
  ASSUME DiskInv, DiskTyped', UNCHANGED <<shared, storageVars>>, InBackups' <= InBackups,
         Copying' => /\ Copying
                     /\ OldBackups' = OldBackups /\ backup'.source = backup.source
  PROVE  DiskInv'
<1>1. /\ Written(Uploads)' = Written(Uploads) /\ Announced' = Announced /\ Settled' = Settled
      /\ UNCHANGED shared
  BY RequestSums, RequestSumsThen DEF storageVars, Settled
<1>2. /\ Settled \in Nat /\ Written(Uploads) \in Nat /\ shared \in BOOLEAN
      /\ InBackups \in Nat /\ InBackups' \in Nat
      /\ Capacity \in Nat /\ BackupCapacity \in Nat
  BY Numbers, NumbersThen, SizesAreNumbers DEF DiskInv, InBackups
<1>3. Free >= 0 /\ BackupFree >= 0 /\ UploadsLeaveReserve /\ BackupLeavesReserve
  BY DEF DiskInv
<1>4. Free' >= 0 /\ BackupFree' >= 0
  <2>0. \A c \in Int : \A m, n \in Nat : n <= m /\ c - m >= 0 => c - n >= 0
    OBVIOUS
  <2>1. CASE shared
    <3>1. /\ Free = Capacity - Settled - Written(Uploads) - InBackups
          /\ Free' = Capacity - Settled - Written(Uploads) - InBackups'
          /\ BackupFree' = Free'
      BY <1>1, <2>1, Spaces
    <3>2. Capacity - Settled - Written(Uploads) \in Int
      BY <1>2
    <3>3. Capacity - Settled - Written(Uploads) - InBackups >= 0
      BY <1>3, <3>1
    <3>4. Capacity - Settled - Written(Uploads) - InBackups' >= 0
      BY <1>2, <2>0, <3>2, <3>3, Zenon
    <3>5. QED
      BY <3>1, <3>4, Zenon
  <2>2. CASE ~shared
    <3>1. /\ Free' = Free
          /\ BackupFree = BackupCapacity - InBackups
          /\ BackupFree' = BackupCapacity - InBackups'
      BY <1>1, <2>2, Spaces
    <3>2. BackupCapacity \in Int /\ BackupCapacity - InBackups >= 0
      BY <1>2, <1>3, <3>1
    <3>3. BackupCapacity - InBackups' >= 0
      BY <1>2, <2>0, <3>2, Zenon
    <3>4. QED
      BY <1>3, <3>1, <3>3, Zenon
  <2>3. QED
    BY <2>1, <2>2
<1>5. Room' = Room
  BY <1>1, Spaces
<1>6. UploadsLeaveReserve' /\ BackupLeavesReserve'
  BY <1>1, <1>3, <1>5 DEF UploadsLeaveReserve, BackupLeavesReserve
<1>7. QED
  BY <1>4, <1>6 DEF DiskInv

-----------------------------------------------------------------------------
(* The requests and the server *)

\* An upload is admitted with room for all it announced; what the others announced besides
\* is what the reserve may lose.
LEMMA AcceptKeeps ==
  ASSUME DiskInv, NEW u \in Uploads, NEW size \in 0..MaxUpload, AcceptUpload(u, size)
  PROVE  DiskInv'
<1> DEFINE new == [busy |-> TRUE, size |-> size, done |-> 0]
<1>0. size \in Nat /\ new \in UploadState /\ new.done = 0 /\ new.size = size
  BY SizesAreNumbers DEF UploadState
<1>1. /\ upload' = [upload EXCEPT ![u] = new] /\ ~upload[u].busy /\ DiskTyped
      /\ EnsureFree(Free, Required(size), Reserve)
      /\ UNCHANGED <<shared, stored, deleting, stale, residue, backups, backup, debris>>
  BY DEF AcceptUpload, DiskInv, backupVars
<1>2. DiskTyped'
  <2>1. UploadsTyped(upload')
    BY <1>0, <1>1 DEF DiskTyped, UploadsTyped
  <2>2. QED
    BY <1>1, <2>1 DEF DiskTyped, Copying
<1>3. upload[u].done = 0 /\ upload[u].size = 0
  BY <1>1 DEF DiskTyped, UploadsTyped, UploadState
<1>4. /\ Settled \in Nat /\ Announced \in Nat /\ Announced' \in Nat /\ Written(Uploads) \in Nat
      /\ OldBackups \in Nat /\ backup.done \in Nat /\ InBackups \in Nat
      /\ backup.source \in Nat /\ shared \in BOOLEAN
      /\ Capacity \in Nat /\ BackupCapacity \in Nat /\ Reserve \in Nat /\ BackupReserve \in Nat
      /\ Overlap \in Nat /\ MaxUpload \in Nat
  BY <1>1, <1>2, Numbers, NumbersThen, SizesAreNumbers DEF InBackups
<1>5. Written(Uploads)' = Written(Uploads)
  <2>1. Written(Uploads)' = Written(Uploads) + (new.done - upload[u].done)
    BY <1>0, <1>1, RequestMoves
  <2>2. QED
    BY <1>0, <1>3, <1>4, <2>1
<1>6. Announced' = Announced + size /\ Announced <= Overlap
  <2>1. Announced' = Announced + (new.size - upload[u].size)
    BY <1>0, <1>1, RequestMoves
  <2>2. Announced <= upload[u].size + Overlap
    BY <1>1, Numbers
  <2>3. QED
    BY <1>0, <1>3, <1>4, <2>1, <2>2
<1>7. /\ Settled' = Settled /\ OldBackups' = OldBackups /\ InBackups' = InBackups
      /\ (Copying' <=> Copying) /\ UNCHANGED <<shared, backup>>
  BY <1>1, BackupsSum DEF Settled, InBackups, Copying
<1>8. Free >= size + Reserve /\ Free >= 0 /\ BackupFree >= 0
  <2>1. Required(size) \in Nat /\ Required(size) >= size
    BY <1>0, <1>4 DEF Required
  <2>2. Free >= Required(size) + Reserve /\ Free \in Int
    BY <1>1, <1>4 DEF EnsureFree, Free
  <2>3. QED
    BY <1>0, <1>4, <2>1, <2>2 DEF DiskInv
<1>9. Free' >= 0 /\ BackupFree' >= 0
  BY <1>5, <1>7, <1>8 DEF Free, BackupFree
<1>10. /\ Room' >= Reserve - Overlap
       /\ shared => Room' - OldBackups >= Reserve - Overlap
  <2>1. Room' = Capacity - Settled - (Announced + size)
    BY <1>6, <1>7, Spaces
  <2>2. CASE shared
    <3>1. Free = Capacity - Settled - Written(Uploads) - (OldBackups + backup.done)
      BY <2>2, Spaces
    <3>2. QED
      BY <1>0, <1>4, <1>6, <1>8, <2>1, <3>1
  <2>3. CASE ~shared
    <3>1. Free = Capacity - Settled - Written(Uploads)
      BY <1>4, <2>3, Spaces
    <3>2. QED
      BY <1>0, <1>4, <1>6, <1>8, <2>1, <2>3, <3>1
  <2>4. QED
    BY <2>2, <2>3
<1>11. UploadsLeaveReserve'
  BY <1>10 DEF UploadsLeaveReserve
<1>12. BackupLeavesReserve'
  <2>1. BackupLeavesReserve
    BY DEF DiskInv
  <2>2. QED
    BY <1>4, <1>7, <1>10, <2>1 DEF BackupLeavesReserve
<1>13. QED
  BY <1>2, <1>9, <1>11, <1>12 DEF DiskInv

\* A chunk finds its room, and was announced.
LEMMA ChunkKeeps ==
  ASSUME DiskInv, NEW u \in Uploads, WriteChunk(u)
  PROVE  DiskInv'
<1> DEFINE new == [upload[u] EXCEPT !.done = @ + 1]
<1>1. /\ DiskTyped /\ upload[u] \in UploadState /\ upload[u].busy
      /\ upload[u].done < upload[u].size /\ Free > 0
      /\ UNCHANGED <<shared, stored, deleting, stale, residue, backups, backup, debris>>
  BY DEF WriteChunk, DiskInv, backupVars, DiskTyped, UploadsTyped
<1>2. /\ new \in UploadState /\ upload' = [upload EXCEPT ![u] = new]
      /\ new.done = upload[u].done + 1 /\ new.size = upload[u].size
  <2>1. upload' = [upload EXCEPT ![u] = new]
    BY <1>1 DEF WriteChunk, DiskTyped, UploadsTyped
  <2>2. QED
    BY <1>1, <2>1 DEF UploadState
<1> HIDE DEF new
<1>3. DiskTyped'
  <2>1. /\ upload' \in [Uploads -> UploadState]
        /\ \A v \in Uploads : upload'[v] = IF v = u THEN new ELSE upload[v]
    BY <1>1, <1>2 DEF DiskTyped, UploadsTyped
  <2>2. new.done <= new.size /\ (new.busy <=> upload[u].busy)
    BY <1>1, <1>2, SizesAreNumbers DEF UploadState, new
  <2>3. UploadsTyped(upload')
    BY <1>1, <2>1, <2>2 DEF DiskTyped, UploadsTyped
  <2>4. QED
    BY <1>1, <2>3 DEF DiskTyped, Copying
<1>4. /\ Settled \in Nat /\ Announced \in Nat /\ Written(Uploads) \in Nat
      /\ InBackups \in Nat /\ shared \in BOOLEAN
      /\ Capacity \in Nat /\ BackupCapacity \in Nat
      /\ upload[u].done \in Nat /\ upload[u].size \in Nat
  BY <1>1, Numbers, SizesAreNumbers DEF InBackups, UploadState
<1>5. Written(Uploads)' = Written(Uploads) + 1 /\ Announced' = Announced
  <2>1. /\ Written(Uploads)' = Written(Uploads) + (new.done - upload[u].done)
        /\ Announced' = Announced + (new.size - upload[u].size)
    BY <1>1, <1>2, RequestMoves
  <2>2. QED
    BY <1>2, <1>4, <2>1
<1>6. /\ Settled' = Settled /\ OldBackups' = OldBackups /\ InBackups' = InBackups
      /\ (Copying' <=> Copying) /\ UNCHANGED <<shared, backup>>
  BY <1>1, BackupsSum DEF Settled, InBackups, Copying
<1>7. Free' >= 0 /\ BackupFree' >= 0
  <2>1. Free \in Int /\ Free' = Free - 1
    BY <1>4, <1>5, <1>6 DEF Free
  <2>2. QED
    BY <1>1, <1>6, <2>1 DEF BackupFree, DiskInv
<1>8. UploadsLeaveReserve' /\ BackupLeavesReserve'
  <2>1. Room' = Room
    BY <1>5, <1>6 DEF Room
  <2>2. QED
    BY <1>6, <2>1 DEF UploadsLeaveReserve, BackupLeavesReserve, DiskInv
<1>9. QED
  BY <1>3, <1>7, <1>8 DEF DiskInv

\* An upload that ends leaves no more than it had written.
LEMMA EndKeeps ==
  ASSUME DiskInv, NEW u \in Uploads, StoreUpload(u) \/ FailUpload(u)
  PROVE  DiskInv'
<1>1. /\ DiskTyped /\ upload[u] \in UploadState
      /\ upload[u].done \in Nat /\ upload[u].size \in Nat /\ upload[u].done <= upload[u].size
  BY SizesAreNumbers DEF DiskInv, DiskTyped, UploadsTyped, UploadState
<1>2. PICK kept, left : /\ EndUpload(u, kept, left)
                        /\ kept \in Nat /\ left \in Nat /\ kept + left <= upload[u].done
  <2>1. CASE StoreUpload(u)
    <3>1. EndUpload(u, upload[u].size, 0) /\ upload[u].size + 0 <= upload[u].done
      BY <1>1, <2>1 DEF StoreUpload, Complete
    <3>2. QED
      BY <1>1, <3>1
  <2>2. CASE FailUpload(u)
    <3>1. \/ EndUpload(u, 0, 0)
          \/ EndUpload(u, 0, upload[u].done)
          \/ EndUpload(u, upload[u].done, 0)
      BY <2>2 DEF FailUpload
    <3>2. 0 + 0 <= upload[u].done /\ 0 + upload[u].done <= upload[u].done
          /\ upload[u].done + 0 <= upload[u].done
      BY <1>1
    <3>3. QED
      BY <1>1, <3>1, <3>2
  <2>3. QED
    BY <2>1, <2>2
<1>3. /\ upload' = [upload EXCEPT ![u] = IdleUpload]
      /\ stored' = stored + kept /\ stale' = stale + left
      /\ UNCHANGED <<shared, deleting, residue, backupVars>>
  BY <1>2 DEF EndUpload
<1>4. IdleUpload \in UploadState /\ IdleUpload.done = 0 /\ IdleUpload.size = 0
  BY SizesAreNumbers DEF IdleUpload, UploadState
<1>5. DiskTyped'
  <2>1. UploadsTyped(upload')
    BY <1>1, <1>3, <1>4 DEF DiskTyped, UploadsTyped
  <2>2. stored' \in Nat /\ stale' \in Nat
    BY <1>1, <1>2, <1>3 DEF DiskTyped
  <2>3. QED
    BY <1>1, <1>3, <2>1, <2>2 DEF DiskTyped, Copying, backupVars
<1>6. /\ Written(Uploads)' = Written(Uploads) + (0 - upload[u].done)
      /\ Announced' = Announced + (0 - upload[u].size)
  BY <1>1, <1>3, <1>4, RequestMoves
<1>7. Settled' = Settled + kept + left
  BY <1>1, <1>2, <1>3 DEF Settled, DiskTyped
<1>8. /\ Settled' + Written(Uploads)' <= Settled + Written(Uploads)
      /\ Settled' + Announced' <= Settled + Announced
  <2>1. Settled \in Nat /\ Written(Uploads) \in Nat /\ Announced \in Nat
    BY <1>1, Numbers
  <2>2. QED
    BY <1>1, <1>2, <1>6, <1>7, <2>1
<1>9. QED
  BY <1>3, <1>5, <1>8, StorageKeeps

\* A deletion moves bytes aside, and removes them, puts them back or leaves them.
LEMMA DeleteKeeps ==
  ASSUME DiskInv,
         \/ \E size \in 1..MaxUpload : BeginDelete(size)
         \/ \E outcome \in DeleteOutcome : EndDelete(outcome)
  PROVE  DiskInv'
<1>1. /\ DiskTyped /\ stored \in Nat /\ deleting \in Nat /\ stale \in Nat /\ residue \in Nat
  BY DEF DiskInv, DiskTyped
<1>2. /\ UNCHANGED <<shared, upload, stale, backupVars>>
      /\ stored' \in Nat /\ deleting' \in Nat /\ residue' \in Nat
      /\ stored' + deleting' + residue' <= stored + deleting + residue
  <2>1. ASSUME NEW size \in 1..MaxUpload, BeginDelete(size)
        PROVE  /\ UNCHANGED <<shared, upload, stale, backupVars>>
              /\ stored' \in Nat /\ deleting' \in Nat /\ residue' \in Nat
              /\ stored' + deleting' + residue' <= stored + deleting + residue
    BY <1>1, <2>1, SizesAreNumbers DEF BeginDelete
  <2>2. ASSUME NEW outcome \in DeleteOutcome, EndDelete(outcome)
        PROVE  /\ UNCHANGED <<shared, upload, stale, backupVars>>
              /\ stored' \in Nat /\ deleting' \in Nat /\ residue' \in Nat
              /\ stored' + deleting' + residue' <= stored + deleting + residue
    BY <1>1, <2>2 DEF EndDelete, DeleteOutcome
  <2>3. QED
    BY <2>1, <2>2
<1>3. DiskTyped'
  BY <1>1, <1>2 DEF DiskTyped, Copying, backupVars
<1>4. Written(Uploads)' = Written(Uploads) /\ Announced' = Announced
  BY <1>2, RequestSums, RequestSumsThen
<1>5. PICK k \in Nat : Settled' = Settled - k
  <2>1. Settled' = stored' + deleting' + stale + residue' /\ Settled \in Nat
    BY <1>1, <1>2, Spaces, Numbers
  <2>2. Settled = stored + deleting + stale + residue
    BY Spaces
  <2>3. ASSUME NEW size \in 1..MaxUpload, BeginDelete(size)
        PROVE  Settled' = Settled - 0
    <3>1. size \in Nat /\ stored' = stored - size /\ deleting = 0 /\ deleting' = size
          /\ residue' = residue
      BY <2>3, SizesAreNumbers DEF BeginDelete
    <3>2. Settled' = (stored - size) + size + stale + residue
      BY <2>1, <3>1
    <3>3. QED
      BY <1>1, <2>2, <3>1, <3>2
  <2>4. ASSUME NEW outcome \in DeleteOutcome, EndDelete(outcome)
        PROVE  Settled' = Settled - 0 \/ Settled' = Settled - deleting
    <3>1. PICK p, q \in {0, deleting} : /\ stored' = stored + p /\ residue' = residue + q
                                       /\ deleting' = 0 /\ (p = 0 \/ q = 0)
      BY <2>4 DEF EndDelete, DeleteOutcome
    <3>2. Settled' = (stored + p) + 0 + stale + (residue + q)
      BY <2>1, <3>1
    <3>3. QED
      BY <1>1, <2>2, <3>1, <3>2
  <2>5. QED
    BY <1>1, <2>3, <2>4
<1>6. /\ Settled' + Written(Uploads)' <= Settled + Written(Uploads)
      /\ Settled' + Announced' <= Settled + Announced
  BY <1>1, <1>4, <1>5, Numbers
<1>7. QED
  BY <1>2, <1>3, <1>6, StorageKeeps

\* A crash leaves what had been written where it was; no request goes on.
LEMMA CrashKeeps ==
  ASSUME DiskInv, NEW scanned \in SUBSET Uploads, Crash(scanned)
  PROVE  DiskInv'
<1> DEFINE s == Written(scanned)
           r == Written(Uploads \ scanned)
<1>1. /\ DiskTyped /\ upload' = [u \in Uploads |-> IdleUpload]
      /\ stale' = stale + r /\ stored' = stored + s
      /\ deleting' = 0 /\ residue' = residue + deleting
      /\ UNCHANGED <<shared, backupVars>>
  BY DEF Crash, DiskInv
<1>2. s \in Nat /\ r \in Nat /\ Written(Uploads) = s + r
  <2>1. Uploads \ scanned \in SUBSET Uploads
    OBVIOUS
  <2>2. QED
    BY <1>1, <2>1, WrittenIsNatural, WrittenSplits
<1> HIDE DEF s, r
<1>3. DiskTyped'
  <2>1. /\ stale' \in Nat /\ stored' \in Nat /\ deleting' \in Nat /\ residue' \in Nat
    BY <1>1, <1>2 DEF DiskTyped
  <2>2. UploadsTyped(upload')
    BY <1>1, SizesAreNumbers DEF UploadsTyped, IdleUpload, UploadState
  <2>3. UNCHANGED <<shared, backups, backup, debris>> /\ (Copying' <=> Copying)
    BY <1>1 DEF backupVars, Copying
  <2>4. QED
    BY <1>1, <2>1, <2>2, <2>3 DEF DiskTyped
<1>4. Written(Uploads)' = 0 /\ Announced' = 0
  BY <1>1, NothingWritten DEF IdleUpload
<1>5. Settled' = Settled + (s + r)
  BY <1>1, <1>2 DEF Settled, DiskTyped
<1>6. /\ Settled' + Written(Uploads)' <= Settled + Written(Uploads)
      /\ Settled' + Announced' <= Settled + Announced
  BY <1>1, <1>2, <1>4, <1>5, Numbers
<1>7. QED
  BY <1>1, <1>3, <1>6, StorageKeeps

\* What starts or is removed takes nothing; a lock takes no room.
LEMMA ServerKeeps ==
  ASSUME DiskInv,
         \/ Start \/ CleanupTemporaryFiles \/ StartBackup \/ RemoveStaleLock
         \/ CleanupBackups \/ EndRetention \/ UNCHANGED vars
  PROVE  DiskInv'
<1>1. CASE Start \/ CleanupTemporaryFiles \/ UNCHANGED vars
  <2>1. /\ DiskTyped /\ UNCHANGED <<shared, stored, upload, deleting, residue, backupVars>>
        /\ stale' = stale \/ stale' = 0
    BY <1>1 DEF Start, CleanupTemporaryFiles, vars, storageVars, backupVars, DiskInv
  <2>2. DiskTyped'
    BY <2>1 DEF DiskTyped, Copying, backupVars
  <2>3. Written(Uploads)' = Written(Uploads) /\ Announced' = Announced
    BY <2>1, RequestSums, RequestSumsThen
  <2>4. Settled \in Nat /\ Settled' \in Nat /\ Settled' <= Settled
    BY <2>1 DEF Settled, DiskTyped
  <2>5. /\ Settled' + Written(Uploads)' <= Settled + Written(Uploads)
        /\ Settled' + Announced' <= Settled + Announced
    BY <2>1, <2>3, <2>4, Numbers
  <2>6. QED
    BY <2>1, <2>2, <2>5, StorageKeeps
<1>2. CASE StartBackup \/ RemoveStaleLock \/ CleanupBackups \/ EndRetention
  <2>1. /\ DiskTyped /\ UNCHANGED <<shared, storageVars, backups, debris>>
        /\ backup' \in BackupState /\ backup'.done = 0 /\ backup.done = 0
        /\ backup'.done <= backup'.target /\ ~Copying'
    BY <1>2 DEF StartBackup, RemoveStaleLock, CleanupBackups, EndRetention, DiskInv, DiskTyped,
                Copying, BackupState, IdleBackup
  <2>2. DiskTyped'
    BY <2>1 DEF DiskTyped, storageVars
  <2>3. InBackups' <= InBackups
    <3>1. OldBackups' = OldBackups /\ OldBackups \in Nat
      BY <2>1, BackupsSum, Numbers
    <3>2. QED
      BY <2>1, <3>1 DEF InBackups
  <2>4. QED
    BY <2>1, <2>2, <2>3, BackupKeeps
<1>3. QED
  BY <1>1, <1>2

-----------------------------------------------------------------------------
(* The backup *)

\* A backup is admitted with room for what was measured; the uploads under way will take
\* theirs from a shared disk.
LEMMA AdmitKeeps ==
  ASSUME DiskInv, AdmitBackup
  PROVE  DiskInv'
<1>1. PICK log \in 0..MaxLog :
        /\ backup' = [pc |-> "database", target |-> DatabaseSize + log, done |-> 0,
                      source |-> DatabaseSize + stored]
        /\ backup.pc = "asking" /\ DiskTyped
        /\ EnsureFree(BackupFree, EstimateSource, BackupReserve)
        /\ UNCHANGED <<shared, storageVars, backups, debris>>
  BY DEF AdmitBackup, DiskInv
<1>2. backup.done = 0 /\ ~Copying /\ log \in Nat
  BY <1>1, SizesAreNumbers DEF DiskTyped, Copying
<1>3. /\ Settled \in Nat /\ Announced \in Nat /\ Written(Uploads) \in Nat
      /\ OldBackups \in Nat /\ InBackups = OldBackups /\ shared \in BOOLEAN
      /\ Announced <= Overlap + MaxUpload /\ Written(Uploads) <= Announced
      /\ Capacity \in Nat /\ BackupCapacity \in Nat /\ BackupReserve \in Nat
      /\ Overlap \in Nat /\ MaxUpload \in Nat /\ DatabaseSize + stored \in Nat
      /\ DatabaseSize \in Nat
  BY <1>1, <1>2, Numbers, SizesAreNumbers DEF InBackups, DiskTyped
<1>4. DiskTyped'
  <2>1. backup' \in BackupState /\ backup'.done <= backup'.target /\ backup'.done = 0
    BY <1>1, <1>2, <1>3 DEF BackupState
  <2>2. UNCHANGED <<shared, stored, upload, deleting, stale, residue, backups, debris>>
    BY <1>1 DEF storageVars
  <2>3. QED
    BY <1>1, <2>1, <2>2 DEF DiskTyped
<1>5. /\ Settled' = Settled /\ Written(Uploads)' = Written(Uploads) /\ Announced' = Announced
      /\ OldBackups' = OldBackups /\ InBackups' = InBackups /\ UNCHANGED shared
      /\ backup'.source = DatabaseSize + stored
  <2>1. /\ Settled' = Settled /\ Written(Uploads)' = Written(Uploads) /\ Announced' = Announced
        /\ OldBackups' = OldBackups /\ UNCHANGED shared
        /\ backup'.source = DatabaseSize + stored /\ backup'.done = 0
    BY <1>1, RequestSums, RequestSumsThen, BackupsSum DEF Settled, storageVars
  <2>2. QED
    BY <1>2, <2>1 DEF InBackups
<1>6. /\ Room' = Room /\ Room = Capacity - Settled - Announced
      /\ Free' = Free /\ BackupFree' = BackupFree
  BY <1>5, Spaces
<1>7. /\ BackupFree >= (DatabaseSize + stored) + BackupReserve
      /\ Free >= 0 /\ BackupFree >= 0 /\ UploadsLeaveReserve
  BY <1>1 DEF EnsureFree, EstimateSource, DiskInv
<1>8. BackupLeavesReserve'
  <2>1. CASE shared
    <3>1. BackupFree = Capacity - Settled - Written(Uploads) - OldBackups
      BY <1>3, <2>1, Spaces
    <3>2. Room - OldBackups >= BackupReserve + (DatabaseSize + stored) - Overlap - MaxUpload
      BY <1>3, <1>6, <1>7, <3>1
    <3>3. QED
      BY <1>5, <1>6, <2>1, <3>2 DEF BackupLeavesReserve
  <2>2. CASE ~shared
    <3>1. BackupFree = BackupCapacity - OldBackups
      BY <1>3, <2>2, Spaces
    <3>2. BackupCapacity - OldBackups >= BackupReserve + (DatabaseSize + stored)
      BY <1>3, <1>7, <3>1
    <3>3. QED
      BY <1>5, <2>2, <3>2 DEF BackupLeavesReserve
  <2>3. QED
    BY <2>1, <2>2
<1>9. UploadsLeaveReserve'
  BY <1>6, <1>7 DEF UploadsLeaveReserve
<1>10. QED
  BY <1>4, <1>6, <1>7, <1>8, <1>9 DEF DiskInv

\* What is still to be written grows with what the storage holds; nothing is written yet.
LEMMA ListKeeps ==
  ASSUME DiskInv, ListStorage
  PROVE  DiskInv'
<1>1. /\ backup' = [backup EXCEPT !.pc = "storage", !.target = @ + stored + ManifestSize]
      /\ backup.pc = "database" /\ DiskTyped /\ backup \in BackupState /\ stored \in Nat
      /\ backup.done <= backup.target
      /\ UNCHANGED <<shared, storageVars, backups, debris>>
  BY DEF ListStorage, DiskInv, DiskTyped
<1>2. /\ backup' \in BackupState /\ backup'.done = backup.done /\ backup'.done <= backup'.target
      /\ backup'.source = backup.source /\ Copying /\ Copying'
  <2>1. /\ backup'.pc = "storage" /\ backup'.done = backup.done
        /\ backup'.target = backup.target + stored + ManifestSize
        /\ backup'.source = backup.source
    BY <1>1 DEF BackupState
  <2>2. /\ backup.done \in Nat /\ backup.target \in Nat
        /\ backup.target + stored + ManifestSize \in Nat
        /\ backup.done <= backup.target + stored + ManifestSize
    BY <1>1, SizesAreNumbers DEF BackupState
  <2>3. backup' \in BackupState
    BY <1>1, <2>2 DEF BackupState
  <2>4. Copying /\ Copying'
    BY <1>1, <2>1 DEF Copying
  <2>5. QED
    BY <2>1, <2>2, <2>3, <2>4
<1>3. DiskTyped'
  BY <1>1, <1>2 DEF DiskTyped, storageVars
<1>4. OldBackups' = OldBackups /\ InBackups' <= InBackups
  <2>1. OldBackups' = OldBackups /\ OldBackups \in Nat
    BY <1>1, BackupsSum, Numbers
  <2>2. QED
    BY <1>1, <1>2, <2>1 DEF InBackups, BackupState
<1>5. QED
  BY <1>1, <1>2, <1>3, <1>4, BackupKeeps

\* A piece of the copy finds its room.
LEMMA CopyKeeps ==
  ASSUME DiskInv, CopyPiece
  PROVE  DiskInv'
<1>1. /\ backup' = [backup EXCEPT !.done = @ + 1] /\ Copying /\ DiskTyped
      /\ backup \in BackupState /\ backup.done < backup.target /\ BackupFree > 0
      /\ Free >= 0 /\ UploadsLeaveReserve /\ BackupLeavesReserve
      /\ UNCHANGED <<shared, storageVars, backups, debris>>
  BY DEF CopyPiece, DiskInv, DiskTyped
<1>2. /\ backup' \in BackupState /\ backup'.done = backup.done + 1
      /\ backup'.done <= backup'.target /\ backup'.source = backup.source
      /\ backup'.pc = backup.pc
  BY <1>1 DEF BackupState
<1>3. Copying'
  BY <1>1, <1>2 DEF Copying
<1>4. DiskTyped'
  BY <1>1, <1>2, <1>3 DEF DiskTyped, storageVars
<1>5. /\ Settled' = Settled /\ Written(Uploads)' = Written(Uploads) /\ Announced' = Announced
      /\ OldBackups' = OldBackups /\ UNCHANGED shared
  BY <1>1, RequestSums, RequestSumsThen, BackupsSum DEF Settled, storageVars
<1>6. /\ InBackups' = OldBackups + (backup.done + 1) /\ InBackups = OldBackups + backup.done
      /\ Room' = Room
  BY <1>2, <1>5, Spaces
<1>7. /\ Settled \in Nat /\ Written(Uploads) \in Nat /\ OldBackups \in Nat /\ backup.done \in Nat
      /\ Capacity \in Nat /\ BackupCapacity \in Nat /\ shared \in BOOLEAN
  BY <1>1, Numbers, SizesAreNumbers
<1>8. Free' >= 0 /\ BackupFree' >= 0
  <2>1. CASE shared
    <3>1. /\ BackupFree = Capacity - Settled - Written(Uploads) - (OldBackups + backup.done)
          /\ Free' = Capacity - Settled - Written(Uploads) - (OldBackups + (backup.done + 1))
          /\ BackupFree' = Free'
      BY <1>5, <1>6, <2>1, Spaces
    <3>2. Free' >= 0
      BY <1>1, <1>7, <3>1
    <3>3. QED
      BY <3>1, <3>2
  <2>2. CASE ~shared
    <3>1. /\ BackupFree = BackupCapacity - (OldBackups + backup.done)
          /\ BackupFree' = BackupCapacity - (OldBackups + (backup.done + 1))
          /\ Free' = Free
      BY <1>5, <1>6, <2>2, Spaces
    <3>2. BackupFree' >= 0
      BY <1>1, <1>7, <3>1
    <3>3. QED
      BY <1>1, <3>1, <3>2
  <2>3. QED
    BY <2>1, <2>2
<1>9. UploadsLeaveReserve' /\ BackupLeavesReserve'
  BY <1>1, <1>2, <1>5, <1>6 DEF UploadsLeaveReserve, BackupLeavesReserve
<1>10. QED
  BY <1>4, <1>8, <1>9 DEF DiskInv

\* A backup that ends leaves what it had written or less.
LEMMA BackupEndKeeps ==
  ASSUME DiskInv, PublishBackup \/ FailBackup \/ KillBackup
  PROVE  DiskInv'
<1>1. /\ DiskTyped /\ backup \in BackupState /\ backup.done \in Nat /\ debris \in Nat
      /\ backups \in Seq(Nat) /\ UNCHANGED <<shared, storageVars>>
      /\ backup' \in BackupState /\ backup'.done = 0 /\ backup'.target = 0 /\ ~Copying'
  BY DEF DiskInv, DiskTyped, PublishBackup, FailBackup, KillBackup, BackupState, IdleBackup,
         Copying
<1>2. PICK k \in Nat : /\ k <= backup.done
                      /\ \/ UNCHANGED backups /\ debris' = debris + k
                         \/ backups' = Append(backups, k) /\ UNCHANGED debris
  <2>1. CASE PublishBackup
    BY <1>1, <2>1 DEF PublishBackup
  <2>2. CASE FailBackup
    BY <1>1, <2>2 DEF FailBackup
  <2>3. CASE KillBackup
    BY <1>1, <2>3 DEF KillBackup
  <2>4. QED
    BY <2>1, <2>2, <2>3
<1>3. DiskTyped'
  <2>1. backups' \in Seq(Nat) /\ debris' \in Nat
    <3>1. debris + k \in Nat /\ Append(backups, k) \in Seq(Nat)
      BY <1>1, <1>2
    <3>2. QED
      BY <1>1, <1>2, <3>1, Zenon
  <2>2. UNCHANGED <<shared, stored, upload, deleting, stale, residue>>
    BY <1>1 DEF storageVars
  <2>3. backup'.done <= backup'.target
    BY <1>1
  <2>4. QED
    BY <1>1, <2>1, <2>2, <2>3 DEF DiskTyped
<1>4. OldBackups' = OldBackups + k
  <2>1. SumOf(backups, DOMAIN backups) \in Nat
    BY <1>1, SizesSum
  <2>2. CASE UNCHANGED backups /\ debris' = debris + k
    BY <1>1, <1>2, <2>1, <2>2, BackupsSum
  <2>3. CASE backups' = Append(backups, k) /\ UNCHANGED debris
    <3>1. SumOf(backups', DOMAIN backups') = SumOf(backups, DOMAIN backups) + k
      BY <1>1, <1>2, <2>3, AppendedSum
    <3>2. QED
      BY <1>1, <1>2, <2>1, <2>3, <3>1, BackupsSum
  <2>4. QED
    BY <1>2, <2>2, <2>3
<1>5. InBackups' <= InBackups
  <2>1. InBackups' = (OldBackups + k) + 0 /\ InBackups = OldBackups + backup.done
    BY <1>1, <1>4, Spaces
  <2>2. OldBackups \in Nat
    BY <1>1, Numbers
  <2>3. QED
    BY <1>1, <1>2, <2>1, <2>2
<1>6. QED
  BY <1>1, <1>3, <1>5, BackupKeeps

\* Retention frees what it removes, if it gets that far.
LEMMA RemovalKeeps ==
  ASSUME DiskInv, NEW i \in DOMAIN backups, RemoveBackup(i)
  PROVE  DiskInv'
<1>1. /\ DiskTyped /\ debris \in Nat /\ backups \in Seq(Nat) /\ backups[i] \in Nat
      /\ backups' = RemoveAt(backups, i) /\ backup.pc = "retaining"
      /\ UNCHANGED <<shared, storageVars, backup>>
  BY DEF DiskInv, DiskTyped, RemoveBackup
<1>2. PICK rest \in 0..backups[i] : debris' = debris + rest
  BY DEF RemoveBackup
<1>3. /\ backups' \in Seq(Nat)
      /\ SumOf(backups, DOMAIN backups) = backups[i] + SumOf(backups', DOMAIN backups')
  BY <1>1, RemovedSum
<1>4. ~Copying /\ ~Copying' /\ rest \in Nat /\ rest <= backups[i]
  BY <1>1, <1>2 DEF Copying
<1>5. DiskTyped'
  BY <1>1, <1>2, <1>3, <1>4 DEF DiskTyped, storageVars
<1>6. InBackups' <= InBackups
  <2> DEFINE s == SumOf(backups', DOMAIN backups')
  <2>1. s \in Nat /\ backup.done \in Nat
    BY <1>1, <1>3, SizesSum DEF DiskTyped, BackupState
  <2>2. OldBackups = debris + (backups[i] + s) /\ OldBackups' = (debris + rest) + s
    BY <1>2, <1>3, BackupsSum
  <2>3. /\ InBackups = (debris + (backups[i] + s)) + backup.done
        /\ InBackups' = ((debris + rest) + s) + backup.done
    BY <1>1, <2>2, Spaces
  <2> HIDE DEF s
  <2>4. ((debris + rest) + s) + backup.done <= (debris + (backups[i] + s)) + backup.done
    BY <1>1, <1>4, <2>1
  <2>5. QED
    BY <2>3, <2>4, Zenon
<1>7. QED
  BY <1>1, <1>4, <1>5, <1>6, BackupKeeps

-----------------------------------------------------------------------------
(* Theorems *)

\* The invariant holds from the start, and every step keeps it.
LEMMA DiskAlways == Spec => []DiskInv
<1>1. Init => DiskInv
  <2> SUFFICES ASSUME Init PROVE DiskInv
    OBVIOUS
  <2>1. DiskTyped
    BY SizeAssumption, SizesAreNumbers
       DEF Init, DiskTyped, UploadsTyped, UploadState, BackupState, IdleUpload, IdleBackup,
           Copying
  <2>2. Written(Uploads) = 0 /\ Announced = 0
    BY NothingWritten DEF Init, IdleUpload
  <2>3. InBackups = 0
    <3>1. DOMAIN backups = {} /\ debris = 0 /\ backup.done = 0
      BY DEF Init, IdleBackup
    <3>2. SumOf(backups, {}) = 0
      BY SumUnfolds, FS_EmptySet
    <3>3. QED
      BY <3>1, <3>2, BackupsSum DEF InBackups
  <2>4. Free >= 0 /\ BackupFree >= 0
    BY <2>2, <2>3, SizesAreNumbers DEF Init, Free, BackupFree, Settled
  <2>5. UploadsLeaveReserve
    <3>1. Room = Capacity
      BY <2>2, SizesAreNumbers DEF Init, Room, Settled
    <3>2. Reserve <= Capacity
      BY SizeAssumption
    <3>3. QED
      BY <3>1, <3>2, SizesAreNumbers DEF UploadsLeaveReserve
  <2>6. BackupLeavesReserve
    BY DEF Init, BackupLeavesReserve, Copying, IdleBackup
  <2>7. QED
    BY <2>1, <2>4, <2>5, <2>6 DEF DiskInv
<1>2. DiskInv /\ [Next]_vars => DiskInv'
  BY AcceptKeeps, ChunkKeeps, EndKeeps, DeleteKeeps, CrashKeeps, ServerKeeps, AdmitKeeps,
     ListKeeps, CopyKeeps, BackupEndKeeps, RemovalKeeps DEF Next, BackupProgress
<1>3. QED
  BY <1>1, <1>2, PTL DEF Spec

\* "a reserve that must remain afterward" (ensure_free_space): uploads admitted beside one
\* another take from it no more than all of them but one announced, however many there are,
\* and whatever was deleted, abandoned or left behind by crashes and failures.
THEOREM UploadsLeave == Spec => []UploadsLeaveReserve
<1>1. DiskInv => UploadsLeaveReserve
  BY DEF DiskInv
<1>2. QED
  BY <1>1, DiskAlways, PTL

\* A backup that is copying found room for what was measured and for its reserve, the parts
\* of backups included that kills and failed removals left; on a shared disk the uploads
\* beside it take what they may.
THEOREM BackupLeaves == Spec => []BackupLeavesReserve
<1>1. DiskInv => BackupLeavesReserve
  BY DEF DiskInv
<1>2. QED
  BY <1>1, DiskAlways, PTL

\* No disk is asked for more than it has, whatever was admitted at the same time: every
\* write of a request or a backup finds its room first (_copy_stream).
THEOREM DisksNeverOverrun == Spec => [](Free >= 0 /\ BackupFree >= 0)
<1>1. DiskInv => Free >= 0 /\ BackupFree >= 0
  BY DEF DiskInv
<1>2. QED
  BY <1>1, DiskAlways, PTL
=============================================================================
