------------------------- MODULE EventStream_proofs -------------------------
(***************************************************************************)
(* A slice of the ring of events that a handler took with it under the     *)
(* lock is never written to, although addEvent goes on using its array.    *)
(* And a broadcast reaches every subscriber, once and in order, whoever    *)
(* comes and goes meanwhile.                                               *)
(***************************************************************************)
EXTENDS EventStream, SequenceTheorems, FiniteSetTheorems, TLAPS

Slice == [array : Nat, off : Nat, len : Nat]

Arrays == Seq(Seq(Nat))

End(s) == s.off + s.len

\* s lies within its array.
FitsIn(s, arrays) ==
  /\ s \in Slice
  /\ s.array <= Len(arrays)
  /\ s.array = 0 => s.len = 0
  /\ s.array # 0 => End(s) <= Len(arrays[s.array])

\* addEvent writes behind the end of the ring only, and a slice that shares the
\* ring's array ends no later.
SliceInv ==
  /\ memory \in Arrays /\ published \in Nat
  /\ FitsIn(ring, memory)
  /\ snap \in [Readers -> Slice]
  /\ \A c \in Readers :
       /\ FitsIn(snap[c], memory)
       /\ snap[c].array = ring.array => End(snap[c]) <= End(ring)
  /\ DOMAIN taken = Readers
  /\ SnapshotIntact

\* What a slice holds.
LEMMA ContentsOfSlice ==
  ASSUME NEW arrays \in Arrays, NEW s, FitsIn(s, arrays)
  PROVE  /\ Contents(s, arrays) \in Seq(Nat)
         /\ Len(Contents(s, arrays)) = s.len
         /\ \A i \in 1 .. s.len : Contents(s, arrays)[i] = arrays[s.array][s.off + i]
<1>1. /\ s.off \in Nat /\ s.len \in Nat /\ s.array \in Nat
      /\ Len(arrays) \in Nat
  BY DEF FitsIn, Slice, Arrays
<1>2. CASE s.len = 0
  BY <1>2 DEF Contents
<1>3. CASE s.len # 0
  <2> DEFINE a == arrays[s.array]
             m == s.off + 1
             n == s.off + s.len
  <2>1. a \in Seq(Nat) /\ n <= Len(a) /\ m \in Int /\ n \in Int /\ m <= n
    BY <1>1, <1>3 DEF FitsIn, Arrays, End
  <2>2. \A i \in m .. n : a[i] \in Nat
    <3>1. \A i \in m .. n : i \in 1 .. Len(a)
      BY <1>1, <2>1
    <3> QED
      BY <2>1, <3>1, ElementOfSeq
  <2> HIDE DEF a
  <2>3. /\ SubSeq(a, m, n) \in Seq(Nat)
        /\ Len(SubSeq(a, m, n)) = IF m <= n THEN n - m + 1 ELSE 0
        /\ \A i \in 1 .. n - m + 1 : SubSeq(a, m, n)[i] = a[m + i - 1]
    BY <2>1, <2>2, SubSeqProperties
  <2>4. n - m + 1 = s.len /\ \A i \in 1 .. s.len : m + i - 1 = s.off + i
    BY <1>1
  <2>5. Contents(s, arrays) = SubSeq(a, m, n)
    BY <1>3 DEF Contents, a
  <2> QED
    BY <2>1, <2>3, <2>4, <2>5 DEF a
<1> QED
  BY <1>2, <1>3

\* Two memories that agree on a slice give it the same contents.
LEMMA SameContents ==
  ASSUME NEW x \in Arrays, NEW y \in Arrays, NEW s, FitsIn(s, x), FitsIn(s, y),
         \A i \in 1 .. s.len : x[s.array][s.off + i] = y[s.array][s.off + i]
  PROVE  Contents(s, x) = Contents(s, y)
<1> DEFINE u == Contents(s, x)
           v == Contents(s, y)
<1>1. /\ u \in Seq(Nat) /\ Len(u) = s.len
      /\ \A i \in 1 .. s.len : u[i] = x[s.array][s.off + i]
  BY ContentsOfSlice
<1>2. /\ v \in Seq(Nat) /\ Len(v) = s.len
      /\ \A i \in 1 .. s.len : v[i] = y[s.array][s.off + i]
  BY ContentsOfSlice
<1> HIDE DEF u, v
<1>3. Len(u) = Len(v) /\ \A i \in 1 .. Len(u) : u[i] = v[i]
  BY <1>1, <1>2
<1>4. u = v
  BY <1>1, <1>2, <1>3, SeqEqual
<1> QED
  BY <1>4 DEF u, v

\* s[1:] ends where s does.
LEMMA TrimmedSlice ==
  ASSUME FitsIn(ring, memory), memory \in Arrays
  PROVE  /\ FitsIn(Trimmed(ring), memory)
         /\ Trimmed(ring).array = ring.array
         /\ End(Trimmed(ring)) = End(ring)
<1>1. RingSize \in Nat \ {0}
  BY StreamAssumption
<1>2. /\ ring = [array |-> ring.array, off |-> ring.off, len |-> ring.len]
      /\ ring.array \in Nat /\ ring.off \in Nat /\ ring.len \in Nat
  BY DEF FitsIn, Slice
<1>3. CASE ring.len >= RingSize
  <2>1. Trimmed(ring) = [array |-> ring.array, off |-> ring.off + 1,
                         len |-> ring.len - 1]
    BY <1>2, <1>3 DEF Trimmed
  <2> QED
    BY <1>1, <1>2, <1>3, <2>1 DEF FitsIn, Slice, End
<1>4. CASE ~(ring.len >= RingSize)
  BY <1>4 DEF Trimmed
<1> QED
  BY <1>3, <1>4

\* append(s, e): no array changes before the end of s, and none disappears.
LEMMA AppendedSlice ==
  ASSUME memory \in Arrays, NEW s, FitsIn(s, memory), NEW e \in Nat,
         Appended(s, e)
  PROVE  /\ memory' \in Arrays
         /\ Len(memory) <= Len(memory')
         /\ FitsIn(ring', memory')
         /\ \A a \in 1 .. Len(memory) :
              /\ Len(memory'[a]) = Len(memory[a])
              /\ \A i \in 1 .. Len(memory[a]) :
                   (a = s.array => i <= End(s)) => memory'[a][i] = memory[a][i]
         /\ \/ ring'.array = s.array /\ End(ring') = End(s) + 1
            \/ ring'.array = Len(memory) + 1
<1> DEFINE end == s.off + s.len
           old == Contents(s, memory)
           size == IF s.len = 0 THEN 1 ELSE 2 * s.len
<1>1. /\ s = [array |-> s.array, off |-> s.off, len |-> s.len]
      /\ s.array \in Nat /\ s.off \in Nat /\ s.len \in Nat
      /\ s.array <= Len(memory) /\ Len(memory) \in Nat
      /\ s.array # 0 => end <= Len(memory[s.array])
  BY DEF FitsIn, Slice, Arrays, End
<1>2. CASE s.array # 0 /\ end < Len(memory[s.array])
  <2> DEFINE a == memory[s.array]
             b == [a EXCEPT ![end + 1] = e]
  <2>1. /\ memory' = [memory EXCEPT ![s.array] = b]
        /\ ring' = [array |-> s.array, off |-> s.off, len |-> s.len + 1]
    BY <1>1, <1>2 DEF Appended
  <2>2. a \in Seq(Nat) /\ s.array \in 1 .. Len(memory) /\ end + 1 \in 1 .. Len(a)
    BY <1>1, <1>2 DEF Arrays
  <2>3. /\ b \in Seq(Nat) /\ Len(b) = Len(a)
        /\ \A j \in 1 .. Len(a) : b[j] = IF j = end + 1 THEN e ELSE a[j]
    BY <2>2, ExceptSeq
  <2> HIDE DEF b
  <2>4. /\ memory' \in Arrays /\ Len(memory') = Len(memory)
        /\ \A j \in 1 .. Len(memory) :
             memory'[j] = IF j = s.array THEN b ELSE memory[j]
    BY <2>1, <2>2, <2>3, ExceptSeq DEF Arrays
  <2>5. FitsIn(ring', memory') /\ ring'.array = s.array /\ End(ring') = End(s) + 1
    <3>1. /\ ring'.array = s.array /\ ring'.off = s.off /\ ring'.len = s.len + 1
          /\ ring' \in Slice
      BY <1>1, <2>1 DEF Slice
    <3>2. memory'[s.array] = b /\ s.array # 0 /\ s.array <= Len(memory')
      BY <1>1, <1>2, <2>2, <2>4
    <3>3. End(ring') = end + 1 /\ End(s) = end
      BY <1>1, <3>1 DEF End
    <3>4. end + 1 <= Len(b)
      BY <2>2, <2>3
    <3> QED
      BY <3>1, <3>2, <3>3, <3>4 DEF FitsIn
  <2>6. ASSUME NEW j \in 1 .. Len(memory), NEW i \in 1 .. Len(memory[j]),
               j = s.array => i <= End(s)
        PROVE  memory'[j][i] = memory[j][i]
    <3>1. CASE j = s.array
      <4>1. i \in 1 .. Len(a) /\ i # end + 1
        BY <1>1, <2>2, <2>6, <3>1 DEF End
      <4> QED
        BY <2>3, <2>4, <3>1, <4>1
    <3>2. CASE j # s.array
      BY <2>4, <3>2
    <3> QED
      BY <3>1, <3>2
  <2>7. \A j \in 1 .. Len(memory) : Len(memory'[j]) = Len(memory[j])
    BY <2>3, <2>4
  <2> QED
    BY <1>1, <2>4, <2>5, <2>6, <2>7
<1>3. CASE ~(s.array # 0 /\ end < Len(memory[s.array]))
  <2> DEFINE b == [i \in 1 .. size |-> IF i <= s.len THEN old[i]
                                       ELSE IF i = s.len + 1 THEN e ELSE 0]
  <2>1. /\ memory' = Append(memory, b)
        /\ ring' = [array |-> Len(memory) + 1, off |-> 0, len |-> s.len + 1]
    BY <1>1, <1>3 DEF Appended
  <2>2. size \in Nat /\ s.len + 1 <= size
    BY <1>1
  <2>3. b \in Seq(Nat) /\ Len(b) = size
    <3>1. old \in Seq(Nat) /\ Len(old) = s.len
      BY ContentsOfSlice
    <3>2. \A i \in 1 .. s.len : old[i] \in Nat
      BY <3>1, ElementOfSeq
    <3> HIDE DEF old, size
    <3>3. \A i \in 1 .. size : (IF i <= s.len THEN old[i]
                                ELSE IF i = s.len + 1 THEN e ELSE 0) \in Nat
      BY <1>1, <2>2, <3>2
    <3>4. b \in [1 .. size -> Nat]
      BY <3>3
    <3> QED
      BY <2>2, <3>4
  <2> HIDE DEF b, size
  <2>4. /\ memory' \in Arrays /\ Len(memory') = Len(memory) + 1
        /\ \A j \in 1 .. Len(memory) : memory'[j] = memory[j]
        /\ memory'[Len(memory) + 1] = b
    BY <2>1, <2>3 DEF Arrays
  <2>5. FitsIn(ring', memory') /\ ring'.array = Len(memory) + 1
    BY <1>1, <2>1, <2>2, <2>3, <2>4 DEF FitsIn, Slice, End
  <2> QED
    BY <1>1, <2>4, <2>5
<1> QED
  BY <1>2, <1>3

\* addEvent: every slice that was taken before holds what it held.
LEMMA AddEventPreserves == ASSUME SliceInv, AddEvent PROVE SliceInv'
<1> DEFINE s == Trimmed(ring)
<1>1. /\ memory \in Arrays /\ published \in Nat /\ FitsIn(ring, memory)
      /\ published' = published + 1 /\ Appended(s, published + 1)
      /\ UNCHANGED <<snap, taken>>
  BY DEF SliceInv, AddEvent, streamHistory
<1>2. FitsIn(s, memory) /\ s.array = ring.array /\ End(s) = End(ring)
  BY <1>1, TrimmedSlice
<1> HIDE DEF s
<1>3. /\ memory' \in Arrays
      /\ Len(memory) <= Len(memory')
      /\ FitsIn(ring', memory')
      /\ \A a \in 1 .. Len(memory) :
           /\ Len(memory'[a]) = Len(memory[a])
           /\ \A i \in 1 .. Len(memory[a]) :
                (a = s.array => i <= End(s)) => memory'[a][i] = memory[a][i]
      /\ \/ ring'.array = s.array /\ End(ring') = End(s) + 1
         \/ ring'.array = Len(memory) + 1
  BY <1>1, <1>2, AppendedSlice
<1>4. ASSUME NEW c \in Readers
      PROVE  /\ FitsIn(snap[c], memory')
             /\ snap[c].array = ring'.array => End(snap[c]) <= End(ring')
             /\ Contents(snap[c], memory') = taken[c]
  <2> DEFINE t == snap[c]
  <2>1. /\ FitsIn(t, memory)
        /\ t.array = ring.array => End(t) <= End(ring)
        /\ t.array \in Nat /\ t.off \in Nat /\ t.len \in Nat
        /\ End(t) \in Nat /\ End(ring) \in Nat /\ Len(memory) \in Nat
    BY <1>1 DEF SliceInv, FitsIn, Slice, End, Arrays
  <2>2. Contents(t, memory) = taken[c]
    BY DEF SliceInv, SnapshotIntact
  <2> HIDE DEF t
  <2>3. FitsIn(t, memory')
    <3>1. Len(memory') \in Nat /\ t.array <= Len(memory')
      BY <1>3, <2>1 DEF FitsIn, Arrays
    <3>2. t.array # 0 => End(t) <= Len(memory'[t.array])
      <4>1. t.array # 0 => t.array \in 1 .. Len(memory)
        BY <2>1 DEF FitsIn
      <4> QED
        BY <1>3, <2>1, <4>1 DEF FitsIn
    <3> QED
      BY <2>1, <3>1, <3>2 DEF FitsIn
  <2>4. t.array = ring'.array => End(t) <= End(ring')
    BY <1>2, <1>3, <2>1 DEF FitsIn
  <2>5. ASSUME NEW i \in 1 .. t.len
        PROVE  memory[t.array][t.off + i] = memory'[t.array][t.off + i]
    <3>1. t.array \in 1 .. Len(memory) /\ End(t) <= Len(memory[t.array])
      BY <2>1, <2>5 DEF FitsIn
    <3>2. /\ t.off + i \in 1 .. Len(memory[t.array])
          /\ t.off + i <= End(t)
      <4>1. i \in Nat /\ i >= 1 /\ i <= t.len
        BY <2>1, <2>5
      <4>2. End(t) = t.off + t.len
        BY DEF End
      <4>3. memory[t.array] \in Seq(Nat)
        BY <1>1, <3>1 DEF Arrays
      <4>4. Len(memory[t.array]) \in Nat
        BY <4>3
      <4> QED
        BY <2>1, <3>1, <4>1, <4>2, <4>4
    <3>3. t.array = s.array => t.off + i <= End(s)
      <4>1. t.off + i \in Int
        BY <2>1, <2>5
      <4> QED
        BY <1>2, <2>1, <3>2, <4>1
    <3> QED
      BY <1>3, <3>1, <3>2, <3>3
  <2>6. Contents(t, memory') = Contents(t, memory)
    BY <1>1, <1>3, <2>1, <2>3, <2>5, SameContents
  <2> QED
    BY <2>2, <2>3, <2>4, <2>6 DEF t
<1> QED
  BY <1>1, <1>3, <1>4 DEF SliceInv, SnapshotIntact

\* handleState takes the slice as it is, and forgets it.
LEMMA ReaderPreserves ==
  ASSUME SliceInv, NEW c \in Readers, TakeSnapshot(c) \/ Encode(c)
  PROVE  SliceInv'
<1> DEFINE none == NoSlice
<1>1. UNCHANGED <<memory, ring, published>>
  BY DEF TakeSnapshot, Encode, broadcastVars
<1>2. \/ /\ snap' = [snap EXCEPT ![c] = ring]
         /\ taken' = [taken EXCEPT ![c] = Contents(ring, memory)]
      \/ /\ snap' = [snap EXCEPT ![c] = none]
         /\ taken' = [taken EXCEPT ![c] = <<>>]
  BY DEF TakeSnapshot, Encode
<1>3. /\ FitsIn(none, memory) /\ Contents(none, memory) = <<>>
      /\ none.array = ring.array => End(none) <= End(ring)
  BY DEF SliceInv, FitsIn, Slice, NoSlice, Contents, End, Arrays
<1>4. FitsIn(ring, memory) /\ ring \in Slice /\ none \in Slice
  BY <1>3 DEF SliceInv, FitsIn
<1> HIDE DEF none
<1>5. /\ snap' \in [Readers -> Slice] /\ DOMAIN taken' = Readers
      /\ \A d \in Readers \ {c} : snap'[d] = snap[d] /\ taken'[d] = taken[d]
      /\ \/ snap'[c] = ring /\ taken'[c] = Contents(ring, memory)
         \/ snap'[c] = none /\ taken'[c] = <<>>
  BY <1>2, <1>4 DEF SliceInv
<1>6. End(ring) \in Int
  BY <1>4 DEF Slice, End
<1>7. ASSUME NEW d \in Readers
      PROVE  /\ FitsIn(snap'[d], memory)
             /\ snap'[d].array = ring.array => End(snap'[d]) <= End(ring)
             /\ Contents(snap'[d], memory) = taken'[d]
  <2>1. CASE d = c
    BY <1>3, <1>4, <1>5, <1>6, <2>1
  <2>2. CASE d # c
    BY <1>5, <2>2 DEF SliceInv, SnapshotIntact
  <2> QED
    BY <2>1, <2>2
<1> QED
  BY <1>1, <1>5, <1>7 DEF SliceInv, SnapshotIntact

\* Every step keeps the invariant: broadcasts and clients have no part in it.
LEMMA SlicesStand == SliceInv /\ [StreamNext]_streamVars => SliceInv'
<1> SUFFICES ASSUME SliceInv, [StreamNext]_streamVars PROVE SliceInv'
  OBVIOUS
<1>1. CASE AddEvent
  BY <1>1, AddEventPreserves
<1>2. CASE \E c \in Readers : TakeSnapshot(c) \/ Encode(c)
  BY <1>2, ReaderPreserves
<1>3. CASE UNCHANGED <<memory, ring, snap, published, taken>>
  BY <1>3 DEF SliceInv, SnapshotIntact
<1>4. CASE Broadcast
  BY <1>3, <1>4 DEF Broadcast, CopySubs, SendNext, EndBroadcast, ringVars,
                    streamHistory
<1>5. CASE \E r \in Requests : Accept(r) \/ Count(r) \/ Subscribe(r) \/ Leave(r)
  BY <1>3, <1>5 DEF Accept, Count, Subscribe, Leave, ringVars, broadcastVars,
                    streamHistory
<1>6. CASE \E r \in Requests : \/ WriteFails(r) \/ Notice(r) \/ Receive(r)
                               \/ Written(r) \/ HangUp(r)
  BY <1>3, <1>6 DEF WriteFails, Notice, Return, Receive, Written, HangUp,
                    ringVars, broadcastVars, streamHistory
<1>7. CASE UNCHANGED streamVars
  BY <1>3, <1>7 DEF streamVars, ringVars, broadcastVars, streamHistory
<1> QED
  BY <1>1, <1>2, <1>4, <1>5, <1>6, <1>7 DEF StreamNext, Proceed

\* At first every slice is empty.
LEMMA SliceInit == StreamInit => SliceInv
<1> SUFFICES ASSUME StreamInit PROVE SliceInv
  OBVIOUS
<1>1. /\ memory = <<>> /\ ring = NoSlice /\ published = 0
      /\ snap = [c \in Readers |-> NoSlice]
      /\ taken = [c \in Readers |-> <<>>]
  BY DEF StreamInit
<1>2. memory \in Arrays /\ Len(memory) = 0
  BY <1>1 DEF Arrays
<1>3. NoSlice \in Slice /\ FitsIn(NoSlice, memory) /\ Contents(NoSlice, memory) = <<>>
  BY <1>2 DEF NoSlice, Slice, FitsIn, Contents
<1> QED
  BY <1>1, <1>2, <1>3 DEF SliceInv, SnapshotIntact, NoSlice, End

\* handleState: what it encodes after releasing the lock is what it read under
\* it, for any size of the ring and any number of events and readers.
THEOREM SnapshotsStand == StreamSpec => []SnapshotIntact
<1>1. SliceInv => SnapshotIntact
  BY DEF SliceInv
<1> QED
  BY <1>1, SliceInit, SlicesStand, PTL DEF StreamSpec

-----------------------------------------------------------------------------
(* Lists.                                                                  *)

\* The elements of a sequence after an element was appended.
LEMMA AppendedElements ==
  ASSUME NEW S, NEW s \in Seq(S), NEW e \in S
  PROVE  /\ Append(s, e) \in Seq(S)
         /\ DOMAIN Append(s, e) = 1 .. Len(s) + 1
         /\ ToSet(Append(s, e)) = ToSet(s) \cup {e}
         /\ \A i \in 1 .. Len(s) : Append(s, e)[i] = s[i]
         /\ Append(s, e)[Len(s) + 1] = e
<1> DEFINE t == Append(s, e)
<1>1. /\ t \in Seq(S) /\ Len(t) = Len(s) + 1
      /\ \A i \in 1 .. Len(s) : t[i] = s[i]
      /\ t[Len(s) + 1] = e
      /\ Len(s) \in Nat
  BY AppendProperties
<1>2. DOMAIN s = 1 .. Len(s) /\ DOMAIN t = 1 .. Len(s) + 1
  BY <1>1, LenProperties
<1> HIDE DEF t
<1>3. ToSet(t) = ToSet(s) \cup {e}
  <2>1. DOMAIN t = DOMAIN s \cup {Len(s) + 1}
    BY <1>1, <1>2
  <2> QED
    BY <1>1, <1>2, <2>1 DEF ToSet
<1> QED
  BY <1>1, <1>2, <1>3 DEF t

\* unsubscribe: the list loses the element it was asked to remove, no other,
\* and remains one without repetition.
LEMMA WithoutElements ==
  ASSUME NEW S, NEW s \in Seq(S), IsInjective(s), NEW e
  PROVE  /\ RemoveFirst(s, e) \in Seq(S)
         /\ IsInjective(RemoveFirst(s, e))
         /\ ToSet(RemoveFirst(s, e)) = ToSet(s) \ {e}
<1> DEFINE t == RemoveFirst(s, e)
<1>1. Len(s) \in Nat /\ DOMAIN s = 1 .. Len(s)
  BY LenProperties
<1>2. CASE ~ \E i \in 1 .. Len(s) : s[i] = e
  <2>1. t = s
    BY <1>2 DEF RemoveFirst
  <2>2. e \notin ToSet(s)
    BY <1>1, <1>2 DEF ToSet
  <2> QED
    BY <2>1, <2>2
<1>3. ASSUME NEW i \in 1 .. Len(s), s[i] = e
      PROVE  /\ t \in Seq(S) /\ IsInjective(t) /\ ToSet(t) = ToSet(s) \ {e}
  <2> DEFINE I == {j \in 1 .. Len(s) : s[j] = e}
             u == SubSeq(s, 1, i - 1)
             v == SubSeq(s, i + 1, Len(s))
  <2>1. I = {i}
    BY <1>1, <1>3 DEF IsInjective
  <2>2. SelectInSeq(s, LAMBDA x : x = e) = i
    <3>1. Min(I) = i
      BY <1>1, <2>1 DEF Min
    <3> QED
      BY <2>1, <3>1 DEF SelectInSeq
  <2>3. t = u \o v
    BY <1>3, <2>2 DEF RemoveFirst, RemoveAt
  <2>4. /\ u \in Seq(S) /\ Len(u) = i - 1
        /\ \A j \in 1 .. i - 1 : u[j] = s[j]
    <3>1. 1 \in Int /\ i - 1 \in Int /\ \A j \in 1 .. i - 1 : s[j] \in S
      BY <1>1
    <3> QED
      BY <3>1, SubSeqProperties
  <2>5. /\ v \in Seq(S) /\ Len(v) = Len(s) - i
        /\ \A j \in 1 .. Len(s) - i : v[j] = s[i + j]
    <3>1. /\ i + 1 \in Int /\ Len(s) \in Int
          /\ \A j \in i + 1 .. Len(s) : s[j] \in S
      BY <1>1
    <3>2. /\ v \in Seq(S)
          /\ Len(v) = IF i + 1 <= Len(s) THEN Len(s) - (i + 1) + 1 ELSE 0
          /\ \A j \in 1 .. Len(s) - (i + 1) + 1 : v[j] = s[(i + 1) + j - 1]
      BY <3>1, SubSeqProperties
    <3>3. Len(s) - (i + 1) + 1 = Len(s) - i
      BY <1>1
    <3>4. \A j \in 1 .. Len(s) - i : (i + 1) + j - 1 = i + j
      BY <1>1
    <3> HIDE DEF v
    <3>5. Len(v) = Len(s) - i
      <4> DEFINE n == Len(s)
      <4>1. n \in Nat /\ i \in 1 .. n
        BY <1>1
      <4>2. Len(v) = IF i + 1 <= n THEN n - (i + 1) + 1 ELSE 0
        BY <3>2
      <4> HIDE DEF n
      <4>3. Len(v) = n - i
        BY <4>1, <4>2
      <4> QED
        BY <4>3 DEF n
    <3> QED
      BY <3>2, <3>3, <3>4, <3>5
  <2> HIDE DEF u, v, t
  <2>6. /\ t \in Seq(S) /\ Len(t) = Len(s) - 1
        /\ DOMAIN t = 1 .. Len(s) - 1
        /\ \A j \in 1 .. Len(s) - 1 : t[j] = IF j < i THEN s[j] ELSE s[j + 1]
    <3>1. /\ t \in Seq(S) /\ Len(t) = Len(u) + Len(v)
          /\ \A j \in 1 .. Len(u) + Len(v) :
               t[j] = IF j <= Len(u) THEN u[j] ELSE v[j - Len(u)]
      BY <2>3, <2>4, <2>5, ConcatProperties
    <3>2. Len(t) = Len(s) - 1 /\ DOMAIN t = 1 .. Len(s) - 1
      BY <1>1, <2>4, <2>5, <3>1, LenProperties
    <3>3. ASSUME NEW j \in 1 .. Len(s) - 1
          PROVE  t[j] = IF j < i THEN s[j] ELSE s[j + 1]
      <4>1. CASE j < i
        <5>1. j \in 1 .. Len(u) + Len(v) /\ j <= Len(u) /\ j \in 1 .. i - 1
          BY <1>1, <2>4, <2>5, <4>1
        <5> QED
          BY <2>4, <3>1, <4>1, <5>1
      <4>2. CASE ~(j < i)
        <5> DEFINE m == j - (i - 1)
        <5>1. m \in 1 .. Len(s) - i /\ i + m = j + 1
          BY <1>1, <4>2
        <5>2. /\ j \in 1 .. Len(u) + Len(v) /\ ~(j <= Len(u))
              /\ j - Len(u) = m
          BY <1>1, <2>4, <2>5, <4>2
        <5> HIDE DEF m
        <5> QED
          BY <2>5, <3>1, <4>2, <5>1, <5>2
      <4> QED
        BY <4>1, <4>2
    <3> QED
      BY <3>1, <3>2, <3>3
  <2>7. IsInjective(t)
    BY <1>1, <2>6 DEF IsInjective
  <2>8. ToSet(t) = ToSet(s) \ {e}
    <3>1. \A x \in ToSet(t) : x \in ToSet(s) \ {e}
      BY <1>1, <1>3, <2>6 DEF ToSet, IsInjective
    <3>2. ASSUME NEW k \in 1 .. Len(s), s[k] # e PROVE s[k] \in ToSet(t)
      <4>1. CASE k < i
        BY <1>1, <2>6, <4>1 DEF ToSet
      <4>2. CASE k > i
        <5>1. k - 1 \in 1 .. Len(s) - 1 /\ ~(k - 1 < i) /\ (k - 1) + 1 = k
          BY <1>1, <4>2
        <5> QED
          BY <2>6, <5>1 DEF ToSet
      <4> QED
        BY <1>1, <1>3, <3>2, <4>1, <4>2
    <3> QED
      BY <1>1, <3>1, <3>2 DEF ToSet
  <2> QED
    BY <2>6, <2>7, <2>8
<1> QED
  BY <1>2, <1>3

-----------------------------------------------------------------------------
(* The broadcast and its subscribers.                                      *)

\* handleSSE has not subscribed yet, and is subscribed.
Fresh == {"new", "checked", "counted"}
Live == {"waiting", "writing"}

CountedHandlers ==
  {r \in Requests : handler[r] \in
     {"counted", "waiting", "writing", "unsubscribed"}}

\* The requests that addEvent has still to send the event to.
Remaining == {targets[i] : i \in next .. Len(targets)}

\* The last event that addEvent has finished with, as far as r is concerned.
Latest(r) ==
  IF publisher = "copy" \/ (publisher = "send" /\ r \in Remaining)
  THEN published - 1 ELSE published

Delivered(r) == received[r] \o chan[r]

Increasing(s) == \A i, j \in DOMAIN s : i < j => s[i] < s[j]

\* A request that has not subscribed is in no broadcast; one that has was sent,
\* or missed, exactly the events since then.
RequestOK(r) ==
  /\ handler[r] \in Fresh =>
       /\ chan[r] = <<>> /\ received[r] = <<>> /\ dropped[r] = {}
       /\ r \notin Remaining
  /\ handler[r] \in Live =>
       /\ joined[r] <= Latest(r)
       /\ Increasing(Delivered(r))
       /\ ToSet(Delivered(r)) \cup dropped[r] = joined[r] + 1 .. Latest(r)
       /\ ToSet(Delivered(r)) \cap dropped[r] = {}
  /\ handler[r] = "writing" => received[r] # <<>>

StreamTypes ==
  /\ StreamTypeOK
  /\ received \in [Requests -> Seq(1 .. MaxEvents)]
  /\ dropped \in [Requests -> SUBSET (1 .. MaxEvents)]
  /\ joined \in [Requests -> Nat]

\* The inductive invariant, beside that of the slices.
StreamInv ==
  /\ StreamTypes
  /\ NobodyLeftBehind
  /\ IsFiniteSet(CountedHandlers)
  /\ IsInjective(targets)
  /\ publisher # "idle" => published >= 1
  /\ \A r \in Requests : RequestOK(r)

\* A request that a step does not concern stays as it should be.
LEMMA RequestStands ==
  ASSUME NEW r \in Requests, RequestOK(r),
         handler'[r] = handler[r], chan'[r] = chan[r],
         received'[r] = received[r], dropped'[r] = dropped[r],
         joined'[r] = joined[r],
         r \in Remaining' <=> r \in Remaining,
         Latest(r)' = Latest(r)
  PROVE  RequestOK(r)'
BY DEF RequestOK, Delivered

LEMMA SameBroadcast ==
  ASSUME UNCHANGED broadcastVars
  PROVE  /\ UNCHANGED <<published, publisher, targets, next>>
         /\ Remaining' = Remaining
         /\ \A r \in Requests : Latest(r)' = Latest(r)
BY DEF broadcastVars, Remaining, Latest

\* What the handlers' list and count should be, after one of them has moved on.
LEMMA HandlerMoves ==
  ASSUME handler \in [Requests -> Handlers], NEW r \in Requests,
         NEW h \in Handlers, handler' = [handler EXCEPT ![r] = h]
  PROVE  /\ handler' \in [Requests -> Handlers]
         /\ handler'[r] = h
         /\ \A q \in Requests \ {r} : handler'[q] = handler[q]
         /\ {q \in Requests : handler'[q] \in Live} =
              IF h \in Live
              THEN {q \in Requests : handler[q] \in Live} \cup {r}
              ELSE {q \in Requests : handler[q] \in Live} \ {r}
         /\ CountedHandlers' =
              IF h \in {"counted", "waiting", "writing", "unsubscribed"}
              THEN CountedHandlers \cup {r} ELSE CountedHandlers \ {r}
<1>1. /\ handler' \in [Requests -> Handlers] /\ handler'[r] = h
      /\ \A q \in Requests \ {r} : handler'[q] = handler[q]
  OBVIOUS
<1>2. {q \in Requests : handler'[q] \in Live} =
        IF h \in Live
        THEN {q \in Requests : handler[q] \in Live} \cup {r}
        ELSE {q \in Requests : handler[q] \in Live} \ {r}
  <2> DEFINE old == {q \in Requests : handler[q] \in Live}
             new == {q \in Requests : handler'[q] \in Live}
  <2>1. \A q : q \in new <=> q \in IF h \in Live THEN old \cup {r} ELSE old \ {r}
    BY <1>1
  <2> QED
    BY <2>1
<1>3. CountedHandlers' =
        IF h \in {"counted", "waiting", "writing", "unsubscribed"}
        THEN CountedHandlers \cup {r} ELSE CountedHandlers \ {r}
  BY <1>1 DEF CountedHandlers
<1> QED
  BY <1>1, <1>2, <1>3

\* What NobodyLeftBehind says, in the words of the invariant.
LEMMA RosterIs ==
  NobodyLeftBehind <=>
    /\ ToSet(subs) = {q \in Requests : handler[q] \in Live}
    /\ IsInjective(subs)
    /\ sseActive = Cardinality(CountedHandlers)
BY DEF NobodyLeftBehind, Live, CountedHandlers

\* A handler takes a step that leaves the list, the count and the channels
\* alone, and neither begins nor ends its subscription.
LEMMA QuietHandlerPreserves ==
  ASSUME StreamInv, NEW r \in Requests, NEW h \in Handlers,
         handler' = [handler EXCEPT ![r] = h],
         \/ handler[r] = "new" /\ h \in {"checked", "over"}
         \/ handler[r] = "writing" /\ h = "waiting",
         UNCHANGED <<memory, ring, broadcastVars, subs, chan, sseActive, gone,
                     received, dropped, joined>>
  PROVE  StreamInv'
<1>1. handler \in [Requests -> Handlers]
  BY DEF StreamInv, StreamTypes, StreamTypeOK
<1>2. /\ handler' \in [Requests -> Handlers] /\ handler'[r] = h
      /\ \A q \in Requests \ {r} : handler'[q] = handler[q]
      /\ {q \in Requests : handler'[q] \in Live}
           = {q \in Requests : handler[q] \in Live}
      /\ CountedHandlers' = CountedHandlers
  <2>1. h \in Live <=> handler[r] \in Live
    BY DEF Live
  <2>2. h \in {"counted", "waiting", "writing", "unsubscribed"} <=>
          handler[r] \in {"counted", "waiting", "writing", "unsubscribed"}
    BY DEF Live
  <2>3. {q \in Requests : handler'[q] \in Live}
          = {q \in Requests : handler[q] \in Live}
    BY <1>1, <2>1, HandlerMoves
  <2>4. CountedHandlers' = CountedHandlers
    <3>1. CountedHandlers' =
            IF h \in {"counted", "waiting", "writing", "unsubscribed"}
            THEN CountedHandlers \cup {r} ELSE CountedHandlers \ {r}
      BY <1>1, HandlerMoves
    <3>2. r \in CountedHandlers <=>
            h \in {"counted", "waiting", "writing", "unsubscribed"}
      BY <2>2 DEF CountedHandlers
    <3>3. CASE r \in CountedHandlers
      BY <3>1, <3>2, <3>3
    <3>4. CASE r \notin CountedHandlers
      BY <3>1, <3>2, <3>4
    <3> QED
      BY <3>3, <3>4
  <2> QED
    BY <1>1, <2>3, <2>4, HandlerMoves
<1>3. StreamTypes'
  BY <1>2 DEF StreamInv, StreamTypes, StreamTypeOK, broadcastVars
<1>4. NobodyLeftBehind'
  <2>1. /\ ToSet(subs)' = {q \in Requests : handler'[q] \in Live}
        /\ IsInjective(subs)'
        /\ sseActive' = Cardinality(CountedHandlers)'
    BY <1>2, RosterIs DEF StreamInv
  <2> QED
    BY <2>1 DEF NobodyLeftBehind, Live, CountedHandlers
<1>5. ASSUME NEW q \in Requests PROVE RequestOK(q)'
  <2>1. CASE q # r
    BY <1>2, <2>1, SameBroadcast, RequestStands DEF StreamInv
  <2>2. CASE q = r
    <3>1. RequestOK(r) /\ Remaining' = Remaining /\ Latest(r)' = Latest(r)
      BY SameBroadcast DEF StreamInv
    <3> QED
      BY <1>2, <2>2, <3>1 DEF RequestOK, Delivered, Live, Fresh
  <2> QED
    BY <2>1, <2>2
<1> QED
  BY <1>2, <1>3, <1>4, <1>5 DEF StreamInv, broadcastVars

\* Count, and Leave.
LEMMA CountingPreserves ==
  ASSUME StreamInv, NEW r \in Requests, Count(r) \/ Leave(r)
  PROVE  StreamInv'
<1>1. /\ handler \in [Requests -> Handlers] /\ sseActive \in Nat
      /\ IsFiniteSet(CountedHandlers)
      /\ sseActive = Cardinality(CountedHandlers)
  BY RosterIs DEF StreamInv, StreamTypes, StreamTypeOK
<1>2. PICK h \in {"counted", "over"} :
        /\ handler' = [handler EXCEPT ![r] = h]
        /\ h = "counted" => handler[r] = "checked" /\ sseActive' = sseActive + 1
        /\ h = "over" => handler[r] = "unsubscribed" /\ sseActive' = sseActive - 1
  BY DEF Count, Leave
<1>3. UNCHANGED <<memory, ring, broadcastVars, subs, chan, gone, received,
                  dropped, joined>>
  BY DEF Count, Leave, ringVars, streamHistory
<1>4. /\ handler' \in [Requests -> Handlers] /\ handler'[r] = h
      /\ \A q \in Requests \ {r} : handler'[q] = handler[q]
      /\ {q \in Requests : handler'[q] \in Live}
           = {q \in Requests : handler[q] \in Live} \ {r}
      /\ CountedHandlers' = IF h = "counted" THEN CountedHandlers \cup {r}
                            ELSE CountedHandlers \ {r}
  BY <1>1, <1>2, HandlerMoves DEF Handlers, Live
<1>5. handler[r] \notin Live /\ (r \in CountedHandlers <=> h = "over")
  BY <1>2 DEF Live, CountedHandlers
<1>6. /\ IsFiniteSet(CountedHandlers') /\ sseActive' \in Nat
      /\ sseActive' = Cardinality(CountedHandlers')
  <2>1. IsFiniteSet(CountedHandlers')
    BY <1>1, <1>4, FS_AddElement, FS_RemoveElement
  <2>2. CASE h = "counted"
    <3>1. Cardinality(CountedHandlers \cup {r}) = Cardinality(CountedHandlers) + 1
      BY <1>1, <1>5, <2>2, FS_AddElement
    <3> QED
      BY <1>1, <1>2, <1>4, <2>1, <2>2, <3>1
  <2>3. CASE h = "over"
    <3>1. Cardinality(CountedHandlers \ {r}) = Cardinality(CountedHandlers) - 1
      BY <1>1, <1>5, <2>3, FS_RemoveElement
    <3>2. Cardinality(CountedHandlers') \in Nat
      BY <2>1, FS_CardinalityType
    <3> QED
      BY <1>1, <1>2, <1>4, <2>1, <2>3, <3>1, <3>2
  <2> QED
    BY <2>2, <2>3, <1>2, <2>1
<1>7. StreamTypes'
  BY <1>3, <1>4, <1>6 DEF StreamInv, StreamTypes, StreamTypeOK, broadcastVars
<1>8. NobodyLeftBehind'
  <2>1. /\ ToSet(subs)' = {q \in Requests : handler'[q] \in Live}
        /\ IsInjective(subs)'
    BY <1>3, <1>4, <1>5, RosterIs DEF StreamInv
  <2> QED
    BY <1>6, <2>1 DEF NobodyLeftBehind, Live, CountedHandlers
<1>9. ASSUME NEW q \in Requests PROVE RequestOK(q)'
  <2>1. CASE q # r
    BY <1>3, <1>4, <2>1, SameBroadcast, RequestStands DEF StreamInv
  <2>2. CASE q = r
    <3>1. RequestOK(r) /\ Remaining' = Remaining
      BY <1>3, SameBroadcast DEF StreamInv
    <3> QED
      BY <1>2, <1>3, <1>4, <2>2, <3>1 DEF RequestOK, Live, Fresh
  <2> QED
    BY <2>1, <2>2
<1> QED
  BY <1>3, <1>6, <1>7, <1>8, <1>9 DEF StreamInv, broadcastVars

\* Subscribe: from now on r is sent every event.
LEMMA SubscribePreserves ==
  ASSUME StreamInv, NEW r \in Requests, Subscribe(r) PROVE StreamInv'
<1>1. /\ handler \in [Requests -> Handlers] /\ subs \in Seq(Requests)
      /\ joined \in [Requests -> Nat] /\ published \in Nat
      /\ publisher # "idle" => published >= 1
      /\ ToSet(subs) = {q \in Requests : handler[q] \in Live}
      /\ IsInjective(subs)
  BY RosterIs DEF StreamInv, StreamTypes, StreamTypeOK
<1>2. /\ handler[r] = "counted" /\ subs' = Append(subs, r)
      /\ handler' = [handler EXCEPT ![r] = "waiting"]
      /\ joined' = [joined EXCEPT ![r] =
           IF publisher = "copy" THEN published - 1 ELSE published]
      /\ UNCHANGED <<memory, ring, broadcastVars, chan, sseActive, gone,
                     received, dropped>>
  BY DEF Subscribe, ringVars
<1>3. /\ handler' \in [Requests -> Handlers] /\ handler'[r] = "waiting"
      /\ \A q \in Requests \ {r} : handler'[q] = handler[q]
      /\ {q \in Requests : handler'[q] \in Live}
           = {q \in Requests : handler[q] \in Live} \cup {r}
      /\ CountedHandlers' = CountedHandlers \cup {r}
  BY <1>1, <1>2, HandlerMoves DEF Handlers, Live
<1>4. CountedHandlers' = CountedHandlers
  BY <1>2, <1>3 DEF CountedHandlers
<1>5. /\ subs' \in Seq(Requests) /\ ToSet(subs') = ToSet(subs) \cup {r}
      /\ IsInjective(subs')
  <2>1. /\ subs' \in Seq(Requests)
        /\ DOMAIN subs' = 1 .. Len(subs) + 1
        /\ ToSet(subs') = ToSet(subs) \cup {r}
        /\ \A i \in 1 .. Len(subs) : subs'[i] = subs[i]
        /\ subs'[Len(subs) + 1] = r
    BY <1>1, <1>2, AppendedElements
  <2>2. Len(subs) \in Nat /\ DOMAIN subs = 1 .. Len(subs)
    BY <1>1, LenProperties
  <2>3. \A i \in 1 .. Len(subs) : subs[i] # r
    <3>1. r \notin ToSet(subs)
      BY <1>1, <1>2 DEF Live
    <3> QED
      BY <2>2, <3>1 DEF ToSet
  <2> QED
    BY <1>1, <2>1, <2>2, <2>3 DEF IsInjective
<1>6. /\ joined' \in [Requests -> Nat]
      /\ joined'[r] = IF publisher = "copy" THEN published - 1 ELSE published
      /\ \A q \in Requests \ {r} : joined'[q] = joined[q]
  BY <1>1, <1>2
<1>7. StreamTypes'
  BY <1>2, <1>3, <1>5, <1>6 DEF StreamInv, StreamTypes, StreamTypeOK, broadcastVars
<1>8. NobodyLeftBehind'
  <2>1. /\ ToSet(subs)' = {q \in Requests : handler'[q] \in Live}
        /\ IsInjective(subs)'
        /\ sseActive' = Cardinality(CountedHandlers)'
    BY <1>1, <1>2, <1>3, <1>4, <1>5, RosterIs DEF StreamInv
  <2> QED
    BY <2>1 DEF NobodyLeftBehind, Live, CountedHandlers
<1>9. ASSUME NEW q \in Requests PROVE RequestOK(q)'
  <2>1. CASE q # r
    BY <1>2, <1>3, <1>6, <2>1, SameBroadcast, RequestStands DEF StreamInv
  <2>2. CASE q = r
    <3>1. /\ chan'[r] = <<>> /\ received'[r] = <<>> /\ dropped'[r] = {}
          /\ r \notin Remaining
      BY <1>2 DEF StreamInv, RequestOK, Fresh
    <3>2. Latest(r)' = joined'[r] /\ joined'[r] \in Nat
      BY <1>2, <1>6, <3>1, SameBroadcast DEF Latest
    <3>3. Delivered(r)' = <<>>
      BY <3>1 DEF Delivered
    <3>4. joined'[r] + 1 .. Latest(r)' = {}
      BY <3>2
    <3>5. Increasing(<<>>) /\ ToSet(<<>>) = {}
      BY DEF Increasing, ToSet
    <3>6. Increasing(Delivered(r))' /\ ToSet(Delivered(r))' = {}
      BY <3>3, <3>5 DEF Increasing, ToSet
    <3> QED
      BY <1>3, <2>2, <3>1, <3>2, <3>4, <3>6 DEF RequestOK, Fresh
  <2> QED
    BY <2>1, <2>2
<1> QED
  BY <1>2, <1>4, <1>7, <1>8, <1>9 DEF StreamInv, broadcastVars

\* Return: the list loses the one whose handler is done, and no other.
LEMMA ReturnPreserves ==
  ASSUME StreamInv, NEW r \in Requests, handler[r] \in Live, Return(r)
  PROVE  StreamInv'
<1>1. /\ handler \in [Requests -> Handlers] /\ subs \in Seq(Requests)
      /\ ToSet(subs) = {q \in Requests : handler[q] \in Live}
      /\ IsInjective(subs)
  BY RosterIs DEF StreamInv, StreamTypes, StreamTypeOK
<1>2. /\ subs' = RemoveFirst(subs, r)
      /\ handler' = [handler EXCEPT ![r] = "unsubscribed"]
      /\ UNCHANGED <<memory, ring, broadcastVars, chan, sseActive, gone,
                     received, dropped, joined>>
  BY DEF Return, Without, ringVars, streamHistory
<1>3. /\ handler' \in [Requests -> Handlers] /\ handler'[r] = "unsubscribed"
      /\ \A q \in Requests \ {r} : handler'[q] = handler[q]
      /\ {q \in Requests : handler'[q] \in Live}
           = {q \in Requests : handler[q] \in Live} \ {r}
      /\ CountedHandlers' = CountedHandlers \cup {r}
  BY <1>1, <1>2, HandlerMoves DEF Handlers, Live
<1>4. CountedHandlers' = CountedHandlers
  BY <1>3 DEF CountedHandlers, Live
<1>5. /\ subs' \in Seq(Requests) /\ ToSet(subs') = ToSet(subs) \ {r}
      /\ IsInjective(subs')
  BY <1>1, <1>2, WithoutElements
<1>6. StreamTypes'
  BY <1>2, <1>3, <1>5 DEF StreamInv, StreamTypes, StreamTypeOK, broadcastVars
<1>7. NobodyLeftBehind'
  <2>1. /\ ToSet(subs)' = {q \in Requests : handler'[q] \in Live}
        /\ IsInjective(subs)'
        /\ sseActive' = Cardinality(CountedHandlers)'
    BY <1>1, <1>2, <1>3, <1>4, <1>5, RosterIs DEF StreamInv
  <2> QED
    BY <2>1 DEF NobodyLeftBehind, Live, CountedHandlers
<1>8. ASSUME NEW q \in Requests PROVE RequestOK(q)'
  <2>1. CASE q # r
    BY <1>2, <1>3, <2>1, SameBroadcast, RequestStands DEF StreamInv
  <2>2. CASE q = r
    BY <1>3, <2>2 DEF RequestOK, Live, Fresh
  <2> QED
    BY <2>1, <2>2
<1> QED
  BY <1>2, <1>4, <1>6, <1>7, <1>8 DEF StreamInv, broadcastVars

\* Moving the first element of one sequence to the end of another leaves their
\* concatenation as it was.
LEMMA HeadMoves ==
  ASSUME NEW S, NEW s \in Seq(S), NEW t \in Seq(S), t # <<>>
  PROVE  /\ Append(s, Head(t)) \in Seq(S) /\ Append(s, Head(t)) # <<>>
         /\ Tail(t) \in Seq(S)
         /\ Len(Tail(t)) = Len(t) - 1
         /\ Append(s, Head(t)) \o Tail(t) = s \o t
<1> DEFINE a == Append(s, Head(t))
           b == Tail(t)
<1>1. /\ Len(s) \in Nat /\ Len(t) \in Nat /\ Len(t) # 0
      /\ Head(t) \in S /\ Head(t) = t[1]
  BY EmptySeq, LenProperties, HeadTailProperties
<1>2. /\ a \in Seq(S) /\ a # <<>> /\ Len(a) = Len(s) + 1
      /\ \A i \in 1 .. Len(s) : a[i] = s[i]
      /\ a[Len(s) + 1] = t[1]
  BY <1>1, AppendProperties
<1>3. /\ b \in Seq(S) /\ Len(b) = Len(t) - 1
      /\ \A i \in 1 .. Len(b) : b[i] = t[i + 1]
  BY <1>1, HeadTailProperties
<1> HIDE DEF a, b
<1>4. /\ a \o b \in Seq(S) /\ Len(a \o b) = Len(a) + Len(b)
      /\ \A i \in 1 .. Len(a) + Len(b) :
           (a \o b)[i] = IF i <= Len(a) THEN a[i] ELSE b[i - Len(a)]
  BY <1>2, <1>3, ConcatProperties
<1>5. /\ s \o t \in Seq(S) /\ Len(s \o t) = Len(s) + Len(t)
      /\ \A i \in 1 .. Len(s) + Len(t) :
           (s \o t)[i] = IF i <= Len(s) THEN s[i] ELSE t[i - Len(s)]
  BY ConcatProperties
<1>6. ASSUME NEW i \in 1 .. Len(s) + Len(t) PROVE (a \o b)[i] = (s \o t)[i]
  <2>1. CASE i <= Len(s)
    BY <1>1, <1>2, <1>3, <1>4, <1>5, <2>1
  <2>2. CASE i = Len(s) + 1
    BY <1>1, <1>2, <1>3, <1>4, <1>5, <2>2
  <2>3. CASE i > Len(s) + 1
    <3> DEFINE k == i - (Len(s) + 1)
    <3>1. k \in 1 .. Len(b) /\ k + 1 = i - Len(s) /\ i - Len(a) = k
      BY <1>1, <1>2, <1>3, <2>3
    <3>2. i \in 1 .. Len(a) + Len(b) /\ ~(i <= Len(a)) /\ ~(i <= Len(s))
      BY <1>1, <1>2, <1>3, <2>3
    <3> HIDE DEF k
    <3>3. (a \o b)[i] = b[k]
      BY <1>4, <3>1, <3>2
    <3>4. (s \o t)[i] = t[k + 1]
      BY <1>5, <3>1, <3>2
    <3> QED
      BY <1>3, <3>1, <3>3, <3>4
  <2>4. i <= Len(s) \/ i = Len(s) + 1 \/ i > Len(s) + 1
    <3> DEFINE n == Len(s)
               m == Len(s) + Len(t)
    <3>1. n \in Nat /\ i \in 1 .. m /\ m \in Nat
      BY <1>1
    <3> HIDE DEF m
    <3>2. i \in Nat
      BY <3>1
    <3> HIDE DEF n
    <3>3. i <= n \/ i = n + 1 \/ i > n + 1
      BY <3>1, <3>2
    <3> QED
      BY <3>3 DEF n
  <2> QED
    BY <2>1, <2>2, <2>3, <2>4
<1>7. Len(a \o b) = Len(s \o t)
  BY <1>1, <1>2, <1>3, <1>4, <1>5
<1>8. a \o b = s \o t
  BY <1>4, <1>5, <1>6, <1>7, SeqEqual
<1> QED
  BY <1>2, <1>3, <1>8 DEF a, b

\* Receive: what has been sent to r is what it was.
LEMMA ReceivePreserves ==
  ASSUME StreamInv, NEW r \in Requests, Receive(r) PROVE StreamInv'
<1> DEFINE E == 1 .. MaxEvents
<1>1. /\ handler \in [Requests -> Handlers]
      /\ chan \in [Requests -> Seq(E)] /\ received \in [Requests -> Seq(E)]
      /\ Len(chan[r]) <= Buffer
      /\ \A q \in Requests : Len(chan[q]) <= Buffer
  BY DEF StreamInv, StreamTypes, StreamTypeOK
<1>2. /\ handler[r] = "waiting" /\ chan[r] # <<>>
      /\ chan' = [chan EXCEPT ![r] = Tail(@)]
      /\ received' = [received EXCEPT ![r] = Append(@, Head(chan[r]))]
      /\ handler' = [handler EXCEPT ![r] = "writing"]
      /\ UNCHANGED <<memory, ring, broadcastVars, subs, sseActive, gone,
                     dropped, joined>>
  BY DEF Receive, ringVars
<1> HIDE DEF E
<1>3. /\ handler' \in [Requests -> Handlers] /\ handler'[r] = "writing"
      /\ \A q \in Requests \ {r} : handler'[q] = handler[q]
      /\ {q \in Requests : handler'[q] \in Live}
           = {q \in Requests : handler[q] \in Live} \cup {r}
      /\ CountedHandlers' = CountedHandlers \cup {r}
  BY <1>1, <1>2, HandlerMoves DEF Handlers, Live
<1>4. /\ {q \in Requests : handler'[q] \in Live}
           = {q \in Requests : handler[q] \in Live}
      /\ CountedHandlers' = CountedHandlers
  BY <1>2, <1>3 DEF CountedHandlers, Live
<1>5. /\ Append(received[r], Head(chan[r])) \in Seq(E)
      /\ Append(received[r], Head(chan[r])) # <<>>
      /\ Tail(chan[r]) \in Seq(E)
      /\ Len(Tail(chan[r])) = Len(chan[r]) - 1
      /\ Append(received[r], Head(chan[r])) \o Tail(chan[r]) = received[r] \o chan[r]
  BY <1>1, <1>2, HeadMoves
<1>6. /\ chan' \in [Requests -> Seq(E)] /\ received' \in [Requests -> Seq(E)]
      /\ \A q \in Requests \ {r} : chan'[q] = chan[q] /\ received'[q] = received[q]
      /\ Delivered(r)' = Delivered(r) /\ received'[r] # <<>>
      /\ Len(chan'[r]) <= Buffer
  <2>1. Len(chan[r]) \in Nat /\ Buffer \in Nat
    BY <1>1, LenProperties, StreamAssumption
  <2> QED
    BY <1>1, <1>2, <1>5, <2>1 DEF Delivered
<1>7. \A q \in Requests : Len(chan'[q]) <= Buffer
  BY <1>1, <1>6
<1>8. StreamTypes'
  BY <1>2, <1>3, <1>6, <1>7 DEF E, StreamInv, StreamTypes, StreamTypeOK, broadcastVars
<1>9. NobodyLeftBehind'
  <2>1. /\ ToSet(subs)' = {q \in Requests : handler'[q] \in Live}
        /\ IsInjective(subs)'
        /\ sseActive' = Cardinality(CountedHandlers)'
    BY <1>2, <1>4, RosterIs DEF StreamInv
  <2> QED
    BY <2>1 DEF NobodyLeftBehind, Live, CountedHandlers
<1>10. ASSUME NEW q \in Requests PROVE RequestOK(q)'
  <2>1. CASE q # r
    BY <1>2, <1>3, <1>6, <2>1, SameBroadcast, RequestStands DEF StreamInv
  <2>2. CASE q = r
    <3>1. RequestOK(r) /\ Latest(r)' = Latest(r)
      BY <1>2, SameBroadcast DEF StreamInv
    <3>2. /\ Increasing(Delivered(r))' <=> Increasing(Delivered(r))
          /\ ToSet(Delivered(r))' = ToSet(Delivered(r))
      BY <1>6 DEF Increasing, ToSet
    <3> QED
      BY <1>2, <1>3, <1>6, <2>2, <3>1, <3>2 DEF RequestOK, Live, Fresh
  <2> QED
    BY <2>1, <2>2
<1> QED
  BY <1>2, <1>4, <1>8, <1>9, <1>10 DEF StreamInv, broadcastVars

\* HangUp: the client's leaving is not noticed yet.
LEMMA HangUpPreserves ==
  ASSUME StreamInv, NEW r \in Requests, HangUp(r) PROVE StreamInv'
<1>1. /\ gone' = gone \cup {r}
      /\ UNCHANGED <<memory, ring, broadcastVars, subs, chan, sseActive,
                     handler, received, dropped, joined>>
  BY DEF HangUp, ringVars, streamHistory
<1>2. StreamTypes' /\ NobodyLeftBehind' /\ CountedHandlers' = CountedHandlers
  BY <1>1 DEF StreamInv, StreamTypes, StreamTypeOK, broadcastVars,
              NobodyLeftBehind, CountedHandlers
<1>3. \A q \in Requests : RequestOK(q)'
  BY <1>1, SameBroadcast, RequestStands DEF StreamInv
<1> QED
  BY <1>1, <1>2, <1>3 DEF StreamInv, broadcastVars

\* Nothing that concerns the clients of /api/events changes.
LEMMA RingOnlyPreserves ==
  ASSUME StreamInv, UNCHANGED <<memory, ring, broadcastVars, sseVars,
                                received, dropped, joined>>
  PROVE  StreamInv'
<1>1. UNCHANGED <<subs, chan, sseActive, handler, gone>>
  BY DEF sseVars
<1>2. StreamTypes' /\ NobodyLeftBehind' /\ CountedHandlers' = CountedHandlers
  BY <1>1 DEF StreamInv, StreamTypes, StreamTypeOK, broadcastVars,
              NobodyLeftBehind, CountedHandlers
<1>3. \A q \in Requests : RequestOK(q)'
  BY <1>1, SameBroadcast, RequestStands DEF StreamInv
<1> QED
  BY <1>1, <1>2, <1>3 DEF StreamInv, broadcastVars

\* The ring never outgrows its size.
LEMMA RingBounded ==
  ASSUME memory \in Arrays, FitsIn(ring, memory), ring.len <= RingSize,
         NEW e \in Nat, Appended(Trimmed(ring), e)
  PROVE  ring'.len \in 0 .. RingSize
<1>1. /\ ring = [array |-> ring.array, off |-> ring.off, len |-> ring.len]
      /\ ring.off \in Nat /\ ring.len \in Nat /\ RingSize \in Nat \ {0}
  BY StreamAssumption DEF FitsIn, Slice
<1> DEFINE s == Trimmed(ring)
<1>2. s.len \in Nat /\ s.len + 1 <= RingSize /\ s \in Slice
  <2>1. CASE ring.len >= RingSize
    <3>1. s = [array |-> ring.array, off |-> ring.off + 1, len |-> ring.len - 1]
      BY <1>1, <2>1 DEF Trimmed
    <3> QED
      BY <1>1, <2>1, <3>1 DEF FitsIn, Slice
  <2>2. CASE ~(ring.len >= RingSize)
    <3>1. s = ring
      BY <2>2 DEF Trimmed
    <3> QED
      BY <1>1, <2>2, <3>1 DEF FitsIn
  <2> QED
    BY <2>1, <2>2
<1>3. Appended(s, e)
  OBVIOUS
<1> HIDE DEF s
<1>4. ring'.len = s.len + 1
  <2>1. \/ ring' = [s EXCEPT !.len = @ + 1]
        \/ ring' = [array |-> Len(memory) + 1, off |-> 0, len |-> s.len + 1]
    BY <1>3 DEF Appended
  <2> QED
    BY <1>2, <2>1 DEF Slice
<1> QED
  BY <1>1, <1>2, <1>4

\* AddEvent: the event is published, and nobody has been sent it.
LEMMA AddEventKeepsStream ==
  ASSUME SliceInv, StreamInv, AddEvent PROVE StreamInv'
<1>1. /\ memory \in Arrays /\ FitsIn(ring, memory)
      /\ published \in 0 .. MaxEvents /\ MaxEvents \in Nat
      /\ ring.len <= RingSize
  BY StreamAssumption DEF SliceInv, StreamInv, StreamTypes, StreamTypeOK
<1>2. /\ publisher = "idle" /\ published < MaxEvents
      /\ published' = published + 1 /\ Appended(Trimmed(ring), published + 1)
      /\ publisher' = "copy"
      /\ UNCHANGED <<targets, next, subs, chan, sseActive, handler, gone,
                     received, dropped, joined>>
  BY DEF AddEvent, sseVars, streamHistory
<1>3. ring'.len \in 0 .. RingSize
  BY <1>1, <1>2, RingBounded
<1>4. ring'.array \in 0 .. Len(memory')
  <2>1. FitsIn(Trimmed(ring), memory)
    BY <1>1, TrimmedSlice
  <2>2. FitsIn(ring', memory') /\ memory' \in Arrays
    BY <1>1, <1>2, <2>1, AppendedSlice
  <2>3. Len(memory') \in Nat
    BY <2>2 DEF Arrays
  <2> QED
    BY <2>2, <2>3 DEF FitsIn, Slice
<1>5. published' \in 0 .. MaxEvents /\ published' >= 1
  BY <1>1, <1>2
<1>6. StreamTypes'
  BY <1>2, <1>3, <1>4, <1>5 DEF StreamInv, StreamTypes, StreamTypeOK
<1>7. NobodyLeftBehind' /\ CountedHandlers' = CountedHandlers
  BY <1>2 DEF StreamInv, NobodyLeftBehind, CountedHandlers
<1>8. ASSUME NEW q \in Requests PROVE RequestOK(q)'
  <2>1. Latest(q)' = Latest(q)
    BY <1>1, <1>2 DEF Latest
  <2>2. Remaining' = Remaining
    BY <1>2 DEF Remaining
  <2> QED
    BY <1>2, <2>1, <2>2, RequestStands DEF StreamInv
<1> QED
  BY <1>2, <1>5, <1>6, <1>7, <1>8 DEF StreamInv

\* CopySubs: those who are subscribed now are sent the event.
LEMMA CopySubsPreserves == ASSUME StreamInv, CopySubs PROVE StreamInv'
<1>1. /\ publisher = "copy" /\ targets' = subs /\ next' = 1
      /\ publisher' = "send"
      /\ UNCHANGED <<published, memory, ring, subs, chan, sseActive, handler,
                     gone, received, dropped, joined>>
  BY DEF CopySubs, ringVars, sseVars, streamHistory
<1>2. /\ ToSet(subs) = {q \in Requests : handler[q] \in Live}
      /\ IsInjective(subs) /\ subs \in Seq(Requests)
  BY RosterIs DEF StreamInv, StreamTypes, StreamTypeOK
<1>3. Remaining' = {q \in Requests : handler[q] \in Live}
  <2>1. DOMAIN subs = 1 .. Len(subs)
    BY <1>2, LenProperties
  <2>2. Remaining' = ToSet(subs)
    BY <1>1, <2>1 DEF Remaining, ToSet
  <2> QED
    BY <1>2, <2>2
<1>4. StreamTypes' /\ NobodyLeftBehind' /\ CountedHandlers' = CountedHandlers
  BY <1>1, <1>2 DEF StreamInv, StreamTypes, StreamTypeOK, NobodyLeftBehind,
                    CountedHandlers
<1>5. ASSUME NEW q \in Requests PROVE RequestOK(q)'
  <2>1. handler[q] \in Live => Latest(q)' = Latest(q)
    BY <1>1, <1>3 DEF Latest
  <2>2. handler[q] \in Fresh => q \notin Remaining'
    BY <1>3 DEF Fresh, Live
  <2> QED
    BY <1>1, <2>1, <2>2 DEF StreamInv, RequestOK, Delivered
<1> QED
  BY <1>1, <1>2, <1>4, <1>5 DEF StreamInv

\* EndBroadcast: everybody has been sent the event.
LEMMA EndBroadcastPreserves == ASSUME StreamInv, EndBroadcast PROVE StreamInv'
<1>1. /\ publisher = "send" /\ next > Len(targets) /\ publisher' = "idle"
      /\ UNCHANGED <<published, targets, next, memory, ring, subs, chan,
                     sseActive, handler, gone, received, dropped, joined>>
  BY DEF EndBroadcast, ringVars, sseVars, streamHistory
<1>2. Remaining = {} /\ Remaining' = {}
  <2>1. next \in Nat /\ Len(targets) \in Nat
    BY DEF StreamInv, StreamTypes, StreamTypeOK
  <2>2. next .. Len(targets) = {}
    BY <1>1, <2>1
  <2> QED
    BY <1>1, <2>2 DEF Remaining
<1>3. StreamTypes' /\ NobodyLeftBehind' /\ CountedHandlers' = CountedHandlers
  BY <1>1 DEF StreamInv, StreamTypes, StreamTypeOK, NobodyLeftBehind,
              CountedHandlers
<1>4. ASSUME NEW q \in Requests PROVE RequestOK(q)'
  <2>1. Latest(q)' = Latest(q)
    BY <1>1, <1>2 DEF Latest
  <2> QED
    BY <1>1, <1>2, <2>1, RequestStands DEF StreamInv
<1> QED
  BY <1>1, <1>3, <1>4 DEF StreamInv

\* What is appended to the second of two sequences is appended to both.
LEMMA AppendConcat ==
  ASSUME NEW S, NEW s \in Seq(S), NEW t \in Seq(S), NEW e \in S
  PROVE  s \o Append(t, e) = Append(s \o t, e)
<1>1. <<e>> \in Seq(S) /\ s \o t \in Seq(S)
  BY ConcatProperties
<1>2. Append(t, e) = t \o <<e>> /\ Append(s \o t, e) = (s \o t) \o <<e>>
  BY <1>1, AppendIsConcat
<1>3. (s \o t) \o <<e>> = s \o (t \o <<e>>)
  BY <1>1, ConcatAssociative
<1> QED
  BY <1>2, <1>3

\* SendNext: the one whose turn it is gets the event, or misses it.
LEMMA SendNextPreserves == ASSUME StreamInv, SendNext PROVE StreamInv'
<1> DEFINE E == 1 .. MaxEvents
<1>0. PICK r \in Requests : r = targets[next]
  <2>1. targets \in Seq(Requests) /\ next \in 1 .. Len(targets)
    BY DEF SendNext, StreamInv, StreamTypes, StreamTypeOK
  <2> QED
    BY <2>1, ElementOfSeq
<1>1. /\ publisher = "send" /\ next <= Len(targets) /\ Sent(r)
      /\ next' = next + 1
      /\ UNCHANGED <<memory, ring, published, publisher, targets, subs,
                     sseActive, handler, gone, received, joined>>
  BY <1>0 DEF SendNext, NextTarget, ringVars
<1>2. /\ targets \in Seq(Requests) /\ next \in Nat \ {0}
      /\ published \in 0 .. MaxEvents /\ published >= 1 /\ MaxEvents \in Nat
      /\ chan \in [Requests -> Seq(E)] /\ received \in [Requests -> Seq(E)]
      /\ dropped \in [Requests -> SUBSET E] /\ joined \in [Requests -> Nat]
      /\ \A q \in Requests : Len(chan[q]) <= Buffer
      /\ Buffer \in Nat
  BY <1>1, StreamAssumption DEF StreamInv, StreamTypes, StreamTypeOK
<1>3. /\ r \in Remaining /\ Remaining' = Remaining \ {r}
  <2>1. Len(targets) \in Nat /\ DOMAIN targets = 1 .. Len(targets)
    BY <1>2, LenProperties
  <2>2. next \in next .. Len(targets) /\ next \in 1 .. Len(targets)
    BY <1>1, <1>2, <2>1
  <2>4. next .. Len(targets) = (next + 1 .. Len(targets)) \cup {next}
    <3> DEFINE m == Len(targets)
    <3>1. m \in Nat /\ next <= m /\ next \in Nat
      BY <1>1, <1>2, <2>1
    <3> HIDE DEF m
    <3>2. next .. m = (next + 1 .. m) \cup {next}
      BY <3>1
    <3> QED
      BY <3>2 DEF m
  <2>5. \A i \in next + 1 .. Len(targets) : targets[i] # r
    <3>1. \A i \in next + 1 .. Len(targets) : i \in 1 .. Len(targets) /\ i # next
      BY <1>2, <2>1
    <3> QED
      BY <1>0, <2>1, <2>2, <3>1 DEF StreamInv, IsInjective
  <2>6. Remaining = {targets[i] : i \in next + 1 .. Len(targets)} \cup {r}
    BY <1>0, <2>4 DEF Remaining
  <2>7. Remaining' = {targets[i] : i \in next + 1 .. Len(targets)}
    BY <1>1 DEF Remaining
  <2> QED
    BY <2>5, <2>6, <2>7
<1> HIDE DEF E
<1>4. published \in E
  BY <1>2 DEF E
<1>5. \A q \in Requests \ {r} :
         /\ chan'[q] = chan[q] /\ dropped'[q] = dropped[q]
         /\ Latest(q)' = Latest(q) /\ (q \in Remaining' <=> q \in Remaining)
  BY <1>1, <1>2, <1>3 DEF Sent, Latest
<1>6. \/ /\ chan' = [chan EXCEPT ![r] = Append(chan[r], published)]
         /\ Len(chan[r]) < Buffer /\ dropped' = dropped
      \/ /\ dropped' = [dropped EXCEPT ![r] = dropped[r] \cup {published}]
         /\ chan' = chan
  BY <1>1 DEF Sent
<1>7. /\ chan' \in [Requests -> Seq(E)] /\ dropped' \in [Requests -> SUBSET E]
      /\ Len(chan'[r]) <= Buffer
  <2>1. CASE chan' = chan
    BY <1>2, <1>3, <1>4, <1>6, <2>1
  <2>2. CASE /\ chan' = [chan EXCEPT ![r] = Append(chan[r], published)]
             /\ Len(chan[r]) < Buffer /\ dropped' = dropped
    <3>1. /\ Append(chan[r], published) \in Seq(E)
          /\ Len(Append(chan[r], published)) = Len(chan[r]) + 1
          /\ Len(chan[r]) \in Nat
      BY <1>2, <1>3, <1>4, AppendProperties, LenProperties
    <3> QED
      BY <1>2, <1>3, <2>2, <3>1
  <2> QED
    BY <1>6, <2>1, <2>2
<1>8. StreamTypes'
  <2>1. \A q \in Requests : Len(chan'[q]) <= Buffer
    BY <1>2, <1>5, <1>7
  <2>2. next' \in Nat \ {0}
    BY <1>1, <1>2
  <2> QED
    BY <1>1, <1>7, <2>1, <2>2 DEF E, StreamInv, StreamTypes, StreamTypeOK
<1>9. NobodyLeftBehind' /\ CountedHandlers' = CountedHandlers
  BY <1>1 DEF StreamInv, NobodyLeftBehind, CountedHandlers
<1>10. RequestOK(r)'
  <2>1. handler[r] \notin Fresh /\ (handler[r] = "writing" => received[r] # <<>>)
    BY <1>3 DEF StreamInv, RequestOK
  <2>2. SUFFICES ASSUME handler[r] \in Live
        PROVE /\ joined[r] <= Latest(r)'
              /\ Increasing(Delivered(r))'
              /\ ToSet(Delivered(r))' \cup dropped'[r] = joined[r] + 1 .. Latest(r)'
              /\ ToSet(Delivered(r))' \cap dropped'[r] = {}
    BY <1>1, <2>1 DEF RequestOK, Live
  <2> DEFINE d == Delivered(r)
             n == published
  <2>3. Latest(r) = n - 1 /\ Latest(r)' = n
    BY <1>1, <1>3 DEF Latest
  <2>4. /\ joined[r] <= n - 1 /\ Increasing(d)
        /\ ToSet(d) \cup dropped[r] = joined[r] + 1 .. n - 1
        /\ ToSet(d) \cap dropped[r] = {}
    BY <1>3, <2>2, <2>3 DEF StreamInv, RequestOK
  <2>5. /\ n \in Nat /\ joined[r] \in Nat /\ received[r] \in Seq(E)
        /\ chan[r] \in Seq(E) /\ dropped[r] \subseteq E /\ n \in E
        /\ d \in Seq(E)
    BY <1>2, <1>3, <1>4, ConcatProperties DEF Delivered
  <2>6. joined[r] + 1 .. n = (joined[r] + 1 .. n - 1) \cup {n}
    BY <2>4, <2>5
  <2>7. n \notin joined[r] + 1 .. n - 1
    BY <2>5
  <2>8. CASE /\ dropped' = [dropped EXCEPT ![r] = dropped[r] \cup {published}]
             /\ chan' = chan
    <3>1. Delivered(r)' = d /\ dropped'[r] = dropped[r] \cup {n}
      BY <1>1, <1>2, <1>3, <2>8 DEF Delivered
    <3>2. Increasing(d)' <=> Increasing(d)
      BY <3>1 DEF Increasing
    <3>3. ToSet(d)' = ToSet(d)
      BY <3>1 DEF ToSet
    <3> HIDE DEF d, n
    <3>4. n \notin ToSet(d)
      BY <2>4, <2>7
    <3>5. joined[r] <= n
      BY <2>4, <2>5
    <3> QED
      BY <2>3, <2>4, <2>6, <3>1, <3>2, <3>3, <3>4, <3>5 DEF d
  <2>9. CASE /\ chan' = [chan EXCEPT ![r] = Append(chan[r], published)]
             /\ dropped' = dropped
    <3>1. Delivered(r)' = Append(d, n)
      <4>1. chan'[r] = Append(chan[r], n) /\ received'[r] = received[r]
        BY <1>1, <1>2, <1>3, <2>9
      <4>2. received[r] \o Append(chan[r], n) = Append(received[r] \o chan[r], n)
        <5>1. \A a, b \in Seq(E), e \in E : a \o Append(b, e) = Append(a \o b, e)
          BY AppendConcat
        <5>2. n \in E /\ received[r] \in Seq(E) /\ chan[r] \in Seq(E)
          BY <2>5
        <5> HIDE DEF n
        <5> QED
          BY <5>1, <5>2
      <4> QED
        BY <4>1, <4>2 DEF Delivered
    <3> HIDE DEF d, n
    <3>2. /\ DOMAIN Append(d, n) = 1 .. Len(d) + 1
          /\ ToSet(Append(d, n)) = ToSet(d) \cup {n}
          /\ \A i \in 1 .. Len(d) : Append(d, n)[i] = d[i]
          /\ Append(d, n)[Len(d) + 1] = n
      BY <2>5, AppendedElements
    <3>3. \A i \in 1 .. Len(d) : d[i] \in ToSet(d)
      BY <2>5, LenProperties DEF ToSet
    <3>4. \A x \in ToSet(d) : x < n
      BY <2>4, <2>5
    <3>5. DOMAIN d = 1 .. Len(d) /\ Len(d) \in Nat
      BY <2>5, LenProperties
    <3>6. Increasing(Append(d, n))
      BY <2>4, <3>2, <3>3, <3>4, <3>5 DEF Increasing
    <3>7. n \notin dropped[r]
      BY <2>4, <2>7
    <3>8. joined[r] <= n
      BY <2>4, <2>5
    <3>9. /\ Increasing(Delivered(r))'
          /\ ToSet(Delivered(r))' = ToSet(d) \cup {n}
      BY <3>1, <3>2, <3>6 DEF Increasing, ToSet
    <3> QED
      BY <2>3, <2>4, <2>6, <2>9, <3>7, <3>8, <3>9
  <2> QED
    BY <1>6, <2>8, <2>9
<1>11. ASSUME NEW q \in Requests PROVE RequestOK(q)'
  <2>1. CASE q # r
    BY <1>1, <1>5, <2>1, RequestStands DEF StreamInv
  <2>2. CASE q = r
    BY <1>10, <2>2
  <2> QED
    BY <2>1, <2>2
<1> QED
  BY <1>1, <1>8, <1>9, <1>11 DEF StreamInv

\* At first nobody is subscribed and nothing was published.
LEMMA StreamInitInv == StreamInit => StreamInv
<1> SUFFICES ASSUME StreamInit PROVE StreamInv
  OBVIOUS
<1>1. /\ memory = <<>> /\ ring = NoSlice
      /\ published = 0 /\ publisher = "idle" /\ targets = <<>> /\ next = 1
      /\ subs = <<>> /\ sseActive = 0 /\ gone = {}
      /\ chan = [r \in Requests |-> <<>>]
      /\ handler = [r \in Requests |-> "new"]
      /\ received = [r \in Requests |-> <<>>]
      /\ dropped = [r \in Requests |-> {}]
      /\ joined = [r \in Requests |-> 0]
  BY DEF StreamInit
<1>2. MaxEvents \in Nat /\ RingSize \in Nat /\ Buffer \in Nat
  BY StreamAssumption
<1>3. StreamTypes
  <2>1. /\ <<>> \in Seq(Requests) /\ <<>> \in Seq(1 .. MaxEvents)
        /\ Len(<<>>) = 0
    OBVIOUS
  <2> QED
    BY <1>1, <1>2, <2>1 DEF StreamTypes, StreamTypeOK, NoSlice, Handlers
<1>4. CountedHandlers = {}
  BY <1>1 DEF CountedHandlers
<1>5. IsFiniteSet(CountedHandlers) /\ Cardinality(CountedHandlers) = 0
  BY <1>4, FS_EmptySet
<1>6. NobodyLeftBehind
  <2>1. ToSet(subs) = {} /\ IsInjective(subs)
    BY <1>1 DEF ToSet, IsInjective
  <2>2. {q \in Requests : handler[q] \in Live} = {}
    BY <1>1 DEF Live
  <2> QED
    BY <1>1, <1>5, <2>1, <2>2, RosterIs
<1>7. IsInjective(targets)
  BY <1>1 DEF IsInjective
<1>8. \A r \in Requests : RequestOK(r)
  <2>1. Remaining = {}
    BY <1>1 DEF Remaining
  <2> QED
    BY <1>1, <2>1 DEF RequestOK, Fresh, Live
<1> QED
  BY <1>1, <1>3, <1>5, <1>6, <1>7, <1>8 DEF StreamInv

\* Every step keeps the invariant.
LEMMA StreamStands ==
  SliceInv /\ StreamInv /\ [StreamNext]_streamVars => StreamInv'
<1> SUFFICES ASSUME SliceInv, StreamInv, [StreamNext]_streamVars PROVE StreamInv'
  OBVIOUS
<1>1. CASE AddEvent
  BY <1>1, AddEventKeepsStream
<1>2. CASE Broadcast
  BY <1>2, CopySubsPreserves, SendNextPreserves, EndBroadcastPreserves
     DEF Broadcast
<1>3. ASSUME NEW r \in Requests,
             \/ Accept(r) \/ Proceed(r) \/ Receive(r) \/ Written(r)
             \/ Notice(r) \/ HangUp(r)
      PROVE  StreamInv'
  <2>1. CASE Accept(r) \/ Written(r)
    <3>1. PICK h \in {"checked", "over", "waiting"} :
            /\ handler' = [handler EXCEPT ![r] = h]
            /\ \/ handler[r] = "new" /\ h \in {"checked", "over"}
               \/ handler[r] = "writing" /\ h = "waiting"
      BY <2>1 DEF Accept, Written
    <3>2. h \in Handlers
      BY DEF Handlers
    <3>3. UNCHANGED <<memory, ring, broadcastVars, subs, chan, sseActive, gone,
                      received, dropped, joined>>
      BY <2>1 DEF Accept, Written, ringVars, streamHistory
    <3> QED
      BY <3>1, <3>2, <3>3, QuietHandlerPreserves
  <2>2. CASE Count(r) \/ Leave(r)
    BY <2>2, CountingPreserves
  <2>3. CASE Subscribe(r)
    BY <2>3, SubscribePreserves
  <2>4. CASE WriteFails(r) \/ Notice(r)
    BY <2>4, ReturnPreserves DEF WriteFails, Notice, Live
  <2>5. CASE Receive(r)
    BY <2>5, ReceivePreserves
  <2>6. CASE HangUp(r)
    BY <2>6, HangUpPreserves
  <2> QED
    BY <1>3, <2>1, <2>2, <2>3, <2>4, <2>5, <2>6 DEF Proceed
<1>4. ASSUME NEW c \in Readers, TakeSnapshot(c) \/ Encode(c) PROVE StreamInv'
  BY <1>4, RingOnlyPreserves DEF TakeSnapshot, Encode
<1>5. CASE UNCHANGED streamVars
  BY <1>5, RingOnlyPreserves DEF streamVars, ringVars, streamHistory
<1> QED
  BY <1>1, <1>2, <1>3, <1>4, <1>5 DEF StreamNext

\* The event that somebody is still to be sent is the last one.
LEMMA DueIs ==
  ASSUME StreamInv, NEW r \in Requests
  PROVE  Due(r) = joined[r] + 1 .. Latest(r)
<1>1. (\E i \in next .. Len(targets) : targets[i] = r) <=> r \in Remaining
  BY DEF Remaining
<1>2. CASE publisher = "copy" \/ (publisher = "send" /\ r \in Remaining)
  BY <1>1, <1>2 DEF Due, Latest
<1>3. CASE ~(publisher = "copy" \/ (publisher = "send" /\ r \in Remaining))
  BY <1>1, <1>3 DEF Due, Latest
<1> QED
  BY <1>2, <1>3

\* The ring never holds more events than it should, no channel more than its
\* buffer, and addEvent's list of channels is one.
THEOREM StreamTypeCorrect == StreamSpec => []StreamTypeOK
<1>1. StreamInv => StreamTypeOK
  BY DEF StreamInv, StreamTypes
<1> QED
  BY <1>1, SliceInit, StreamInitInv, SlicesStand, StreamStands, PTL
     DEF StreamSpec

\* What the invariant says of the events is what the property says of them.
LEMMA InvSkipsNothing == StreamInv => NothingSkipped
<1> SUFFICES ASSUME StreamInv, NEW r \in Requests, handler[r] \in Live
    PROVE LET sent == received[r] \o chan[r]
          IN  /\ \A i, j \in DOMAIN sent : i < j => sent[i] < sent[j]
              /\ ToSet(sent) \cup dropped[r] = Due(r)
              /\ ToSet(sent) \cap dropped[r] = {}
  BY DEF NothingSkipped, Live
<1>1. RequestOK(r) /\ Due(r) = joined[r] + 1 .. Latest(r)
  BY DueIs DEF StreamInv
<1> QED
  BY <1>1 DEF RequestOK, Delivered, Increasing

\* addEvent, subscribe, unsubscribe: whoever is subscribed is sent every event
\* since, in order and once, unless the channel was full; for any number of
\* clients, whatever the order in which they come and go.
THEOREM NobodySkipped == StreamSpec => []NothingSkipped
BY InvSkipsNothing, SliceInit, StreamInitInv, SlicesStand, StreamStands, PTL
   DEF StreamSpec

\* handleSSE, unsubscribe: the list of subscribers and the count of clients
\* are those of the handlers that run, for any number of clients.
THEOREM RosterIsExact == StreamSpec => []NobodyLeftBehind
<1>1. StreamInv => NobodyLeftBehind
  BY DEF StreamInv
<1> QED
  BY <1>1, SliceInit, StreamInitInv, SlicesStand, StreamStands, PTL
     DEF StreamSpec
=============================================================================
