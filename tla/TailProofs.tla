----------------------------- MODULE TailProofs -----------------------------
(***************************************************************************)
(* Proofs about the log and its viewer: the writers keep their count, what *)
(* the browser is sent is one stretch of the log, in order, however       *)
(* output, page, stream and prune interleave, and the log is the output    *)
(* with a timestamp on every line, cut at the limit.                       *)
(***************************************************************************)
EXTENDS LiveTail, Extremes, SequenceTheorems

LEMMA TailConstants ==
  /\ Limit \in Nat /\ StampSize \in Nat \ {0} /\ MaxPiece \in Nat \ {0} /\ MaxInput \in Nat
  /\ MaxWatched \in Nat /\ Chunk \in Nat \ {0} /\ FlushAfter \in Nat
BY LogWriterAssumption, LiveTailAssumption DEF LogWriterAssumption, LiveTailAssumption

LEMMA Slice ==
  ASSUME NEW S, NEW s \in Seq(S), NEW m \in Nat \ {0}, NEW n \in Nat, n <= Len(s)
  PROVE  /\ SubSeq(s, m, n) \in Seq(S)
         /\ Len(SubSeq(s, m, n)) = IF m <= n THEN n - m + 1 ELSE 0
         /\ \A i \in 1..(n - m + 1) : SubSeq(s, m, n)[i] = s[m + i - 1]
<1>1. Len(s) \in Nat /\ \A i \in m..n : s[i] \in S
  <2>1. Len(s) \in Nat
    OBVIOUS
  <2>2. \A i \in m..n : i \in 1..Len(s)
    BY <2>1
  <2>. QED
    BY <2>1, <2>2, ElementOfSeq
<1>. QED
  BY <1>1, SubSeqProperties

-----------------------------------------------------------------------------
(* The writers.                                                              *)

WriterInv == WriterTypeOK /\ written \in Nat

LEMMA WriterFacts ==
  ASSUME WriterInv
  PROVE  /\ file \in Seq(LogByte) /\ Len(file) \in Nat /\ truncated \in BOOLEAN
         /\ rest \in Seq(Char) /\ Len(rest) \in Nat
         /\ written = Len(file) - (IF truncated THEN 1 ELSE 0) /\ written \in Nat
         /\ Limit > 0 => written <= Limit
         /\ Notice \in Seq(LogByte) /\ Len(Notice) = 1
         /\ << >> \in Seq(LogByte) /\ Len(<< >>) = 0
BY DEF WriterInv, WriterTypeOK, Notice, LogByte

(* capWriter keeps its count, and the log only grows.                        *)
LEMMA Capping ==
  ASSUME WriterInv, NEW p \in Seq(LogByte), Cap(p)
  PROVE  /\ file' \in Seq(LogByte) /\ truncated' \in BOOLEAN /\ written' \in Nat
         /\ written' = Len(file') - (IF truncated' THEN Len(Notice) ELSE 0)
         /\ Limit > 0 => written' <= Limit
         /\ Len(file) <= Len(file')
<1>1. Len(p) \in Nat /\ Limit \in Nat
  BY TailConstants
<1>0. Len(Notice) = 1
  BY WriterFacts
<1>2. CASE Limit = 0 \/ written + Len(p) <= Limit
  <2>1. file' = file \o p /\ written' = written + Len(p) /\ truncated' = truncated
    BY <1>2 DEF Cap
  <2>2. file' \in Seq(LogByte) /\ Len(file') = Len(file) + Len(p)
    BY <2>1, WriterFacts, ConcatProperties
  <2>3. written' \in Nat /\ (Limit > 0 => written' <= Limit) /\ Len(file) <= Len(file')
    BY <1>1, <1>2, <2>1, <2>2, WriterFacts
  <2>4. written' = Len(file') - (IF truncated' THEN Len(Notice) ELSE 0)
    <3>1. CASE truncated
      BY <1>0, <1>1, <2>1, <2>2, <3>1, WriterFacts
    <3>2. CASE ~truncated
      <4>1. written = Len(file) /\ Len(file) \in Nat
        BY <3>2, WriterFacts
      <4>2. written' = Len(file')
        BY <1>1, <2>1, <2>2, <4>1
      <4>3. ~truncated'
        BY <2>1, <3>2, Zenon
      <4>. QED
        BY <1>0, <2>2, <4>1, <4>2, <4>3
    <3>. QED
      BY <3>1, <3>2
  <2>. QED
    BY <2>1, <2>2, <2>3, <2>4, WriterFacts
<1>3. CASE ~(Limit = 0 \/ written + Len(p) <= Limit)
  <2>. DEFINE kept == SubSeq(p, 1, Limit - written)
              note == IF truncated THEN << >> ELSE Notice
  <2>1. /\ file' = (file \o kept) \o note
        /\ written' = written + Len(kept) /\ truncated' = TRUE
    BY <1>3 DEF Cap
  <2>2. Limit - written \in Nat /\ Limit - written <= Len(p)
    BY <1>1, <1>3, WriterFacts
  <2>3. kept \in Seq(LogByte) /\ Len(kept) = Limit - written
    BY <2>2, Slice
  <2>4. note \in Seq(LogByte) /\ Len(note) = IF truncated THEN 0 ELSE 1
    BY WriterFacts
  <2>5. file \o kept \in Seq(LogByte) /\ Len(file \o kept) = Len(file) + Len(kept)
    BY <2>3, WriterFacts, ConcatProperties
  <2>6. file' \in Seq(LogByte) /\ Len(file') = Len(file \o kept) + Len(note)
    BY <2>1, <2>4, <2>5, ConcatProperties
  <2>. HIDE DEF kept, note
  <2>7. Len(file') = Len(file) + (Limit - written) + (IF truncated THEN 0 ELSE 1)
    BY <2>3, <2>4, <2>5, <2>6
  <2>8. written' = Limit
    BY <1>1, <2>1, <2>3, WriterFacts
  <2>9. Len(file') = Limit + 1 /\ Len(file) <= Len(file')
    <3>1. CASE truncated
      BY <1>1, <2>2, <2>7, <3>1, WriterFacts
    <3>2. CASE ~truncated
      BY <1>1, <2>2, <2>7, <3>2, WriterFacts, SMTT(30)
    <3>. QED
      BY <3>1, <3>2
  <2>10. written' = Len(file') - Len(Notice)
    BY <1>0, <1>1, <2>8, <2>9
  <2>. QED
    BY <1>1, <2>1, <2>6, <2>8, <2>9, <2>10
<1>. QED
  BY <1>2, <1>3

LEMMA Writing ==
  ASSUME WriterInv, Write
  PROVE  WriterInv' /\ Len(file) <= Len(file')
<1>1. CASE Deliver
  <2>1. PICK n \in 1..MaxPiece :
          \E p \in [1..n -> Char] : rest' = p /\ input' = input \o p
    BY <1>1 DEF Deliver
  <2>2. rest' \in Seq(Char) /\ input' \in Seq(Char)
    BY <2>1, TailConstants DEF WriterInv, WriterTypeOK
  <2>3. UNCHANGED <<atLineStart, written, truncated, file>>
    BY <1>1 DEF Deliver
  <2>. QED
    BY <2>1, <2>2, <2>3, WriterFacts DEF WriterInv, WriterTypeOK
<1>2. CASE WriteStamp
  <2>1. Stamp \in Seq(LogByte)
    BY TailConstants DEF Stamp, LogByte
  <2>2. UNCHANGED <<input, rest>> /\ atLineStart' \in BOOLEAN /\ Cap(Stamp)
    BY <1>2 DEF WriteStamp
  <2>. QED
    BY <2>1, <2>2, Capping DEF WriterInv, WriterTypeOK
<1>3. CASE WriteLine
  <2>. DEFINE ends == {i \in DOMAIN rest : rest[i] = Newline}
              n == IF ends = {} THEN Len(rest) ELSE Min(ends)
  <2>1. n \in 0..Len(rest)
    <3>1. ends \in SUBSET (1..Len(rest))
      BY WriterFacts
    <3>2. ends \in SUBSET Nat
      BY <3>1
    <3>3. ends # {} => \E x \in ends : \A y \in ends : x <= y
      BY <3>2, LeastExists
    <3>4. ends # {} => Min(ends) \in ends
      BY <3>3 DEF Min
    <3>. QED
      BY <3>1, <3>4, WriterFacts
  <2>. HIDE DEF n
  <2>2. /\ Cap(SubSeq(rest, 1, n)) /\ rest' = SubSeq(rest, n + 1, Len(rest))
        /\ atLineStart' \in BOOLEAN /\ UNCHANGED input
    BY <1>3 DEF WriteLine, n
  <2>3. SubSeq(rest, 1, n) \in Seq(Char) /\ rest' \in Seq(Char)
    <3>1. rest \in Seq(Char) /\ Len(rest) \in Nat /\ n \in Nat /\ n <= Len(rest)
      BY <2>1, WriterFacts
    <3>2. SubSeq(rest, 1, n) \in Seq(Char)
      BY <3>1, Slice
    <3>3. SubSeq(rest, n + 1, Len(rest)) \in Seq(Char)
      BY <3>1, Slice
    <3>. QED
      BY <2>2, <3>2, <3>3
  <2>4. SubSeq(rest, 1, n) \in Seq(LogByte)
    BY <2>3, SeqMonotonic DEF LogByte
  <2>. QED
    BY <2>2, <2>3, <2>4, Capping DEF WriterInv, WriterTypeOK
<1>. QED
  BY <1>1, <1>2, <1>3 DEF Write

-----------------------------------------------------------------------------
(* The page and the stream.                                                  *)

(* s is the stretch of the log that follows position from.                   *)
Follows(s, from) == \A i \in 1..Len(s) : s[i] = from + i

Streaming == stream \notin {"ended", "left"}

(* What was sent follows one position, which the page does not show past; as *)
(* long as the stream goes on, the buffer follows what was sent and ends     *)
(* where the log was read to.                                                *)
Stretch(from) ==
  /\ Follows(sent, from)
  /\ page = "live" /\ record # "gone" => shown <= from
  /\ Streaming => /\ Follows(buf, from + Len(sent))
                  /\ from + Len(sent) + Len(buf) = offset

TailInv ==
  /\ WriterInv
  /\ TypeOK
  /\ page # "live" => stream = "none"
  /\ stream = "none" => sent = << >> /\ buf = << >>
  /\ \E from \in 0..offset : Stretch(from)

LEMMA TailFacts ==
  ASSUME TailInv
  PROVE  /\ len \in Nat /\ shown \in Nat /\ shown <= len /\ offset \in Nat /\ offset <= len
         /\ buf \in Seq(Byte) /\ Len(buf) \in Nat /\ sent \in Seq(Byte)
         /\ Len(sent) \in Nat /\ added \subseteq Byte
<1>1. len \in Nat
  BY WriterFacts DEF TailInv, len
<1>. QED
  BY <1>1 DEF TailInv, TypeOK

LEMMA PositionsOf == ASSUME NEW s \in Seq(Byte) PROVE s \in Seq(Nat)
<1>1. Byte \subseteq Nat
  BY DEF Byte
<1>. QED
  BY <1>1, SeqMonotonic

LEMMA Members == ASSUME NEW S, NEW s \in Seq(S) PROVE Range(s) \subseteq S
BY DEF Range

(* A tick sends the buffer up to some point, and keeps what comes after.     *)
LEMMA Cutting ==
  ASSUME NEW b \in Seq(Byte)
  PROVE  \E k \in 0..Len(b) :
           /\ Sent(b) = SubSeq(b, 1, k) /\ Unsent(b) = SubSeq(b, k + 1, Len(b))
           /\ Len(b) - k <= FlushAfter
<1>. DEFINE ends == {0} \cup {k \in DOMAIN b : b[k] \in lineEnds}
            last == LastLine(b)
<1>1. Len(b) \in Nat /\ FlushAfter \in Nat
  BY TailConstants
<1>2. last \in 0..Len(b)
  <2>1. ends \in SUBSET Nat /\ ends # {} /\ \A x \in ends : x <= Len(b)
    BY <1>1
  <2>2. \E x \in ends : \A y \in ends : x >= y
    BY <1>1, <2>1, GreatestExists
  <2>3. last \in ends
    BY <2>2 DEF LastLine, Max
  <2>. QED
    BY <1>1, <2>1, <2>3
<1>. HIDE DEF last
<1>3. SubSeq(b, last + 1, Len(b)) \in Seq(Byte) /\ Len(SubSeq(b, last + 1, Len(b))) = Len(b) - last
  BY <1>1, <1>2, Slice
<1>4. CASE Len(b) - last > FlushAfter
  <2>1. Sent(b) = b /\ Unsent(b) = << >>
    BY <1>3, <1>4 DEF Sent, Unsent, last
  <2>2. SubSeq(b, 1, Len(b)) = b
    BY SubSeqFull
  <2>3. SubSeq(b, Len(b) + 1, Len(b)) = << >>
    BY <1>1, SubSeqEmpty
  <2>4. Len(b) \in 0..Len(b) /\ Len(b) - Len(b) <= FlushAfter
    BY <1>1
  <2>. QED
    BY <2>1, <2>2, <2>3, <2>4
<1>5. CASE ~(Len(b) - last > FlushAfter)
  <2>1. Sent(b) = SubSeq(b, 1, last) /\ Unsent(b) = SubSeq(b, last + 1, Len(b))
    BY <1>3, <1>5 DEF Sent, Unsent, last
  <2>2. Len(b) - last <= FlushAfter
    BY <1>1, <1>2, <1>5
  <2>. QED
    BY <1>2, <2>1, <2>2
<1>. QED
  BY <1>4, <1>5

LEMMA BytesFollow ==
  ASSUME NEW from \in Nat, NEW to \in Nat, from <= to
  PROVE  /\ Bytes(from, to) \in Seq(Nat) /\ Len(Bytes(from, to)) = to - from
         /\ Follows(Bytes(from, to), from)
         /\ \A n \in Nat : to <= n => Bytes(from, to) \in Seq(1..n)
BY DEF Bytes, Follows

LEMMA Joined ==
  ASSUME NEW S, NEW s \in Seq(S), NEW u \in Seq(S), NEW from \in Nat,
         Follows(s, from), Follows(u, from + Len(s))
  PROVE  Follows(s \o u, from)
<1>1. /\ Len(s) \in Nat /\ Len(u) \in Nat /\ Len(s \o u) = Len(s) + Len(u)
      /\ \A i \in 1..(Len(s) + Len(u)) :
           (s \o u)[i] = IF i <= Len(s) THEN s[i] ELSE u[i - Len(s)]
  BY ConcatProperties
<1>2. ASSUME NEW i \in 1..(Len(s) + Len(u)) PROVE (s \o u)[i] = from + i
  <2>1. CASE i <= Len(s)
    BY <1>1, <1>2, <2>1 DEF Follows
  <2>2. CASE ~(i <= Len(s))
    <3>1. i - Len(s) \in 1..Len(u)
      BY <1>1, <2>2
    <3>2. u[i - Len(s)] = (from + Len(s)) + (i - Len(s))
      BY <3>1 DEF Follows
    <3>. QED
      BY <1>1, <2>2, <3>2
  <2>. QED
    BY <2>1, <2>2
<1>. QED
  BY <1>1, <1>2 DEF Follows

LEMMA CutFollows ==
  ASSUME NEW S, NEW s \in Seq(S), NEW from \in Nat, Follows(s, from), NEW k \in 0..Len(s)
  PROVE  /\ Follows(SubSeq(s, 1, k), from) /\ Len(SubSeq(s, 1, k)) = k
         /\ Follows(SubSeq(s, k + 1, Len(s)), from + k)
         /\ Len(SubSeq(s, k + 1, Len(s))) = Len(s) - k
<1>1. Len(s) \in Nat /\ k \in Nat /\ k <= Len(s)
  OBVIOUS
<1>2. /\ Len(SubSeq(s, 1, k)) = k
      /\ \A i \in 1..k : SubSeq(s, 1, k)[i] = s[i]
  <2>1. /\ Len(SubSeq(s, 1, k)) = IF 1 <= k THEN k - 1 + 1 ELSE 0
        /\ \A i \in 1..(k - 1 + 1) : SubSeq(s, 1, k)[i] = s[1 + i - 1]
    BY <1>1, Slice
  <2>. QED
    BY <1>1, <2>1
<1>3. /\ Len(SubSeq(s, k + 1, Len(s))) = Len(s) - k
      /\ \A i \in 1..(Len(s) - k) : SubSeq(s, k + 1, Len(s))[i] = s[k + i]
  <2>1. /\ Len(SubSeq(s, k + 1, Len(s))) =
             IF k + 1 <= Len(s) THEN Len(s) - (k + 1) + 1 ELSE 0
        /\ \A i \in 1..(Len(s) - (k + 1) + 1) :
             SubSeq(s, k + 1, Len(s))[i] = s[(k + 1) + i - 1]
    BY <1>1, Slice
  <2>. QED
    BY <1>1, <2>1
<1>. QED
  BY <1>1, <1>2, <1>3 DEF Follows

LEMMA InitTail == Init => TailInv
<1>. SUFFICES ASSUME Init PROVE TailInv
  OBVIOUS
<1>1. WriterInv
  <2>1. << >> \in Seq(Char) /\ << >> \in Seq(LogByte) /\ Len(<< >>) = 0
    OBVIOUS
  <2>2. written = Len(file) - (IF truncated THEN Len(Notice) ELSE 0)
    BY <2>1 DEF Init, WriterInit
  <2>3. input \in Seq(Char) /\ rest \in Seq(Char) /\ file \in Seq(LogByte)
    BY <2>1 DEF Init, WriterInit
  <2>4. atLineStart \in BOOLEAN /\ truncated \in BOOLEAN
    BY DEF Init, WriterInit
  <2>5. written = 0 /\ written \in Nat /\ (Limit > 0 => written <= Limit)
    BY TailConstants DEF Init, WriterInit
  <2>. QED
    BY <2>2, <2>3, <2>4, <2>5 DEF WriterInv, WriterTypeOK
<1>2. len = 0 /\ << >> \in Seq(Byte) /\ Len(<< >>) = 0
  BY DEF Init, WriterInit, len
<1>3. TypeOK
  BY <1>1, <1>2, TailConstants DEF Init, TypeOK, WriterInv
<1>4. Stretch(0)
  BY <1>2 DEF Init, Stretch, Follows
<1>. QED
  BY <1>1, <1>2, <1>3, <1>4 DEF Init, TailInv

(* The execution.                                                            *)
LEMMA OutputKeeps == TailInv /\ WriteOutput => TailInv'
<1>. SUFFICES ASSUME TailInv, WriteOutput PROVE TailInv'
  OBVIOUS
<1>1. UNCHANGED <<record, page, shown, stream, offset, buf, sent, added>>
  BY DEF WriteOutput, pageVars, tailVars
<1>2. WriterInv' /\ len <= len'
  BY Writing DEF WriteOutput, TailInv, len
<1>3. len \in Nat /\ len' \in Nat
  BY <1>2, WriterFacts DEF TailInv, len, WriterInv, WriterTypeOK
<1>4. Byte \subseteq Byte'
  BY <1>2, <1>3 DEF Byte
<1>5. buf' \in Seq(Byte') /\ sent' \in Seq(Byte') /\ added' \subseteq Byte'
  BY <1>1, <1>4, TailFacts, SeqMonotonic
<1>6. shown' \in 0..len' /\ offset' \in 0..len'
  BY <1>1, <1>2, <1>3, TailFacts
<1>7. TypeOK'
  BY <1>1, <1>2, <1>5, <1>6 DEF TypeOK, TailInv, WriterInv
<1>8. \E from \in 0..offset' : Stretch(from)'
  BY <1>1 DEF TailInv, Stretch, Streaming
<1>. QED
  BY <1>1, <1>2, <1>7, <1>8 DEF TailInv

LEMMA RecordKeeps == TailInv /\ (Finish \/ Prune) => TailInv'
<1>. SUFFICES ASSUME TailInv, Finish \/ Prune PROVE TailInv'
  OBVIOUS
<1>1. /\ UNCHANGED <<writerVars, page, shown, stream, offset, buf, sent, added>>
      /\ record' \in {"torn", "final", "gone"} /\ record # "gone"
  BY DEF Finish, Prune, pageVars, tailVars
<1>2. WriterInv' /\ TypeOK'
  BY <1>1
     DEF TailInv, WriterInv, WriterTypeOK, writerVars, TypeOK, len, Byte
<1>3. \A from : Stretch(from) => Stretch(from)'
  BY <1>1 DEF Stretch, Streaming
<1>. QED
  BY <1>1, <1>2, <1>3 DEF TailInv

(* The page.                                                                 *)
LEMMA PageKeeps == TailInv /\ (PageReadRun \/ PageTail \/ PageStat) => TailInv'
<1>. SUFFICES ASSUME TailInv, PageReadRun \/ PageTail \/ PageStat PROVE TailInv'
  OBVIOUS
<1>1. /\ UNCHANGED <<writerVars, record, stream, buf, sent, added>>
      /\ page # "live" /\ stream = "none" /\ sent = << >> /\ buf = << >>
  BY DEF PageReadRun, PageTail, PageStat, runVars, tailVars, TailInv
<1>2. WriterInv' /\ len' = len /\ Byte' = Byte
  BY <1>1 DEF TailInv, WriterInv, WriterTypeOK, writerVars, len, Byte
<1>3. shown' \in 0..len /\ offset' \in 0..len
  BY <1>1, TailFacts DEF PageReadRun, PageTail, PageStat, tailVars
<1>4. page' \in {"notFound", "tailLive", "tailDone", "stat", "done", "live"}
  BY DEF PageReadRun, PageTail, PageStat
<1>5. TypeOK'
  BY <1>1, <1>2, <1>3, <1>4 DEF TailInv, TypeOK, WriterInv
<1>6. page' = "live" /\ record # "gone" => shown' <= offset'
  BY TailFacts DEF PageReadRun, PageTail, PageStat
<1>7. Stretch(offset)'
  <2>1. Len(sent') = 0 /\ Len(buf') = 0 /\ offset' \in Nat
    BY <1>1, <1>3
  <2>. QED
    <3>1. Follows(sent, offset)' /\ Follows(buf, offset + Len(sent))'
      BY <2>1 DEF Follows
    <3>2. offset' + Len(sent') + Len(buf') = offset'
      <4>1. \A m \in Nat : m + 0 + 0 = m
        OBVIOUS
      <4>. QED
        BY <2>1, <4>1
    <3>. QED
      BY <1>1, <1>6, <3>1, <3>2 DEF Stretch
<1>8. offset' \in 0..offset'
  BY <1>3
<1>. QED
  BY <1>1, <1>2, <1>5, <1>7, <1>8 DEF TailInv

(* A tick: what it reads follows the buffer, and what it sends follows what  *)
(* was sent.                                                                 *)
LEMMA TickKeeps == TailInv /\ ReadChunk => TailInv'
<1>. SUFFICES ASSUME TailInv, ReadChunk PROVE TailInv'
  OBVIOUS
<1>1. /\ UNCHANGED <<writerVars, record, page, shown>>
      /\ stream = "read" /\ stream' = "check" /\ page = "live"
  BY DEF ReadChunk, runVars, pageVars, TailInv
<1>2. WriterInv' /\ len' = len /\ Byte' = Byte
  BY <1>1 DEF TailInv, WriterInv, WriterTypeOK, writerVars, len, Byte
<1>3. PICK from \in 0..offset : Stretch(from)
  BY DEF TailInv
<1>4. CASE record = "gone"
  <2>1. UNCHANGED <<offset, buf, sent, added>>
    BY <1>4 DEF ReadChunk, tailVars
  <2>2. TypeOK'
    BY <1>1, <1>2, <2>1 DEF TailInv, TypeOK, WriterInv
  <2>3. Stretch(from)'
    BY <1>1, <1>3, <2>1 DEF Stretch, Streaming
  <2>. QED
    BY <1>1, <1>2, <2>1, <2>2, <2>3 DEF TailInv
<1>5. CASE record # "gone"
  <2>. DEFINE end == Max({offset, Min({len, offset + Chunk})})
              chunk == Bytes(offset, end)
              b == buf \o chunk
              at == from + Len(sent)
  <2>1. /\ offset' = end /\ buf' = Unsent(b) /\ sent' = sent \o Sent(b)
        /\ added' \subseteq added \cup Range(Sent(b))
    BY <1>5 DEF ReadChunk, Emit
  <2>2. end \in Nat /\ offset <= end /\ end <= len
    <3>1. Min({len, offset + Chunk}) \in {len, offset + Chunk} /\ Min({len, offset + Chunk}) <= len
      <4>1. \E x \in {len, offset + Chunk} : \A y \in {len, offset + Chunk} : x <= y
        BY TailFacts, TailConstants
      <4>. QED
        BY <4>1 DEF Min
    <3>. DEFINE m == Min({len, offset + Chunk})
    <3>2. m \in Nat /\ m <= len
      BY <3>1, TailFacts, TailConstants
    <3>. HIDE DEF m
    <3>3. \E x \in {offset, m} : \A y \in {offset, m} : x >= y
      BY <3>2, TailFacts
    <3>4. Max({offset, m}) \in {offset, m} /\ Max({offset, m}) >= offset
      BY <3>3 DEF Max
    <3>. QED
      BY <3>2, <3>4, TailFacts DEF m
  <2>. HIDE DEF end
  <2>3. chunk \in Seq(Byte) /\ Len(chunk) = end - offset /\ Follows(chunk, offset)
    BY <2>2, TailFacts, BytesFollow DEF Byte
  <2>. HIDE DEF chunk
  <2>4. at \in Nat /\ from \in Nat /\ Follows(buf, at) /\ at + Len(buf) = offset
    BY <1>1, <1>3, TailFacts DEF Stretch, Streaming
  <2>5. Follows(b, at) /\ b \in Seq(Byte) /\ Len(b) = Len(buf) + Len(chunk)
    BY <2>3, <2>4, TailFacts, Joined, ConcatProperties
  <2>. HIDE DEF b
  <2>6. PICK k \in 0..Len(b) :
          /\ Sent(b) = SubSeq(b, 1, k) /\ Unsent(b) = SubSeq(b, k + 1, Len(b))
          /\ Len(b) - k <= FlushAfter
    BY <2>5, Cutting
  <2>7. /\ Follows(Sent(b), at) /\ Len(Sent(b)) = k
        /\ Follows(Unsent(b), at + k) /\ Len(Unsent(b)) = Len(b) - k
    <3>1. /\ Follows(SubSeq(b, 1, k), at) /\ Len(SubSeq(b, 1, k)) = k
          /\ Follows(SubSeq(b, k + 1, Len(b)), at + k)
          /\ Len(SubSeq(b, k + 1, Len(b))) = Len(b) - k
      BY <2>4, <2>5, CutFollows
    <3>. QED
      BY <2>6, <3>1
  <2>8. Sent(b) \in Seq(Byte) /\ Unsent(b) \in Seq(Byte)
    BY <2>5, <2>6, Slice
  <2>8a. added' \subseteq Byte
    BY <2>1, <2>8, TailFacts, Members
  <2>9. /\ sent' \in Seq(Byte) /\ Len(sent') = Len(sent) + k
        /\ Follows(sent', from)
    BY <1>3, <2>1, <2>4, <2>7, <2>8, TailFacts, Joined, ConcatProperties DEF Stretch
  <2>10. from + Len(sent') = at + k /\ from + Len(sent') + Len(buf') = offset'
    <3>1. k \in Nat /\ Len(sent) \in Nat /\ Len(buf) \in Nat /\ offset \in Nat
      BY <2>2, <2>3, <2>5, TailFacts
    <3>2. at + Len(b) = end
      BY <2>2, <2>3, <2>4, <2>5, <3>1, SMTT(30)
    <3>3. Len(buf') = Len(b) - k /\ Len(b) \in Nat /\ offset' = end
      BY <2>1, <2>5, <2>7
    <3>4. from + Len(sent') = at + k
      BY <2>4, <2>9, <3>1
    <3>. QED
      BY <2>4, <3>1, <3>2, <3>3, <3>4
  <2>11. Stretch(from)'
    BY <1>1, <1>3, <2>1, <2>7, <2>9, <2>10 DEF Stretch
  <2>12. TypeOK'
    BY <1>1, <1>2, <2>1, <2>2, <2>6, <2>7, <2>8, <2>9, <2>8a, SMTT(30) DEF TailInv, TypeOK, WriterInv
  <2>13. from \in 0..offset'
    BY <2>1, <2>2, <2>4, TailFacts
  <2>. QED
    BY <1>1, <1>2, <2>11, <2>12, <2>13 DEF TailInv
<1>. QED
  BY <1>4, <1>5

(* The end of the stream, and what moves it on without touching a byte.      *)
LEMMA StreamKeeps == TailInv /\ (Connect \/ SendEnd \/ NextTick \/ Leave) => TailInv'
<1>. SUFFICES ASSUME TailInv, Connect \/ SendEnd \/ NextTick \/ Leave PROVE TailInv'
  OBVIOUS
<1>1. /\ UNCHANGED <<writerVars, record, page, shown, offset, buf>>
      /\ page = "live" /\ Streaming /\ stream' \in {"read", "ended", "left"}
      /\ stream' = "ended" => sent' = sent \o buf
      /\ stream' # "ended" => sent' = sent
      /\ added' \subseteq added \cup Range(buf)
  BY DEF Emit, Connect, SendEnd, NextTick, Leave, runVars, pageVars, tailVars, TailInv, Streaming
<1>2. WriterInv' /\ len' = len /\ Byte' = Byte
  BY <1>1 DEF TailInv, WriterInv, WriterTypeOK, writerVars, len, Byte
<1>3. PICK from \in 0..offset : Stretch(from)
  BY DEF TailInv
<1>4. sent' \in Seq(Byte) /\ Follows(sent', from)
  <2>1. from \in Nat /\ Follows(sent, from) /\ Follows(buf, from + Len(sent))
    BY <1>1, <1>3, TailFacts DEF Stretch
  <2>2. sent \o buf \in Seq(Byte) /\ Follows(sent \o buf, from)
    BY <2>1, TailFacts, Joined, ConcatProperties
  <2>. QED
    BY <1>1, <2>1, <2>2, TailFacts
<1>4a. added' \subseteq Byte
  BY <1>1, TailFacts, Members
<1>5. TypeOK'
  BY <1>1, <1>2, <1>4, <1>4a DEF TailInv, TypeOK, WriterInv
<1>6. Stretch(from)'
  BY <1>1, <1>3, <1>4 DEF Stretch, Streaming
<1>. QED
  BY <1>1, <1>2, <1>5, <1>6 DEF TailInv

LEMMA TailInvariant == Spec => []TailInv
<1>1. TailInv /\ UNCHANGED vars => TailInv'
  <2>. SUFFICES ASSUME TailInv, UNCHANGED vars PROVE TailInv'
    OBVIOUS
  <2>1. UNCHANGED <<writerVars, record, page, shown, stream, offset, buf, sent, added>>
    BY DEF vars, runVars, pageVars, tailVars
  <2>2. WriterInv' /\ TypeOK'
    BY <2>1 DEF TailInv, WriterInv, WriterTypeOK, writerVars, TypeOK, len, Byte
  <2>3. \A from : Stretch(from) => Stretch(from)'
    BY <2>1 DEF Stretch, Streaming
  <2>. QED
    BY <2>1, <2>2, <2>3 DEF TailInv
<1>2. TailInv /\ [Next]_vars => TailInv'
  BY <1>1, OutputKeeps, RecordKeeps, PageKeeps, TickKeeps, StreamKeeps DEF Next, Server
<1>. QED
  BY <1>2, InitTail, PTL DEF Spec

-----------------------------------------------------------------------------
(* The count of capWriter fits the log and never passes the limit; the page  *)
(* and the stream are never past the end of the log, and what is read and    *)
(* not sent never exceeds sseFlushAfter.                                     *)
THEOREM TailTyping == Spec => []TypeOK
BY TailInvariant, PTL DEF TailInv

(* No byte of the log is sent to the browser twice or out of order.          *)
THEOREM Once == Spec => []NothingRepeated
<1>1. TailInv => NothingRepeated
  <2>. SUFFICES ASSUME TailInv, record # "gone",
                       NEW i \in 1..(Len(Viewed) - 1)
                PROVE  Viewed[i] < Viewed[i + 1]
    BY DEF NothingRepeated
  <2>1. PICK from \in 0..offset : Stretch(from)
    BY DEF TailInv
  <2>2. /\ Bytes(0, shown) \in Seq(Nat) /\ Len(Bytes(0, shown)) = shown
        /\ Follows(Bytes(0, shown), 0)
    <3>1. 0 \in Nat /\ shown \in Nat /\ 0 <= shown /\ shown - 0 = shown
      BY TailFacts
    <3>. QED
      BY <3>1, BytesFollow
  <2>3. sent \in Seq(Nat)
    BY TailFacts, PositionsOf
  <2>4. /\ Len(Viewed) = shown + Len(sent)
        /\ \A n \in 1..(shown + Len(sent)) :
             Viewed[n] = IF n <= shown THEN Bytes(0, shown)[n] ELSE sent[n - shown]
    <3>. DEFINE front == Bytes(0, shown)
    <3>1. front \in Seq(Nat) /\ Len(front) = shown
      BY <2>2
    <3>. HIDE DEF front
    <3>2. /\ Len(front \o sent) = Len(front) + Len(sent)
          /\ \A n \in 1..(Len(front) + Len(sent)) :
               (front \o sent)[n] =
                 IF n <= Len(front) THEN front[n] ELSE sent[n - Len(front)]
      BY <2>3, <3>1, ConcatProperties
    <3>. QED
      BY <3>1, <3>2 DEF Viewed, front
  <2>5. \A n \in 1..Len(Viewed) : n <= shown => Viewed[n] = n
    <3>. SUFFICES ASSUME NEW n \in 1..Len(Viewed), n <= shown PROVE Viewed[n] = n
      OBVIOUS
    <3>1. n \in 1..shown /\ n \in 1..(shown + Len(sent))
      BY <2>4, TailFacts
    <3>2. Viewed[n] = Bytes(0, shown)[n]
      BY <2>4, <3>1
    <3>3. Bytes(0, shown)[n] = 0 + n
      BY <2>2, <3>1 DEF Follows
    <3>. QED
      BY <3>1, <3>2, <3>3
  <2>6. \A n \in 1..Len(Viewed) : n > shown => Viewed[n] = from + (n - shown)
    <3>. SUFFICES ASSUME NEW n \in 1..Len(Viewed), n > shown
                  PROVE  Viewed[n] = from + (n - shown)
      OBVIOUS
    <3>1. n - shown \in 1..Len(sent) /\ n \in 1..(shown + Len(sent)) /\ ~(n <= shown)
      BY <2>4, TailFacts
    <3>. QED
      BY <2>1, <2>4, <3>1 DEF Stretch, Follows
  <2>7. sent # << >> => shown <= from
    BY <2>1 DEF Stretch, TailInv
  <2>8. Len(Viewed) > shown => sent # << >>
    BY <2>4, TailFacts
  <2>9. i \in 1..Len(Viewed) /\ i + 1 \in 1..Len(Viewed) /\ Len(Viewed) \in Nat
    BY <2>4, TailFacts
  <2>. QED
    BY <2>5, <2>6, <2>7, <2>8, <2>9, TailFacts, SMTT(30)
<1>. QED
  BY <1>1, TailInvariant, PTL

(* The stream leaves nothing out: sent and buffered bytes are those from its *)
(* first offset to where it has read.                                        *)
THEOREM Complete == Spec => []StreamComplete
<1>1. TailInv => StreamComplete
  <2>. SUFFICES ASSUME TailInv, stream \in {"read", "check"}, sent \o buf # << >>
                PROVE  sent \o buf = Bytes((sent \o buf)[1] - 1, offset)
    BY DEF StreamComplete
  <2>. DEFINE s == sent \o buf
  <2>1. PICK from \in 0..offset : Stretch(from)
    BY DEF TailInv
  <2>2. from \in Nat /\ offset \in Nat /\ from <= offset
    BY TailFacts
  <2>3. s \in Seq(Byte) /\ Len(s) = Len(sent) + Len(buf)
    BY TailFacts, ConcatProperties
  <2>4. Follows(s, from) /\ Len(s) = offset - from
    <3>1. Follows(sent, from) /\ Follows(buf, from + Len(sent))
          /\ from + Len(sent) + Len(buf) = offset
      BY <2>1 DEF Stretch, Streaming
    <3>. QED
      BY <2>2, <2>3, <3>1, TailFacts, Joined
  <2>. HIDE DEF s
  <2>5. s # << >> => s[1] = from + 1
    BY <2>3, <2>4 DEF Follows
  <2>6. s = Bytes(from, offset)
    <3>1. s \in Seq(Nat)
      BY <2>3, PositionsOf
    <3>2. /\ Bytes(from, offset) \in Seq(Nat) /\ Len(Bytes(from, offset)) = offset - from
          /\ Follows(Bytes(from, offset), from)
      BY <2>2, BytesFollow
    <3>. QED
      BY <2>4, <3>1, <3>2, SeqEqual DEF Follows
  <2>. QED
    BY <2>2, <2>5, <2>6 DEF s
<1>. QED
  BY <1>1, TailInvariant, PTL

-----------------------------------------------------------------------------
(* FlattenSeq: the recursive function that the community module defines it   *)
(* by exists and is the only one.                                            *)
Flat(w) == CHOOSE f : f = [i \in 1..Len(w) |-> IF i = 1 THEN w[i] ELSE f[i-1] \o w[i]]

LEMMA FlattenUnfolds ==
  ASSUME NEW w, Len(w) # 0
  PROVE  FlattenSeq(w) = Flat(w)[Len(w)]
BY DEF FlattenSeq, Flat

LEMMA FlattenNone ==
  ASSUME NEW w, Len(w) = 0
  PROVE  FlattenSeq(w) = w
BY DEF FlattenSeq

Builds(w, f, n) ==
  \A i \in 1..n : f[i] = IF i = 1 THEN w[i] ELSE f[i - 1] \o w[i]

LEMMA FlatExists ==
  ASSUME NEW S, NEW w \in Seq(Seq(S))
  PROVE  \E f \in [1..Len(w) -> Seq(S)] : Builds(w, f, Len(w))
<1>. DEFINE N == {n \in Nat : n <= Len(w) => \E f \in [1..n -> Seq(S)] : Builds(w, f, n)}
<1>1. 0 \in N
  <2>1. [i \in 1..0 |-> << >>] \in [1..0 -> Seq(S)] /\ Builds(w, [i \in 1..0 |-> << >>], 0)
    BY DEF Builds
  <2>. QED
    BY <2>1
<1>2. ASSUME NEW n \in Nat, n \in N PROVE n + 1 \in N
  <2>. SUFFICES ASSUME n + 1 <= Len(w)
                PROVE  \E g \in [1..(n + 1) -> Seq(S)] : Builds(w, g, n + 1)
    OBVIOUS
  <2>1. Len(w) \in Nat /\ w[n + 1] \in Seq(S)
    <3>1. Len(w) \in Nat
      BY LenProperties
    <3>2. n + 1 \in 1..Len(w)
      BY <3>1
    <3>. QED
      BY <3>1, <3>2, ElementOfSeq
  <2>2. PICK f \in [1..n -> Seq(S)] : Builds(w, f, n)
    BY <1>2, <2>1
  <2>3. CASE n = 0
    <3>. DEFINE g == [i \in 1..1 |-> w[1]]
    <3>1. g \in [1..1 -> Seq(S)] /\ Builds(w, g, 1)
      BY <2>1, <2>3 DEF Builds
    <3>. QED
      BY <2>3, <3>1
  <2>4. CASE n # 0
    <3>1. f[n] \in Seq(S)
      BY <2>4
    <3>2. f[n] \o w[n + 1] \in Seq(S)
      BY <2>1, <3>1, ConcatProperties
    <3>. DEFINE last == f[n] \o w[n + 1]
                g == [i \in 1..(n + 1) |-> IF i = n + 1 THEN last ELSE f[i]]
    <3>3. last \in Seq(S)
      BY <3>2
    <3>. HIDE DEF last
    <3>4. /\ g \in [1..(n + 1) -> Seq(S)]
          /\ \A i \in 1..n : g[i] = f[i]
          /\ g[n + 1] = last
      BY <3>3
    <3>. HIDE DEF g
    <3>6. Builds(w, g, n + 1)
      <4>. SUFFICES ASSUME NEW i \in 1..(n + 1)
                    PROVE  g[i] = IF i = 1 THEN w[i] ELSE g[i - 1] \o w[i]
        BY DEF Builds
      <4>1. CASE i = n + 1
        <5>1. i # 1 /\ i - 1 = n /\ i - 1 \in 1..n /\ w[i] = w[n + 1]
          BY <2>4, <4>1
        <5>2. g[i] = last /\ g[i - 1] = f[n]
          BY <3>4, <4>1, <5>1
        <5>. QED
          BY <5>1, <5>2 DEF last
      <4>2. CASE i # n + 1
        <5>1. i \in 1..n /\ (i # 1 => i - 1 \in 1..n)
          BY <4>2
        <5>. QED
          <6>1. f[i] = IF i = 1 THEN w[i] ELSE f[i - 1] \o w[i]
            BY <2>2, <5>1 DEF Builds
          <6>2. g[i] = f[i] /\ (i # 1 => g[i - 1] = f[i - 1])
            BY <3>4, <5>1
          <6>. QED
            BY <6>1, <6>2
      <4>. QED
        BY <4>1, <4>2
    <3>. QED
      BY <3>4, <3>6
  <2>. QED
    BY <2>3, <2>4
<1>3. Nat \subseteq N
  <2>. HIDE DEF N
  <2>. QED
    BY <1>1, <1>2, AllNat
<1>. QED
  BY <1>3, LenProperties

LEMMA FlatUnique ==
  ASSUME NEW n \in Nat, NEW w, NEW f, NEW g, NEW v, Builds(w, f, n), Builds(v, g, n),
         \A i \in 1..n : w[i] = v[i]
  PROVE  \A i \in 1..n : f[i] = g[i]
<1>. DEFINE N == {i \in Nat : i \in 1..n => f[i] = g[i]}
<1>1. 0 \in N
  OBVIOUS
<1>2. ASSUME NEW i \in Nat, i \in N PROVE i + 1 \in N
  <2>. SUFFICES ASSUME i + 1 \in 1..n PROVE f[i + 1] = g[i + 1]
    OBVIOUS
  <2>1. /\ f[i + 1] = IF i + 1 = 1 THEN w[i + 1] ELSE f[i + 1 - 1] \o w[i + 1]
        /\ g[i + 1] = IF i + 1 = 1 THEN v[i + 1] ELSE g[i + 1 - 1] \o v[i + 1]
    BY DEF Builds
  <2>2. i + 1 - 1 = i /\ (i + 1 # 1 => f[i] = g[i])
    BY <1>2
  <2>. QED
    BY <2>1, <2>2
<1>3. Nat \subseteq N
  <2>. HIDE DEF N
  <2>. QED
    BY <1>1, <1>2, AllNat
<1>. QED
  BY <1>3

LEMMA FlatBuilds ==
  ASSUME NEW S, NEW w \in Seq(Seq(S))
  PROVE  Flat(w) \in [1..Len(w) -> Seq(S)] /\ Builds(w, Flat(w), Len(w))
<1>1. PICK f \in [1..Len(w) -> Seq(S)] : Builds(w, f, Len(w))
  BY FlatExists
<1>2. f = [i \in 1..Len(w) |-> IF i = 1 THEN w[i] ELSE f[i-1] \o w[i]]
  BY <1>1 DEF Builds
<1>3. Flat(w) = [i \in 1..Len(w) |-> IF i = 1 THEN w[i] ELSE Flat(w)[i-1] \o w[i]]
  BY <1>2 DEF Flat
<1>. DEFINE F == Flat(w)
<1>4. Builds(w, F, Len(w))
  <2>. HIDE DEF F
  <2>. QED
    BY <1>3 DEF Builds, F
<1>5. \A i \in 1..Len(w) : F[i] = f[i]
  BY <1>1, <1>4, FlatUnique, LenProperties
<1>6. F \in [1..Len(w) -> Seq(S)]
  BY <1>3, <1>5
<1>. QED
  BY <1>4, <1>6

(* v is w and one sequence more.                                             *)
Longer(w, v, x) ==
  /\ Len(w) \in Nat \ {0} /\ Len(v) = Len(w) + 1
  /\ v[Len(v)] = x /\ \A i \in 1..Len(w) : w[i] = v[i]

LEMMA FlattenLonger ==
  ASSUME NEW w, NEW v, NEW x, Longer(w, v, x),
         Builds(w, Flat(w), Len(w)), Builds(v, Flat(v), Len(v))
  PROVE  FlattenSeq(v) = FlattenSeq(w) \o x
<1>0. PICK n \in Nat \ {0} : n = Len(w)
  BY DEF Longer
<1>. PICK m \in Nat : m = n + 1
  OBVIOUS
<1>. m = Len(v) /\ v[m] = x /\ \A i \in 1..n : w[i] = v[i]
  BY <1>0 DEF Longer
<1>1. PICK f : f = Flat(w)
  OBVIOUS
<1>2. PICK g : g = Flat(v)
  OBVIOUS
<1>3. Builds(w, f, n) /\ Builds(v, g, m)
  BY <1>0, <1>1, <1>2
<1>4. Builds(v, g, n)
  <2>1. \A i \in 1..n : i \in 1..m
    OBVIOUS
  <2>. QED
    BY <1>3, <2>1 DEF Builds
<1>5. f[n] = g[n]
  BY <1>3, <1>4, FlatUnique
<1>6. g[m] = f[n] \o v[m]
  <2>1. m \in 1..m /\ m # 1 /\ m - 1 = n
    OBVIOUS
  <2>2. g[m] = IF m = 1 THEN v[m] ELSE g[m - 1] \o v[m]
    BY <1>3, <2>1 DEF Builds
  <2>. QED
    BY <1>5, <2>1, <2>2
<1>7. FlattenSeq(w) = f[n] /\ FlattenSeq(v) = g[m]
  BY <1>0, <1>1, <1>2, FlattenUnfolds
<1>. QED
  BY <1>6, <1>7

LEMMA FlattenAppend ==
  ASSUME NEW S, NEW w \in Seq(Seq(S)), NEW x \in Seq(S)
  PROVE  /\ FlattenSeq(w) \in Seq(S)
         /\ FlattenSeq(Append(w, x)) = FlattenSeq(w) \o x
<1>. DEFINE v == Append(w, x)
            n == Len(w)
            m == Len(v)
<1>1. /\ n \in Nat /\ v \in Seq(Seq(S)) /\ m = n + 1
      /\ \A i \in 1..n : w[i] = v[i]
      /\ v[m] = x
  BY AppendProperties, LenProperties
<1>2. Flat(w) \in [1..n -> Seq(S)] /\ Builds(w, Flat(w), n)
  BY FlatBuilds
<1>3. Flat(v) \in [1..m -> Seq(S)] /\ Builds(v, Flat(v), m)
  BY <1>1, FlatBuilds
<1>. HIDE DEF v, n, m
<1>4. FlattenSeq(v) = Flat(v)[m]
  <2>1. Len(v) # 0
    BY <1>1 DEF m
  <2>. QED
    BY <2>1, FlattenUnfolds DEF m
<1>5. CASE n = 0
  <2>1. FlattenSeq(w) = w /\ w = << >>
    BY <1>5, FlattenNone, EmptySeq DEF n
  <2>2. FlattenSeq(v) = x
    BY <1>1, <1>3, <1>4, <1>5 DEF Builds
  <2>. QED
    BY <2>1, <2>2, ConcatEmptySeq DEF v
<1>6. CASE n # 0
  <2>1. FlattenSeq(w) \in Seq(S)
    <3>1. FlattenSeq(w) = Flat(w)[n]
      BY <1>6, FlattenUnfolds DEF n
    <3>. QED
      BY <1>1, <1>2, <1>6, <3>1
  <2>2. FlattenSeq(v) = FlattenSeq(w) \o x
    <3>1. Longer(w, v, x)
      BY <1>1, <1>6 DEF Longer, n, m
    <3>2. Builds(w, Flat(w), Len(w)) /\ Builds(v, Flat(v), Len(v))
      BY <1>2, <1>3 DEF n, m
    <3>. QED
      BY <3>1, <3>2, FlattenLonger
  <2>. QED
    BY <1>1, <2>1, <2>2 DEF v
<1>. QED
  BY <1>5, <1>6

-----------------------------------------------------------------------------
(* The log as a function of the output.                                      *)

LineStart(s) == s = << >> \/ s[Len(s)] = Newline

(* What the next byte after s adds to the stamped text.                      *)
Piece(s, c) == IF LineStart(s) THEN Stamp \o <<c>> ELSE <<c>>

Pieces(s) ==
  [i \in DOMAIN s |-> IF i = 1 \/ s[i - 1] = Newline THEN Stamp \o <<s[i]>> ELSE <<s[i]>>]

LEMMA LogBytes ==
  /\ Stamp \in Seq(LogByte) /\ Notice \in Seq(LogByte) /\ << >> \in Seq(LogByte)
  /\ Len(Notice) = 1
  /\ \A c \in Char : <<c>> \in Seq(LogByte) /\ Stamp \o <<c>> \in Seq(LogByte)
  /\ Seq(Char) \subseteq Seq(LogByte)
<1>1. Stamp \in Seq(LogByte)
  BY TailConstants DEF Stamp, LogByte
<1>2. \A c \in Char : <<c>> \in Seq(LogByte)
  BY DEF LogByte
<1>3. \A c \in Char : Stamp \o <<c>> \in Seq(LogByte)
  BY <1>1, <1>2, ConcatProperties
<1>4. Seq(Char) \subseteq Seq(LogByte)
  BY SeqMonotonic DEF LogByte
<1>. QED
  BY <1>1, <1>2, <1>3, <1>4 DEF Notice, LogByte

LEMMA PiecesMore ==
  ASSUME NEW s \in Seq(Char), NEW c \in Char
  PROVE  /\ Pieces(s) \in Seq(Seq(LogByte)) /\ Len(Pieces(s)) = Len(s)
         /\ Pieces(Append(s, c)) = Append(Pieces(s), Piece(s, c))
<1>. DEFINE v == Append(s, c)
            n == Len(s)
            a == Pieces(s)
            b == Pieces(v)
<1>1. ASSUME NEW u \in Seq(Char)
      PROVE  /\ Pieces(u) \in Seq(Seq(LogByte)) /\ Len(Pieces(u)) = Len(u)
             /\ \A i \in 1..Len(u) :
                  Pieces(u)[i] = IF i = 1 \/ u[i - 1] = Newline THEN Stamp \o <<u[i]>> ELSE <<u[i]>>
  <2>1. Len(u) \in Nat /\ DOMAIN u = 1..Len(u) /\ \A i \in 1..Len(u) : u[i] \in Char
    BY LenProperties, ElementOfSeq
  <2>2. \A i \in 1..Len(u) : Pieces(u)[i] \in Seq(LogByte)
    BY <2>1, LogBytes DEF Pieces
  <2>3. Pieces(u) \in [1..Len(u) -> Seq(LogByte)]
    BY <2>1, <2>2 DEF Pieces
  <2>4. Pieces(u) \in Seq(Seq(LogByte)) /\ Len(Pieces(u)) = Len(u)
    BY <2>1, <2>3
  <2>. QED
    BY <2>1, <2>4 DEF Pieces
<1>2. /\ n \in Nat /\ v \in Seq(Char) /\ Len(v) = n + 1
      /\ \A i \in 1..n : v[i] = s[i]
      /\ v[n + 1] = c
  BY AppendProperties, LenProperties
<1>3. Piece(s, c) \in Seq(LogByte)
  BY LogBytes DEF Piece
<1>4. /\ Append(a, Piece(s, c)) \in Seq(Seq(LogByte)) /\ Len(Append(a, Piece(s, c))) = n + 1
      /\ \A i \in 1..n : Append(a, Piece(s, c))[i] = a[i]
      /\ Append(a, Piece(s, c))[n + 1] = Piece(s, c)
  <2>1. a \in Seq(Seq(LogByte)) /\ Len(a) = n
    BY <1>1
  <2>. HIDE DEF a
  <2>. QED
    BY <1>3, <2>1, AppendProperties
<1>5. b \in Seq(Seq(LogByte)) /\ Len(b) = n + 1
  BY <1>1, <1>2
<1>6. ASSUME NEW i \in 1..(n + 1) PROVE b[i] = Append(a, Piece(s, c))[i]
  <2>. HIDE DEF v
  <2>1. b[i] = IF i = 1 \/ v[i - 1] = Newline THEN Stamp \o <<v[i]>> ELSE <<v[i]>>
    BY <1>1, <1>2
  <2>2. CASE i = n + 1
    <3>1. v[i] = c /\ i - 1 = n
      BY <1>2, <2>2
    <3>2. (i = 1 \/ v[i - 1] = Newline) <=> LineStart(s)
      <4>1. n = 0 <=> s = << >>
        BY EmptySeq, <1>2
      <4>2. n # 0 => v[n] = s[n]
        BY <1>2
      <4>. QED
        BY <1>2, <2>2, <3>1, <4>1, <4>2 DEF LineStart
    <3>. QED
      BY <1>4, <2>1, <2>2, <3>1, <3>2 DEF Piece
  <2>3. CASE i # n + 1
    <3>1. i \in 1..n /\ (i # 1 => i - 1 \in 1..n)
      BY <1>2, <2>3
    <3>2. v[i] = s[i] /\ (i # 1 => v[i - 1] = s[i - 1])
      BY <1>2, <3>1
    <3>3. a[i] = IF i = 1 \/ s[i - 1] = Newline THEN Stamp \o <<s[i]>> ELSE <<s[i]>>
      BY <1>1, <3>1
    <3>4. b[i] = a[i]
      BY <2>1, <3>2, <3>3
    <3>. QED
      BY <1>4, <3>1, <3>4
  <2>. QED
    BY <2>2, <2>3
<1>7. b = Append(a, Piece(s, c))
  <2>. HIDE DEF a, b
  <2>. QED
    BY <1>4, <1>5, <1>6, SeqEqual
<1>. QED
  BY <1>1, <1>7

LEMMA StampedMore ==
  ASSUME NEW s \in Seq(Char), NEW c \in Char
  PROVE  Stamped(s) \in Seq(LogByte) /\ Stamped(Append(s, c)) = Stamped(s) \o Piece(s, c)
<1>1. \A u : Stamped(u) = FlattenSeq(Pieces(u))
  BY DEF Stamped, Pieces
<1>2. Piece(s, c) \in Seq(LogByte)
  BY LogBytes DEF Piece
<1>3. Pieces(s) \in Seq(Seq(LogByte))
  BY PiecesMore
<1>4. /\ FlattenSeq(Pieces(s)) \in Seq(LogByte)
      /\ FlattenSeq(Append(Pieces(s), Piece(s, c))) = FlattenSeq(Pieces(s)) \o Piece(s, c)
  BY <1>2, <1>3, FlattenAppend
<1>. QED
  BY <1>1, <1>4, PiecesMore

LEMMA StampedNone == Stamped(<< >>) = << >>
<1>1. Pieces(<< >>) = << >> /\ Len(<< >>) = 0
  BY DEF Pieces
<1>. QED
  BY <1>1, FlattenNone DEF Stamped, Pieces

Opening(s) == IF LineStart(s) THEN Stamp ELSE << >>

(* A stretch without a newline, except perhaps its last byte, goes on as it  *)
(* is, behind at most one timestamp.                                         *)
LEMMA StampedStretch ==
  ASSUME NEW s \in Seq(Char), NEW p \in Seq(Char), p # << >>,
         \A i \in 1..(Len(p) - 1) : p[i] # Newline
  PROVE  Stamped(s \o p) = (Stamped(s) \o Opening(s)) \o p
<1>. DEFINE start == Stamped(s) \o Opening(s)
            cut(k) == SubSeq(p, 1, k)
            N == {k \in Nat : k \in 1..Len(p) => Stamped(s \o cut(k)) = start \o cut(k)}
<1>1. /\ Len(p) \in Nat /\ p[1] \in Char /\ Len(p) # 0
      /\ Stamped(s) \in Seq(LogByte) /\ Opening(s) \in Seq(LogByte) /\ start \in Seq(LogByte)
  <2>1. Len(p) \in Nat /\ Len(p) # 0
    BY EmptySeq, LenProperties
  <2>2. 1 \in 1..Len(p)
    BY <2>1
  <2>3. p[1] \in Char
    BY <2>2, ElementOfSeq
  <2>4. Stamped(s) \in Seq(LogByte)
    BY <2>3, StampedMore
  <2>5. Opening(s) \in Seq(LogByte)
    BY LogBytes DEF Opening
  <2>. QED
    BY <2>1, <2>3, <2>4, <2>5, ConcatProperties
<1>. HIDE DEF start
<1>2. 0 \in N
  OBVIOUS
<1>3. ASSUME NEW k \in Nat, k \in N PROVE k + 1 \in N
  <2>. SUFFICES ASSUME k + 1 \in 1..Len(p)
                PROVE  Stamped(s \o cut(k + 1)) = start \o cut(k + 1)
    OBVIOUS
  <2>. DEFINE c == p[k + 1]
              u == s \o cut(k)
  <2>1. c \in Char
    BY <1>1, ElementOfSeq
  <2>2. /\ cut(k) \in Seq(Char) /\ Len(cut(k)) = k
        /\ \A i \in 1..k : cut(k)[i] = p[i]
        /\ cut(k + 1) = cut(k) \o <<c>>
    <3>1. k <= Len(p) /\ k \in 0..Len(p)
      BY <1>1
    <3>2. cut(k) \in Seq(Char) /\ Len(cut(k)) = IF 1 <= k THEN k - 1 + 1 ELSE 0
      BY <3>1, <1>1, Slice
    <3>3. \A i \in 1..(k - 1 + 1) : cut(k)[i] = p[1 + i - 1]
      BY <3>1, <1>1, Slice
    <3>4. cut(k + 1) = SubSeq(p, 1, k + 1 - 1) \o <<p[k + 1]>>
      BY <1>1, SubSeqRecursiveSecond
    <3>5. k + 1 - 1 = k /\ k - 1 + 1 = k /\ \A i \in 1..k : 1 + i - 1 = i
      OBVIOUS
    <3>. QED
      BY <3>2, <3>3, <3>4, <3>5
  <2>. HIDE DEF c, cut
  <2>3. <<c>> \in Seq(Char) /\ <<c>> \in Seq(LogByte) /\ cut(k) \in Seq(LogByte)
    BY <2>1, <2>2, LogBytes
  <2>4. u \in Seq(Char) /\ s \o cut(k + 1) = u \o <<c>> /\ u \o <<c>> = Append(u, c)
    <3>1. u \in Seq(Char)
      BY <2>2, ConcatProperties
    <3>2. s \o (cut(k) \o <<c>>) = (s \o cut(k)) \o <<c>>
      BY <2>2, <2>3, ConcatAssociative, SMTT(30)
    <3>3. u \o <<c>> = Append(u, c)
      BY <2>1, <3>1, AppendIsConcat
    <3>. QED
      BY <2>2, <3>1, <3>2, <3>3
  <2>5. Stamped(s \o cut(k + 1)) = Stamped(u) \o Piece(u, c)
    BY <2>1, <2>4, StampedMore
  <2>6. CASE k = 0
    <3>1. cut(k) = << >>
      BY <2>2, <2>6, EmptySeq
    <3>2. u = s
      BY <3>1, ConcatEmptySeq
    <3>3. Piece(s, c) = Opening(s) \o <<c>>
      BY <2>3, LogBytes, ConcatEmptySeq DEF Piece, Opening
    <3>4. Stamped(s) \o (Opening(s) \o <<c>>) = (Stamped(s) \o Opening(s)) \o <<c>>
      <4>1. PICK a \in Seq(LogByte) : a = Stamped(s)
        BY <1>1
      <4>2. PICK b \in Seq(LogByte) : b = Opening(s)
        BY <1>1
      <4>3. a \o (b \o <<c>>) = (a \o b) \o <<c>>
        BY <2>3, ConcatAssociative, SMTT(30)
      <4>. QED
        BY <4>1, <4>2, <4>3
    <3>5. cut(k + 1) = <<c>>
      BY <2>2, <2>3, <3>1, ConcatEmptySeq
    <3>. QED
      BY <2>5, <3>2, <3>3, <3>4, <3>5 DEF start
  <2>7. CASE k # 0
    <3>1. Stamped(u) = start \o cut(k)
      <4>1. k \in 1..Len(p)
        BY <1>1, <2>7
      <4>. QED
        BY <1>3, <4>1
    <3>2. ~LineStart(u)
      <4>1. /\ Len(u) = Len(s) + k /\ Len(s) \in Nat /\ Len(u) # 0
            /\ u[Len(s) + k] = cut(k)[k]
        <5>1. /\ Len(s \o cut(k)) = Len(s) + Len(cut(k)) /\ Len(s) \in Nat
              /\ \A i \in 1..(Len(s) + Len(cut(k))) :
                   (s \o cut(k))[i] = IF i <= Len(s) THEN s[i] ELSE cut(k)[i - Len(s)]
          BY <2>2, ConcatProperties, LenProperties
        <5>2. PICK i \in 1..(Len(s) + k) : i = Len(s) + k
          BY <2>7, <5>1
        <5>3. ~(i <= Len(s)) /\ i - Len(s) = k /\ i \in 1..(Len(s) + Len(cut(k)))
          BY <2>2, <2>7, <5>1, <5>2
        <5>4. (s \o cut(k))[i] = cut(k)[k]
          BY <5>1, <5>3
        <5>5. Len(u) = Len(s) + k
          BY <2>2, <5>1
        <5>6. Len(s) + k # 0
          BY <2>7, <5>1
        <5>. QED
          BY <5>1, <5>2, <5>4, <5>5, <5>6
      <4>2. cut(k)[k] = p[k] /\ p[k] # Newline
        BY <1>1, <2>2, <2>7
      <4>. QED
        BY <2>4, <4>1, <4>2, EmptySeq DEF LineStart
    <3>3. (start \o cut(k)) \o <<c>> = start \o (cut(k) \o <<c>>)
      <4>1. start \in Seq(LogByte)
        BY <1>1
      <4>. QED
        BY <2>3, <4>1, ConcatAssociative, SMTT(30)
    <3>. QED
      BY <2>2, <2>5, <3>1, <3>2, <3>3 DEF Piece
  <2>. QED
    BY <2>6, <2>7
<1>4. Nat \subseteq N
  <2>. HIDE DEF N
  <2>. QED
    BY <1>2, <1>3, AllNat
<1>5. Len(p) \in 1..Len(p) /\ cut(Len(p)) = p
  BY <1>1, SubSeqFull
<1>6. Stamped(s \o cut(Len(p))) = start \o cut(Len(p))
  BY <1>1, <1>4, <1>5
<1>. QED
  BY <1>5, <1>6 DEF start

(* What the log holds of a text, by capWriter's count.                       *)
Logged(text) ==
  /\ text \in Seq(LogByte)
  /\ file = Capped(text)
  /\ written = IF Limit = 0 \/ Len(text) <= Limit THEN Len(text) ELSE Limit
  /\ truncated <=> Limit # 0 /\ Len(text) > Limit

LEMMA CapAppends ==
  ASSUME NEW text \in Seq(LogByte), NEW p \in Seq(LogByte), Logged(text), Cap(p)
  PROVE  Logged(text \o p)'
<1>. DEFINE more == text \o p
<1>1. /\ more \in Seq(LogByte) /\ Len(more) = Len(text) + Len(p)
      /\ Len(text) \in Nat /\ Len(p) \in Nat /\ Limit \in Nat
  BY ConcatProperties, LenProperties, TailConstants
<1>. HIDE DEF more
<1>2. CASE Limit = 0 \/ Len(more) <= Limit
  <2>1. Limit = 0 \/ Len(text) <= Limit
    BY <1>1, <1>2
  <2>2. file = text /\ written = Len(text) /\ ~truncated
    BY <1>1, <2>1 DEF Logged, Capped
  <2>3. Limit = 0 \/ written + Len(p) <= Limit
    BY <1>1, <1>2, <2>2
  <2>4. file' = text \o p /\ written' = written + Len(p) /\ truncated' = truncated
    BY <2>2, <2>3 DEF Cap
  <2>5. Capped(more) = more
    BY <1>2 DEF Capped
  <2>6. written' = Len(more) /\ ~truncated'
    BY <1>1, <2>2, <2>4, Zenon
  <2>7. file' = Capped(more)
    BY <2>4, <2>5 DEF more
  <2>8. ~(Limit # 0 /\ Len(more) > Limit)
    BY <1>1, <1>2
  <2>. QED
    BY <1>1, <1>2, <2>6, <2>7, <2>8 DEF Logged, more
<1>3. CASE ~(Limit = 0 \/ Len(more) <= Limit)
  <2>1. Limit # 0 /\ Len(more) > Limit
    BY <1>1, <1>3
  <2>2. Capped(more) = SubSeq(more, 1, Limit) \o Notice
    BY <1>3 DEF Capped
  <2>3. CASE Len(text) <= Limit
    <3>. DEFINE room == Limit - Len(text)
                kept == SubSeq(p, 1, room)
    <3>1. file = text /\ written = Len(text) /\ ~truncated
      BY <1>1, <2>3 DEF Logged, Capped
    <3>2. ~(Limit = 0 \/ written + Len(p) <= Limit)
      BY <1>1, <2>1, <3>1
    <3>3. room \in Nat /\ room <= Len(p)
      BY <1>1, <2>1, <2>3
    <3>4. kept \in Seq(LogByte) /\ Len(kept) = room
      <4>. HIDE DEF room
      <4>1. Len(kept) = IF 1 <= room THEN room - 1 + 1 ELSE 0
        BY <3>3, Slice
      <4>2. kept \in Seq(LogByte)
        BY <3>3, Slice
      <4>. QED
        BY <3>3, <4>1, <4>2
    <3>5. file' = (text \o kept) \o Notice /\ written' = Len(text) + Len(kept) /\ truncated' = TRUE
      BY <3>1, <3>2 DEF Cap
    <3>6. written' = Limit
      BY <1>1, <3>4, <3>5
    <3>7. SubSeq(more, 1, Limit) = text \o kept
      <4>1. text \o kept \in Seq(LogByte) /\ Len(text \o kept) = Limit
        <5>. HIDE DEF kept
        <5>. QED
          BY <1>1, <3>4, ConcatProperties
      <4>2. /\ SubSeq(more, 1, Limit) \in Seq(LogByte) /\ Len(SubSeq(more, 1, Limit)) = Limit
            /\ \A i \in 1..Limit : SubSeq(more, 1, Limit)[i] = more[i]
        <5>1. Limit <= Len(more) /\ 1 <= Limit
          BY <1>1, <2>1
        <5>2. /\ SubSeq(more, 1, Limit) \in Seq(LogByte)
              /\ Len(SubSeq(more, 1, Limit)) = IF 1 <= Limit THEN Limit - 1 + 1 ELSE 0
              /\ \A i \in 1..(Limit - 1 + 1) : SubSeq(more, 1, Limit)[i] = more[1 + i - 1]
          BY <1>1, <5>1, Slice
        <5>3. Limit - 1 + 1 = Limit /\ \A i \in 1..Limit : 1 + i - 1 = i
          BY <1>1
        <5>. QED
          BY <5>1, <5>2, <5>3
      <4>3. ASSUME NEW i \in 1..Limit PROVE more[i] = (text \o kept)[i]
        <5>1. more[i] = IF i <= Len(text) THEN text[i] ELSE p[i - Len(text)]
          <6>1. i \in 1..(Len(text) + Len(p))
            BY <1>1, <2>1
          <6>. QED
            BY <6>1, ConcatProperties DEF more
        <5>2. (text \o kept)[i] = IF i <= Len(text) THEN text[i] ELSE kept[i - Len(text)]
          <6>1. i \in 1..(Len(text) + Len(kept))
            BY <1>1, <3>4
          <6>. QED
            BY <3>4, <6>1, ConcatProperties
        <5>3. ~(i <= Len(text)) => kept[i - Len(text)] = p[i - Len(text)]
          <6>1. ASSUME NEW j \in 1..room PROVE kept[j] = p[j]
            <7>1. \A k \in 1..(room - 1 + 1) : kept[k] = p[1 + k - 1]
              BY <3>3, Slice
            <7>2. j \in 1..(room - 1 + 1) /\ 1 + j - 1 = j
              BY <3>3
            <7>. QED
              BY <7>1, <7>2
          <6>2. ~(i <= Len(text)) => i - Len(text) \in 1..room
            BY <1>1
          <6>. QED
            BY <6>1, <6>2
        <5>. QED
          BY <5>1, <5>2, <5>3
      <4>. QED
        <5>. HIDE DEF kept
        <5>. QED
          BY <1>1, <4>1, <4>2, <4>3, SeqEqual
    <3>8. file' = Capped(more) /\ truncated'
      BY <2>2, <3>5, <3>7, Zenon
    <3>9. written' = IF Limit = 0 \/ Len(more) <= Limit THEN Len(more) ELSE Limit
      BY <1>3, <3>6
    <3>. HIDE DEF kept, room
    <3>. QED
      BY <1>1, <2>1, <3>8, <3>9 DEF Logged, more
  <2>4. CASE ~(Len(text) <= Limit)
    <3>1. file = SubSeq(text, 1, Limit) \o Notice /\ written = Limit /\ truncated
      BY <1>1, <2>1, <2>4 DEF Logged, Capped
    <3>2. SubSeq(text, 1, Limit) \in Seq(LogByte) /\ file \in Seq(LogByte)
      <4>1. SubSeq(text, 1, Limit) \in Seq(LogByte)
        BY <1>1, <2>4, Slice
      <4>. QED
        BY <3>1, <4>1, LogBytes, ConcatProperties
    <3>3. SubSeq(more, 1, Limit) = SubSeq(text, 1, Limit)
      <4>1. 1 \in 1..(Len(text) + 1) /\ Limit \in 0..Len(text)
        BY <1>1, <2>4
      <4>. QED
        BY <4>1, SubSeqOfConcat1 DEF more
    <3>4. file' = file /\ written' = written /\ truncated'
      <4>1. CASE Len(p) = 0
        <5>1. p = << >>
          BY <4>1, EmptySeq
        <5>2. written + Len(p) <= Limit
          BY <1>1, <3>1, <4>1
        <5>3. file' = file \o p /\ written' = written + Len(p) /\ truncated' = truncated
          BY <5>2 DEF Cap
        <5>4. file \o p = file
          BY <3>2, <5>1, ConcatEmptySeq
        <5>5. written + 0 = written
          BY <1>1, <3>1
        <5>. QED
          BY <3>1, <4>1, <5>3, <5>4, <5>5
      <4>2. CASE Len(p) # 0
        <5>1. ~(Limit = 0 \/ written + Len(p) <= Limit)
          BY <1>1, <2>1, <3>1, <4>2
        <5>. DEFINE kept == SubSeq(p, 1, Limit - written)
        <5>2. /\ file' = (file \o kept) \o (IF truncated THEN << >> ELSE Notice)
              /\ written' = written + Len(kept) /\ truncated' = TRUE
          BY <5>1 DEF Cap
        <5>3. kept = << >>
          <6>1. Limit - written = 0
            BY <1>1, <3>1
          <6>. QED
            BY <6>1, SubSeqEmpty
        <5>. HIDE DEF kept
        <5>4. file \o << >> = file
          BY <3>2, ConcatEmptySeq
        <5>5. written' = written
          BY <1>1, <3>1, <5>2, <5>3
        <5>. QED
          BY <3>1, <5>2, <5>3, <5>4, <5>5
      <4>. QED
        BY <4>1, <4>2
    <3>. QED
      BY <1>1, <2>1, <2>2, <3>1, <3>3, <3>4 DEF Logged, more
  <2>. QED
    BY <2>3, <2>4
<1>. QED
  BY <1>2, <1>3

(* d is what the writers have passed on.  A timestamp is in the log before   *)
(* the line it belongs to, so a line that has begun without a byte of it in  *)
(* d has its timestamp there.                                                *)
Passed(d) ==
  /\ d \in Seq(Char) /\ rest \in Seq(Char) /\ input = d \o rest
  /\ Logged(Stamped(d) \o (IF atLineStart THEN << >> ELSE Opening(d)))
  /\ atLineStart => LineStart(d)
  /\ rest = << >> /\ LineStart(d) => atLineStart

LogInv == atLineStart \in BOOLEAN /\ \E d \in Seq(Char) : Passed(d)

LEMMA StampedIn ==
  ASSUME NEW s \in Seq(Char)
  PROVE  Stamped(s) \in Seq(LogByte) /\ Opening(s) \in Seq(LogByte)
<1>1. Newline \in Char
  BY DEF Char
<1>. QED
  BY <1>1, StampedMore, LogBytes DEF Opening

LEMMA InitLog == Init => LogInv
<1>. SUFFICES ASSUME Init PROVE LogInv
  OBVIOUS
<1>1. << >> \in Seq(Char) /\ << >> \in Seq(LogByte) /\ Len(<< >>) = 0
  OBVIOUS
<1>2. << >> \o << >> = << >>
  BY <1>1, ConcatEmptySeq
<1>3. Capped(<< >>) = << >>
  BY <1>1, TailConstants DEF Capped
<1>4. Logged(Stamped(<< >>) \o << >>)
  <2>1. Logged(<< >>)
    <3>1. file = << >> /\ written = 0 /\ ~truncated
      BY DEF Init, WriterInit
    <3>2. Limit \in Nat
      BY TailConstants
    <3>. QED
      BY <1>1, <1>3, <3>1, <3>2 DEF Logged
  <2>. QED
    BY <1>2, <2>1, StampedNone
<1>5. Passed(<< >>)
  BY <1>1, <1>2, <1>4 DEF Init, WriterInit, Passed, LineStart
<1>. QED
  BY <1>1, <1>5 DEF Init, WriterInit, LogInv

LEMMA DeliverLogs == LogInv /\ Deliver => LogInv'
<1>. SUFFICES ASSUME LogInv, Deliver PROVE LogInv'
  OBVIOUS
<1>1. PICK d \in Seq(Char) : Passed(d)
  BY DEF LogInv
<1>2. /\ rest = << >> /\ input' = input \o rest'
      /\ UNCHANGED <<atLineStart, written, truncated, file>>
  BY DEF Deliver
<1>3. rest' \in Seq(Char)
  BY TailConstants DEF Deliver
<1>4. input = d
  BY <1>1, <1>2, ConcatEmptySeq DEF Passed
<1>5. rest' # << >>
  <2>1. PICK n \in 1..MaxPiece : rest' \in [1..n -> Char]
    BY DEF Deliver
  <2>2. n \in Nat /\ n # 0
    BY <2>1, TailConstants
  <2>3. Len(rest') = n
    BY <2>1, <2>2
  <2>. QED
    BY <2>2, <2>3
<1>6. Logged(Stamped(d) \o (IF atLineStart THEN << >> ELSE Opening(d)))'
  BY <1>1, <1>2 DEF Passed, Logged
<1>7. Passed(d)'
  BY <1>1, <1>2, <1>3, <1>4, <1>5, <1>6 DEF Passed
<1>. QED
  BY <1>2, <1>7 DEF LogInv

LEMMA StampLogs == LogInv /\ WriteStamp => LogInv'
<1>. SUFFICES ASSUME LogInv, WriteStamp PROVE LogInv'
  OBVIOUS
<1>1. PICK d \in Seq(Char) : Passed(d)
  BY DEF LogInv
<1>2. /\ rest # << >> /\ atLineStart /\ atLineStart' = FALSE
      /\ UNCHANGED <<input, rest>> /\ Cap(Stamp)
  BY DEF WriteStamp
<1>. DEFINE text == Stamped(d)
<1>3. text \in Seq(LogByte) /\ Stamp \in Seq(LogByte)
  BY StampedIn, LogBytes
<1>4. Logged(text)
  BY <1>1, <1>2, <1>3, ConcatEmptySeq DEF Passed
<1>5. Logged(text \o Stamp)'
  <2>. HIDE DEF text
  <2>. QED
    BY <1>2, <1>3, <1>4, CapAppends
<1>6. Opening(d) = Stamp
  BY <1>1, <1>2 DEF Passed, Opening
<1>7. Passed(d)'
  BY <1>1, <1>2, <1>5, <1>6 DEF Passed
<1>. QED
  BY <1>2, <1>7 DEF LogInv

LEMMA LineLogs == LogInv /\ WriteLine => LogInv'
<1>. SUFFICES ASSUME LogInv, WriteLine PROVE LogInv'
  OBVIOUS
<1>1. PICK d \in Seq(Char) : Passed(d)
  BY DEF LogInv
<1>. DEFINE ends == {i \in DOMAIN rest : rest[i] = Newline}
            n == IF ends = {} THEN Len(rest) ELSE Min(ends)
            piece == SubSeq(rest, 1, n)
            after == SubSeq(rest, n + 1, Len(rest))
            text == Stamped(d) \o Opening(d)
<1>2. /\ rest # << >> /\ ~atLineStart /\ atLineStart' = (ends # {})
      /\ input' = input /\ rest' = after /\ Cap(piece)
  BY DEF WriteLine
<1>3. rest \in Seq(Char) /\ Len(rest) \in Nat /\ Len(rest) # 0 /\ DOMAIN rest = 1..Len(rest)
  BY <1>1, <1>2, EmptySeq, LenProperties DEF Passed
<1>4. /\ n \in 1..Len(rest)
      /\ \A i \in 1..(n - 1) : rest[i] # Newline
      /\ rest[n] = Newline <=> ends # {}
  <2>1. CASE ends = {}
    BY <1>3, <2>1
  <2>2. CASE ends # {}
    <3>1. ends \in SUBSET Nat
      BY <1>3
    <3>2. \E x \in ends : \A y \in ends : x <= y
      BY <2>2, <3>1, LeastExists
    <3>3. Min(ends) \in ends /\ \A y \in ends : Min(ends) <= y
      BY <3>2 DEF Min
    <3>4. n = Min(ends)
      BY <2>2
    <3>5. n \in ends /\ \A y \in ends : n <= y
      BY <3>3, <3>4
    <3>. HIDE DEF n
    <3>6. n \in 1..Len(rest) /\ rest[n] = Newline
      BY <1>3, <3>5
    <3>7. \A i \in 1..(n - 1) : i \in 1..Len(rest) /\ ~(n <= i)
      BY <1>3, <3>6
    <3>8. \A i \in 1..(n - 1) : i \notin ends
      BY <3>5, <3>7
    <3>. QED
      BY <1>3, <2>2, <3>6, <3>7, <3>8
  <2>. QED
    BY <2>1, <2>2
<1>. HIDE DEF n
<1>5. /\ piece \in Seq(Char) /\ Len(piece) = n /\ \A i \in 1..n : piece[i] = rest[i]
      /\ after \in Seq(Char) /\ rest = piece \o after
  <2>1. n \in Nat /\ n <= Len(rest) /\ 1 <= n /\ n - 1 + 1 = n /\ \A i \in 1..n : 1 + i - 1 = i
    BY <1>3, <1>4
  <2>2. /\ piece \in Seq(Char) /\ Len(piece) = IF 1 <= n THEN n - 1 + 1 ELSE 0
        /\ \A i \in 1..(n - 1 + 1) : piece[i] = rest[1 + i - 1]
    BY <1>3, <2>1, Slice
  <2>3. after \in Seq(Char)
    BY <1>3, <2>1, Slice
  <2>4. piece \o after = SubSeq(rest, 1, Len(rest))
    <3>1. 1 \in 1..(Len(rest) + 1) /\ n \in (1 - 1)..Len(rest) /\ Len(rest) \in n..Len(rest)
      BY <1>3, <1>4
    <3>. QED
      BY <1>3, <1>4, <3>1, ConcatAdjacentSubSeq
  <2>. QED
    BY <1>3, <2>1, <2>2, <2>3, <2>4, SubSeqFull
<1>. HIDE DEF piece, after
<1>6. /\ piece # << >> /\ \A i \in 1..(Len(piece) - 1) : piece[i] # Newline
      /\ piece[Len(piece)] = Newline <=> ends # {}
  <2>1. n # 0 /\ n \in 1..n /\ \A i \in 1..(n - 1) : i \in 1..n
    BY <1>3, <1>4
  <2>2. piece # << >>
    BY <1>5, <2>1
  <2>. QED
    BY <1>4, <1>5, <2>1, <2>2
<1>7. PICK p \in Seq(Char) : p = piece
  BY <1>5
<1>8. /\ Len(p) = n /\ after \in Seq(Char) /\ rest = p \o after /\ Cap(p)
  BY <1>2, <1>5, <1>7
<1>9. /\ p # << >> /\ \A i \in 1..(Len(p) - 1) : p[i] # Newline
      /\ p[Len(p)] = Newline <=> ends # {}
  BY <1>6, <1>7
<1>. HIDE DEF ends
<1>10. text \in Seq(LogByte) /\ p \in Seq(LogByte) /\ Logged(text)
  <2>1. text \in Seq(LogByte)
    BY StampedIn, ConcatProperties
  <2>. QED
    BY <1>1, <1>2, <1>8, <2>1, LogBytes DEF Passed
<1>11. Logged(text \o p)'
  <2>. HIDE DEF text
  <2>. QED
    BY <1>8, <1>10, CapAppends
<1>. DEFINE e == d \o p
<1>12. /\ e \in Seq(Char) /\ Stamped(e) = text \o p
      /\ e # << >> /\ e[Len(e)] = p[Len(p)]
  <2>1. Stamped(e) = text \o p
    BY <1>8, <1>9, StampedStretch
  <2>2. e \in Seq(Char) /\ Len(e) = Len(d) + n /\ Len(d) \in Nat
    BY <1>8, ConcatProperties, LenProperties
  <2>3. e[Len(d) + n] = p[n]
    <3>1. \A i \in 1..(Len(d) + Len(p)) :
             (d \o p)[i] = IF i <= Len(d) THEN d[i] ELSE p[i - Len(d)]
      BY <1>8, ConcatProperties
    <3>2. PICK i \in 1..(Len(d) + n) : i = Len(d) + n
      BY <1>4, <1>3, <2>2
    <3>3. ~(i <= Len(d)) /\ i - Len(d) = n /\ i \in 1..(Len(d) + Len(p))
      BY <1>3, <1>4, <1>8, <2>2, <3>2
    <3>. QED
      BY <3>1, <3>2, <3>3
  <2>4. Len(e) # 0
    BY <1>3, <1>4, <2>2
  <2>. HIDE DEF e
  <2>5. e # << >>
    BY <2>2, <2>4
  <2>. QED
    BY <1>8, <2>1, <2>2, <2>3, <2>5
<1>. HIDE DEF e
<1>13. LineStart(e) <=> atLineStart'
  BY <1>2, <1>9, <1>12 DEF LineStart
<1>14. Logged(Stamped(e) \o (IF atLineStart THEN << >> ELSE Opening(e)))'
  <2>1. (IF atLineStart' THEN << >> ELSE Opening(e)) = << >>
    BY <1>13 DEF Opening
  <2>2. Stamped(e) \o << >> = Stamped(e)
    BY <1>12, StampedIn, ConcatEmptySeq
  <2>. QED
    BY <1>11, <1>12, <2>1, <2>2
<1>15. input' = e \o rest'
  <2>1. d \o (p \o after) = (d \o p) \o after
    BY <1>8, ConcatAssociative, SMTT(30)
  <2>. QED
    BY <1>1, <1>2, <1>8, <2>1 DEF Passed, e
<1>16. Passed(e)'
  BY <1>2, <1>8, <1>12, <1>13, <1>14, <1>15 DEF Passed
<1>17. atLineStart' \in BOOLEAN
  BY <1>2
<1>. QED
  BY <1>12, <1>16, <1>17 DEF LogInv

(* The log is a function of the output alone, however the pipe cuts it into  *)
(* pieces and wherever the limit falls.                                      *)
THEOREM LogFaithful == Spec => []LogOfOutput
<1>1. LogInv /\ UNCHANGED writerVars => LogInv'
  <2>. SUFFICES ASSUME LogInv, UNCHANGED writerVars PROVE LogInv'
    OBVIOUS
  <2>1. PICK d \in Seq(Char) : Passed(d)
    BY DEF LogInv
  <2>2. Passed(d)'
    BY <2>1 DEF Passed, Logged, writerVars
  <2>. QED
    BY <2>2 DEF LogInv, writerVars
<1>2. LogInv /\ [Next]_vars => LogInv'
  <2>. SUFFICES ASSUME LogInv, [Next]_vars PROVE LogInv'
    OBVIOUS
  <2>1. WriteOutput \/ UNCHANGED writerVars
    BY DEF Next, Finish, Prune, Server, PageReadRun, PageTail, PageStat, ReadChunk, SendEnd,
           NextTick, Connect, Leave, runVars, vars
  <2>. QED
    BY <1>1, <2>1, DeliverLogs, StampLogs, LineLogs DEF WriteOutput, Write
<1>3. LogInv => LogOfOutput
  <2>. SUFFICES ASSUME LogInv, rest = << >> PROVE file = Capped(Stamped(input))
    BY DEF LogOfOutput
  <2>1. PICK d \in Seq(Char) : Passed(d)
    BY DEF LogInv
  <2>2. input = d
    BY <2>1, ConcatEmptySeq DEF Passed
  <2>3. (IF atLineStart THEN << >> ELSE Opening(d)) = << >>
    BY <2>1 DEF Passed, Opening
  <2>4. Logged(Stamped(d))
    BY <2>1, <2>3, StampedIn, ConcatEmptySeq, ZenonT(30) DEF Passed
  <2>. QED
    BY <2>2, <2>4 DEF Logged
<1>. QED
  BY <1>1, <1>2, <1>3, InitLog, PTL DEF Spec
=============================================================================
