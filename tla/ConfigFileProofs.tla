-------------------------- MODULE ConfigFileProofs --------------------------
(***************************************************************************)
(* Proofs about ConfigFile, for files of any content and length, any       *)
(* number of edits while the file is being read, and any size_t.           *)
(***************************************************************************)
EXTENDS ConfigFile, KrsStrProofs

(***************************************************************************)
(* The inductive invariant.  What the three safety properties say of the   *)
(* end of a call rests on what the steps before it know: how the measured  *)
(* length and the file are related, who owns the buffer, and that nothing  *)
(* has been returned yet.                                                  *)
(***************************************************************************)
\* A file that could be opened stays a file or a pipe.
DiskOK == /\ disk \in Files \cup {Missing, Pipe}
          /\ load \in {"size", "alloc", "read", "abort"} => disk # Missing

\* The length is that of the file, as long as nobody has rewritten it.
Measured ==
  load \in {"alloc", "read"} =>
    IF disk = Pipe THEN len = SIZE_MAX ELSE edits > 0 \/ len = Len(disk)

\* Nothing is owned before the allocation, nor returned before the end.
InProgress ==
  /\ load \in {"open", "size", "alloc"} => heap = {} /\ got = << >>
  /\ load \in {"read", "abort"} => heap = {"config_str"}
  /\ load # "done" => err = "OK" /\ buf = << >>

\* What a text owes to one file f and the edits of it.
MixedFrom(f, t) ==
  \A k \in 1 .. Len(t) : \E g \in {f} \cup Saves : k <= Len(g) /\ t[k] = g[k]

\* The bytes taken so far: no more than were asked for, none of a pipe, those
\* of the file itself as long as nobody edits it, and later those of the file
\* it was and of the edits.
Taken ==
  /\ Len(got) <= len
  /\ disk = Pipe => got = << >>
  /\ disk \in Files /\ edits = 0 =>
       \A k \in 1 .. Len(got) : k <= Len(disk) /\ got[k] = disk[k]
  /\ disk \in Files => \E f \in Files : MixedFrom(f, got)
  /\ edits > 0 => disk \in Saves

IInv == /\ TypeOK /\ DiskOK /\ Measured /\ InProgress
        /\ Taken /\ OwnedIffOK /\ BytesInPlace /\ WholeUnlessEdited

-----------------------------------------------------------------------------
\* A text and its terminator: a non-empty sequence, longer by one.
LEMMA TerminatedText ==
  ASSUME NEW s \in Seq(STRING)
  PROVE  /\ Append(s, NUL) \in Seq(STRING) \ {<< >>}
         /\ Len(Append(s, NUL)) = Len(s) + 1
         /\ Append(s, NUL)[Len(s) + 1] = NUL
<1>1. NUL \in STRING
  BY ByteAssumption, Zenon DEF ByteAssumption
<1>. HIDE DEF NUL
<1>. QED
  BY <1>1, AppendProperties, ZenonT(60)

LEMMA FilesAreTexts ==
  /\ Files \subseteq Seq(STRING) /\ Saves \subseteq Files
  /\ Missing \notin Files /\ Pipe \notin Files /\ Pipe # Missing
  /\ SIZE_MAX \in Nat \ {0} /\ MaxEdits \in Nat
BY FilesAssumption, SizeAssumption, MaxEditsAssumption, Zenon
   DEF FilesAssumption, SizeAssumption, MaxEditsAssumption

LEMMA InitInvariant == Init => IInv
<1>. SUFFICES ASSUME Init PROVE IInv
  OBVIOUS
<1>1. TypeOK
  BY FilesAreTexts, SMT DEF Init, TypeOK, Error
<1>2. DiskOK /\ Measured /\ InProgress
  BY DEF Init, DiskOK, Measured, InProgress
<1>3. Taken
  BY SMT DEF Init, Taken, MixedFrom
<1>4. OwnedIffOK /\ BytesInPlace /\ WholeUnlessEdited
  BY DEF Init, OwnedIffOK, BytesInPlace, WholeUnlessEdited
<1>. QED
  BY <1>1, <1>2, <1>3, <1>4 DEF IInv

LEMMA OpenInvariant == IInv /\ Open => IInv'
<1>. SUFFICES ASSUME IInv, Open PROVE IInv'
  OBVIOUS
<1>. USE DEF IInv, Open
<1>1. TypeOK'
  BY SMT DEF TypeOK, Error
<1>2. DiskOK' /\ Measured' /\ InProgress'
  BY FilesAreTexts DEF DiskOK, Measured, InProgress
<1>3. Taken'
  BY DEF Taken, MixedFrom
<1>4. OwnedIffOK' /\ BytesInPlace' /\ WholeUnlessEdited'
  BY FilesAreTexts DEF InProgress, OwnedIffOK, BytesInPlace, WholeUnlessEdited
<1>. QED
  BY <1>1, <1>2, <1>3, <1>4

LEMMA SizeInvariant == IInv /\ Size => IInv'
<1>. SUFFICES ASSUME IInv, Size PROVE IInv'
  OBVIOUS
<1>. USE DEF IInv, Size
<1>1. disk # Pipe => Len(disk) \in Nat
  BY FilesAreTexts, SMT DEF DiskOK
<1>2. len' \in Nat
  BY <1>1, FilesAreTexts, SMT DEF ftell
<1>3. TypeOK'
  BY <1>2, Zenon DEF TypeOK
<1>4. DiskOK' /\ Measured' /\ InProgress'
  BY DEF DiskOK, Measured, InProgress, ftell
<1>5. Taken'
  <2>1. got = << >> /\ got' = got /\ disk' = disk /\ edits' = edits
    BY DEF InProgress
  <2>2. Len(got') <= len'
    BY <1>2, <2>1, SMT
  <2>3. Taken
    OBVIOUS
  <2>. HIDE DEF IInv, Size
  <2>. QED
    BY <2>1, <2>2, <2>3 DEF Taken, MixedFrom
<1>6. OwnedIffOK' /\ BytesInPlace' /\ WholeUnlessEdited'
  BY DEF InProgress, OwnedIffOK, BytesInPlace, WholeUnlessEdited
<1>. QED
  BY <1>3, <1>4, <1>5, <1>6

LEMMA AllocInvariant == IInv /\ Alloc => IInv'
<1>. SUFFICES ASSUME IInv, Alloc PROVE IInv'
  OBVIOUS
<1>. USE DEF IInv, Alloc
<1>1. TypeOK'
  <2>1. heap' \subseteq {"config_str"} /\ err' \in Error
    BY DEF TypeOK, Error
  <2>2. load' \in {"read", "done"} /\ UNCHANGED <<disk, edits, len, got, buf>>
    BY Zenon
  <2>. QED
    BY <2>1, <2>2, Zenon DEF TypeOK
<1>2. DiskOK' /\ Measured' /\ InProgress'
  BY DEF DiskOK, Measured, InProgress
<1>3. Taken'
  BY DEF Taken, MixedFrom
<1>4. OwnedIffOK' /\ BytesInPlace' /\ WholeUnlessEdited'
  BY DEF InProgress, OwnedIffOK, BytesInPlace, WholeUnlessEdited
<1>. QED
  BY <1>1, <1>2, <1>3, <1>4

\* The step that matters: the byte that is taken is the file's at that place,
\* and the file is by now the one it was or an edit of it.
LEMMA ReadInvariant == IInv /\ Read => IInv'
<1>. SUFFICES ASSUME IInv, Read PROVE IInv'
  OBVIOUS
<1>. DEFINE n == Len(got) + 1
            b == disk[n]
<1>1. disk \in Files /\ disk \in Seq(STRING) /\ readable = disk
  <2>1. disk # Pipe
    BY SMT DEF Read, readable, bytes_read, IInv, TypeOK
  <2>. QED
    BY <2>1, FilesAreTexts, Zenon DEF IInv, DiskOK, Read, readable
<1>2. /\ got \in Seq(STRING) /\ len \in Nat /\ edits \in Nat
      /\ Len(got) \in Nat /\ n \in 1 .. Len(disk) /\ n <= len /\ b \in STRING
  BY <1>1, SMT DEF IInv, TypeOK, Read, bytes_read
<1>3. got' = Append(got, b) /\ UNCHANGED <<disk, edits, load, len, buf, heap, err>>
  BY <1>1, Zenon DEF Read, bytes_read
<1>. HIDE DEF b
<1>4. /\ got' \in Seq(STRING) /\ Len(got') = n /\ got'[n] = b
      /\ \A k \in 1 .. Len(got) : got'[k] = got[k]
  BY <1>2, <1>3, AppendProperties, ZenonT(60)
<1>5. TypeOK'
  BY <1>3, <1>4, Zenon DEF IInv, TypeOK
<1>6. DiskOK' /\ Measured' /\ InProgress'
  BY <1>3 DEF IInv, DiskOK, Measured, InProgress, Read
<1>7. Taken'
  <2>1. \A k \in 1 .. Len(got') : k = n \/ k \in 1 .. Len(got)
    BY <1>2, <1>4, SMT
  <2>2. Len(got') <= len' /\ disk' # Pipe /\ (edits' > 0 => disk' \in Saves)
    BY <1>1, <1>2, <1>3, <1>4, FilesAreTexts DEF IInv, Taken
  <2>3. edits' = 0 => \A k \in 1 .. Len(got') : k <= Len(disk') /\ got'[k] = disk'[k]
    BY <1>1, <1>2, <1>3, <1>4, <2>1, SMT DEF IInv, Taken, b
  <2>4. \E f \in Files : MixedFrom(f, got')
    <3>1. PICK f \in Files : MixedFrom(f, got) /\ disk \in {f} \cup Saves
      <4>1. CASE edits = 0
        <5>1. \A k \in 1 .. Len(got) : k <= Len(disk) /\ got[k] = disk[k]
          BY <1>1, <4>1, Zenon DEF IInv, Taken
        <5>. QED
          BY <1>1, <5>1, Zenon DEF MixedFrom
      <4>2. CASE edits # 0
        BY <1>1, <1>2, <4>2, SMT DEF IInv, Taken
      <4>. QED
        BY <4>1, <4>2
    <3>2. \A k \in 1 .. Len(got') : \E g \in {f} \cup Saves : k <= Len(g) /\ got'[k] = g[k]
      <4>. SUFFICES ASSUME NEW k \in 1 .. Len(got')
                    PROVE  \E g \in {f} \cup Saves : k <= Len(g) /\ got'[k] = g[k]
        OBVIOUS
      <4>1. CASE k = n
        <5>1. n <= Len(disk) /\ got'[n] = disk[n]
          BY <1>2, <1>4, SMT DEF b
        <5>. QED
          BY <3>1, <4>1, <5>1, Zenon
      <4>2. CASE k \in 1 .. Len(got)
        BY <1>4, <3>1, <4>2, Zenon DEF MixedFrom
      <4>. QED
        BY <2>1, <4>1, <4>2, Zenon
    <3>. QED
      BY <3>2, Zenon DEF MixedFrom
  <2>. QED
    BY <2>2, <2>3, <2>4, Zenon DEF Taken
<1>8. OwnedIffOK' /\ BytesInPlace' /\ WholeUnlessEdited'
  BY <1>3 DEF IInv, InProgress, OwnedIffOK, BytesInPlace, WholeUnlessEdited, Read
<1>. QED
  BY <1>5, <1>6, <1>7, <1>8 DEF IInv

\* At the end of fread, a text as long as the file was is all of it, unless
\* somebody has edited it; any other one ends in the assertion.
LEMMA ReadEndsInvariant == IInv /\ ReadEnds => IInv'
<1>. SUFFICES ASSUME IInv, ReadEnds PROVE IInv'
  OBVIOUS
<1>1. /\ got \in Seq(STRING) /\ len \in Nat /\ Len(got) \in Nat /\ edits \in Nat
      /\ disk \in Files \cup {Pipe}
      /\ heap = {"config_str"} /\ err = "OK" /\ buf = << >>
      /\ UNCHANGED <<disk, edits, len, got, heap, err>>
  <2>1. load = "read" /\ UNCHANGED <<disk, edits, len, got, heap, err>>
    BY DEF ReadEnds
  <2>2. disk \in Files \cup {Pipe} /\ heap = {"config_str"} /\ err = "OK" /\ buf = << >>
    BY <2>1 DEF IInv, DiskOK, InProgress
  <2>3. got \in Seq(STRING) /\ len \in Nat /\ Len(got) \in Nat /\ edits \in Nat
    BY SMT DEF IInv, TypeOK
  <2>. QED
    BY <2>1, <2>2, <2>3, Zenon
<1>2. Taken'
  BY <1>1, Zenon DEF IInv, Taken, MixedFrom
<1>3. CASE Len(got) = len /\ load' = "done" /\ buf' = Append(got, NUL)
  <2>1. /\ buf' \in Seq(STRING) \ {<< >>}
        /\ Len(buf') = len + 1 /\ buf'[len + 1] = NUL
    BY <1>1, <1>3, TerminatedText, Zenon
  <2>2. disk \in Files /\ disk \in Seq(STRING)
    <3>1. disk # Pipe
      <4>1. SUFFICES ASSUME disk = Pipe PROVE FALSE
        OBVIOUS
      <4>2. got = << >> /\ len = SIZE_MAX
        BY <4>1 DEF IInv, Taken, Measured, ReadEnds
      <4>. QED
        BY <1>3, <4>2, FilesAreTexts, SMT
    <3>. QED
      BY <1>1, <3>1, FilesAreTexts
  <2>3. TypeOK'
    BY <1>1, <1>3, <2>1, Zenon DEF IInv, TypeOK
  <2>4. DiskOK' /\ Measured' /\ InProgress'
    BY <1>1, <1>3 DEF IInv, DiskOK, Measured, InProgress
  <2>5. OwnedIffOK'
    BY <1>1, <1>3, <2>1 DEF OwnedIffOK
  <2>6. got \in Mixtures
    BY <1>1, <2>2, Zenon DEF IInv, Taken, MixedFrom, Mixtures
  <2>7. BytesInPlace'
    BY <1>1, <1>3, <2>6, Zenon DEF BytesInPlace, Mixtures
  <2>8. edits = 0 => got = disk
    <3>. SUFFICES ASSUME edits = 0 PROVE got = disk
      OBVIOUS
    <3>1. len = Len(disk)
      BY <2>2, FilesAreTexts, SMT DEF IInv, Measured, ReadEnds
    <3>2. \A k \in 1 .. Len(got) : got[k] = disk[k]
      BY <2>2, Zenon DEF IInv, Taken
    <3>. QED
      BY <1>1, <1>3, <2>2, <3>1, <3>2, SMT
  <2>9. WholeUnlessEdited'
    BY <1>1, <1>3, <2>2, <2>8 DEF WholeUnlessEdited
  <2>. QED
    BY <1>2, <2>3, <2>4, <2>5, <2>7, <2>9 DEF IInv
<1>4. CASE load' = "abort" /\ UNCHANGED buf
  <2>1. TypeOK'
    BY <1>1, <1>4 DEF IInv, TypeOK
  <2>2. DiskOK' /\ Measured' /\ InProgress'
    BY <1>1, <1>4, FilesAreTexts DEF IInv, DiskOK, Measured, InProgress, ReadEnds
  <2>3. OwnedIffOK' /\ BytesInPlace' /\ WholeUnlessEdited'
    BY <1>1, <1>4 DEF OwnedIffOK, BytesInPlace, WholeUnlessEdited
  <2>. QED
    BY <1>2, <2>1, <2>2, <2>3 DEF IInv
<1>. QED
  BY <1>3, <1>4 DEF ReadEnds, bytes_read

LEMMA EditInvariant == IInv /\ Edit => IInv'
<1>. SUFFICES ASSUME IInv, Edit PROVE IInv'
  OBVIOUS
<1>. USE DEF IInv, Edit
<1>1. /\ disk' \in Saves /\ disk' \in Files /\ disk' # Pipe /\ disk # Pipe /\ disk' # Missing
      /\ disk' \in Seq(STRING) /\ edits' \in 0 .. MaxEdits /\ edits' > 0
  BY FilesAreTexts, SMT DEF TypeOK
<1>2. TypeOK'
  BY <1>1 DEF TypeOK
<1>3. DiskOK' /\ Measured' /\ InProgress'
  BY <1>1 DEF DiskOK, Measured, InProgress
<1>4. Taken'
  <2>1. edits' # 0 /\ got' = got /\ len' = len
    BY <1>1, SMT
  <2>. QED
    BY <1>1, <2>1, Zenon DEF Taken, MixedFrom
<1>5. OwnedIffOK' /\ BytesInPlace' /\ WholeUnlessEdited'
  BY <1>1 DEF InProgress, OwnedIffOK, BytesInPlace, WholeUnlessEdited
<1>. QED
  BY <1>2, <1>3, <1>4, <1>5

LEMMA StutterInvariant == IInv /\ UNCHANGED configVars => IInv'
BY DEF IInv, configVars, TypeOK, DiskOK, Measured, InProgress, Taken, MixedFrom,
       OwnedIffOK, BytesInPlace, WholeUnlessEdited

LEMMA Inductive == IInv /\ [Next]_configVars => IInv'
BY OpenInvariant, SizeInvariant, AllocInvariant, ReadInvariant, ReadEndsInvariant,
   EditInvariant, StutterInvariant, Zenon DEF Next, cstrbuf_init_from_file, Returned

THEOREM Invariance == Spec => []IInv
BY InitInvariant, Inductive, PTL DEF Spec

-----------------------------------------------------------------------------
\* The loader stays within its types, whatever the file is and becomes.
THEOREM TypeCorrect == Spec => []TypeOK
<1>1. IInv => TypeOK
  BY DEF IInv
<1>. QED
  BY <1>1, Invariance, PTL

\* cstrbuf_init_from_file returns OK exactly with a terminated text that its
\* caller owns: an error leaves nothing to free.
THEOREM OwnershipClear == Spec => []OwnedIffOK
<1>1. IInv => OwnedIffOK
  BY DEF IInv
<1>. QED
  BY <1>1, Invariance, PTL

\* Every byte of a text that is loaded stands where the file held it, at first
\* or after an edit, however often the file is rewritten between the reads.
THEOREM TextFromContents == Spec => []BytesInPlace
<1>1. IInv => BytesInPlace
  BY DEF IInv
<1>. QED
  BY <1>1, Invariance, PTL

\* A text that is loaded is all of a file that nobody edits meanwhile, although
\* any read may fail, and a pipe is never loaded.
THEOREM NothingTruncated == Spec => []WholeUnlessEdited
<1>1. IInv => WholeUnlessEdited
  BY DEF IInv
<1>. QED
  BY <1>1, Invariance, PTL
=============================================================================
