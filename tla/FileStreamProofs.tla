------------------------- MODULE FileStreamProofs -------------------------
(***************************************************************************)
(* Proofs about FileStream, for every width of a long and every length of  *)
(* the file: type correctness; a seek that reports success is where C      *)
(* promises it, as long as the positions involved are below 4 GiB; and a   *)
(* feof that returns 0 has seen a byte the next fgetc can read.            *)
(***************************************************************************)
EXTENDS FileStream, TLAPS

USE WordAssumption, ArgumentAssumption

Half == Word \div 2

LEMMA HalfWord == Half \in Nat /\ Half > 0 /\ Word = 2 * Half
BY DEF Half

\* A cast to long keeps the upper half of the word apart: what comes out as no negative
\* number has not been changed.
LEMMA LongType == ASSUME NEW n \in Int PROVE Long(n) \in Int
BY DEF Long

LEMMA LongExact ==
    ASSUME NEW n \in Nat, n < Word, Long(n) >= 0
    PROVE  Long(n) = n
<1>1. n + Half \in Nat /\ n + Half < 2 * Word  BY HalfWord
<1>2. CASE n + Half < Word
  <2>1. (n + Half) % Word = n + Half  BY <1>1, <1>2
  <2> QED  BY <2>1 DEF Long, Half
<1>3. CASE n + Half >= Word
  <2> DEFINE q == (n + Half) \div Word
  <2> DEFINE r == (n + Half) % Word
  <2>1. q \in Int /\ r \in 0..Word - 1 /\ n + Half = Word * q + r  BY <1>1
  <2>2. Long(n) = r - Half  BY DEF Long, Half
  <2> HIDE DEF q, r
  <2>3. q <= 0 => Word * q <= 0  BY <2>1
  <2>4. q >= 2 => Word * q >= 2 * Word  BY <2>1
  <2>5. q = 1  BY <1>1, <1>3, <2>1, <2>3, <2>4
  <2>6. r = n + Half - Word  BY <2>1, <2>5, HalfWord
  <2> QED  BY <2>2, <2>6, HalfWord
<1> QED  BY <1>1, <1>2, <1>3

LEMMA ULongType == ASSUME NEW n \in Int PROVE ULong(n) \in Nat
BY DEF ULong

-----------------------------------------------------------------------------
(* The inductive invariant *)

Bounded ==
    /\ end \in 0..MaxEnd /\ pos \in 0..MaxEnd /\ at \in 0..MaxEnd
    /\ told \in Int
    /\ asked.end \in Int /\ asked.offset \in Int

\* A result of ftell the caller can go back to is the position it was taken at.
ToldExact == told >= 0 /\ at < Word => told = at

IInv == Bounded /\ ToldExact /\ SeekLands

LEMMA InitIInv == Init => IInv
BY DEF Init, Nothing, EOF, IInv, Bounded, ToldExact, SeekLands

\* What the seeks have in common: a request for a position, right when it has to be.
LEMMA SeekStep ==
    ASSUME IInv, NEW q \in Int, NEW target \in Int, Seek(q, target),
           pos < Word /\ at < Word => q = target
    PROVE  pos' \in 0..MaxEnd /\ SeekLands'
<1>1. last'.op = "seek" /\ last'.from = pos /\ last'.want = target
      /\ last'.ret = (IF err' = SUCCESS THEN 0 ELSE EIO) /\ at' = at
  BY DEF Seek, Returns
<1>2. CASE Fails /\ UNCHANGED pos
  BY <1>1, <1>2 DEF Fails, SUCCESS, EIO, IInv, Bounded, SeekLands
<1>3. CASE q \in 0..MaxEnd /\ pos' = q /\ err' = SUCCESS
  BY <1>1, <1>3 DEF IInv, Bounded, SeekLands
<1> QED  BY <1>2, <1>3 DEF Seek, SetPosition

LEMMA SeekCurStep ==
    ASSUME IInv, NEW offset \in Int, SeekCur(offset)
    PROVE  pos' \in 0..MaxEnd /\ SeekLands' /\ UNCHANGED <<end, told, at>>
<1>1. CASE Long(pos) >= 0 /\ Seek(Long(pos) + offset, pos + offset)
  <2>1. pos \in Nat /\ Long(pos) \in Int  BY LongType DEF IInv, Bounded
  <2>2. pos < Word => Long(pos) = pos  BY <1>1, <2>1, LongExact
  <2>3. Long(pos) + offset \in Int /\ pos + offset \in Int
        /\ (pos < Word /\ at < Word => Long(pos) + offset = pos + offset)
    BY <2>1, <2>2
  <2> QED  BY <1>1, <2>3, SeekStep DEF Seek
<1>2. CASE Returns("seek", EIO, pos) /\ UNCHANGED <<end, pos, told, at>>
  BY <1>2 DEF Returns, EIO, IInv, Bounded, SeekLands
<1> QED  BY <1>1, <1>2 DEF SeekCur

LEMMA SeekFailsStep ==
    ASSUME IInv, SeekFails
    PROVE  pos' \in 0..MaxEnd /\ SeekLands' /\ UNCHANGED <<end, told, at>>
BY DEF SeekFails, Returns, EIO, IInv, Bounded, SeekLands

\* The calls that are no seeks.
LEMMA TransferStep ==
    ASSUME IInv, NEW n \in Nat, NEW bytes \in Nat, ReadFile(n, bytes) \/ WriteFile(n, bytes)
    PROVE  pos' \in 0..MaxEnd /\ end' \in 0..MaxEnd
BY DEF ReadFile, WriteFile, AtMost, AtLeast, IInv, Bounded

LEMMA CallStep ==
    ASSUME IInv, Call, UNCHANGED asked
    PROVE  IInv'
<1>1. ASSUME pos' \in 0..MaxEnd, end' \in 0..MaxEnd, UNCHANGED <<told, at>>, SeekLands' PROVE IInv'
  BY <1>1 DEF IInv, Bounded, ToldExact
<1>2. ASSUME NEW op, NEW value, NEW target, op # "seek", Returns(op, value, target) PROVE SeekLands'
  BY <1>2 DEF Returns, SeekLands
<1>3. CASE fgetc  BY <1>1, <1>2, <1>3, TransferStep DEF fgetc
<1>4. ASSUME NEW size \in Count, NEW count \in Count, fread(size, count) PROVE IInv'
  <2>1. ULong(size * count) \in Nat  BY ULongType
  <2> QED  BY <1>1, <1>2, <1>4, <2>1, TransferStep DEF fread
<1>5. ASSUME NEW size \in Count, NEW count \in Count, fwrite(size, count) PROVE IInv'
  <2>1. ULong(size * count) \in Nat  BY ULongType
  <2> QED  BY <1>1, <1>2, <1>5, <2>1, TransferStep DEF fwrite
<1>6. ASSUME NEW n \in Count \cup {-1}, kfprintf(n) PROVE IInv'
  <2>1. ULong(n) \in Nat  BY ULongType
  <2> QED  BY <1>1, <1>2, <1>6, <2>1, TransferStep DEF kfprintf
<1>7. ASSUME NEW offset \in Offset, fseek(offset) PROVE IInv'
  <2>1. CASE SeekCur(offset)  BY <1>1, <2>1, SeekCurStep DEF IInv, Bounded
  <2>2. CASE Seek(offset, offset)
    <3>1. offset \in Int /\ UNCHANGED <<end, told, at>>  BY <2>2 DEF Seek
    <3>2. pos' \in 0..MaxEnd /\ SeekLands'  BY <2>2, <3>1, SeekStep
    <3> QED  BY <1>1, <3>1, <3>2 DEF IInv, Bounded
  <2>3. CASE SeekFails  BY <1>1, <2>3, SeekFailsStep DEF IInv, Bounded
  <2> QED  BY <1>7, <2>1, <2>2, <2>3 DEF fseek
<1>8. CASE ungetc
  <2>1. CASE SeekCur(-1)  BY <1>1, <2>1, SeekCurStep DEF IInv, Bounded
  <2>2. CASE SeekFails  BY <1>1, <2>2, SeekFailsStep DEF IInv, Bounded
  <2> QED  BY <1>8, <2>1, <2>2 DEF ungetc
<1>9. CASE SeekBack
  <2>1. Seek(told, at) /\ UNCHANGED <<end, told, at>>  BY <1>9 DEF SeekBack, Seek
  <2>2. told \in Int /\ at \in Int /\ (pos < Word /\ at < Word => told = at)
    BY <1>9 DEF SeekBack, IInv, Bounded, ToldExact
  <2>3. pos' \in 0..MaxEnd /\ SeekLands'  BY <2>1, <2>2, SeekStep
  <2> QED  BY <1>1, <2>1, <2>3 DEF IInv, Bounded
<1>10. ASSUME NEW position \in Int, position >= 0 /\ pos < Word => position = pos, Tell(position)
       PROVE  IInv'
  <2>1. SeekLands'  BY <1>2, <1>10 DEF Tell
  <2>2. Bounded'  BY <1>10 DEF Tell, EOF, IInv, Bounded
  <2>3. ToldExact'  BY <1>10 DEF Tell, EOF, IInv, Bounded, ToldExact
  <2> QED  BY <2>1, <2>2, <2>3 DEF IInv
<1>11. CASE ftelli64  BY <1>10, <1>11 DEF ftelli64, IInv, Bounded
<1>12. CASE ftell
  <2>1. pos \in Nat /\ Long(pos) \in Int  BY LongType DEF IInv, Bounded
  <2>2. Long(pos) >= 0 /\ pos < Word => Long(pos) = pos  BY <2>1, LongExact
  <2> QED  BY <1>10, <1>12, <2>1, <2>2 DEF ftell
<1>13. CASE feofFails  BY <1>1, <1>2, <1>13 DEF feofFails, IInv, Bounded
<1>14. CASE ferror  BY <1>1, <1>2, <1>14 DEF ferror, IInv, Bounded
<1>15. CASE clearerr  BY <1>1, <1>2, <1>15 DEF clearerr, IInv, Bounded
<1> QED
  BY <1>3, <1>4, <1>5, <1>6, <1>7, <1>8, <1>9, <1>11, <1>12, <1>13, <1>14, <1>15 DEF Call

LEMMA NextIInv == IInv /\ [Next]_vars => IInv'
<1> SUFFICES ASSUME IInv, [Next]_vars PROVE IInv'
  OBVIOUS
<1>1. ASSUME NEW name, NEW offset \in Int, AskEnd(name, offset) PROVE IInv'
  BY <1>1 DEF AskEnd, IInv, Bounded, ToldExact, SeekLands
<1>2. CASE feof
  <2>1. \E value, target : Returns("feof", value, target)  BY <1>2 DEF feof
  <2>2. SeekLands'  BY <2>1 DEF Returns, SeekLands
  <2> QED  BY <1>2, <2>2 DEF feof, Nothing, IInv, Bounded, ToldExact
<1>3. CASE SeekEnd
  <2>1. Seek(asked.end + asked.offset, asked.end + asked.offset) /\ asked' = Nothing
        /\ UNCHANGED <<end, told, at>>
    BY <1>3 DEF SeekEnd, Seek
  <2>2. asked.end + asked.offset \in Int  BY DEF IInv, Bounded
  <2>3. pos' \in 0..MaxEnd /\ SeekLands'  BY <2>1, <2>2, SeekStep
  <2> QED  BY <2>1, <2>3 DEF Nothing, IInv, Bounded, ToldExact
<1>4. CASE Extend  BY <1>4 DEF Extend, IInv, Bounded, ToldExact, SeekLands
<1>5. CASE Call /\ UNCHANGED asked  BY <1>5, CallStep
<1>6. CASE UNCHANGED vars  BY <1>6 DEF vars, IInv, Bounded, ToldExact, SeekLands
<1> QED  BY <1>1, <1>2, <1>3, <1>4, <1>5, <1>6 DEF Next

\* A seek that reports success has landed, for every width of a long, every length of the
\* file and every order of calls, also while others extend the file (kcrtfs.c:775-863).
THEOREM SeeksLand == Spec => []SeekLands
<1>1. IInv => SeekLands  BY DEF IInv
<1> QED  BY <1>1, InitIInv, NextIInv, PTL DEF Spec

-----------------------------------------------------------------------------
(* Types *)

Results == [op : Calls, ret : Int, from : 0..MaxEnd, want : Int]
Errors == {SUCCESS, "end_of_file", "error"}

\* Every call leaves a status of the Zw calls, the end it was told, and a result.
LEMMA CallType == ASSUME TypeOK, Call PROVE err' \in Errors /\ last' \in Results
<1> DEFINE Done == err' \in Errors /\ last' \in Results
<1>1. ASSUME NEW op \in Calls, NEW value \in Int, NEW target \in Int,
             err' \in Errors, Returns(op, value, target)
      PROVE  Done
  BY <1>1 DEF Returns, Results, TypeOK
<1>2. pos \in Int /\ at \in Int /\ told \in Int /\ Long(pos) \in Int  BY LongType DEF TypeOK
<1>3. ASSUME NEW n, NEW bytes, ReadFile(n, bytes) \/ WriteFile(n, bytes) PROVE err' \in Errors
  BY <1>3 DEF ReadFile, WriteFile, Fails, Errors
<1>4. ASSUME NEW p \in Int, NEW target \in Int, Seek(p, target) PROVE Done
  <2>1. err' \in Errors  BY <1>4 DEF Seek, SetPosition, Fails, Errors
  <2>2. (IF err' = SUCCESS THEN 0 ELSE EIO) \in Int  BY DEF EIO
  <2> QED  BY <1>1, <1>4, <2>1, <2>2 DEF Calls, Seek
<1>5. ASSUME NEW offset \in Int, SeekCur(offset) PROVE Done
  <2>1. Long(pos) + offset \in Int /\ pos + offset \in Int  BY <1>2
  <2>2. CASE Seek(Long(pos) + offset, pos + offset)  BY <1>4, <2>1, <2>2
  <2>3. CASE err' = SUCCESS /\ Returns("seek", EIO, pos)  BY <1>1, <1>2, <2>3 DEF Calls, EIO, Errors
  <2> QED  BY <1>5, <2>2, <2>3 DEF SeekCur
<1>6. CASE SeekFails  BY <1>1, <1>2, <1>6 DEF Calls, SeekFails, Fails, EIO, Errors
<1>7. CASE fgetc
  <2>1. PICK bytes \in {0, 1} :
          ReadFile(1, bytes) /\ Returns("fgetc", IF bytes = 1 THEN 0 ELSE EOF, pos)
    BY <1>7 DEF fgetc
  <2>2. (IF bytes = 1 THEN 0 ELSE EOF) \in Int  BY DEF EOF
  <2> QED  BY <1>1, <1>2, <1>3, <2>1, <2>2 DEF Calls
<1>8. ASSUME NEW size \in Count, NEW count \in Count, fread(size, count) \/ fwrite(size, count)
      PROVE  Done
  <2>1. ULong(size * count) \in Nat  BY ULongType
  <2> QED  BY <1>1, <1>2, <1>3, <1>8, <2>1 DEF Calls, fread, fwrite
<1>9. ASSUME NEW n \in Count \cup {-1}, kfprintf(n) PROVE Done
  BY <1>1, <1>2, <1>3, <1>9 DEF Calls, kfprintf
<1>10. ASSUME NEW offset \in Offset, fseek(offset) PROVE Done
  BY <1>4, <1>5, <1>6, <1>10 DEF fseek
<1>11. CASE ungetc  BY <1>5, <1>6, <1>11 DEF ungetc
<1>12. CASE SeekBack  BY <1>2, <1>4, <1>12 DEF SeekBack
<1>13. ASSUME NEW position \in Int, Tell(position) PROVE Done
  <2>1. told' \in Int /\ err' \in Errors  BY <1>13 DEF Tell, Fails, EOF, Errors
  <2> QED  BY <1>1, <1>2, <1>13, <2>1 DEF Calls, Tell
<1>14. CASE ftell \/ ftelli64  BY <1>2, <1>13, <1>14 DEF ftell, ftelli64
<1>15. CASE feofFails \/ clearerr
  BY <1>1, <1>2, <1>15 DEF Calls, feofFails, clearerr, Fails, Errors
<1>16. CASE ferror
  <2>1. (IF err = SUCCESS THEN 0 ELSE 1) \in Int /\ err \in Errors  BY DEF TypeOK, Errors
  <2> QED  BY <1>1, <1>2, <1>16, <2>1 DEF Calls, ferror
<1> QED
  BY <1>7, <1>8, <1>9, <1>10, <1>11, <1>12, <1>14, <1>15, <1>16 DEF Call

LEMMA InitTypeOK == Init => TypeOK
BY DEF Init, Nothing, EOF, Calls, TypeOK

\* IInv' gives the types of the numbers.
LEMMA NextTypeOK == IInv /\ TypeOK /\ [Next]_vars => TypeOK'
<1> SUFFICES ASSUME IInv', TypeOK, [Next]_vars
             PROVE  err' \in Errors /\ last' \in Results
                    /\ asked' \in [op : {"none", "feof", "seek"}, end : 0..MaxEnd, offset : Int]
  BY NextIInv DEF TypeOK, IInv, Bounded, Errors, Results
<1>1. err \in Errors /\ last \in Results  BY DEF TypeOK, Errors, Results
<1>2. Nothing \in [op : {"none", "feof", "seek"}, end : 0..MaxEnd, offset : Int]
  BY DEF Nothing
<1>3. ASSUME NEW name \in {"feof", "seek"}, NEW offset \in Int, AskEnd(name, offset)
      PROVE  /\ err' \in Errors /\ last' \in Results
             /\ asked' \in [op : {"none", "feof", "seek"}, end : 0..MaxEnd, offset : Int]
  BY <1>1, <1>3 DEF AskEnd, TypeOK, Errors
<1>4. CASE feof
  <2>1. PICK value \in {0, 1} : Returns("feof", value, pos)  BY <1>4 DEF feof
  <2>2. last' \in Results  BY <2>1 DEF Returns, Results, Calls, TypeOK
  <2> QED  BY <1>2, <1>4, <2>2 DEF feof, Fails, Errors
<1>5. CASE SeekEnd
  <2>1. err' \in Errors  BY <1>5 DEF SeekEnd, Seek, SetPosition, Fails, Errors
  <2>2. asked.end + asked.offset \in Int  BY DEF TypeOK
  <2>3. PICK value \in Int : Returns("seek", value, asked.end + asked.offset)
    BY <1>5 DEF SeekEnd, Seek, EIO
  <2>4. last' \in Results  BY <2>2, <2>3 DEF Returns, Results, Calls, TypeOK
  <2> QED  BY <1>2, <1>5, <2>1, <2>4 DEF SeekEnd
<1>6. CASE Extend \/ UNCHANGED vars  BY <1>1, <1>6 DEF Extend, vars, TypeOK
<1>7. CASE Call /\ UNCHANGED asked  BY <1>7, CallType DEF TypeOK
<1> QED  BY <1>3, <1>4, <1>5, <1>6, <1>7 DEF Next

\* Type correctness: no call leaves a position outside the file's bound, a result that is
\* no number or a request for the end that nobody answers (kcrtfs.c:671-863).
THEOREM TypeCorrect == Spec => []TypeOK
<1>1. IInv /\ TypeOK /\ [Next]_vars => (IInv /\ TypeOK)'  BY NextIInv, NextTypeOK
<1> QED  BY <1>1, InitIInv, InitTypeOK, PTL DEF Spec

-----------------------------------------------------------------------------
(* What feof promises *)

\* The end an feof is about to use is not behind the end of the file, and after a
\* feof that returned 0 a byte is left.
EndKnown == asked.op = "feof" => asked.end <= end
ByteLeft == last.op = "feof" /\ last.ret = 0 => pos < end

EofInv == IInv /\ EndKnown /\ ByteLeft

LEMMA InitEofInv == Init => EofInv
BY InitIInv DEF Init, Nothing, EofInv, EndKnown, ByteLeft

\* No other call than feof leaves a result of feof, and feofFails leaves 1.
LEMMA CallByteLeft == ASSUME Call PROVE ByteLeft'
<1>1. ASSUME NEW op, NEW value, NEW target, op # "feof" \/ value = 1, Returns(op, value, target)
      PROVE  ByteLeft'
  BY <1>1 DEF Returns, ByteLeft
<1>2. ASSUME NEW offset, SeekCur(offset) PROVE ByteLeft'
  BY <1>1, <1>2 DEF SeekCur, Seek
<1>3. CASE fgetc \/ \E size, count \in Count : fread(size, count) \/ fwrite(size, count)
  BY <1>1, <1>3 DEF fgetc, fread, fwrite
<1>4. CASE \E n \in Count \cup {-1} : kfprintf(n)  BY <1>1, <1>4 DEF kfprintf
<1>5. CASE ungetc \/ SeekBack  BY <1>1, <1>2, <1>5 DEF ungetc, SeekBack, Seek, SeekFails
<1>6. CASE \E offset \in Offset : fseek(offset)
  BY <1>1, <1>2, <1>6 DEF fseek, Seek, SeekFails
<1>7. CASE ftell \/ ftelli64  BY <1>1, <1>7 DEF ftell, ftelli64, Tell
<1>8. CASE feofFails \/ ferror \/ clearerr  BY <1>1, <1>8 DEF feofFails, ferror, clearerr
<1> QED  BY <1>3, <1>4, <1>5, <1>6, <1>7, <1>8 DEF Call

LEMMA NextEofInv == EofInv /\ [Next]_vars => EofInv'
<1> SUFFICES ASSUME EofInv, [Next]_vars PROVE EndKnown' /\ ByteLeft'
  BY NextIInv DEF EofInv
<1> USE DEF EofInv
<1>1. ASSUME NEW name, NEW offset, AskEnd(name, offset) PROVE EndKnown' /\ ByteLeft'
  BY <1>1 DEF AskEnd, EndKnown, ByteLeft, IInv, Bounded
<1>2. CASE feof
  <2>1. EndKnown'  BY <1>2 DEF feof, Nothing, EndKnown
  <2>2. CASE Returns("feof", 1, pos)  BY <2>1, <2>2 DEF Returns, ByteLeft
  <2>3. CASE Returns("feof", IF pos + 1 >= asked.end THEN 1 ELSE 0, pos)
    <3>1. asked.end <= end  BY <1>2 DEF feof, EndKnown
    <3>2. UNCHANGED <<end, pos>> /\ pos \in Int /\ end \in Int /\ asked.end \in Int
      BY <1>2 DEF feof, IInv, Bounded
    <3>3. last'.ret = 0 => pos + 1 < asked.end  BY <2>3, <3>2 DEF Returns
    <3> QED  BY <2>1, <3>1, <3>2, <3>3 DEF ByteLeft
  <2> QED  BY <1>2, <2>1, <2>2, <2>3 DEF feof
<1>3. CASE SeekEnd
  BY <1>3 DEF SeekEnd, Seek, Returns, Nothing, EndKnown, ByteLeft
<1>4. CASE Extend  BY <1>4 DEF Extend, EndKnown, ByteLeft, IInv, Bounded
<1>5. CASE asked = Nothing /\ Call /\ UNCHANGED asked
  BY <1>5, CallByteLeft DEF Nothing, EndKnown
<1>6. CASE UNCHANGED vars  BY <1>6 DEF vars, EndKnown, ByteLeft
<1> QED  BY <1>1, <1>2, <1>3, <1>4, <1>5, <1>6 DEF Next

LEMMA FgetcFindsByte == EofInv /\ last.op = "feof" /\ last.ret = 0 /\ fgetc => err' # "end_of_file"
<1> SUFFICES ASSUME EofInv, last.op = "feof", last.ret = 0, fgetc PROVE err' # "end_of_file"
  OBVIOUS
<1>1. ~(pos >= end)  BY DEF EofInv, ByteLeft, IInv, Bounded
<1> QED  BY <1>1 DEF fgetc, ReadFile, Fails, SUCCESS

\* feof never promises a byte that fgetc does not find, however long the file is and
\* whoever extends it between the two requests of feof (kcrtfs.c:671-697).
THEOREM EofMeansMore == Spec => NotEofMeansMore
<1>1. EofInv /\ [Next]_vars
      => [last.op = "feof" /\ last.ret = 0 /\ fgetc => err' # "end_of_file"]_vars
  BY FgetcFindsByte
<1> QED  BY <1>1, InitEofInv, NextEofInv, PTL DEF Spec, NotEofMeansMore
=============================================================================
