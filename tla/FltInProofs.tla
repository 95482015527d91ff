---------------------------- MODULE FltInProofs ----------------------------
(***************************************************************************)
(* Proofs about FltIn, for any threads and any strings: the scanner stays  *)
(* inside its string and ends behind the longest number it starts with;    *)
(* the static digit buffer never begins with a zero once a call has stored *)
(* a digit, so that the loop over trailing zeros ends inside it whatever   *)
(* other calls write there; every variable keeps its type; and, for a call *)
(* no other call overlapped, the digits and the power of ten the           *)
(* arithmetic is given are the number its string spells.                   *)
(***************************************************************************)
EXTENDS FltIn, TLAPS, WellFoundedInduction

USE DigitsAssumption

-----------------------------------------------------------------------------
(* The inductive invariant *)

Place == {"idle", "done"} \cup Scanning \cup Computing

Strings ==
    /\ DOMAIN text \subseteq Threads
    /\ \A t \in DOMAIN text : text[t] \in Seq(Char)

\* Domains, and the type of what all threads share.
Shape ==
    /\ DOMAIN state = Threads /\ DOMAIN p = Threads
    /\ DOMAIN manlen = Threads /\ DOMAIN loc = Threads
    /\ \A t \in Threads : DOMAIN loc[t] = DOMAIN Locals
    /\ buf \in [0..LD_MAX_MAN_LEN -> Nat]

ThreadType(t) ==
    /\ state[t] \in Place
    /\ t \notin DOMAIN text => state[t] = "idle"
    /\ state[t] = "idle" => p[t] = 1 /\ loc[t].savedp = 1
    /\ p[t] \in Nat \ {0}
    /\ manlen[t] \in 0..LD_MAX_MAN_LEN + 1
    /\ loc[t].savedp \in Nat \ {0}
    /\ loc[t].byte \in Nat

\* Where the scan is and where it can go back to.
ScanInside(t) == state[t] \in Scanning =>
    /\ p[t] <= Len(text[t]) + 1
    /\ loc[t].savedp <= Len(text[t]) + 1
    /\ state[t] = "S_E" => p[t] > 1

\* S_GETL is entered at a digit that is not zero; what a thread counts as stored is there.
DigitsStored(t) ==
    /\ state[t] = "S_GETL" /\ manlen[t] = 0 => IsNzDigit(c(t))
    /\ state[t] \in {"round", "roundup", "strip", "digits"} => manlen[t] > 0
    /\ manlen[t] > 0 => buf[0] # 0

ThreadInv(t) == ThreadType(t) /\ ScanInside(t) /\ DigitsStored(t)
IInv == Strings /\ Shape /\ \A t \in Threads : ThreadInv(t)

LEMMA InitIInv == Init => IInv
<1> SUFFICES ASSUME Init PROVE IInv
  OBVIOUS
<1>1. Strings  BY TextsAssumption DEF Init, Strings
<1>2. Shape  BY DEF Init, Shape
<1>3. ASSUME NEW t \in Threads PROVE ThreadInv(t)
  BY DEF Init, ThreadInv, ThreadType, ScanInside, DigitsStored, Place, Scanning, Locals
<1> QED  BY <1>1, <1>2, <1>3 DEF IInv

-----------------------------------------------------------------------------
(* What a step of thread t does to everything else *)

Others(t) ==
    /\ UNCHANGED text
    /\ \A u \in Threads \ {t} :
          state'[u] = state[u] /\ p'[u] = p[u] /\ manlen'[u] = manlen[u] /\ loc'[u] = loc[u]
    /\ buf[0] # 0 => buf'[0] # 0

Good(t) == Shape' /\ Others(t) /\ ThreadInv(t)'

\* It is enough that the thread keeps its own part and the shape, and leaves the rest.
LEMMA OtherThreads ==
    ASSUME NEW t \in Threads, IInv, Good(t)
    PROVE  IInv'
<1>1. Strings'  BY DEF IInv, Good, Others, Strings
<1>2. ASSUME NEW u \in Threads PROVE ThreadInv(u)'
  <2>1. CASE u = t  BY <2>1 DEF Good
  <2>2. CASE u # t
    BY <2>2 DEF IInv, Good, Others, ThreadInv, ThreadType, ScanInside, DigitsStored, c
  <2> QED  BY <2>1, <2>2
<1> QED  BY <1>1, <1>2 DEF IInv, Good

-----------------------------------------------------------------------------
(* The scanner *)

LEMMA Kinds ==
    /\ \A ch \in Char : ch \in {Blank, Plus, Minus, Point, Exp, Other} \/ IsDigit(ch)
    /\ Other \notin {Blank, Plus, Minus, Point, Exp} /\ ~IsDigit(Other) /\ IsDigit(0)
    /\ \A ch : IsNzDigit(ch) => IsDigit(ch) /\ ch # 0
    /\ \A ch : IsDigit(ch) => ch \in Nat /\ (ch # 0 => IsNzDigit(ch))
BY DEF Char, Blank, Plus, Minus, Point, Exp, Other, IsDigit, IsNzDigit

\* A step that moves the scan and may save a place.
Moves(t) ==
    /\ UNCHANGED <<text, manlen, buf>>
    /\ DOMAIN state' = Threads /\ DOMAIN p' = Threads /\ DOMAIN loc' = Threads
    /\ \A u \in Threads \ {t} : state'[u] = state[u] /\ p'[u] = p[u] /\ loc'[u] = loc[u]
    /\ DOMAIN loc'[t] = DOMAIN loc[t] /\ loc'[t].byte = loc[t].byte

\* Where such a step may lead.
Lands(t) ==
    /\ state'[t] \in Place \ {"idle", "round", "roundup", "strip", "digits"}
    /\ p'[t] \in 1..Len(text[t]) + 1 /\ loc'[t].savedp \in 1..Len(text[t]) + 1
    /\ state'[t] = "S_E" => p'[t] > 1
    /\ state'[t] = "S_GETL" => p'[t] = p[t] /\ IsNzDigit(c(t))

LEMMA MoveStep ==
    ASSUME NEW t \in Threads, IInv, t \in DOMAIN text, Moves(t), Lands(t)
    PROVE  Good(t)
<1>1. Shape'  BY DEF IInv, Shape, Moves
<1>2. Others(t)  BY DEF IInv, Shape, Others, Moves
<1>3. ThreadType(t)'  BY DEF IInv, ThreadInv, ThreadType, Strings, Moves, Lands
<1>4. ScanInside(t)'  BY DEF ScanInside, Moves, Lands
<1>5. DigitsStored(t)'
  BY DEF IInv, ThreadInv, ThreadType, DigitsStored, c, Moves, Lands
<1> QED  BY <1>1, <1>2, <1>3, <1>4, <1>5 DEF Good, ThreadInv

\* A thread inside the scanner: what the invariant says of it.
LEMMA ScanFacts ==
    ASSUME NEW t \in Threads, IInv, state[t] \in Scanning
    PROVE  /\ t \in DOMAIN text /\ Len(text[t]) \in Nat
           /\ p[t] \in 1..Len(text[t]) + 1 /\ loc[t].savedp \in 1..Len(text[t]) + 1
           /\ state[t] = "S_E" => p[t] > 1
           /\ p[t] = Len(text[t]) + 1 => c(t) = Other
BY DEF IInv, ThreadInv, ThreadType, ScanInside, Strings, Scanning, c

MovingSteps(t) ==
    \/ White(t) \/ S_INIT(t) \/ S_EAT0L(t) \/ S_SIGNM(t) \/ S_POINT(t)
    \/ S_E(t) \/ S_SIGNE(t) \/ S_EAT0E(t) \/ S_GETE(t)

LEMMA MovingMoves ==
    ASSUME NEW t \in Threads, IInv, MovingSteps(t)
    PROVE  Moves(t)
<1> USE DEF IInv, Shape, Moves, Goto, Take, Leave, Unscanned, Locals
<1>1. CASE White(t)  BY <1>1 DEF White
<1>2. CASE S_INIT(t)  BY <1>2 DEF S_INIT
<1>3. CASE S_EAT0L(t)  BY <1>3 DEF S_EAT0L
<1>4. CASE S_SIGNM(t)  BY <1>4 DEF S_SIGNM
<1>5. CASE S_POINT(t)  BY <1>5 DEF S_POINT
<1>6. CASE S_E(t)  BY <1>6 DEF S_E
<1>7. CASE S_SIGNE(t)  BY <1>7 DEF S_SIGNE
<1>8. CASE S_EAT0E(t)  BY <1>8 DEF S_EAT0E
<1>9. CASE S_GETE(t)  BY <1>9 DEF S_GETE
<1> QED  BY <1>1, <1>2, <1>3, <1>4, <1>5, <1>6, <1>7, <1>8, <1>9 DEF MovingSteps

LEMMA MovingLands ==
    ASSUME NEW t \in Threads, IInv, MovingSteps(t)
    PROVE  Lands(t)
<1>1. state[t] \in Scanning
  BY DEF MovingSteps, White, S_INIT, S_EAT0L, S_SIGNM, S_POINT, S_E, S_SIGNE, S_EAT0E, S_GETE, Scanning
<1>2. /\ t \in DOMAIN text /\ Len(text[t]) \in Nat
      /\ p[t] \in 1..Len(text[t]) + 1 /\ loc[t].savedp \in 1..Len(text[t]) + 1
      /\ state[t] = "S_E" => p[t] > 1
      /\ p[t] = Len(text[t]) + 1 => c(t) = Other
  BY <1>1, ScanFacts
<1> USE <1>2, Kinds DEF IInv, Shape, Lands, Goto, Take, Leave, Locals, Place, Scanning, Computing
<1>3. CASE White(t)  BY <1>3 DEF White
<1>4. CASE S_INIT(t)  BY <1>4 DEF S_INIT
<1>5. CASE S_EAT0L(t)  BY <1>5 DEF S_EAT0L
<1>6. CASE S_SIGNM(t)  BY <1>6 DEF S_SIGNM
<1>7. CASE S_POINT(t)  BY <1>7 DEF S_POINT
<1>8. CASE S_E(t)  BY <1>8 DEF S_E
<1>9. CASE S_SIGNE(t)  BY <1>9 DEF S_SIGNE
<1>10. CASE S_EAT0E(t)  BY <1>10 DEF S_EAT0E
<1>11. CASE S_GETE(t)  BY <1>11 DEF S_GETE
<1> QED
  BY <1>3, <1>4, <1>5, <1>6, <1>7, <1>8, <1>9, <1>10, <1>11 DEF MovingSteps

\* Storing a digit: the first one is not zero, so the buffer never begins with zero again.
LEMMA StoreStep ==
    ASSUME NEW t \in Threads, IInv, NEW a, NEW b, StoreDigit(t, a, b),
           IsDigit(c(t)), manlen[t] = 0 => c(t) # 0
    PROVE  /\ manlen'[t] \in 1..LD_MAX_MAN_LEN + 1
           /\ DOMAIN manlen' = Threads /\ \A u \in Threads \ {t} : manlen'[u] = manlen[u]
           /\ buf' \in [0..LD_MAX_MAN_LEN -> Nat] /\ buf'[0] # 0
           /\ DOMAIN loc' = Threads /\ \A u \in Threads \ {t} : loc'[u] = loc[u]
           /\ DOMAIN loc'[t] = DOMAIN Locals
           /\ loc'[t].byte = loc[t].byte /\ loc'[t].savedp = loc[t].savedp
<1>1. manlen[t] \in 0..LD_MAX_MAN_LEN + 1 /\ (manlen[t] > 0 => buf[0] # 0) /\ c(t) \in Nat
  BY Kinds DEF IInv, ThreadInv, ThreadType, DigitsStored
<1>2. DOMAIN loc' = Threads /\ \A u \in Threads \ {t} : loc'[u] = loc[u]
  BY DEF StoreDigit, IInv, Shape
<1>3. DOMAIN loc'[t] = DOMAIN Locals /\ loc'[t].byte = loc[t].byte /\ loc'[t].savedp = loc[t].savedp
  BY DEF StoreDigit, IInv, Shape, Locals
<1>4. CASE manlen[t] < LD_MAX_MAN_LEN + 1
  BY <1>1, <1>2, <1>3, <1>4 DEF StoreDigit, IInv, Shape
<1>5. CASE ~(manlen[t] < LD_MAX_MAN_LEN + 1)
  BY <1>1, <1>2, <1>3, <1>5 DEF StoreDigit, IInv, Shape
<1> QED  BY <1>4, <1>5

\* The two states that store digits.
LEMMA DigitSteps ==
    ASSUME NEW t \in Threads, IInv, S_GETL(t) \/ S_GETR(t)
    PROVE  Good(t)
<1>1. state[t] \in {"S_GETL", "S_GETR"}  BY DEF S_GETL, S_GETR
<1>2. /\ t \in DOMAIN text /\ Len(text[t]) \in Nat
      /\ p[t] \in 1..Len(text[t]) + 1 /\ loc[t].savedp \in 1..Len(text[t]) + 1
      /\ p[t] = Len(text[t]) + 1 => c(t) = Other
  BY <1>1, ScanFacts DEF Scanning
<1>3. state[t] = "S_GETL" /\ manlen[t] = 0 => IsNzDigit(c(t))
  BY DEF IInv, ThreadInv, DigitsStored
<1>4. CASE \E a, b : StoreDigit(t, a, b) /\ IsDigit(c(t)) /\ ~(c(t) = 0 /\ manlen[t] = 0)
                     /\ Take(t, state[t]) /\ text' = text
  <2>1. PICK a, b : StoreDigit(t, a, b)  BY <1>4
  <2>2. manlen[t] = 0 => c(t) # 0  BY <1>4
  <2>3. /\ manlen'[t] \in 1..LD_MAX_MAN_LEN + 1
        /\ DOMAIN manlen' = Threads /\ \A u \in Threads \ {t} : manlen'[u] = manlen[u]
        /\ buf' \in [0..LD_MAX_MAN_LEN -> Nat] /\ buf'[0] # 0
        /\ DOMAIN loc' = Threads /\ \A u \in Threads \ {t} : loc'[u] = loc[u]
        /\ DOMAIN loc'[t] = DOMAIN Locals
        /\ loc'[t].byte = loc[t].byte /\ loc'[t].savedp = loc[t].savedp
    BY <2>1, <2>2, <1>4, StoreStep
  <2>4. DOMAIN state' = Threads /\ DOMAIN p' = Threads /\ text' = text
        /\ state'[t] = state[t] /\ p'[t] = p[t] + 1
        /\ \A u \in Threads \ {t} : state'[u] = state[u] /\ p'[u] = p[u]
    BY <1>4 DEF IInv, Shape, Take, Goto
  <2>5. p[t] <= Len(text[t])  BY <1>2, <1>4, Kinds
  <2>6. Shape'  BY <2>3, <2>4 DEF IInv, Shape
  <2>7. Others(t)  BY <2>3, <2>4 DEF Others
  <2>8. ThreadType(t)'
    BY <1>1, <1>2, <2>3, <2>4, SMTT(30) DEF IInv, ThreadInv, ThreadType
  <2>9. ScanInside(t)'  BY <1>1, <1>2, <2>3, <2>4, <2>5 DEF ScanInside
  <2>10. DigitsStored(t)'  BY <1>1, <2>3, <2>4 DEF DigitsStored
  <2> QED  BY <2>6, <2>7, <2>8, <2>9, <2>10 DEF Good, ThreadInv
<1>5. CASE Moves(t) /\ Lands(t)  BY <1>5, <1>2, MoveStep
<1>6. ASSUME S_GETL(t), IsDigit(c(t)) PROVE StoreDigit(t, 0, 1) /\ Take(t, state[t]) /\ text' = text
  BY <1>6, Kinds DEF S_GETL
<1>7. ASSUME S_GETL(t), ~IsDigit(c(t)) PROVE Moves(t) /\ Lands(t)
  <2>1. Moves(t)  BY <1>7 DEF S_GETL, IInv, Shape, Moves, Goto, Take, Leave, Locals
  <2>2. Lands(t)
    BY <1>7, <1>2, Kinds
       DEF S_GETL, IInv, Shape, Lands, Goto, Take, Leave, Locals, Place, Scanning, Computing
  <2> QED  BY <2>1, <2>2
<1>8. ASSUME S_GETR(t), IsDigit(c(t)), ~(c(t) = 0 /\ manlen[t] = 0)
      PROVE  StoreDigit(t, -1, 0) /\ Take(t, state[t]) /\ text' = text
  BY <1>8, Kinds DEF S_GETR
<1>9. ASSUME S_GETR(t), ~IsDigit(c(t)) \/ (c(t) = 0 /\ manlen[t] = 0) PROVE Moves(t) /\ Lands(t)
  <2>1. Moves(t)  BY <1>9 DEF S_GETR, IInv, Shape, Moves, Goto, Take, Leave, Locals
  <2>2. Lands(t)
    BY <1>9, <1>2, Kinds
       DEF S_GETR, IInv, Shape, Lands, Goto, Take, Leave, Locals, Place, Scanning, Computing
  <2> QED  BY <2>1, <2>2
<1>10. S_GETL(t) /\ IsDigit(c(t)) => ~(c(t) = 0 /\ manlen[t] = 0)
  BY <1>3, Kinds DEF S_GETL
<1> QED
  BY <1>4, <1>5, <1>6, <1>7, <1>8, <1>9, <1>10

-----------------------------------------------------------------------------
(* The result *)

\* A step behind the scan: p stays.
Computes(t) ==
    /\ UNCHANGED <<text, p>>
    /\ DOMAIN state' = Threads /\ DOMAIN manlen' = Threads /\ DOMAIN loc' = Threads
    /\ \A u \in Threads \ {t} : state'[u] = state[u] /\ manlen'[u] = manlen[u] /\ loc'[u] = loc[u]
    /\ buf' \in [0..LD_MAX_MAN_LEN -> Nat] /\ (buf[0] # 0 => buf'[0] # 0)
    /\ DOMAIN loc'[t] = DOMAIN loc[t]
    /\ loc'[t].savedp = loc[t].savedp /\ loc'[t].byte \in Nat
    /\ loc'[t].found_digit = loc[t].found_digit
    /\ state'[t] \in Computing \cup {"done"}
    /\ manlen'[t] \in 0..LD_MAX_MAN_LEN + 1
    /\ manlen'[t] > 0 => manlen[t] > 0
    /\ state'[t] \in {"round", "roundup", "strip", "digits"} => manlen'[t] > 0

LEMMA ComputeStep ==
    ASSUME NEW t \in Threads, IInv, state[t] \in Computing, Computes(t)
    PROVE  Good(t)
<1> USE DEF Computes
<1>1. state'[t] \notin Scanning /\ state'[t] \in Place /\ state'[t] # "S_GETL"
  BY DEF Scanning, Computing, Place
<1>2. Shape'  BY DEF IInv, Shape
<1>3. Others(t)  BY DEF Others
<1>4. ThreadType(t)'  BY <1>1 DEF IInv, ThreadInv, ThreadType, Computing
<1>5. ScanInside(t)'  BY <1>1 DEF ScanInside
<1>6. DigitsStored(t)'  BY <1>1 DEF IInv, ThreadInv, DigitsStored
<1> QED  BY <1>2, <1>3, <1>4, <1>5, <1>6 DEF Good, ThreadInv

LEMMA ComputeSteps ==
    ASSUME NEW t \in Threads, IInv, Compute(t)
    PROVE  state[t] \in Computing /\ Computes(t)
<1>1. /\ DOMAIN state = Threads /\ DOMAIN manlen = Threads /\ DOMAIN loc = Threads
      /\ DOMAIN loc[t] = DOMAIN Locals
      /\ buf \in [0..LD_MAX_MAN_LEN -> Nat]
      /\ manlen[t] \in 0..LD_MAX_MAN_LEN + 1
      /\ loc[t].byte \in Nat
      /\ state[t] \in {"round", "roundup", "strip", "digits"} => manlen[t] > 0
      /\ manlen[t] > 0 => buf[0] # 0
  BY DEF IInv, Shape, ThreadInv, ThreadType, DigitsStored
<1> HIDE DEF IInv
<1> USE <1>1 DEF Computes, Computing, To, Locals
<1>2. CASE S_END(t)  BY <1>2 DEF S_END
<1>3. CASE Round(t)
  <2>1. state[t] = "round" /\ state'[t] \in {"roundup", "strip"} /\ manlen'[t] = LD_MAX_MAN_LEN
    BY <1>3 DEF Round
  <2>2. LD_MAX_MAN_LEN - 1 \in 0..LD_MAX_MAN_LEN /\ buf[LD_MAX_MAN_LEN - 1] \in Nat
    OBVIOUS
  <2>3. /\ loc'[t].byte \in Nat /\ DOMAIN loc'[t] = DOMAIN loc[t]
        /\ loc'[t].savedp = loc[t].savedp /\ loc'[t].found_digit = loc[t].found_digit
    BY <1>3, <2>2 DEF Round
  <2> QED  BY <1>3, <2>1, <2>3 DEF Round
<1>4. CASE RoundUp(t)
  <2>1. PICK byte \in {loc[t].byte, buf[LD_MAX_MAN_LEN - 1]} :
           buf' = [buf EXCEPT ![LD_MAX_MAN_LEN - 1] = byte + 1]
    BY <1>4 DEF RoundUp
  <2>2. byte \in Nat  BY <2>1
  <2>3. buf' \in [0..LD_MAX_MAN_LEN -> Nat] /\ (buf[0] # 0 => buf'[0] # 0)
    BY <2>1, <2>2
  <2> QED  BY <1>4, <2>3 DEF RoundUp
<1>5. CASE Strip(t)
  <2>1. state[t] = "strip" /\ manlen[t] > 0 /\ buf[0] # 0  BY <1>5 DEF Strip
  <2>2. CASE buf[manlen[t] - 1] = 0 /\ UNCHANGED state
    <3>1. manlen[t] > 1  BY <2>1, <2>2
    <3>2. manlen'[t] = manlen[t] - 1  BY <1>5, <2>2 DEF Strip
    <3> QED  BY <1>5, <2>1, <2>2, <3>1, <3>2 DEF Strip
  <2>3. CASE buf[manlen[t] - 1] # 0  BY <1>5, <2>1, <2>3 DEF Strip
  <2> QED  BY <1>5, <2>2, <2>3 DEF Strip
<1>6. CASE ReadDigit(t)  BY <1>6 DEF ReadDigit
<1>7. CASE Pow(t)  BY <1>7 DEF Pow
<1>8. CASE Multiply(t)
  <2>1. CASE loc[t].mulpow # 0
    <3> DEFINE y == IF last3(t) = 0 THEN loc[t].ld12
                    ELSE Once(LAMBDA f : ld12mul(loc[t].ld12, f), factor(t))
    <3> DEFINE m == Signed(t, Signed(t, loc[t].mulpow) \div 8)
    <3> DEFINE g == 8 * loc[t].group
    <3>1. loc' = [loc EXCEPT ![t].ld12 = y, ![t].mulpow = m, ![t].group = g]
      BY <1>8, <2>1, Zenon DEF Multiply
    <3> HIDE DEF y, m, g
    <3>2. /\ DOMAIN loc' = Threads /\ \A u \in Threads \ {t} : loc'[u] = loc[u]
          /\ DOMAIN loc'[t] = DOMAIN loc[t]
          /\ loc'[t].savedp = loc[t].savedp /\ loc'[t].byte = loc[t].byte
          /\ loc'[t].found_digit = loc[t].found_digit
      BY <3>1
    <3> QED  BY <1>8, <2>1, <3>2 DEF Multiply
  <2>2. CASE loc[t].mulpow = 0  BY <1>8, <2>2 DEF Multiply
  <2> QED  BY <2>1, <2>2
<1>9. CASE Convert(t)
  <2>1. PICK r : loc' = [loc EXCEPT ![t].x = r.d, ![t].flags = @ \cup ({r.status} \ {"OK"})]
    BY <1>9 DEF Convert
  <2>2. /\ DOMAIN loc' = Threads /\ \A u \in Threads \ {t} : loc'[u] = loc[u]
        /\ DOMAIN loc'[t] = DOMAIN loc[t]
        /\ loc'[t].savedp = loc[t].savedp /\ loc'[t].byte = loc[t].byte
        /\ loc'[t].found_digit = loc[t].found_digit
    BY <2>1
  <2> QED  BY <1>9, <2>2 DEF Convert
<1>10. CASE StoreFlags(t)  BY <1>10 DEF StoreFlags
<1>11. CASE StoreNbytes(t)  BY <1>11 DEF StoreNbytes
<1>12. CASE StoreDval(t)  BY <1>12 DEF StoreDval
<1>13. CASE ReadResult(t)  BY <1>13 DEF ReadResult
<1> QED
  BY <1>2, <1>3, <1>4, <1>5, <1>6, <1>7, <1>8, <1>9, <1>10, <1>11, <1>12, <1>13 DEF Compute
-----------------------------------------------------------------------------
(* Every step                                                               *)

LEMMA CallStep ==
    ASSUME NEW t \in Threads, IInv, Call(t)
    PROVE  Good(t)
<1>1. /\ t \in DOMAIN text /\ p[t] = 1 /\ loc[t].savedp = 1 /\ Len(text[t]) \in Nat
      /\ state'[t] = "S_WHITE" /\ p'[t] = p[t]
  BY DEF Call, Leave, Goto, IInv, Shape, Strings, ThreadInv, ThreadType
<1>2. Moves(t)  BY DEF Call, Leave, Goto, IInv, Shape, Moves
<1>3. Lands(t)
  BY <1>1 DEF Call, Lands, Place, Scanning
<1> QED  BY <1>1, <1>2, <1>3, MoveStep

LEMMA StepGood ==
    ASSUME NEW t \in Threads, IInv, Call(t) \/ Scan(t) \/ Compute(t)
    PROVE  Good(t)
<1>1. CASE MovingSteps(t)
  <2>1. t \in DOMAIN text
    BY <1>1, ScanFacts DEF MovingSteps, White, S_INIT, S_EAT0L, S_SIGNM, S_POINT, S_E,
       S_SIGNE, S_EAT0E, S_GETE, Scanning
  <2> QED  BY <1>1, <2>1, MovingMoves, MovingLands, MoveStep
<1>2. CASE S_GETL(t) \/ S_GETR(t)  BY <1>2, DigitSteps
<1>3. CASE Compute(t)  BY <1>3, ComputeSteps, ComputeStep
<1>4. CASE Call(t)  BY <1>4, CallStep
<1> QED  BY <1>1, <1>2, <1>3, <1>4 DEF Scan, MovingSteps

LEMMA NextIInv == IInv /\ [Next]_vars => IInv'
<1> SUFFICES ASSUME IInv, [Next]_vars PROVE IInv'
  OBVIOUS
<1>1. CASE UNCHANGED vars
  BY <1>1 DEF vars, IInv, Strings, Shape, ThreadInv, ThreadType, ScanInside, DigitsStored, c
<1>2. ASSUME NEW t \in Threads, Call(t) \/ Scan(t) \/ Compute(t) PROVE IInv'
  BY <1>2, StepGood, OtherThreads
<1> QED  BY <1>1, <1>2 DEF Next, Step

-----------------------------------------------------------------------------
(* The numbers of DecimalText                                               *)

\* The character at i, or what the scanner takes for the terminator.
CharAt(s, i) == IF i <= Len(s) THEN s[i] ELSE Other

LEMMA Letters ==
    /\ ~IsDigit(Point) /\ ~IsDigit(Exp) /\ ~IsDigit(Other) /\ ~IsDigit(Plus) /\ ~IsDigit(Minus)
    /\ ~IsDigit(Blank) /\ Point # Exp /\ Point # Other /\ Exp # Other
    /\ Other \notin {Plus, Minus} /\ Exp \notin {Plus, Minus} /\ Point \notin {Plus, Minus}
    /\ Blank \notin {Plus, Minus, Point, Exp, Other}
BY DEF Blank, Plus, Minus, Point, Exp, Other, IsDigit

LEMMA BlanksEnd ==
    ASSUME NEW s \in Seq(Char), NEW i \in 1..Len(s) + 1,
           \A k \in 1..i - 1 : s[k] = Blank, CharAt(s, i) # Blank
    PROVE  AfterBlanks(s) = i
<1> DEFINE Q(n) == (\A k \in 1..n - 1 : s[k] = Blank) /\ (n <= Len(s) => s[n] # Blank)
<1>1. Len(s) \in Nat  OBVIOUS
<1>2. Q(i)  BY DEF CharAt
<1>3. ASSUME NEW n \in 1..Len(s) + 1, Q(n) PROVE n = i
  <2>1. ~(n < i)
    <3>1. n < i => n \in 1..i - 1 /\ n <= Len(s)  BY <1>1
    <3> QED  BY <1>3, <3>1
  <2>2. ~(i < n)
    <3>1. i < n => i \in 1..n - 1 /\ i <= Len(s)  BY <1>1
    <3> QED  BY <1>2, <1>3, <3>1
  <2> QED  BY <1>1, <2>1, <2>2
<1>4. AfterBlanks(s) = CHOOSE n \in 1..Len(s) + 1 : Q(n)  BY DEF AfterBlanks
<1> HIDE DEF Q
<1> QED  BY <1>2, <1>3, <1>4

\* The longest end is the end no other one is behind.
LEMMA LongestIs ==
    ASSUME NEW ends \in SUBSET Int, NEW m \in ends, \A k \in ends : k <= m
    PROVE  Longest(ends) = m
<1> DEFINE Q(j) == \A k \in ends : k <= j
<1>1. Q(m)  OBVIOUS
<1>2. ASSUME NEW j \in ends, Q(j) PROVE j = m
  <2>1. m <= j /\ j <= m  BY <1>2
  <2> QED  BY <2>1
<1>3. Longest(ends) = CHOOSE j \in ends : Q(j)  BY DEF Longest
<1> HIDE DEF Q
<1> QED  BY <1>1, <1>2, <1>3

\* A text whose mantissa, if there is one, starts at its Start.
Placed(s) == s \in Seq(Char) /\ Start(s) \in 1..Len(s) + 1

\* Digits and one point among them, from the start to j.
Pointed(s, j) ==
    \E k \in Start(s)..j :
        s[k] = Point /\ AllDigits(s, Start(s), k - 1) /\ AllDigits(s, k + 1, j)

LEMMA MantissaIs ==
    ASSUME NEW s, NEW j
    PROVE  Mantissa(s, Start(s), j) <=>
              \/ j >= Start(s) /\ AllDigits(s, Start(s), j)
              \/ j > Start(s) /\ Pointed(s, j)
BY DEF Mantissa, Pointed

\* A mantissa has digits and points only, and not two points.
LEMMA MantissaChars ==
    ASSUME NEW s, Placed(s), NEW j \in MantissaEnds(s)
    PROVE  /\ j \in Start(s)..Len(s) /\ j \in Nat
           /\ \A k \in Start(s)..j : IsDigit(s[k]) \/ s[k] = Point
           /\ \A k, n \in Start(s)..j : s[k] = Point /\ s[n] = Point => k = n
<1> DEFINE a == Start(s)
<1>1. a \in Nat /\ a >= 1 /\ Len(s) \in Nat  BY DEF Placed
<1>2. j \in a..Len(s) /\ Mantissa(s, a, j)  BY DEF MantissaEnds
<1>3. j \in Nat  BY <1>1, <1>2
<1>4. CASE AllDigits(s, a, j)
  <2>1. \A k \in a..j : IsDigit(s[k])  BY <1>4 DEF AllDigits
  <2>2. \A k \in a..j : s[k] # Point  BY <2>1, Letters
  <2> QED  BY <1>2, <1>3, <2>1, <2>2
<1>5. CASE Pointed(s, j)
  <2>1. PICK m \in a..j : s[m] = Point /\ AllDigits(s, a, m - 1) /\ AllDigits(s, m + 1, j)
    BY <1>5 DEF Pointed
  <2>2. ASSUME NEW k \in a..j, k # m PROVE IsDigit(s[k])
    <3>1. k \in a..m - 1 \/ k \in m + 1..j  BY <1>1, <1>3, <2>2
    <3> QED  BY <2>1, <3>1 DEF AllDigits
  <2>3. \A k \in a..j : s[k] = Point => k = m  BY <2>2, Letters
  <2> QED  BY <1>2, <1>3, <2>1, <2>2, <2>3
<1> QED  BY <1>2, <1>4, <1>5, MantissaIs

\* No mantissa goes on behind one that is followed by a letter that fits in none.
LEMMA LongestMantissa ==
    ASSUME NEW s, Placed(s), NEW m \in MantissaEnds(s),
           \/ AllDigits(s, Start(s), m) /\ ~IsDigit(CharAt(s, m + 1)) /\ CharAt(s, m + 1) # Point
           \/ Pointed(s, m) /\ ~IsDigit(CharAt(s, m + 1))
           \/ CharAt(s, m + 1) = Exp
    PROVE  \A j \in MantissaEnds(s) : j <= m
<1> DEFINE a == Start(s)
<1>1. a \in Nat /\ a >= 1 /\ Len(s) \in Nat  BY DEF Placed
<1>2. m \in a..Len(s) /\ m \in Nat  BY MantissaChars
<1> SUFFICES ASSUME NEW j \in MantissaEnds(s), m < j PROVE FALSE
  <2>1. \A j \in MantissaEnds(s) : j \in Nat  BY MantissaChars
  <2> QED  BY <1>2, <2>1
<1>3. /\ j \in a..Len(s) /\ j \in Nat
      /\ \A k \in a..j : IsDigit(s[k]) \/ s[k] = Point
      /\ \A k, n \in a..j : s[k] = Point /\ s[n] = Point => k = n
  BY MantissaChars
<1>4. m + 1 \in a..j /\ m + 1 <= Len(s)  BY <1>1, <1>2, <1>3
<1>5. CharAt(s, m + 1) = s[m + 1]  BY <1>4 DEF CharAt
<1>6. IsDigit(s[m + 1]) \/ s[m + 1] = Point  BY <1>3, <1>4
<1>7. CASE Pointed(s, m) /\ ~IsDigit(CharAt(s, m + 1))
  <2>1. PICK k \in a..m : s[k] = Point  BY <1>7 DEF Pointed
  <2>2. k \in a..j /\ k # m + 1  BY <1>1, <1>2, <1>3
  <2> QED  BY <1>3, <1>4, <1>5, <1>6, <1>7, <2>1, <2>2
<1> QED  BY <1>5, <1>6, <1>7, Letters

LEMMA NumberTypes ==
    ASSUME NEW s, Placed(s)
    PROVE  /\ NumberEnds(s) \in SUBSET Int /\ MantissaEnds(s) \subseteq NumberEnds(s)
           /\ \A j \in NumberEnds(s) : j \in Start(s)..Len(s)
           /\ \A i : SignWidth(s, i) \in {0, 1}
BY DEF Placed, NumberEnds, MantissaEnds, SignWidth

\* Where a number ends that has no exponent.
LEMMA EndsAtMantissa ==
    ASSUME NEW s, Placed(s), NEW m \in MantissaEnds(s),
           \/ AllDigits(s, Start(s), m) /\ CharAt(s, m + 1) # Point
           \/ Pointed(s, m),
           ~IsDigit(CharAt(s, m + 1)), CharAt(s, m + 1) # Exp
    PROVE  IsNumber(s) /\ Longest(NumberEnds(s)) = m
<1>1. \A j \in MantissaEnds(s) : j <= m  BY LongestMantissa
<1>2. m \in NumberEnds(s) /\ NumberEnds(s) \in SUBSET Int  BY NumberTypes
<1>3. m \in Nat /\ \A k \in MantissaEnds(s) : k \in Nat /\ k \in Start(s)..Len(s)  BY MantissaChars
<1>4. Len(s) \in Nat /\ Start(s) \in Nat  BY DEF Placed
<1>5. ASSUME NEW j \in NumberEnds(s), j \notin MantissaEnds(s) PROVE FALSE
  <2>1. PICK k \in MantissaEnds(s) : Exponent(s, k + 1, j)  BY <1>5 DEF NumberEnds
  <2>2. j \in Start(s)..Len(s) /\ j > k + 1 /\ s[k + 1] = Exp
    BY <2>1, NumberTypes DEF Exponent
  <2>3. k + 1 <= Len(s)  BY <1>3, <1>4, <2>2
  <2>4. CharAt(s, k + 1) = Exp  BY <2>2, <2>3 DEF CharAt
  <2>5. m <= k  BY <2>4, LongestMantissa
  <2>6. k = m  BY <1>1, <1>3, <2>5
  <2> QED  BY <2>4, <2>6
<1> QED  BY <1>1, <1>2, <1>5, LongestIs DEF IsNumber

\* Where the digits of the exponent start, if the mantissa ends at m.
ExponentStart(s, m) == m + 2 + SignWidth(s, m + 2)

LEMMA ExponentEnds ==
    ASSUME NEW s, Placed(s), NEW m \in MantissaEnds(s), CharAt(s, m + 1) = Exp
    PROVE  /\ m + 1 <= Len(s) /\ s[m + 1] = Exp /\ ExponentStart(s, m) \in Nat
           /\ ExponentStart(s, m) \in {m + 2, m + 3}
           /\ \A j \in NumberEnds(s) :
                 j # m => \/ j < m
                          \/ /\ j >= ExponentStart(s, m) /\ j <= Len(s)
                             /\ AllDigits(s, ExponentStart(s, m), j)
<1> DEFINE w == SignWidth(s, m + 2)
<1>1. m \in Nat /\ Len(s) \in Nat /\ Start(s) \in Nat /\ w \in {0, 1}
  BY MantissaChars, NumberTypes DEF Placed
<1>2. m + 1 <= Len(s) /\ s[m + 1] = Exp  BY Letters DEF CharAt
<1>3. \A j \in MantissaEnds(s) : j <= m /\ j \in Nat  BY LongestMantissa, MantissaChars
<1>4. ASSUME NEW j \in NumberEnds(s), j \notin MantissaEnds(s)
      PROVE  j >= m + 2 + w /\ j <= Len(s) /\ AllDigits(s, m + 2 + w, j)
  <2>1. PICK k \in MantissaEnds(s) : Exponent(s, k + 1, j)  BY <1>4 DEF NumberEnds
  <2>2. j \in Start(s)..Len(s) /\ j > k + 1 /\ s[k + 1] = Exp  BY <2>1, NumberTypes DEF Exponent
  <2>3. k \in Nat /\ k + 1 <= Len(s)  BY <1>1, <1>3, <2>2
  <2>4. CharAt(s, k + 1) = Exp  BY <2>2, <2>3 DEF CharAt
  <2>5. m <= k  BY <2>4, LongestMantissa
  <2>6. k = m  BY <1>1, <1>3, <2>3, <2>5
  <2>7. (m + 1) + 1 = m + 2 /\ m + 1 + 1 + w = m + 2 + w  BY <1>1
  <2>8. j > (m + 1) + w /\ AllDigits(s, m + 2 + w, j)
    BY <2>1, <2>6, <2>7 DEF Exponent
  <2>9. j \in Nat /\ j <= Len(s)  BY <1>1, <2>2
  <2> QED  BY <1>1, <2>8, <2>9
<1>5. m + 2 + w \in Nat /\ m + 2 + w \in {m + 2, m + 3}  BY <1>1
<1>6. ASSUME NEW j \in NumberEnds(s), j # m, j \in MantissaEnds(s) PROVE j < m
  BY <1>1, <1>3, <1>6
<1> HIDE DEF w
<1> QED  BY <1>2, <1>4, <1>5, <1>6 DEF ExponentStart, w

\* A letter E that no digit follows is no part of the number.
LEMMA EndsBeforeLetter ==
    ASSUME NEW s, Placed(s), NEW m \in MantissaEnds(s), CharAt(s, m + 1) = Exp,
           ~IsDigit(CharAt(s, ExponentStart(s, m)))
    PROVE  IsNumber(s) /\ Longest(NumberEnds(s)) = m
<1> DEFINE e == ExponentStart(s, m)
<1>1. m \in NumberEnds(s) /\ NumberEnds(s) \in SUBSET Int /\ m \in Nat
  BY NumberTypes, MantissaChars
<1>2. /\ e \in Nat
      /\ \A j \in NumberEnds(s) :
            j # m => j < m \/ (j >= e /\ j <= Len(s) /\ AllDigits(s, e, j))
  BY ExponentEnds
<1> HIDE DEF e
<1>3. ASSUME NEW j \in NumberEnds(s) PROVE j <= m
  <2>1. j \in Int  BY <1>1
  <2>2. CASE j >= e /\ j <= Len(s) /\ AllDigits(s, e, j)
    <3>1. Len(s) \in Nat  BY DEF Placed
    <3>2. e \in e..j /\ e <= Len(s)  BY <1>2, <2>1, <2>2, <3>1
    <3>3. IsDigit(s[e])  BY <2>2, <3>2 DEF AllDigits
    <3>4. IsDigit(CharAt(s, e))  BY <3>2, <3>3 DEF CharAt
    <3> QED  BY <3>4 DEF e
  <2> QED  BY <1>1, <1>2, <2>1, <2>2
<1> QED  BY <1>1, <1>3, LongestIs DEF IsNumber

\* Where a number with an exponent ends.
LEMMA EndsAtExponent ==
    ASSUME NEW s, Placed(s), NEW m \in MantissaEnds(s), CharAt(s, m + 1) = Exp,
           NEW n \in Nat, n >= ExponentStart(s, m), n <= Len(s),
           AllDigits(s, ExponentStart(s, m), n), ~IsDigit(CharAt(s, n + 1))
    PROVE  IsNumber(s) /\ Longest(NumberEnds(s)) = n
<1> DEFINE e == ExponentStart(s, m)
<1>1. NumberEnds(s) \in SUBSET Int /\ m \in Nat /\ m \in Start(s)..Len(s) /\ Len(s) \in Nat
      /\ Start(s) \in Nat /\ SignWidth(s, m + 2) \in {0, 1}
  BY NumberTypes, MantissaChars DEF Placed
<1>2. /\ m + 1 <= Len(s) /\ s[m + 1] = Exp
      /\ e \in Nat /\ e \in {m + 2, m + 3}
      /\ \A j \in NumberEnds(s) :
            j # m => j < m \/ (j >= e /\ j <= Len(s) /\ AllDigits(s, e, j))
  BY ExponentEnds
<1>3. n \in NumberEnds(s)
  <2>1. n \in Start(s)..Len(s)  BY <1>1, <1>2
  <2>2. (m + 1) + 1 = m + 2 /\ m + 1 + 1 + SignWidth(s, m + 2) = e /\ n > (m + 1) + SignWidth(s, m + 2)
        /\ n > m + 1
    BY <1>1, <1>2 DEF ExponentStart
  <2>3. Exponent(s, m + 1, n)  BY <1>2, <2>2 DEF Exponent
  <2> QED  BY <2>1, <2>3 DEF NumberEnds
<1> HIDE DEF e
<1>4. ASSUME NEW j \in NumberEnds(s) PROVE j <= n
  <2>1. j \in Int /\ m < n  BY <1>1, <1>2 DEF e
  <2>2. CASE j >= e /\ j <= Len(s) /\ AllDigits(s, e, j)
    <3> SUFFICES ASSUME n < j PROVE FALSE  BY <2>1
    <3>1. n + 1 \in e..j /\ n + 1 <= Len(s)  BY <1>1, <1>2, <2>1, <2>2 DEF e
    <3>2. IsDigit(s[n + 1])  BY <2>2, <3>1 DEF AllDigits
    <3>3. IsDigit(CharAt(s, n + 1))  BY <3>1, <3>2 DEF CharAt
    <3> QED  BY <3>3
  <2>3. CASE j <= m  BY <1>1, <2>1, <2>3
  <2> QED  BY <1>1, <1>2, <2>1, <2>2, <2>3
<1> QED  BY <1>1, <1>3, <1>4, LongestIs DEF IsNumber

\* Texts that start with no number.
LEMMA NoNumber ==
    ASSUME NEW s, Placed(s), ~IsDigit(CharAt(s, Start(s))),
           CharAt(s, Start(s)) = Point => ~IsDigit(CharAt(s, Start(s) + 1))
    PROVE  ~IsNumber(s)
<1> DEFINE a == Start(s)
<1>1. a \in Nat /\ Len(s) \in Nat  BY DEF Placed
<1>2. ASSUME NEW j \in MantissaEnds(s) PROVE FALSE
  <2>1. j \in a..Len(s) /\ j \in Nat /\ Mantissa(s, a, j)  BY MantissaChars DEF MantissaEnds
  <2>2. a \in a..j /\ CharAt(s, a) = s[a]  BY <1>1, <2>1 DEF CharAt
  <2>3. ~AllDigits(s, a, j)  BY <2>2 DEF AllDigits
  <2>4. j > a /\ Pointed(s, j)  BY <2>1, <2>3, MantissaIs
  <2>5. PICK k \in a..j : s[k] = Point /\ AllDigits(s, a, k - 1) /\ AllDigits(s, k + 1, j)
    BY <2>4 DEF Pointed
  <2>6. k = a
    <3>1. k # a => a \in a..k - 1  BY <1>1
    <3> QED  BY <2>2, <2>5, <3>1 DEF AllDigits
  <2>7. a + 1 \in k + 1..j /\ CharAt(s, a + 1) = s[a + 1]  BY <1>1, <2>1, <2>4, <2>6 DEF CharAt
  <2>8. IsDigit(s[a + 1])  BY <2>5, <2>7 DEF AllDigits
  <2> QED  BY <2>2, <2>5, <2>6, <2>7, <2>8
<1>3. NumberEnds(s) = {}  BY <1>2 DEF NumberEnds
<1> QED  BY <1>3 DEF IsNumber

-----------------------------------------------------------------------------
(* Where the scan stands                                                    *)

\* The part of the number in front of q, for each state of the scanner: st, found and
\* saved are the state, found_digit and savedp.
InDigits(s, q) == Placed(s) /\ q >= Start(s) /\ AllDigits(s, Start(s), q - 1)
InExponent(s, q, m) ==
    /\ CharAt(s, m + 1) = Exp
    /\ q >= ExponentStart(s, m) /\ AllDigits(s, ExponentStart(s, m), q - 1)

Ended(s, q, found) ==
    IF IsNumber(s) THEN q = Longest(NumberEnds(s)) + 1 /\ found
    ELSE q \in {1, AfterBlanks(s)} /\ ~found

Where(st, s, q, found, saved) ==
    /\ st \in {"idle", "S_WHITE", "S_INIT", "S_SIGNM", "S_POINT"} => ~found /\ saved = 1
    /\ st = "idle" => q = 1
    /\ st = "S_WHITE" => \A k \in 1..q - 1 : s[k] = Blank
    /\ st = "S_INIT" => Placed(s) /\ q = AfterBlanks(s)
    /\ st = "S_SIGNM" => Placed(s) /\ q = Start(s)
    /\ st = "S_POINT" => Placed(s) /\ q = Start(s) + 1 /\ CharAt(s, Start(s)) = Point
    /\ st = "S_EAT0L" => InDigits(s, q) /\ q > Start(s)
    /\ st = "S_GETL" => InDigits(s, q) /\ (q > Start(s) \/ IsDigit(CharAt(s, q)))
    /\ st = "S_GETR" => Placed(s) /\ Pointed(s, q - 1)
                        /\ (q - 1 > Start(s) \/ IsDigit(CharAt(s, q)))
    /\ st = "S_E" => Placed(s) /\ found /\ q - 2 \in MantissaEnds(s) /\ CharAt(s, q - 1) = Exp
    /\ st = "S_SIGNE" =>
          /\ Placed(s) /\ found /\ q - 3 \in MantissaEnds(s) /\ CharAt(s, q - 2) = Exp
          /\ CharAt(s, q - 1) \in {Plus, Minus} /\ saved = q - 2
    /\ st = "S_EAT0E" =>
          /\ Placed(s) /\ found
          /\ \E m \in MantissaEnds(s) : InExponent(s, q, m) /\ q > ExponentStart(s, m)
    /\ st = "S_GETE" =>
          /\ Placed(s) /\ found
          /\ \E m \in MantissaEnds(s) : InExponent(s, q, m)
                /\ (q > ExponentStart(s, m) \/ IsDigit(CharAt(s, q)))
    /\ st \in Computing \cup {"done"} => Ended(s, q, found)

EndInv == \A t \in Threads : Where(state[t], text[t], p[t], loc[t].found_digit, loc[t].savedp)

\* One digit more.
LEMMA MoreDigits ==
    ASSUME NEW s, NEW i \in Nat, NEW q \in Nat, AllDigits(s, i, q - 1), IsDigit(s[q])
    PROVE  AllDigits(s, i, q)
<1>1. \A k \in i..q : k \in i..q - 1 \/ k = q  OBVIOUS
<1> QED  BY <1>1 DEF AllDigits

LEMMA InString ==
    ASSUME NEW s \in Seq(Char), NEW q \in 1..Len(s) + 1, CharAt(s, q) # Other
    PROVE  q \in 1..Len(s) /\ CharAt(s, q) = s[q]
BY DEF CharAt

\* Behind the blanks.
LEMMA StartPlaced ==
    ASSUME NEW s \in Seq(Char), NEW q \in 1..Len(s) + 1,
           \A k \in 1..q - 1 : s[k] = Blank, CharAt(s, q) # Blank
    PROVE  Placed(s) /\ AfterBlanks(s) = q
<1>1. AfterBlanks(s) = q  BY BlanksEnd
<1>2. Start(s) = q + SignWidth(s, q)  BY <1>1 DEF Start
<1>3. Start(s) \in 1..Len(s) + 1  BY <1>2 DEF SignWidth
<1> QED  BY <1>1, <1>3 DEF Placed

LEMMA StartHere ==
    ASSUME NEW s, Placed(s), NEW q \in 1..Len(s) + 1, q = AfterBlanks(s)
    PROVE  Start(s) = IF CharAt(s, q) \in {Plus, Minus} THEN q + 1 ELSE q
BY Letters DEF Placed, Start, SignWidth, CharAt

\* From the start of the mantissa.
LEMMA FromStart ==
    ASSUME NEW s, Placed(s), NEW q, q = Start(s)
    PROVE  /\ IsDigit(CharAt(s, q)) =>
                 /\ InDigits(s, q)
                 /\ InDigits(s, q + 1) /\ q + 1 > Start(s)
           /\ ~IsDigit(CharAt(s, q)) /\ CharAt(s, q) # Point => ~IsNumber(s)
<1>1. q \in Nat /\ s \in Seq(Char) /\ q \in 1..Len(s) + 1  BY DEF Placed
<1>2. InDigits(s, q)  BY <1>1 DEF InDigits, AllDigits
<1>3. ASSUME IsDigit(CharAt(s, q)) PROVE InDigits(s, q + 1) /\ q + 1 > Start(s)
  <2>1. IsDigit(s[q])  BY <1>1, <1>3, InString, Letters
  <2>2. AllDigits(s, q, q)  BY <1>1, <2>1 DEF AllDigits
  <2>3. (q + 1) - 1 = q /\ q + 1 > q  BY <1>1
  <2> QED  BY <1>1, <2>2, <2>3 DEF InDigits
<1>4. ASSUME ~IsDigit(CharAt(s, q)), CharAt(s, q) # Point PROVE ~IsNumber(s)
  BY <1>4, NoNumber
<1> QED  BY <1>2, <1>3, <1>4

\* In front of the point.
LEMMA FromDigits ==
    ASSUME NEW s, NEW q \in 1..Len(s) + 1, InDigits(s, q)
    PROVE  /\ IsDigit(CharAt(s, q)) => InDigits(s, q + 1) /\ q + 1 > Start(s)
           /\ q > Start(s) /\ CharAt(s, q) = Exp => (q + 1) - 2 \in MantissaEnds(s)
           /\ q > Start(s) /\ CharAt(s, q) = Point => Pointed(s, (q + 1) - 1) /\ (q + 1) - 1 > Start(s)
           /\ q > Start(s) /\ ~IsDigit(CharAt(s, q)) /\ CharAt(s, q) \notin {Point, Exp} =>
                 Ended(s, q, TRUE)
<1> DEFINE a == Start(s)
<1>1. /\ s \in Seq(Char) /\ a \in Nat /\ a >= 1 /\ Len(s) \in Nat /\ q \in Nat /\ q >= a /\ Placed(s)
      /\ AllDigits(s, a, q - 1)
  BY DEF InDigits, Placed
<1>2. ASSUME q > a PROVE q - 1 \in MantissaEnds(s)
  <2>1. q - 1 \in a..Len(s) /\ q - 1 >= a  BY <1>1, <1>2
  <2> QED  BY <1>1, <2>1, MantissaIs DEF MantissaEnds
<1>3. (q + 1) - 1 = q /\ (q + 1) - 2 = q - 1 /\ (q - 1) + 1 = q /\ q + 1 > a /\ q + 1 >= a
  BY <1>1
<1>4. ASSUME IsDigit(CharAt(s, q)) PROVE InDigits(s, q + 1)
  <2>1. IsDigit(s[q])  BY <1>1, <1>4, InString, Letters
  <2>2. AllDigits(s, a, q)  BY <1>1, <2>1, MoreDigits
  <2> QED  BY <1>1, <1>3, <2>2 DEF InDigits
<1>5. ASSUME q > a, CharAt(s, q) = Point PROVE Pointed(s, q)
  <2>1. s[q] = Point  BY <1>1, <1>5, InString, Letters
  <2>2. AllDigits(s, q + 1, q)  BY <1>1 DEF AllDigits
  <2>3. q \in a..q  BY <1>1
  <2> QED  BY <1>1, <2>1, <2>2, <2>3 DEF Pointed
<1>6. ASSUME q > a, ~IsDigit(CharAt(s, q)), CharAt(s, q) \notin {Point, Exp}
      PROVE  Ended(s, q, TRUE)
  <2>1. IsNumber(s) /\ Longest(NumberEnds(s)) = q - 1
    <3> DEFINE m == q - 1
    <3>1. m \in MantissaEnds(s) /\ m + 1 = q /\ AllDigits(s, Start(s), m)  BY <1>1, <1>2, <1>3, <1>6
    <3> HIDE DEF m
    <3>2. IsNumber(s) /\ Longest(NumberEnds(s)) = m  BY <1>1, <1>6, <3>1, EndsAtMantissa
    <3> QED  BY <3>2 DEF m
  <2> QED  BY <1>3, <2>1 DEF Ended
<1> QED  BY <1>2, <1>3, <1>4, <1>5, <1>6

\* Behind the point.
LEMMA FromPoint ==
    ASSUME NEW s, Placed(s), NEW q \in 1..Len(s) + 1, Pointed(s, q - 1)
    PROVE  /\ IsDigit(CharAt(s, q)) => Pointed(s, (q + 1) - 1) /\ (q + 1) - 1 > Start(s)
           /\ q - 1 > Start(s) /\ CharAt(s, q) = Exp => (q + 1) - 2 \in MantissaEnds(s)
           /\ q - 1 > Start(s) /\ ~IsDigit(CharAt(s, q)) /\ CharAt(s, q) # Exp => Ended(s, q, TRUE)
<1> DEFINE a == Start(s)
<1>1. /\ s \in Seq(Char) /\ a \in Nat /\ a >= 1 /\ Len(s) \in Nat /\ q \in Nat
  BY DEF Placed
<1>2. PICK k \in a..q - 1 : s[k] = Point /\ AllDigits(s, a, k - 1) /\ AllDigits(s, k + 1, q - 1)
  BY DEF Pointed
<1>3. (q + 1) - 1 = q /\ (q + 1) - 2 = q - 1 /\ (q - 1) + 1 = q /\ q > a /\ q - 1 <= Len(s)
  BY <1>1, <1>2
<1>4. ASSUME IsDigit(CharAt(s, q)) PROVE Pointed(s, q)
  <2>1. IsDigit(s[q])  BY <1>1, <1>4, InString, Letters
  <2>2. AllDigits(s, k + 1, q)  BY <1>1, <1>2, <2>1, MoreDigits
  <2>3. k \in a..q  BY <1>1, <1>2
  <2> QED  BY <1>2, <2>2, <2>3 DEF Pointed
<1>5. ASSUME q - 1 > a PROVE q - 1 \in MantissaEnds(s)
  <2>1. q - 1 \in a..Len(s)  BY <1>1, <1>3, <1>5
  <2> QED  BY <1>5, <2>1, MantissaIs DEF MantissaEnds
<1>6. ASSUME q - 1 > a, ~IsDigit(CharAt(s, q)), CharAt(s, q) # Exp PROVE Ended(s, q, TRUE)
  <2>1. IsNumber(s) /\ Longest(NumberEnds(s)) = q - 1
    <3> DEFINE m == q - 1
    <3>1. m \in MantissaEnds(s) /\ m + 1 = q /\ Pointed(s, m)  BY <1>3, <1>5, <1>6
    <3> HIDE DEF m
    <3>2. IsNumber(s) /\ Longest(NumberEnds(s)) = m  BY <1>6, <3>1, EndsAtMantissa
    <3> QED  BY <3>2 DEF m
  <2> QED  BY <1>3, <2>1 DEF Ended
<1> QED  BY <1>3, <1>4, <1>5, <1>6

\* From S_POINT.
LEMMA FromFirstPoint ==
    ASSUME NEW s, Placed(s), NEW q \in 1..Len(s) + 1, q = Start(s) + 1, CharAt(s, Start(s)) = Point
    PROVE  /\ Pointed(s, q - 1)
           /\ ~IsDigit(CharAt(s, q)) => ~IsNumber(s)
<1>1. s \in Seq(Char) /\ Start(s) \in Nat /\ Start(s) \in 1..Len(s) + 1 /\ q - 1 = Start(s)  BY DEF Placed
<1>2. s[Start(s)] = Point  BY <1>1, InString, Letters
<1>3. Pointed(s, Start(s))
  <2>1. AllDigits(s, Start(s), Start(s) - 1) /\ AllDigits(s, Start(s) + 1, Start(s))
    BY <1>1 DEF AllDigits
  <2>2. Start(s) \in Start(s)..Start(s)  BY <1>1
  <2> QED  BY <1>2, <2>1, <2>2 DEF Pointed
<1>4. ~IsDigit(CharAt(s, q)) => ~IsNumber(s)  BY Letters, NoNumber
<1> QED  BY <1>1, <1>3, <1>4

\* Behind the letter, and behind its sign.
LEMMA FromLetter ==
    ASSUME NEW s, Placed(s), NEW q \in 1..Len(s) + 1, NEW m \in MantissaEnds(s),
           CharAt(s, m + 1) = Exp, q = ExponentStart(s, m)
    PROVE  /\ InExponent(s, q, m)
           /\ IsDigit(CharAt(s, q)) => InExponent(s, q + 1, m) /\ q + 1 > ExponentStart(s, m)
           /\ ~IsDigit(CharAt(s, q)) => Ended(s, m + 1, TRUE)
<1>1. s \in Seq(Char) /\ q \in Nat /\ m \in Nat  BY MantissaChars DEF Placed
<1>2. InExponent(s, q, m)  BY <1>1 DEF InExponent, AllDigits
<1>3. ASSUME IsDigit(CharAt(s, q)) PROVE InExponent(s, q + 1, m) /\ q + 1 > ExponentStart(s, m)
  <2>1. IsDigit(s[q])  BY <1>1, <1>3, InString, Letters
  <2>2. AllDigits(s, q, q)  BY <1>1, <2>1 DEF AllDigits
  <2>3. (q + 1) - 1 = q /\ q + 1 > q /\ q + 1 >= q  BY <1>1
  <2> QED  BY <2>2, <2>3 DEF InExponent
<1>4. ASSUME ~IsDigit(CharAt(s, q)) PROVE Ended(s, m + 1, TRUE)
  <2>1. IsNumber(s) /\ Longest(NumberEnds(s)) = m  BY <1>4, EndsBeforeLetter
  <2> QED  BY <2>1 DEF Ended
<1> QED  BY <1>2, <1>3, <1>4

LEMMA LetterStart ==
    ASSUME NEW s, Placed(s), NEW q \in 1..Len(s) + 1
    PROVE  /\ q - 2 \in MantissaEnds(s) /\ CharAt(s, q) \notin {Plus, Minus} =>
                 q = ExponentStart(s, q - 2)
           /\ q - 3 \in MantissaEnds(s) /\ CharAt(s, q - 1) \in {Plus, Minus} =>
                 q = ExponentStart(s, q - 3)
<1>1. s \in Seq(Char) /\ q \in Nat /\ Len(s) \in Nat  BY DEF Placed
<1>2. (q - 2) + 2 = q /\ (q - 3) + 2 = q - 1 /\ q + 0 = q /\ (q - 1) + 1 = q  BY <1>1
<1>3. ASSUME CharAt(s, q) \notin {Plus, Minus} PROVE SignWidth(s, q) = 0
  BY <1>3 DEF SignWidth, CharAt
<1>4. ASSUME CharAt(s, q - 1) \in {Plus, Minus} PROVE SignWidth(s, q - 1) = 1
  BY <1>4, Letters DEF SignWidth, CharAt
<1> QED  BY <1>2, <1>3, <1>4 DEF ExponentStart

\* Among the digits of the exponent.
LEMMA FromExponent ==
    ASSUME NEW s, Placed(s), NEW q \in 1..Len(s) + 1, NEW m \in MantissaEnds(s), InExponent(s, q, m)
    PROVE  /\ IsDigit(CharAt(s, q)) => InExponent(s, q + 1, m) /\ q + 1 > ExponentStart(s, m)
           /\ q > ExponentStart(s, m) /\ ~IsDigit(CharAt(s, q)) => Ended(s, q, TRUE)
<1> DEFINE e == ExponentStart(s, m)
<1>1. s \in Seq(Char) /\ q \in Nat /\ Len(s) \in Nat  BY DEF Placed
<1>2. CharAt(s, m + 1) = Exp /\ q >= e /\ AllDigits(s, e, q - 1)  BY DEF InExponent
<1>3. e \in Nat  BY <1>2, ExponentEnds
<1> HIDE DEF e
<1>4. (q + 1) - 1 = q /\ (q - 1) + 1 = q /\ q + 1 > e /\ q + 1 >= e  BY <1>1, <1>2, <1>3
<1>5. ASSUME IsDigit(CharAt(s, q)) PROVE InExponent(s, q + 1, m)
  <2>1. IsDigit(s[q])  BY <1>1, <1>5, InString, Letters
  <2>2. AllDigits(s, e, q)  BY <1>1, <1>2, <1>3, <2>1, MoreDigits
  <2> QED  BY <1>2, <1>4, <2>2 DEF InExponent, e
<1>6. ASSUME q > e, ~IsDigit(CharAt(s, q)) PROVE Ended(s, q, TRUE)
  <2> DEFINE n == q - 1
  <2>1. n \in Nat /\ n >= e /\ n <= Len(s) /\ n + 1 = q /\ AllDigits(s, e, n)  BY <1>1, <1>2, <1>3, <1>6
  <2> HIDE DEF n
  <2>2. IsNumber(s) /\ Longest(NumberEnds(s)) = n  BY <1>2, <1>6, <2>1, EndsAtExponent DEF e
  <2> QED  BY <2>1, <2>2 DEF Ended
<1> QED  BY <1>4, <1>5, <1>6 DEF e

-----------------------------------------------------------------------------
(* Every state of the scanner keeps Where                                   *)

LEMMA EndedWith ==
    ASSUME NEW s, NEW q, NEW found, Ended(s, q, TRUE), found
    PROVE  Ended(s, q, found)
BY DEF Ended

\* What Where says of thread t, now and after a step of its own.
Here(t) == Where(state[t], text[t], p[t], loc[t].found_digit, loc[t].savedp)
There(t) == Where(state'[t], text[t], p'[t], loc'[t].found_digit, loc'[t].savedp)

LEMMA ReadFacts ==
    ASSUME NEW t \in Threads, IInv, state[t] \in Scanning
    PROVE  /\ text[t] \in Seq(Char) /\ p[t] \in 1..Len(text[t]) + 1 /\ p[t] \in Nat
           /\ c(t) = CharAt(text[t], p[t]) /\ c(t) \in Char
<1>1. /\ t \in DOMAIN text /\ p[t] \in 1..Len(text[t]) + 1 /\ Len(text[t]) \in Nat  BY ScanFacts
<1>2. text[t] \in Seq(Char)  BY <1>1 DEF IInv, Strings
<1>3. c(t) = CharAt(text[t], p[t])  BY DEF c, CharAt
<1>4. c(t) \in Char
  <2>1. Other \in Char  BY DEF Other, Char
  <2> QED  BY <1>1, <1>2, <2>1 DEF c
<1> QED  BY <1>1, <1>2, <1>3, <1>4

LEMMA GotoEffect ==
    ASSUME NEW t \in Threads, IInv, NEW st, NEW n, Goto(t, st, n)
    PROVE  state'[t] = st /\ p'[t] = n
BY DEF IInv, Shape, Goto

LEMMA TakeEffect ==
    ASSUME NEW t \in Threads, IInv
    PROVE  /\ \A st : Take(t, st) => state'[t] = st /\ p'[t] = p[t] + 1
           /\ \A st : Leave(t, st) => state'[t] = st /\ p'[t] = p[t]
BY GotoEffect DEF Take, Leave

LEMMA LocEffect ==
    ASSUME NEW t \in Threads, IInv, NEW f, NEW v, NEW g, NEW w
    PROVE  /\ UNCHANGED loc => loc'[t].found_digit = loc[t].found_digit
                               /\ loc'[t].savedp = loc[t].savedp
           /\ loc' = [loc EXCEPT ![t].found_digit = f] =>
                 loc'[t].found_digit = f /\ loc'[t].savedp = loc[t].savedp
           /\ loc' = [loc EXCEPT ![t].savedp = v] =>
                 loc'[t].found_digit = loc[t].found_digit /\ loc'[t].savedp = v
           /\ loc' = [loc EXCEPT ![t].savedp = v, ![t].exp_sign = w] =>
                 loc'[t].found_digit = loc[t].found_digit /\ loc'[t].savedp = v
           /\ loc' = [loc EXCEPT ![t].man_sign = w] \/ loc' = [loc EXCEPT ![t].longpow = w] =>
                 loc'[t].found_digit = loc[t].found_digit /\ loc'[t].savedp = loc[t].savedp
           /\ loc' = [loc EXCEPT ![t].found_digit = f, ![t].exp_adj = w] =>
                 loc'[t].found_digit = f /\ loc'[t].savedp = loc[t].savedp
BY DEF IInv, Shape, Locals

LEMMA WhiteWhere ==
    ASSUME NEW t \in Threads, IInv, Here(t), White(t)
    PROVE  There(t)
<1> DEFINE s == text[t]
<1> DEFINE q == p[t]
<1>1. state[t] = "S_WHITE" /\ state[t] \in Scanning  BY DEF White, Scanning
<1>2. /\ s \in Seq(Char) /\ q \in 1..Len(s) + 1 /\ q \in Nat /\ c(t) = CharAt(s, q)
  BY <1>1, ReadFacts
<1>3. ~loc[t].found_digit /\ loc[t].savedp = 1 /\ \A k \in 1..q - 1 : s[k] = Blank
  BY <1>1 DEF Here, Where
<1>4. loc'[t].found_digit = loc[t].found_digit /\ loc'[t].savedp = loc[t].savedp
  BY LocEffect DEF White
<1>5. CASE c(t) = Blank /\ state'[t] = "S_WHITE" /\ p'[t] = q + 1
  <2>1. s[q] = Blank  BY <1>2, <1>5, InString, Letters
  <2>2. \A k \in 1..(q + 1) - 1 : k \in 1..q - 1 \/ k = q  BY <1>2
  <2>3. \A k \in 1..(q + 1) - 1 : s[k] = Blank  BY <1>3, <2>1, <2>2
  <2> HIDE DEF s, q
  <2> QED  BY <1>3, <1>4, <1>5, <2>3 DEF There, Where, Computing, s
<1>6. CASE c(t) # Blank /\ state'[t] = "S_INIT" /\ p'[t] = q
  <2>1. Placed(s) /\ AfterBlanks(s) = q  BY <1>2, <1>3, <1>6, StartPlaced
  <2> HIDE DEF s, q
  <2> QED  BY <1>3, <1>4, <1>6, <2>1 DEF There, Where, Computing, s
<1> QED  BY <1>5, <1>6, TakeEffect DEF White

LEMMA StartWhere ==
    ASSUME NEW t \in Threads, IInv, Here(t), S_INIT(t) \/ S_SIGNM(t)
    PROVE  There(t)
<1> DEFINE s == text[t]
<1> DEFINE q == p[t]
<1>1. state[t] \in {"S_INIT", "S_SIGNM"} /\ state[t] \in Scanning
  BY DEF S_INIT, S_SIGNM, Scanning
<1>2. /\ s \in Seq(Char) /\ q \in 1..Len(s) + 1 /\ q \in Nat /\ c(t) = CharAt(s, q) /\ c(t) \in Char
  BY <1>1, ReadFacts
<1>3. /\ Placed(s) /\ ~loc[t].found_digit /\ loc[t].savedp = 1
      /\ state[t] = "S_INIT" => q = AfterBlanks(s)
      /\ state[t] = "S_SIGNM" => q = Start(s)
  BY <1>1 DEF Here, Where
<1>4. loc'[t].found_digit = loc[t].found_digit /\ loc'[t].savedp = loc[t].savedp
  BY LocEffect DEF S_INIT, S_SIGNM
<1>5. state[t] = "S_INIT" => Start(s) = IF c(t) \in {Plus, Minus} THEN q + 1 ELSE q
  BY <1>2, <1>3, StartHere
<1> HIDE DEF s, q
<1>6. CASE IsDigit(c(t)) /\ q = Start(s) /\ state'[t] = "S_GETL" /\ p'[t] = q
  <2>1. InDigits(s, q)  BY <1>2, <1>3, <1>6, FromStart
  <2> QED  BY <1>2, <1>6, <2>1 DEF There, Where, Computing, s
<1>7. CASE IsDigit(c(t)) /\ q = Start(s) /\ state'[t] = "S_EAT0L" /\ p'[t] = q + 1
  <2>1. InDigits(s, q + 1) /\ q + 1 > Start(s)  BY <1>2, <1>3, <1>7, FromStart
  <2> QED  BY <1>7, <2>1 DEF There, Where, Computing, s
<1>8. CASE c(t) = Point /\ q = Start(s) /\ state'[t] = "S_POINT" /\ p'[t] = q + 1
  BY <1>2, <1>3, <1>4, <1>8 DEF There, Where, Computing, s
<1>9. CASE state'[t] = "S_SIGNM" /\ p'[t] = Start(s)
  BY <1>3, <1>4, <1>9 DEF There, Where, Computing, s
<1>10. CASE /\ ~IsDigit(c(t)) /\ c(t) # Point /\ q = Start(s)
            /\ state'[t] = "S_END" /\ p'[t] \in {1, AfterBlanks(s)}
  <2>1. ~IsNumber(s)  BY <1>2, <1>3, <1>10, FromStart
  <2>2. Ended(s, p'[t], loc'[t].found_digit)  BY <1>3, <1>4, <1>10, <2>1 DEF Ended
  <2> QED  BY <1>10, <2>2 DEF There, Where, Computing, s
<1>11. CASE S_INIT(t)
  <2>1. \/ IsNzDigit(c(t)) /\ state'[t] = "S_GETL" /\ p'[t] = q
        \/ c(t) = 0 /\ state'[t] = "S_EAT0L" /\ p'[t] = q + 1
        \/ c(t) \in {Plus, Minus} /\ state'[t] = "S_SIGNM" /\ p'[t] = q + 1
        \/ c(t) = Point /\ state'[t] = "S_POINT" /\ p'[t] = q + 1
        \/ c(t) \in {Blank, Exp, Other} /\ state'[t] = "S_END" /\ p'[t] = q
    BY <1>11, TakeEffect DEF S_INIT, q
  <2>2. state[t] = "S_INIT"  BY <1>11 DEF S_INIT
  <2> QED
    BY <1>3, <1>5, <1>6, <1>7, <1>8, <1>9, <1>10, <2>1, <2>2, Letters, Kinds
<1>12. CASE S_SIGNM(t)
  <2>1. \/ IsNzDigit(c(t)) /\ state'[t] = "S_GETL" /\ p'[t] = q
        \/ c(t) = 0 /\ state'[t] = "S_EAT0L" /\ p'[t] = q + 1
        \/ c(t) = Point /\ state'[t] = "S_POINT" /\ p'[t] = q + 1
        \/ c(t) \in {Blank, Plus, Minus, Exp, Other} /\ state'[t] = "S_END" /\ p'[t] = loc[t].savedp
    BY <1>12, TakeEffect, GotoEffect DEF S_SIGNM, q
  <2>2. state[t] = "S_SIGNM"  BY <1>12 DEF S_SIGNM
  <2> QED
    BY <1>3, <1>6, <1>7, <1>8, <1>10, <2>1, <2>2, Letters, Kinds
<1> QED  BY <1>11, <1>12

LEMMA DigitsWhere ==
    ASSUME NEW t \in Threads, IInv, Here(t), S_EAT0L(t) \/ S_GETL(t)
    PROVE  There(t)
<1> DEFINE s == text[t]
<1> DEFINE q == p[t]
<1>1. state[t] \in {"S_EAT0L", "S_GETL"} /\ state[t] \in Scanning
  BY DEF S_EAT0L, S_GETL, Scanning
<1>2. /\ s \in Seq(Char) /\ q \in 1..Len(s) + 1 /\ q \in Nat /\ c(t) = CharAt(s, q) /\ c(t) \in Char
  BY <1>1, ReadFacts
<1>3. /\ InDigits(s, q) /\ (q > Start(s) \/ IsDigit(c(t)))
  BY <1>1, <1>2 DEF Here, Where
<1>4. loc'[t].found_digit
  <2>1. CASE S_EAT0L(t)  BY <2>1, LocEffect DEF S_EAT0L
  <2>2. CASE S_GETL(t)
    <3>1. \/ \E w : loc' = [loc EXCEPT ![t].found_digit = TRUE, ![t].exp_adj = w]
          \/ loc' = [loc EXCEPT ![t].found_digit = TRUE]
      BY <2>2, Zenon DEF S_GETL, StoreDigit
    <3> QED  BY <3>1, LocEffect
  <2> QED  BY <2>1, <2>2
<1>5. /\ \/ IsDigit(c(t)) /\ state'[t] = "S_GETL" /\ p'[t] \in {q, q + 1}
         \/ IsDigit(c(t)) /\ state'[t] = "S_EAT0L" /\ p'[t] = q + 1
         \/ c(t) = Point /\ state'[t] = "S_GETR" /\ p'[t] = q + 1
         \/ c(t) = Exp /\ state'[t] = "S_E" /\ p'[t] = q + 1
         \/ ~IsDigit(c(t)) /\ c(t) \notin {Point, Exp} /\ state'[t] = "S_END" /\ p'[t] = q
  <2>1. CASE S_EAT0L(t)  BY <2>1, TakeEffect, Letters, Kinds DEF S_EAT0L
  <2>2. CASE S_GETL(t)  BY <2>2, TakeEffect, Letters, Kinds DEF S_GETL
  <2> QED  BY <2>1, <2>2
<1> HIDE DEF s, q
<1>6. Placed(s)  BY <1>3 DEF InDigits
<1>7. /\ IsDigit(c(t)) => InDigits(s, q + 1) /\ q + 1 > Start(s)
      /\ q > Start(s) /\ c(t) = Exp => (q + 1) - 2 \in MantissaEnds(s)
      /\ q > Start(s) /\ c(t) = Point => Pointed(s, (q + 1) - 1) /\ (q + 1) - 1 > Start(s)
      /\ q > Start(s) /\ ~IsDigit(c(t)) /\ c(t) \notin {Point, Exp} => Ended(s, q, TRUE)
  BY <1>2, <1>3, FromDigits
<1>8. CASE IsDigit(c(t)) /\ state'[t] = "S_GETL" /\ p'[t] = q
  BY <1>2, <1>3, <1>8 DEF There, Where, Computing, s
<1>9. CASE IsDigit(c(t)) /\ state'[t] \in {"S_GETL", "S_EAT0L"} /\ p'[t] = q + 1
  BY <1>7, <1>9 DEF There, Where, Computing, s
<1>10. CASE c(t) = Point /\ state'[t] = "S_GETR" /\ p'[t] = q + 1
  <2>1. q > Start(s)  BY <1>3, <1>10, Letters
  <2> QED  BY <1>6, <1>7, <1>10, <2>1 DEF There, Where, Computing, s
<1>11. CASE c(t) = Exp /\ state'[t] = "S_E" /\ p'[t] = q + 1
  <2>1. q > Start(s) /\ (q + 1) - 1 = q  BY <1>2, <1>3, <1>11, Letters
  <2> QED  BY <1>2, <1>4, <1>6, <1>7, <1>11, <2>1 DEF There, Where, Computing, s
<1>12. CASE ~IsDigit(c(t)) /\ c(t) \notin {Point, Exp} /\ state'[t] = "S_END" /\ p'[t] = q
  <2>1. Ended(s, q, TRUE)  BY <1>3, <1>7, <1>12
  <2>2. Ended(s, q, loc'[t].found_digit)  BY <1>4, <2>1, EndedWith
  <2> QED  BY <1>12, <2>2 DEF There, Where, Computing, s
<1> QED  BY <1>5, <1>8, <1>9, <1>10, <1>11, <1>12

LEMMA PointWhere ==
    ASSUME NEW t \in Threads, IInv, Here(t), S_POINT(t)
    PROVE  There(t)
<1> DEFINE s == text[t]
<1> DEFINE q == p[t]
<1>1. state[t] = "S_POINT" /\ state[t] \in Scanning  BY DEF S_POINT, Scanning
<1>2. /\ s \in Seq(Char) /\ q \in 1..Len(s) + 1 /\ q \in Nat /\ c(t) = CharAt(s, q) /\ c(t) \in Char
  BY <1>1, ReadFacts
<1>3. /\ Placed(s) /\ q = Start(s) + 1 /\ CharAt(s, Start(s)) = Point
      /\ ~loc[t].found_digit /\ loc[t].savedp = 1
  BY <1>1 DEF Here, Where
<1>4. loc'[t].found_digit = loc[t].found_digit /\ loc'[t].savedp = loc[t].savedp
  BY LocEffect DEF S_POINT
<1>5. \/ IsDigit(c(t)) /\ state'[t] = "S_GETR" /\ p'[t] = q
      \/ ~IsDigit(c(t)) /\ state'[t] = "S_END" /\ p'[t] = loc[t].savedp
  BY TakeEffect, GotoEffect DEF S_POINT
<1>6. Pointed(s, q - 1) /\ (~IsDigit(c(t)) => ~IsNumber(s))  BY <1>2, <1>3, FromFirstPoint
<1> HIDE DEF s, q
<1>7. CASE IsDigit(c(t)) /\ state'[t] = "S_GETR" /\ p'[t] = q
  BY <1>2, <1>3, <1>6, <1>7 DEF There, Where, Computing, s
<1>8. CASE ~IsDigit(c(t)) /\ state'[t] = "S_END" /\ p'[t] = loc[t].savedp
  <2>1. Ended(s, p'[t], loc'[t].found_digit)  BY <1>3, <1>4, <1>6, <1>8 DEF Ended
  <2> QED  BY <1>8, <2>1 DEF There, Where, Computing, s
<1> QED  BY <1>5, <1>7, <1>8

LEMMA FractionWhere ==
    ASSUME NEW t \in Threads, IInv, Here(t), S_GETR(t)
    PROVE  There(t)
<1> DEFINE s == text[t]
<1> DEFINE q == p[t]
<1>1. state[t] = "S_GETR" /\ state[t] \in Scanning  BY DEF S_GETR, Scanning
<1>2. /\ s \in Seq(Char) /\ q \in 1..Len(s) + 1 /\ q \in Nat /\ c(t) = CharAt(s, q) /\ c(t) \in Char
  BY <1>1, ReadFacts
<1>3. Placed(s) /\ Pointed(s, q - 1) /\ (q - 1 > Start(s) \/ IsDigit(c(t)))
  BY <1>1, <1>2 DEF Here, Where
<1>4. loc'[t].found_digit
  <2>1. \/ \E w : loc' = [loc EXCEPT ![t].found_digit = TRUE, ![t].exp_adj = w]
        \/ loc' = [loc EXCEPT ![t].found_digit = TRUE]
    BY Zenon DEF S_GETR, StoreDigit
  <2> QED  BY <2>1, LocEffect
<1>5. \/ IsDigit(c(t)) /\ state'[t] = "S_GETR" /\ p'[t] = q + 1
      \/ c(t) = Exp /\ state'[t] = "S_E" /\ p'[t] = q + 1
      \/ ~IsDigit(c(t)) /\ c(t) # Exp /\ state'[t] = "S_END" /\ p'[t] = q
  BY TakeEffect, Kinds DEF S_GETR
<1> HIDE DEF s, q
<1>6. /\ IsDigit(c(t)) => Pointed(s, (q + 1) - 1) /\ (q + 1) - 1 > Start(s)
      /\ q - 1 > Start(s) /\ c(t) = Exp => (q + 1) - 2 \in MantissaEnds(s)
      /\ q - 1 > Start(s) /\ ~IsDigit(c(t)) /\ c(t) # Exp => Ended(s, q, TRUE)
  BY <1>2, <1>3, FromPoint
<1>7. CASE IsDigit(c(t)) /\ state'[t] = "S_GETR" /\ p'[t] = q + 1
  BY <1>3, <1>6, <1>7 DEF There, Where, Computing, s
<1>8. CASE c(t) = Exp /\ state'[t] = "S_E" /\ p'[t] = q + 1
  <2>1. q - 1 > Start(s) /\ (q + 1) - 1 = q  BY <1>2, <1>3, <1>8, Letters
  <2> QED  BY <1>2, <1>3, <1>4, <1>6, <1>8, <2>1 DEF There, Where, Computing, s
<1>9. CASE ~IsDigit(c(t)) /\ c(t) # Exp /\ state'[t] = "S_END" /\ p'[t] = q
  <2>1. Ended(s, q, TRUE)  BY <1>3, <1>6, <1>9
  <2>2. Ended(s, q, loc'[t].found_digit)  BY <1>4, <2>1, EndedWith
  <2> QED  BY <1>9, <2>2 DEF There, Where, Computing, s
<1> QED  BY <1>5, <1>7, <1>8, <1>9

\* Behind the letter and behind its sign: the digits of the exponent start here.
LEMMA LetterWhere ==
    ASSUME NEW t \in Threads, IInv, NEW m, Placed(text[t]), m \in MantissaEnds(text[t]),
           CharAt(text[t], m + 1) = Exp, p[t] = ExponentStart(text[t], m), state[t] \in Scanning,
           loc'[t].found_digit,
           \/ IsDigit(c(t)) /\ state'[t] = "S_GETE" /\ p'[t] = p[t]
           \/ IsDigit(c(t)) /\ state'[t] = "S_EAT0E" /\ p'[t] = p[t] + 1
           \/ ~IsDigit(c(t)) /\ state'[t] = "S_END" /\ p'[t] = m + 1
    PROVE  There(t)
<1> DEFINE s == text[t]
<1> DEFINE q == p[t]
<1>1. /\ s \in Seq(Char) /\ q \in 1..Len(s) + 1 /\ q \in Nat /\ c(t) = CharAt(s, q)
  BY ReadFacts
<1>2. /\ InExponent(s, q, m)
      /\ IsDigit(c(t)) => InExponent(s, q + 1, m) /\ q + 1 > ExponentStart(s, m)
      /\ ~IsDigit(c(t)) => Ended(s, m + 1, TRUE)
  BY <1>1, FromLetter
<1> HIDE DEF s, q
<1>3. CASE IsDigit(c(t)) /\ state'[t] = "S_GETE" /\ p'[t] = q
  BY <1>1, <1>2, <1>3 DEF There, Where, Computing, s
<1>4. CASE IsDigit(c(t)) /\ state'[t] = "S_EAT0E" /\ p'[t] = q + 1
  BY <1>1, <1>2, <1>4 DEF There, Where, Computing, s
<1>5. CASE ~IsDigit(c(t)) /\ state'[t] = "S_END" /\ p'[t] = m + 1
  <2>1. Ended(s, m + 1, loc'[t].found_digit)  BY <1>2, <1>5, EndedWith
  <2> QED  BY <1>5, <2>1 DEF There, Where, Computing, s
<1> QED  BY <1>3, <1>4, <1>5 DEF q

LEMMA ExponentLetterWhere ==
    ASSUME NEW t \in Threads, IInv, Here(t), S_E(t)
    PROVE  There(t)
<1> DEFINE s == text[t]
<1> DEFINE q == p[t]
<1>1. state[t] = "S_E" /\ state[t] \in Scanning  BY DEF S_E, Scanning
<1>2. /\ s \in Seq(Char) /\ q \in 1..Len(s) + 1 /\ q \in Nat /\ c(t) = CharAt(s, q) /\ c(t) \in Char
  BY <1>1, ReadFacts
<1>3. Placed(s) /\ loc[t].found_digit /\ q - 2 \in MantissaEnds(s) /\ CharAt(s, q - 1) = Exp
  BY <1>1 DEF Here, Where
<1>4. loc'[t].found_digit = loc[t].found_digit /\ loc'[t].savedp = q - 1
  <2>1. \/ loc' = [loc EXCEPT ![t].savedp = q - 1]
        \/ \E w : loc' = [loc EXCEPT ![t].savedp = q - 1, ![t].exp_sign = w]
    BY Zenon DEF S_E
  <2> HIDE DEF q
  <2>2. CASE loc' = [loc EXCEPT ![t].savedp = q - 1]  BY <2>2, LocEffect
  <2>3. ASSUME NEW w, loc' = [loc EXCEPT ![t].savedp = q - 1, ![t].exp_sign = w]
        PROVE  loc'[t].found_digit = loc[t].found_digit /\ loc'[t].savedp = q - 1
    BY <2>3, LocEffect
  <2> QED  BY <2>1, <2>2, <2>3
<1>5. \/ IsDigit(c(t)) /\ state'[t] = "S_GETE" /\ p'[t] = q
      \/ IsDigit(c(t)) /\ state'[t] = "S_EAT0E" /\ p'[t] = q + 1
      \/ c(t) \in {Plus, Minus} /\ state'[t] = "S_SIGNE" /\ p'[t] = q + 1
      \/ /\ ~IsDigit(c(t)) /\ c(t) \notin {Plus, Minus} /\ state'[t] = "S_END" /\ p'[t] = q - 1
  BY TakeEffect, GotoEffect, Kinds, Letters DEF S_E
<1> DEFINE m == q - 2
<1>6. m + 1 = q - 1 /\ (q + 1) - 3 = m /\ (q + 1) - 2 = q - 1 /\ (q + 1) - 1 = q  BY <1>2
<1>7. CASE c(t) \in {Plus, Minus} /\ state'[t] = "S_SIGNE" /\ p'[t] = q + 1
  <2> HIDE DEF s, q
  <2> QED  BY <1>2, <1>3, <1>4, <1>6, <1>7 DEF There, Where, Computing, s
<1>8. CASE c(t) \notin {Plus, Minus}
  <2>1. q = ExponentStart(s, m)  BY <1>2, <1>3, <1>8, LetterStart
  <2>2. m \in MantissaEnds(s) /\ CharAt(s, m + 1) = Exp  BY <1>3, <1>6
  <2>3. loc'[t].found_digit  BY <1>3, <1>4, Zenon
  <2> HIDE DEF m
  <2> QED  BY <1>1, <1>3, <1>5, <1>6, <1>8, <2>1, <2>2, <2>3, LetterWhere, Letters
<1> QED  BY <1>5, <1>7, <1>8, Letters

LEMMA ExponentSignWhere ==
    ASSUME NEW t \in Threads, IInv, Here(t), S_SIGNE(t)
    PROVE  There(t)
<1> DEFINE s == text[t]
<1> DEFINE q == p[t]
<1>1. state[t] = "S_SIGNE" /\ state[t] \in Scanning  BY DEF S_SIGNE, Scanning
<1>2. /\ s \in Seq(Char) /\ q \in 1..Len(s) + 1 /\ q \in Nat /\ c(t) = CharAt(s, q) /\ c(t) \in Char
  BY <1>1, ReadFacts
<1>3. /\ Placed(s) /\ loc[t].found_digit /\ q - 3 \in MantissaEnds(s) /\ CharAt(s, q - 2) = Exp
      /\ CharAt(s, q - 1) \in {Plus, Minus} /\ loc[t].savedp = q - 2
  BY <1>1 DEF Here, Where
<1>4. loc'[t].found_digit = loc[t].found_digit /\ loc'[t].savedp = q - 2
  BY <1>3, LocEffect DEF S_SIGNE
<1>5. \/ IsDigit(c(t)) /\ state'[t] = "S_GETE" /\ p'[t] = q
      \/ IsDigit(c(t)) /\ state'[t] = "S_EAT0E" /\ p'[t] = q + 1
      \/ ~IsDigit(c(t)) /\ state'[t] = "S_END" /\ p'[t] = q - 2
  BY <1>3, TakeEffect, GotoEffect, Kinds DEF S_SIGNE
<1> DEFINE m == q - 3
<1>6. m + 1 = q - 2  BY <1>2
<1>7. q = ExponentStart(s, m)  BY <1>2, <1>3, LetterStart
<1>8. m \in MantissaEnds(s) /\ CharAt(s, m + 1) = Exp  BY <1>3, <1>6
<1>9. loc'[t].found_digit  BY <1>3, <1>4, Zenon
<1> HIDE DEF m
<1> QED  BY <1>1, <1>3, <1>5, <1>6, <1>7, <1>8, <1>9, LetterWhere

LEMMA ExponentWhere ==
    ASSUME NEW t \in Threads, IInv, Here(t), S_EAT0E(t) \/ S_GETE(t)
    PROVE  There(t)
<1> DEFINE s == text[t]
<1> DEFINE q == p[t]
<1>1. state[t] \in {"S_EAT0E", "S_GETE"} /\ state[t] \in Scanning
  BY DEF S_EAT0E, S_GETE, Scanning
<1>2. /\ s \in Seq(Char) /\ q \in 1..Len(s) + 1 /\ q \in Nat /\ c(t) = CharAt(s, q) /\ c(t) \in Char
  BY <1>1, ReadFacts
<1>3. Placed(s) /\ loc[t].found_digit  BY <1>1 DEF Here, Where
<1>4. PICK m \in MantissaEnds(s) :
         InExponent(s, q, m) /\ (q > ExponentStart(s, m) \/ IsDigit(c(t)))
  BY <1>1, <1>2 DEF Here, Where
<1>5. loc'[t].found_digit
  <2>1. CASE S_EAT0E(t)  BY <1>3, <2>1, LocEffect DEF S_EAT0E
  <2>2. CASE S_GETE(t)
    <3>1. UNCHANGED loc \/ \E w : loc' = [loc EXCEPT ![t].longpow = w]
      BY <2>2, Zenon DEF S_GETE
    <3> QED  BY <1>3, <3>1, LocEffect
  <2> QED  BY <2>1, <2>2
<1>6. \/ IsDigit(c(t)) /\ state'[t] = "S_GETE" /\ p'[t] \in {q, q + 1}
      \/ IsDigit(c(t)) /\ state'[t] = "S_EAT0E" /\ p'[t] = q + 1
      \/ ~IsDigit(c(t)) /\ state'[t] = "S_END" /\ p'[t] = q
  <2>1. CASE S_EAT0E(t)  BY <2>1, TakeEffect, Kinds DEF S_EAT0E
  <2>2. CASE S_GETE(t)  BY <2>2, TakeEffect, Kinds DEF S_GETE
  <2> QED  BY <2>1, <2>2
<1> HIDE DEF s, q
<1>7. /\ IsDigit(c(t)) => InExponent(s, q + 1, m) /\ q + 1 > ExponentStart(s, m)
      /\ q > ExponentStart(s, m) /\ ~IsDigit(c(t)) => Ended(s, q, TRUE)
  BY <1>2, <1>3, <1>4, FromExponent
<1>8. CASE IsDigit(c(t)) /\ state'[t] = "S_GETE" /\ p'[t] = q
  BY <1>2, <1>3, <1>4, <1>5, <1>8 DEF There, Where, Computing, s
<1>9. CASE IsDigit(c(t)) /\ state'[t] \in {"S_GETE", "S_EAT0E"} /\ p'[t] = q + 1
  BY <1>3, <1>5, <1>7, <1>9 DEF There, Where, Computing, s
<1>10. CASE ~IsDigit(c(t)) /\ state'[t] = "S_END" /\ p'[t] = q
  <2>1. Ended(s, q, TRUE)  BY <1>4, <1>7, <1>10
  <2>2. Ended(s, q, loc'[t].found_digit)  BY <1>5, <2>1, EndedWith
  <2> QED  BY <1>10, <2>2 DEF There, Where, Computing, s
<1> QED  BY <1>6, <1>8, <1>9, <1>10

LEMMA ScanWhere ==
    ASSUME NEW t \in Threads, IInv, Here(t), Scan(t)
    PROVE  There(t)
BY WhiteWhere, StartWhere, DigitsWhere, PointWhere, FractionWhere, ExponentLetterWhere,
   ExponentSignWhere, ExponentWhere DEF Scan

\* The place and found_digit stay while the result is computed.
LEMMA ComputeWhere ==
    ASSUME NEW t \in Threads, IInv, Here(t), Compute(t)
    PROVE  There(t)
<1>1. state[t] \in Computing /\ Computes(t)  BY ComputeSteps
<1>2. /\ state'[t] \in Computing \cup {"done"} /\ p' = p
      /\ loc'[t].found_digit = loc[t].found_digit
  BY <1>1 DEF Computes
<1>3. Ended(text[t], p[t], loc[t].found_digit)  BY <1>1 DEF Here, Where
<1>4. Ended(text[t], p'[t], loc'[t].found_digit)  BY <1>2, <1>3, Zenon
<1> QED  BY <1>2, <1>4 DEF There, Where, Computing

LEMMA CallWhere ==
    ASSUME NEW t \in Threads, IInv, Here(t), Call(t)
    PROVE  There(t)
<1>1. state[t] = "idle" /\ state'[t] = "S_WHITE" /\ p'[t] = p[t] /\ loc' = loc
  BY GotoEffect DEF Call, Leave
<1>2. ~loc[t].found_digit /\ loc[t].savedp = 1 /\ p[t] = 1  BY <1>1 DEF Here, Where
<1>3. ~loc'[t].found_digit /\ loc'[t].savedp = 1 /\ \A k \in 1..p'[t] - 1 : text[t][k] = Blank
  BY <1>1, <1>2
<1> QED  BY <1>1, <1>3 DEF There, Where, Computing

-----------------------------------------------------------------------------
(* The 12-byte integers                                                     *)

LEMMA Widths == B \in Nat \ {0} /\ W \in Nat \ {0} /\ W * W \in Nat \ {0}
<1>1. B \in Nat \ {0}  BY WidthAssumption
<1>2. ASSUME NEW x \in Nat \ {0}, NEW y \in Nat \ {0} PROVE x * y \in Nat \ {0}
  OBVIOUS
<1>3. W \in Nat \ {0}  BY <1>1, <1>2 DEF W
<1> QED  BY <1>1, <1>2, <1>3

LEMMA AddlRange ==
    ASSUME NEW x \in Int, NEW y \in Int
    PROVE  addl(x, y).sum \in 0..W - 1 /\ addl(x, y).carry \in Int
<1>1. (x + y) % W \in 0..W - 1  BY Widths
<1> QED  BY <1>1 DEF addl

LEMMA ZeroRange == 0 \in 0..W * W * W - 1
<1>1. W * W * W \in Nat \ {0}
  <2> DEFINE v == W * W
  <2>1. v \in Nat \ {0} /\ W \in Nat \ {0}  BY Widths
  <2> HIDE DEF v
  <2>2. v * W \in Nat \ {0}  BY <2>1
  <2> QED  BY <2>2 DEF v
<1> DEFINE w == W * W * W
<1> HIDE DEF w
<1>2. w \in Nat \ {0} => 0 \in 0..w - 1  OBVIOUS
<1> QED  BY <1>1, <1>2 DEF w

LEMMA JoinRange ==
    ASSUME NEW lo \in 0..W - 1, NEW med \in 0..W - 1, NEW hi \in 0..W - 1
    PROVE  Join(lo, med, hi) \in 0..W * W * W - 1
<1>1. W \in Nat \ {0}  BY Widths
<1> DEFINE w == W
<1> DEFINE v == w * w
<1>2. w \in Nat /\ v \in Nat  BY Widths
<1>3. w * med \in Nat /\ w * med <= w * (w - 1)
  BY <1>1
<1>4. w * (w - 1) = v - w  BY <1>1
<1>5. v * hi \in Nat /\ v * hi <= v * (w - 1)
  <2> HIDE DEF v
  <2> QED  BY <1>2
<1>6. v * (w - 1) = v * w - v  BY <1>2
<1>7. lo \in Nat /\ lo <= w - 1  BY <1>1
<1> DEFINE a == w * med
<1> DEFINE b == v * hi
<1> DEFINE z == v * w
<1>8. z \in Int  BY <1>2
<1>9. lo + a + b \in 0..z - 1
  <2>1. a \in Nat /\ a <= v - w  BY <1>3, <1>4
  <2>2. b \in Nat /\ b <= z - v  BY <1>5, <1>6
  <2> HIDE DEF a, b, v, z, w
  <2> QED  BY <1>2, <1>7, <1>8, <2>1, <2>2
<1>10. W * W * W = z  BY <1>1
<1>11. Join(lo, med, hi) = lo + a + b  BY DEF Join
<1> QED  BY <1>9, <1>10, <1>11

LEMMA AddRange ==
    ASSUME NEW x \in Int, NEW y \in Int
    PROVE  add_12(x, y) \in 0..W * W * W - 1
<1>1. \A n \in Int : Lo(n) \in Int /\ Med(n) \in Int /\ Hi(n) \in Int
  <2>1. W \in Nat \ {0} /\ W * W \in Nat \ {0}  BY Widths
  <2> DEFINE v == W * W
  <2> HIDE DEF v
  <2>2. v \in Nat \ {0}  BY <2>1 DEF v
  <2>3. \A n \in Int : n % W \in Int /\ n \div W \in Int /\ n \div v \in Int  BY <2>1, <2>2
  <2> QED  BY <2>1, <2>3 DEF Lo, Med, Hi, v
<1> DEFINE c0 == addl(Lo(x), Lo(y))
<1> DEFINE c1 == addl(Med(x), c0.carry)
<1> DEFINE c2 == addl(c1.sum, Med(y))
<1> DEFINE hi == (Hi(x) + c1.carry + c2.carry + Hi(y)) % W
<1>2. c0.sum \in 0..W - 1 /\ c0.carry \in Int
  <2>1. Lo(x) \in Int /\ Lo(y) \in Int  BY <1>1
  <2> QED  BY <2>1, AddlRange
<1> HIDE DEF c0
<1>3. c1.sum \in 0..W - 1 /\ c1.carry \in Int
  <2>1. Med(x) \in Int /\ c0.carry \in Int  BY <1>1, <1>2
  <2> QED  BY <2>1, AddlRange
<1>4. c1.sum \in Int  BY <1>3, Widths
<1> HIDE DEF c1
<1>5. c2.sum \in 0..W - 1 /\ c2.carry \in Int
  <2>1. Med(y) \in Int  BY <1>1
  <2> QED  BY <1>4, <2>1, AddlRange
<1> HIDE DEF c2
<1>6. hi \in 0..W - 1
  <2>1. Hi(x) + c1.carry + c2.carry + Hi(y) \in Int  BY <1>1, <1>3, <1>5
  <2> QED  BY <2>1, Widths
<1> HIDE DEF hi
<1>7. Join(c0.sum, c2.sum, hi) \in 0..W * W * W - 1  BY <1>2, <1>5, <1>6, JoinRange
<1>8. add_12(x, y) = Join(c0.sum, c2.sum, hi)  BY Zenon DEF add_12, c0, c1, c2, hi
<1> QED  BY <1>7, <1>8

LEMMA ShlInt ==
    ASSUME NEW x \in Int
    PROVE  shl_12(x) \in Int
<1>1. W * W * W \in Nat \ {0}  BY Widths
<1> DEFINE w == W * W * W
<1> DEFINE y == 2 * x
<1>2. w \in Nat \ {0} /\ y \in Int  BY <1>1
<1>3. shl_12(x) = y % w  BY DEF shl_12
<1> HIDE DEF w, y
<1> QED  BY <1>2, <1>3

\* One digit more leaves a 12-byte integer.
LEMMA AppendRange ==
    ASSUME NEW x \in Int, NEW d \in Int
    PROVE  AppendDigit(x, d) \in 0..W * W * W - 1
<1>1. timesTen(x) \in Int
  <2> DEFINE y == shl_12(shl_12(x))
  <2>1. y \in Int  BY ShlInt
  <2> HIDE DEF y
  <2>2. add_12(y, x) \in Int
    <3>1. W * W * W \in Int  BY Widths
    <3> QED  BY <2>1, <3>1, AddRange
  <2>3. timesTen(x) = shl_12(add_12(y, x))  BY Zenon DEF timesTen, y
  <2> QED  BY <2>2, <2>3, ShlInt
<1> DEFINE sum(y) == add_12(y, d)
<1>2. sum(timesTen(x)) \in 0..W * W * W - 1  BY <1>1, AddRange
<1>3. AppendDigit(x, d) = sum(timesTen(x))
  <2>1. AppendDigit(x, d) = CHOOSE r \in {sum(v) : v \in {timesTen(x)}} : TRUE
    BY Zenon DEF AppendDigit, Once
  <2> HIDE DEF sum
  <2> QED  BY <2>1
<1> QED  BY <1>2, <1>3

-----------------------------------------------------------------------------
(* Types                                                                    *)

\* The rest of the type invariant: what IInv does not say.
Function(f) == f = [t \in Threads |-> f[t]]
Functions ==
    /\ Function(state) /\ Function(p) /\ Function(manlen)
    /\ overlapped \subseteq Threads

Numbers(t) ==
    /\ loc[t].found_digit \in BOOLEAN
    /\ loc[t].exp_adj \in Int
    /\ loc[t].longpow \in 0..TMAX10 + 1
    /\ loc[t].nread \in Nat
    /\ loc[t].man \in 0..W * W * W - 1

TypeInv == Functions /\ \A t \in Threads : Numbers(t)

LEMMA InitTypeInv == Init => TypeInv
<1> SUFFICES ASSUME Init PROVE TypeInv
  OBVIOUS
<1>1. 0 \in 0..W * W * W - 1  BY ZeroRange
<1>2. Functions  BY DEF Init, Functions, Function
<1>3. ASSUME NEW t \in Threads PROVE Numbers(t)
  <2>1. loc[t] = Locals  BY DEF Init
  <2> QED  BY <1>1, <2>1 DEF Numbers, Locals
<1> QED  BY <1>2, <1>3 DEF TypeInv

LEMMA FunctionStep ==
    ASSUME NEW f, NEW g, NEW t, NEW x, Function(f), g = [f EXCEPT ![t] = x]
    PROVE  Function(g)
BY DEF Function

LEMMA StepFunctions ==
    ASSUME NEW t \in Threads, Functions, Call(t) \/ Scan(t) \/ Compute(t)
    PROVE  Functions'
<1>1. ASSUME NEW s, NEW n, Goto(t, s, n) PROVE Function(state') /\ Function(p')
  BY <1>1, FunctionStep DEF Goto, Functions
<1>2. ASSUME NEW s, Take(t, s) \/ Leave(t, s) PROVE Function(state') /\ Function(p')
  BY <1>1, <1>2, Zenon DEF Take, Leave
<1>3. ASSUME NEW s, To(t, s) PROVE Function(state')
  BY <1>3, FunctionStep DEF To, Functions
<1>4. ASSUME NEW a, NEW b, StoreDigit(t, a, b) PROVE Function(manlen')
  <2>1. manlen' = manlen \/ \E n : manlen' = [manlen EXCEPT ![t] = n]
    BY <1>4, Zenon DEF StoreDigit
  <2> QED  BY <2>1, FunctionStep, Zenon DEF Functions
<1>5. Function(state) /\ Function(p) /\ Function(manlen) /\ overlapped \subseteq Threads
  BY DEF Functions
<1>6. ASSUME Call(t) PROVE Functions'
  <2>1. Function(state') /\ Function(p')  BY <1>2, <1>6 DEF Call
  <2>2. manlen' = manlen /\ overlapped' \subseteq Threads  BY <1>5, <1>6 DEF Call
  <2> QED  BY <1>5, <2>1, <2>2, Zenon DEF Functions
<1>7. ASSUME Scan(t) PROVE Functions'
  <2>1. Function(state') /\ Function(p')
    BY <1>1, <1>2, <1>7 DEF Scan, White, S_INIT, S_EAT0L, S_SIGNM, S_GETL, S_GETR, S_POINT,
       S_E, S_SIGNE, S_EAT0E, S_GETE
  <2>2. Function(manlen')
    <3>1. (\E a, b : StoreDigit(t, a, b)) \/ manlen' = manlen
      BY <1>7, Zenon DEF Scan, White, S_INIT, S_EAT0L, S_SIGNM, S_GETL, S_GETR, S_POINT,
       S_E, S_SIGNE, S_EAT0E, S_GETE, Unscanned
    <3> QED  BY <1>4, <1>5, <3>1, Zenon
  <2>3. overlapped' = overlapped
    BY <1>7 DEF Scan, White, S_INIT, S_EAT0L, S_SIGNM, S_GETL, S_GETR, S_POINT,
       S_E, S_SIGNE, S_EAT0E, S_GETE, Unscanned
  <2> QED  BY <1>5, <2>1, <2>2, <2>3, Zenon DEF Functions
<1>8. ASSUME Compute(t) PROVE Functions'
  <2>1. Function(state')
    <3>1. (\E s : To(t, s)) \/ state' = state
      BY <1>8, Zenon DEF Compute, S_END, Round, RoundUp, Strip, ReadDigit, Pow, Multiply,
       Convert, StoreFlags, StoreNbytes, StoreDval, ReadResult
    <3> QED  BY <1>3, <1>5, <3>1, Zenon
  <2>2. p' = p /\ overlapped' = overlapped
    BY <1>8 DEF Compute, S_END, Round, RoundUp, Strip, ReadDigit, Pow, Multiply,
       Convert, StoreFlags, StoreNbytes, StoreDval, ReadResult
  <2>3. Function(manlen')
    <3>1. ASSUME NEW n, manlen' = [manlen EXCEPT ![t] = n] PROVE Function(manlen')
      BY <1>5, <3>1, FunctionStep
    <3>2. manlen' = manlen \/ \E n : manlen' = [manlen EXCEPT ![t] = n]
      BY <1>8, Zenon DEF Compute, S_END, Round, RoundUp, Strip, ReadDigit, Pow, Multiply,
         Convert, StoreFlags, StoreNbytes, StoreDval, ReadResult
    <3> QED  BY <1>5, <3>1, <3>2
  <2> QED  BY <1>5, <2>1, <2>2, <2>3, Zenon DEF Functions
<1> QED  BY <1>6, <1>7, <1>8

LEMMA StoreNumbers ==
    ASSUME NEW t \in Threads, IInv, Numbers(t), NEW a \in Int, NEW b \in Int, StoreDigit(t, a, b)
    PROVE  Numbers(t)'
<1> DEFINE step == IF manlen[t] < LD_MAX_MAN_LEN + 1 THEN a ELSE b
<1>1. loc' = [loc EXCEPT ![t].found_digit = TRUE, ![t].exp_adj = @ + step]
  BY DEF StoreDigit
<1>2. step \in Int  OBVIOUS
<1> HIDE DEF step
<1>3. /\ loc'[t].found_digit = TRUE /\ loc'[t].exp_adj = loc[t].exp_adj + step
      /\ loc'[t].longpow = loc[t].longpow /\ loc'[t].nread = loc[t].nread
      /\ loc'[t].man = loc[t].man
  BY <1>1 DEF IInv, Shape, Locals
<1>4. loc[t].exp_adj + step \in Int  BY <1>2 DEF Numbers
<1> QED  BY <1>3, <1>4, Zenon DEF Numbers

\* A step that gives none of these numbers another value.
Keeps(t) ==
    /\ loc'[t].found_digit = loc[t].found_digit \/ loc'[t].found_digit = TRUE
    /\ loc'[t].exp_adj = loc[t].exp_adj /\ loc'[t].longpow = loc[t].longpow
    /\ loc'[t].nread = loc[t].nread /\ loc'[t].man = loc[t].man

LEMMA KeepNumbers ==
    ASSUME NEW t \in Threads, Numbers(t), Keeps(t)
    PROVE  Numbers(t)'
BY DEF Numbers, Keeps

LEMMA ScanNumbers ==
    ASSUME NEW t \in Threads, IInv, Numbers(t), Scan(t)
    PROVE  Numbers(t)'
<1>1. /\ DOMAIN loc = Threads /\ DOMAIN loc[t] = DOMAIN Locals
  BY DEF IInv, Shape
<1>2. ASSUME NEW f, NEW v, loc' = [loc EXCEPT ![t].found_digit = TRUE] \/ UNCHANGED loc
                           \/ loc' = [loc EXCEPT ![t].man_sign = v]
                           \/ loc' = [loc EXCEPT ![t].savedp = v]
                           \/ loc' = [loc EXCEPT ![t].savedp = f, ![t].exp_sign = v]
      PROVE  Keeps(t)
  BY <1>1, <1>2 DEF Keeps, Locals
<1>3. CASE White(t) \/ S_INIT(t) \/ S_EAT0L(t) \/ S_SIGNM(t) \/ S_POINT(t) \/ S_E(t)
           \/ S_SIGNE(t) \/ S_EAT0E(t)
  <2>1. \/ loc' = [loc EXCEPT ![t].found_digit = TRUE] \/ UNCHANGED loc
        \/ \E v : loc' = [loc EXCEPT ![t].man_sign = v]
        \/ \E v : loc' = [loc EXCEPT ![t].savedp = v]
        \/ \E f, v : loc' = [loc EXCEPT ![t].savedp = f, ![t].exp_sign = v]
    BY <1>3, Zenon DEF White, S_INIT, S_EAT0L, S_SIGNM, S_POINT, S_E, S_SIGNE, S_EAT0E
  <2> QED  BY <1>2, <2>1, KeepNumbers
<1>4. CASE S_GETL(t)
  <2>1. StoreDigit(t, 0, 1) \/ loc' = [loc EXCEPT ![t].found_digit = TRUE]
    BY <1>4, Zenon DEF S_GETL
  <2>2. 0 \in Int /\ 1 \in Int  OBVIOUS
  <2> QED  BY <1>2, <2>1, <2>2, KeepNumbers, StoreNumbers, Zenon
<1>5. CASE S_GETR(t)
  <2>1. \/ StoreDigit(t, -1, 0)
        \/ loc' = [loc EXCEPT ![t].found_digit = TRUE, ![t].exp_adj = @ - 1]
        \/ loc' = [loc EXCEPT ![t].found_digit = TRUE]
    BY <1>5, Zenon DEF S_GETR
  <2>2. CASE loc' = [loc EXCEPT ![t].found_digit = TRUE, ![t].exp_adj = @ - 1]
    <3>1. /\ loc'[t].found_digit = TRUE /\ loc'[t].exp_adj = loc[t].exp_adj - 1
          /\ loc'[t].longpow = loc[t].longpow /\ loc'[t].nread = loc[t].nread
          /\ loc'[t].man = loc[t].man
      BY <1>1, <2>2 DEF Locals
    <3>2. loc[t].exp_adj - 1 \in Int  BY DEF Numbers
    <3> QED  BY <3>1, <3>2, Zenon DEF Numbers
  <2>3. -1 \in Int /\ 0 \in Int  OBVIOUS
  <2> QED  BY <1>2, <2>1, <2>2, <2>3, KeepNumbers, StoreNumbers, Zenon
<1>6. CASE S_GETE(t)
  <2> DEFINE n == 10 * loc[t].longpow + c(t)
  <2> DEFINE v == IF n > TMAX10 \/ loc[t].longpow > TMAX10 THEN TMAX10 + 1 ELSE n
  <2>1. (IsDigit(c(t)) /\ loc' = [loc EXCEPT ![t].longpow = v]) \/ UNCHANGED loc
    BY <1>6 DEF S_GETE
  <2>2. ASSUME IsDigit(c(t)) PROVE v \in 0..TMAX10 + 1
    BY <2>2 DEF IsDigit, Numbers
  <2> HIDE DEF v
  <2>3. CASE IsDigit(c(t)) /\ loc' = [loc EXCEPT ![t].longpow = v]
    <3>1. /\ loc'[t].found_digit = loc[t].found_digit /\ loc'[t].exp_adj = loc[t].exp_adj
          /\ loc'[t].longpow = v /\ loc'[t].nread = loc[t].nread /\ loc'[t].man = loc[t].man
      BY <1>1, <2>3 DEF Locals
    <3> QED  BY <2>2, <2>3, <3>1, Zenon DEF Numbers
  <2> QED  BY <1>2, <2>1, <2>3, KeepNumbers, Zenon
<1> QED  BY <1>3, <1>4, <1>5, <1>6 DEF Scan

LEMMA ComputeNumbers ==
    ASSUME NEW t \in Threads, IInv, Numbers(t), Compute(t)
    PROVE  Numbers(t)'
<1>1. DOMAIN loc = Threads /\ DOMAIN loc[t] = DOMAIN Locals  BY DEF IInv, Shape
<1>2. UNCHANGED loc => Keeps(t)  BY DEF Keeps
<1>3. CASE Round(t) \/ Strip(t)
  <2>1. \/ UNCHANGED loc
        \/ loc' = [loc EXCEPT ![t].exp_adj = @ + 1, ![t].byte = buf[LD_MAX_MAN_LEN - 1]]
        \/ loc' = [loc EXCEPT ![t].exp_adj = @ + 1]
    BY <1>3, Zenon DEF Round, Strip
  <2>2. ASSUME ~UNCHANGED loc
        PROVE  /\ loc'[t].found_digit = loc[t].found_digit /\ loc'[t].exp_adj = loc[t].exp_adj + 1
               /\ loc'[t].longpow = loc[t].longpow /\ loc'[t].nread = loc[t].nread
               /\ loc'[t].man = loc[t].man
    BY <1>1, <2>1, <2>2 DEF Locals
  <2>3. loc[t].exp_adj + 1 \in Int  BY DEF Numbers
  <2> QED  BY <1>2, <2>2, <2>3, KeepNumbers, Zenon DEF Numbers
<1>4. CASE ReadDigit(t)
  <2> DEFINE more == AppendDigit(loc[t].man, buf[loc[t].nread])
  <2>1. \/ /\ loc[t].nread < manlen[t]
           /\ loc' = [loc EXCEPT ![t].man = more, ![t].nread = loc[t].nread + 1]
        \/ UNCHANGED loc
    BY <1>4, Zenon DEF ReadDigit
  <2>2. ASSUME loc[t].nread < manlen[t] PROVE more \in 0..W * W * W - 1
    <3>1. loc[t].man \in Int
      <4>1. W * W * W \in Int  BY Widths
      <4> QED  BY <4>1 DEF Numbers
    <3>2. loc[t].nread \in 0..LD_MAX_MAN_LEN
      BY <2>2 DEF Numbers, IInv, ThreadInv, ThreadType
    <3>3. buf[loc[t].nread] \in Int  BY <3>2 DEF IInv, Shape
    <3> QED  BY <3>1, <3>3, AppendRange
  <2> HIDE DEF more
  <2>3. CASE /\ loc[t].nread < manlen[t]
             /\ loc' = [loc EXCEPT ![t].man = more, ![t].nread = loc[t].nread + 1]
    <3>1. /\ loc'[t].found_digit = loc[t].found_digit /\ loc'[t].exp_adj = loc[t].exp_adj
          /\ loc'[t].longpow = loc[t].longpow /\ loc'[t].nread = loc[t].nread + 1
          /\ loc'[t].man = more
      BY <1>1, <2>3 DEF Locals
    <3>2. loc[t].nread + 1 \in Nat  BY DEF Numbers
    <3> QED  BY <2>2, <2>3, <3>1, <3>2, Zenon DEF Numbers
  <2> QED  BY <1>2, <2>1, <2>3, KeepNumbers
<1>5. CASE RoundUp(t) \/ StoreFlags(t) \/ StoreNbytes(t) \/ StoreDval(t) \/ ReadResult(t)
  <2>1. UNCHANGED loc
    BY <1>5, Zenon DEF RoundUp, StoreFlags, StoreNbytes, StoreDval, ReadResult
  <2> QED  BY <1>2, <2>1, KeepNumbers
<1>6. CASE S_END(t)
  <2>1. UNCHANGED loc \/ \E v : loc' = [loc EXCEPT ![t].flags = v]  BY <1>6, Zenon DEF S_END
  <2>2. ASSUME NEW v, loc' = [loc EXCEPT ![t].flags = v] PROVE Keeps(t)
    BY <1>1, <2>2 DEF Keeps, Locals
  <2> QED  BY <1>2, <2>1, <2>2, KeepNumbers
<1>7. CASE Pow(t)
  <2> DEFINE pow == loc[t].exp_sign * loc[t].longpow + loc[t].exp_adj
  <2> DEFINE Result(v, x, y) ==
         loc' = [loc EXCEPT ![t].ld12 = v, ![t].pow = pow, ![t].mulpow = x, ![t].flags = y]
  <2>1. \/ Result(Inf12(0), 0, {"OVERFLOW"})
        \/ Result(Zero12, 0, {"UNDERFLOW"})
        \/ Result(mtold12(loc[t].man), 0, {})
        \/ Result(DropXT(mtold12(loc[t].man)), pow, {})
    BY <1>7, Zenon DEF Pow
  <2> HIDE DEF pow
  <2>2. ASSUME NEW v, NEW x, NEW y, Result(v, x, y) PROVE Keeps(t)
    BY <1>1, <2>2 DEF Keeps, Locals
  <2> HIDE DEF Result
  <2> QED  BY <2>1, <2>2, KeepNumbers
<1>8. CASE Multiply(t)
  <2> DEFINE v0 == IF last3(t) = 0 THEN loc[t].ld12
                   ELSE Once(LAMBDA f : ld12mul(loc[t].ld12, f), factor(t))
  <2> DEFINE w0 == Signed(t, Signed(t, loc[t].mulpow) \div 8)
  <2>1. UNCHANGED loc \/ loc' = [loc EXCEPT ![t].ld12 = v0, ![t].mulpow = w0,
                                           ![t].group = 8 * loc[t].group]
    BY <1>8, Zenon DEF Multiply
  <2> HIDE DEF v0, w0
  <2>2. ASSUME NEW v, NEW w, NEW x,
               loc' = [loc EXCEPT ![t].ld12 = v, ![t].mulpow = w, ![t].group = x]
        PROVE  Keeps(t)
    BY <1>1, <2>2 DEF Keeps, Locals
  <2> QED  BY <1>2, <2>1, <2>2, KeepNumbers, Zenon
<1>9. CASE Convert(t)
  <2>1. \E v, w : loc' = [loc EXCEPT ![t].x = v, ![t].flags = w]  BY <1>9, Zenon DEF Convert
  <2>2. ASSUME NEW v, NEW w, loc' = [loc EXCEPT ![t].x = v, ![t].flags = w] PROVE Keeps(t)
    BY <1>1, <2>2 DEF Keeps, Locals
  <2> QED  BY <2>1, <2>2, KeepNumbers
<1> QED  BY <1>3, <1>4, <1>5, <1>6, <1>7, <1>8, <1>9, Zenon DEF Compute

LEMMA NextTypeInv == IInv /\ TypeInv /\ [Next]_vars => TypeInv'
<1> SUFFICES ASSUME IInv, TypeInv, [Next]_vars PROVE TypeInv'
  OBVIOUS
<1>1. CASE UNCHANGED vars
  BY <1>1 DEF vars, TypeInv, Functions, Function, Numbers
<1>2. ASSUME NEW t \in Threads, Call(t) \/ Scan(t) \/ Compute(t) PROVE TypeInv'
  <2>1. Functions'  BY <1>2, StepFunctions DEF TypeInv
  <2>2. Numbers(t)'
    <3>1. Numbers(t)  BY DEF TypeInv
    <3>2. CASE Call(t)  BY <3>1, <3>2, KeepNumbers DEF Call, Keeps
    <3> QED  BY <1>2, <3>1, <3>2, ScanNumbers, ComputeNumbers
  <2>3. ASSUME NEW u \in Threads, u # t PROVE Numbers(u)'
    <3>1. loc'[u] = loc[u]  BY <1>2, <2>3, StepGood DEF Good, Others
    <3> QED  BY <3>1, Zenon DEF TypeInv, Numbers
  <2> QED  BY <2>1, <2>2, <2>3 DEF TypeInv
<1> QED  BY <1>1, <1>2 DEF Next, Step

-----------------------------------------------------------------------------
(* The theorems                                                             *)

\* The inductive invariant holds in every reachable state, for any number of threads
\* that share the buffer and any strings (fltintrn.c:567-935).
THEOREM Invariant == Spec => []IInv
<1> QED  BY InitIInv, NextIInv, PTL DEF Spec

\* Type correctness: whatever the threads read, every place is in its range, and the
\* mantissa stays an integer of 12 bytes (fltintrn.c:567-935).
THEOREM TypeCorrect == Spec => []TypeOK
<1>1. IInv /\ TypeInv => TypeOK
  <2> SUFFICES ASSUME IInv, TypeInv PROVE TypeOK
    OBVIOUS
  <2>1. ASSUME NEW t \in Threads PROVE ThreadType(t) /\ Numbers(t)
    BY DEF IInv, TypeInv, ThreadInv
  <2>2. /\ state = [t \in Threads |-> state[t]] /\ p = [t \in Threads |-> p[t]]
        /\ manlen = [t \in Threads |-> manlen[t]] /\ overlapped \subseteq Threads
    BY Zenon DEF TypeInv, Functions, Function
  <2>3. state \in [Threads -> Place] /\ p \in [Threads -> Nat \ {0}]
        /\ manlen \in [Threads -> 0..LD_MAX_MAN_LEN + 1]
    BY <2>1, <2>2 DEF ThreadType
  <2>4. buf \in [0..LD_MAX_MAN_LEN -> Nat] /\ DOMAIN loc = Threads  BY DEF IInv, Shape
  <2> QED  BY <2>1, <2>2, <2>3, <2>4, Zenon DEF TypeOK, ThreadType, Numbers, Place
<1>2. Spec => []TypeInv  BY InitTypeInv, NextTypeInv, Invariant, PTL DEF Spec
<1> QED  BY <1>1, <1>2, Invariant, PTL

\* The scanner never reads behind the terminator of its string (fltintrn.c:612-836).
THEOREM ScannerReadsInside == Spec => []ReadsInside
<1>1. IInv => ReadsInside
  BY DEF IInv, ThreadInv, ScanInside, ReadsInside
<1> QED  BY <1>1, Invariant, PTL

\* However many calls write into the static buffer at once, the loop over trailing zeros
\* finds a digit before the start of the buffer (fltintrn.c:866-870).
THEOREM FirstDigitNonZero == Spec => []NonZeroDigit
<1>1. IInv => NonZeroDigit
  BY DEF IInv, ThreadInv, DigitsStored, NonZeroDigit
<1> QED  BY <1>1, Invariant, PTL

LEMMA InitEndInv == Init => EndInv
BY DEF Init, EndInv, Where, Locals, Computing

LEMMA NextEndInv == IInv /\ EndInv /\ [Next]_vars => EndInv'
<1> SUFFICES ASSUME IInv, EndInv, [Next]_vars PROVE EndInv'
  OBVIOUS
<1>1. \A t \in Threads : Here(t)  BY Zenon DEF EndInv, Here
<1>2. CASE UNCHANGED vars
  <2>1. text' = text /\ state' = state /\ p' = p /\ loc' = loc  BY <1>2 DEF vars
  <2> QED  BY <2>1, Zenon DEF EndInv
<1>3. ASSUME NEW t \in Threads, There(t), Others(t) PROVE EndInv'
  <2>1. ASSUME NEW u \in Threads
        PROVE  Where(state[u], text[u], p[u], loc[u].found_digit, loc[u].savedp)'
    <3>1. text' = text  BY <1>3 DEF Others
    <3>2. CASE u = t  BY <1>3, <3>1, <3>2, Zenon DEF There
    <3>3. CASE u # t
      <4>1. state'[u] = state[u] /\ p'[u] = p[u] /\ loc'[u] = loc[u]
        BY <1>3, <3>3 DEF Others
      <4> QED  BY <1>1, <3>1, <4>1, Zenon DEF Here
    <3> QED  BY <3>2, <3>3
  <2> QED  BY <2>1, Zenon DEF EndInv
<1>4. ASSUME NEW t \in Threads, Call(t) \/ Scan(t) \/ Compute(t) PROVE EndInv'
  <2>1. There(t)  BY <1>1, <1>4, CallWhere, ScanWhere, ComputeWhere
  <2>2. Others(t)  BY <1>4, StepGood DEF Good
  <2> QED  BY <1>3, <2>1, <2>2
<1> QED  BY <1>2, <1>4 DEF Next, Step

\* The scan takes the longest number its string starts with, a letter without digits
\* of an exponent behind it left out, and ends at the blanks or the start when there
\* is none: for any string, whatever other calls do meanwhile (fltintrn.c:612-836).
THEOREM EndsBehindNumber == Spec => []EndPtrBehindNumber
<1>1. EndInv => EndPtrBehindNumber
  <2> SUFFICES ASSUME EndInv, NEW t \in Threads, Scanned(t)
               PROVE  Ended(text[t], p[t], loc[t].found_digit)
    BY Zenon DEF EndPtrBehindNumber, Ended
  <2> QED  BY DEF EndInv, Where, Scanned
<1>2. Spec => []EndInv  BY InitEndInv, NextEndInv, Invariant, PTL DEF Spec
<1> QED  BY <1>1, <1>2, PTL

-----------------------------------------------------------------------------
(* Powers of ten and the numbers digits spell                               *)

\* Induction over a set of numbers.
LEMMA SetInduction ==
    ASSUME NEW T, 0 \in T, \A n \in Nat : n \in T => n + 1 \in T
    PROVE  \A n \in Nat : n \in T
<1> DEFINE U == Nat \ T
<1> SUFFICES ASSUME U # {} PROVE FALSE
  OBVIOUS
<1>1. PICK n \in U : \A m \in U : ~(m < n)
  <2> DEFINE R == OpToRel(<, Nat)
  <2>1. IsWellFoundedOn(R, Nat)  BY NatLessThanWellFounded
  <2>2. \E n \in U : \A m \in U : ~(<<m, n>> \in R)
    <3>1. U \in SUBSET Nat  OBVIOUS
    <3> HIDE DEF R, U
    <3> QED  BY <2>1, <3>1, WFMin
  <2> QED  BY <2>2 DEF OpToRel
<1>2. n # 0 /\ n - 1 \in Nat /\ n - 1 < n /\ (n - 1) + 1 = n  OBVIOUS
<1>3. n - 1 \in T  BY <1>1, <1>2
<1> QED  BY <1>1, <1>2, <1>3

\* A value for every number from the one before.
Follows(v, x, F) == v[0] = x /\ \A n \in Nat : v[n + 1] = F[n][v[n]]

\* The same up to k.
Upto(v, k, x, F) ==
    /\ v \in [0..k -> Nat] /\ v[0] = x
    /\ \A n \in 0..k - 1 : v[n + 1] = F[n][v[n]]

LEMMA UptoGrows ==
    ASSUME NEW x \in Nat, NEW F \in [Nat -> [Nat -> Nat]], NEW k \in Nat, NEW v, Upto(v, k, x, F)
    PROVE  \E w : Upto(w, k + 1, x, F)
<1> DEFINE w == [n \in 0..k + 1 |-> IF n = k + 1 THEN F[k][v[k]] ELSE v[n]]
<1>1. v \in [0..k -> Nat] /\ v[0] = x /\ \A n \in 0..k - 1 : v[n + 1] = F[n][v[n]]
  BY DEF Upto
<1>2. F[k][v[k]] \in Nat
  <2>1. v[k] \in Nat  BY <1>1
  <2> QED  BY <2>1
<1>3. \A n \in 0..k : w[n] = v[n]  OBVIOUS
<1>4. w[k + 1] = F[k][v[k]]  OBVIOUS
<1>5. w \in [0..k + 1 -> Nat]
  <2>1. \A n \in 0..k + 1 : n # k + 1 => n \in 0..k  OBVIOUS
  <2>2. \A n \in 0..k + 1 : w[n] \in Nat
    <3> HIDE DEF w
    <3> QED  BY <1>1, <1>2, <1>3, <1>4, <2>1
  <2> QED  BY <2>2
<1> HIDE DEF w
<1>6. w[0] = x
  <2>1. 0 \in 0..k  OBVIOUS
  <2> QED  BY <1>1, <1>3, <2>1
<1>7. ASSUME NEW n \in 0..(k + 1) - 1 PROVE w[n + 1] = F[n][w[n]]
  <2>1. n \in 0..k /\ (n = k \/ (n \in 0..k - 1 /\ n + 1 \in 0..k))  OBVIOUS
  <2> QED  BY <1>1, <1>3, <1>4, <2>1
<1> QED  BY <1>5, <1>6, <1>7 DEF Upto

LEMMA UptoAgree ==
    ASSUME NEW x, NEW F, NEW k \in Nat, NEW v, NEW w, Upto(v, k, x, F), Upto(w, k + 1, x, F)
    PROVE  v[k] = w[k]
<1> DEFINE S == {n \in Nat : n <= k => v[n] = w[n]}
<1>1. 0 \in S  BY DEF Upto
<1>2. ASSUME NEW n \in Nat, n \in S PROVE n + 1 \in S
  <2> SUFFICES ASSUME n + 1 <= k PROVE v[n + 1] = w[n + 1]
    OBVIOUS
  <2>1. v[n] = w[n] /\ n \in 0..k - 1 /\ n \in 0..(k + 1) - 1  BY <1>2
  <2> HIDE DEF S
  <2> QED  BY <2>1 DEF Upto
<1>3. \A n \in Nat : n \in S
  <2> HIDE DEF S
  <2> QED  BY <1>1, <1>2, SetInduction
<1> QED  BY <1>3

LEMMA Recursion ==
    ASSUME NEW x \in Nat, NEW F \in [Nat -> [Nat -> Nat]]
    PROVE  \E v \in [Nat -> Nat] : Follows(v, x, F)
<1> DEFINE T == {k \in Nat : \E v : Upto(v, k, x, F)}
<1>1. \A k \in Nat : k \in T
  <2>1. 0 \in T
    <3> DEFINE v == [n \in 0..0 |-> x]
    <3>1. v \in [0..0 -> Nat] /\ v[0] = x /\ 0..0 - 1 = {}  OBVIOUS
    <3> HIDE DEF v
    <3>2. Upto(v, 0, x, F)  BY <3>1 DEF Upto
    <3> QED  BY <3>2
  <2>2. ASSUME NEW k \in Nat, k \in T PROVE k + 1 \in T
    <3>1. PICK v : Upto(v, k, x, F)  BY <2>2
    <3>2. \E w : Upto(w, k + 1, x, F)  BY <3>1, UptoGrows
    <3> QED  BY <3>2
  <2> HIDE DEF T
  <2> QED  BY <2>1, <2>2, SetInduction
<1> DEFINE u == [k \in Nat |-> CHOOSE v : Upto(v, k, x, F)]
<1>2. \A k \in Nat : Upto(u[k], k, x, F)  BY <1>1
<1> HIDE DEF u
<1> DEFINE w == [k \in Nat |-> u[k][k]]
<1>3. ASSUME NEW k \in Nat PROVE w[k] \in Nat /\ u[k + 1][k] = w[k]
  <2>1. Upto(u[k], k, x, F) /\ Upto(u[k + 1], k + 1, x, F) /\ k + 1 \in Nat
    <3>1. k + 1 \in Nat  OBVIOUS
    <3> QED  BY <1>2, <3>1, Zenon
  <2>2. u[k][k] = u[k + 1][k]
    <3>1. ASSUME NEW a, NEW b, Upto(a, k, x, F), Upto(b, k + 1, x, F) PROVE a[k] = b[k]
      BY <3>1, UptoAgree
    <3> QED  BY <2>1, <3>1, Zenon
  <2>3. u[k][k] \in Nat
    <3>1. u[k] \in [0..k -> Nat]  BY <2>1, Zenon DEF Upto
    <3>2. k \in 0..k  OBVIOUS
    <3> QED  BY <3>1, <3>2
  <2> QED  BY <2>2, <2>3
<1>4. w \in [Nat -> Nat]  BY <1>3
<1>5. w[0] = x
  <2>1. Upto(u[0], 0, x, F)  BY <1>2
  <2>2. u[0][0] = x  BY <2>1, Zenon DEF Upto
  <2> QED  BY <2>2
<1>6. ASSUME NEW n \in Nat PROVE w[n + 1] = F[n][w[n]]
  <2>1. n \in 0..(n + 1) - 1 /\ n + 1 \in Nat  OBVIOUS
  <2>2. u[n + 1][n + 1] = F[n][u[n + 1][n]]  BY <1>2, <2>1, Zenon DEF Upto
  <2>3. w[n + 1] = u[n + 1][n + 1]  BY <2>1
  <2> HIDE DEF w
  <2>4. u[n + 1][n] = w[n]  BY <1>3
  <2> QED  BY <2>2, <2>3, <2>4, Zenon
<1> QED  BY <1>4, <1>5, <1>6 DEF Follows

LEMMA TenPowers ==
    /\ Ten[0] = 1
    /\ \A n \in Nat : Ten[n] \in Nat \ {0} /\ Ten[n + 1] = 10 * Ten[n]
<1> DEFINE F == [n \in Nat |-> [y \in Nat |-> 10 * y]]
<1>1. F \in [Nat -> [Nat -> Nat]] /\ \A n, y \in Nat : F[n][y] = 10 * y  OBVIOUS
<1>2. PICK v \in [Nat -> Nat] : Follows(v, 1, F)
  <2> HIDE DEF F
  <2> QED  BY <1>1, Recursion
<1>3. v[0] = 1 /\ \A n \in Nat : v[n + 1] = 10 * v[n]
  <2> HIDE DEF F
  <2> QED  BY <1>1, <1>2 DEF Follows
<1> DEFINE G(f) == [n \in Nat |-> IF n = 0 THEN 1 ELSE 10 * f[n - 1]]
<1>4. v = G(v)
  <2>1. \A n \in Nat : v[n] = G(v)[n]
    <3>1. ASSUME NEW n \in Nat, n # 0 PROVE v[n] = 10 * v[n - 1]
      <4>1. n - 1 \in Nat /\ (n - 1) + 1 = n  BY <3>1
      <4> QED  BY <1>3, <4>1
    <3> QED  BY <1>3, <3>1
  <2> QED  BY <2>1
<1>5. Ten = CHOOSE f : f = G(f)  BY Zenon DEF Ten
<1>6. Ten = G(Ten)
  <2> HIDE DEF G
  <2> QED  BY <1>4, <1>5
<1>7. Ten[0] = 1  BY <1>6
<1>8. ASSUME NEW n \in Nat PROVE Ten[n + 1] = 10 * Ten[n]
  <2>1. G(Ten)[n + 1] = 10 * Ten[n]  OBVIOUS
  <2> HIDE DEF G
  <2> QED  BY <1>6, <2>1
<1> DEFINE T == {n \in Nat : Ten[n] \in Nat \ {0}}
<1>9. \A n \in Nat : n \in T
  <2>1. 0 \in T  BY <1>7
  <2>2. ASSUME NEW n \in Nat, n \in T PROVE n + 1 \in T  BY <1>8, <2>2
  <2> HIDE DEF T
  <2> QED  BY <2>1, <2>2, SetInduction
<1> QED  BY <1>7, <1>8, <1>9

\* The digits between i and j, read from the left.
Reckons(v, s, i) ==
    /\ v[0] = 0
    /\ \A n \in Nat : v[n + 1] = IF IsDigit(s[i + n]) THEN 10 * v[n] + s[i + n] ELSE v[n]

LEMMA ReckonsExists ==
    ASSUME NEW s, NEW i \in Nat
    PROVE  \E v \in [Nat -> Nat] : Reckons(v, s, i)
<1> DEFINE F == [n \in Nat |-> [y \in Nat |->
                   IF IsDigit(s[i + n]) THEN 10 * y + s[i + n] ELSE y]]
<1>1. F \in [Nat -> [Nat -> Nat]]  BY DEF IsDigit
<1>2. \A n, y \in Nat : F[n][y] = IF IsDigit(s[i + n]) THEN 10 * y + s[i + n] ELSE y
  OBVIOUS
<1> HIDE DEF F
<1>3. PICK v \in [Nat -> Nat] : Follows(v, 0, F)  BY <1>1, Recursion
<1>4. Reckons(v, s, i)
  <2>1. v[0] = 0 /\ \A n \in Nat : v[n + 1] = F[n][v[n]]  BY <1>3 DEF Follows
  <2>2. \A n \in Nat : v[n] \in Nat  OBVIOUS
  <2>3. \A n \in Nat : F[n][v[n]] = IF IsDigit(s[i + n]) THEN 10 * v[n] + s[i + n] ELSE v[n]
    BY <1>2, <2>2, Zenon
  <2> QED  BY <2>1, <2>3 DEF Reckons
<1> QED  BY <1>4

LEMMA SpelledReckons ==
    ASSUME NEW s, NEW i \in Nat \ {0}, NEW j \in Nat, j >= i - 1,
           NEW v \in [Nat -> Nat], Reckons(v, s, i)
    PROVE  Spelled(s, i, j) = v[j - (i - 1)]
<1> DEFINE G(f) == [k \in i - 1..j |-> IF k < i THEN 0
                                       ELSE IF IsDigit(s[k]) THEN 10 * f[k - 1] + s[k] ELSE f[k - 1]]
<1> DEFINE g == [k \in i - 1..j |-> v[k - (i - 1)]]
<1>1. g = G(g)
  <2>1. ASSUME NEW k \in i - 1..j PROVE g[k] = G(g)[k]
    <3>1. CASE k < i
      <4>1. k - (i - 1) = 0  BY <3>1
      <4> QED  BY <3>1, <4>1 DEF Reckons
    <3>2. CASE ~(k < i)
      <4> DEFINE n == k - i
      <4>1. /\ n \in Nat /\ n + 1 = k - (i - 1) /\ i + n = k
            /\ k - 1 \in i - 1..j /\ (k - 1) - (i - 1) = n
        BY <3>2
      <4>2. g[k] = v[n + 1] /\ g[k - 1] = v[n]  BY <4>1
      <4> HIDE DEF n
      <4>3. v[n + 1] = IF IsDigit(s[k]) THEN 10 * v[n] + s[k] ELSE v[n]
        BY <4>1 DEF Reckons
      <4>4. G(g)[k] = IF IsDigit(s[k]) THEN 10 * g[k - 1] + s[k] ELSE g[k - 1]  BY <3>2
      <4> HIDE DEF g, G
      <4> QED  BY <4>2, <4>3, <4>4
    <3> QED  BY <3>1, <3>2
  <2> QED  BY <2>1
<1> DEFINE f == CHOOSE h : h = G(h)
<1>2. f = G(f)
  <2> HIDE DEF G, g
  <2> QED  BY <1>1
<1>3. Spelled(s, i, j) = f[j]  BY DEF Spelled
<1> HIDE DEF f
<1> DEFINE S == {n \in Nat : n <= j - (i - 1) => f[n + (i - 1)] = v[n]}
<1>4. 0 \in S
  <2>1. i - 1 \in i - 1..j /\ 0 + (i - 1) = i - 1  OBVIOUS
  <2>2. G(f)[i - 1] = 0  BY <2>1
  <2>3. f[i - 1] = 0
    <3> HIDE DEF G
    <3> QED  BY <1>2, <2>2
  <2> QED  BY <2>1, <2>3 DEF Reckons
<1>5. ASSUME NEW n \in Nat, n \in S PROVE n + 1 \in S
  <2> SUFFICES ASSUME n + 1 <= j - (i - 1) PROVE f[(n + 1) + (i - 1)] = v[n + 1]
    OBVIOUS
  <2> DEFINE k == i + n
  <2>1. k \in i - 1..j /\ ~(k < i) /\ k - 1 = n + (i - 1) /\ (n + 1) + (i - 1) = k
    OBVIOUS
  <2>2. f[k - 1] = v[n]  BY <1>5, <2>1
  <2>3. v[n + 1] = IF IsDigit(s[k]) THEN 10 * v[n] + s[k] ELSE v[n]  BY DEF Reckons
  <2> HIDE DEF k, S
  <2>4. G(f)[k] = IF IsDigit(s[k]) THEN 10 * f[k - 1] + s[k] ELSE f[k - 1]  BY <2>1
  <2> HIDE DEF G
  <2> QED  BY <1>2, <2>1, <2>2, <2>3, <2>4
<1>6. \A n \in Nat : n \in S
  <2> HIDE DEF S
  <2> QED  BY <1>4, <1>5, SetInduction
<1>7. j - (i - 1) \in Nat /\ (j - (i - 1)) + (i - 1) = j  OBVIOUS
<1>8. f[j] = v[j - (i - 1)]  BY <1>6, <1>7
<1> QED  BY <1>3, <1>8

\* One character more.
LEMMA SpelledStep ==
    ASSUME NEW s, NEW i \in Nat \ {0}
    PROVE  /\ Spelled(s, i, i - 1) = 0
           /\ \A j \in Nat : j >= i - 1 => Spelled(s, i, j) \in Nat
           /\ \A j \in Nat : j >= i =>
                 Spelled(s, i, j) = IF IsDigit(s[j]) THEN 10 * Spelled(s, i, j - 1) + s[j]
                                    ELSE Spelled(s, i, j - 1)
<1>1. PICK v \in [Nat -> Nat] : Reckons(v, s, i)  BY ReckonsExists
<1>2. \A j \in Nat : j >= i - 1 => Spelled(s, i, j) = v[j - (i - 1)]
  BY <1>1, SpelledReckons
<1>3. Spelled(s, i, i - 1) = 0
  <2>1. i - 1 \in Nat /\ (i - 1) - (i - 1) = 0  OBVIOUS
  <2>2. Spelled(s, i, i - 1) = v[0]  BY <1>2, <2>1
  <2> QED  BY <1>1, <2>2 DEF Reckons
<1>4. ASSUME NEW j \in Nat, j >= i - 1 PROVE Spelled(s, i, j) \in Nat
  <2>1. j - (i - 1) \in Nat  BY <1>4
  <2> QED  BY <1>2, <1>4, <2>1
<1>5. ASSUME NEW j \in Nat, j >= i
      PROVE  Spelled(s, i, j) = IF IsDigit(s[j]) THEN 10 * Spelled(s, i, j - 1) + s[j]
                                ELSE Spelled(s, i, j - 1)
  <2> DEFINE n == j - i
  <2>1. /\ n \in Nat /\ n + 1 = j - (i - 1) /\ i + n = j /\ j - 1 \in Nat
        /\ j - 1 >= i - 1 /\ (j - 1) - (i - 1) = n /\ j >= i - 1
    BY <1>5
  <2>2. Spelled(s, i, j) = v[n + 1] /\ Spelled(s, i, j - 1) = v[n]  BY <1>2, <2>1
  <2> HIDE DEF n
  <2>3. v[n + 1] = IF IsDigit(s[j]) THEN 10 * v[n] + s[j] ELSE v[n]  BY <1>1, <2>1 DEF Reckons
  <2> QED  BY <2>2, <2>3
<1> QED  BY <1>3, <1>4, <1>5

-----------------------------------------------------------------------------
(* The 12-byte integers do not overflow                                     *)

Volume == W * W * W

LEMMA VolumeType == Volume \in Nat \ {0}
<1> DEFINE v == W * W
<1>1. v \in Nat \ {0} /\ W \in Nat \ {0}  BY Widths
<1> HIDE DEF v
<1>2. v * W \in Nat \ {0}  BY <1>1
<1> QED  BY <1>2 DEF v, Volume

LEMMA Division ==
    ASSUME NEW n \in Nat, NEW d \in Nat \ {0}
    PROVE  n \div d \in Nat /\ n = d * (n \div d) + (n % d) /\ n % d \in 0..d - 1
OBVIOUS

\* Quotient and remainder are the only ones.
LEMMA DivisionUnique ==
    ASSUME NEW d \in Nat \ {0}, NEW q \in Nat, NEW r \in 0..d - 1
    PROVE  (d * q + r) \div d = q
OBVIOUS

LEMMA AddlExact ==
    ASSUME NEW x \in 0..W - 1, NEW y \in 0..W - 1
    PROVE  /\ addl(x, y).sum \in 0..W - 1 /\ addl(x, y).carry \in {0, 1}
           /\ W * addl(x, y).carry + addl(x, y).sum = x + y
<1>1. W \in Nat \ {0}  BY Widths
<1> DEFINE w == W
<1> DEFINE r == (x + y) % w
<1>2. CASE x + y < w
  <2>1. r = x + y  BY <1>1, <1>2
  <2>2. addl(x, y) = [sum |-> x + y, carry |-> 0]  BY <1>1, <2>1 DEF addl
  <2> QED  BY <1>1, <1>2, <2>2
<1>3. CASE ~(x + y < w)
  <2>1. r = x + y - w  BY <1>1, <1>3
  <2>2. x + y - w < x  BY <1>1
  <2>3. addl(x, y) = [sum |-> x + y - w, carry |-> 1]  BY <1>1, <2>1, <2>2 DEF addl
  <2> QED  BY <1>1, <1>3, <2>3
<1> QED  BY <1>2, <1>3

LEMMA Words ==
    ASSUME NEW x \in 0..Volume - 1
    PROVE  /\ Lo(x) \in 0..W - 1 /\ Med(x) \in 0..W - 1 /\ Hi(x) \in 0..W - 1
           /\ x = Join(Lo(x), Med(x), Hi(x))
<1>1. W \in Nat \ {0} /\ W * W \in Nat \ {0} /\ Volume \in Nat /\ x \in Nat
  BY Widths, VolumeType
<1> DEFINE w == W
<1> DEFINE v == W * W
<1> DEFINE a == x \div w
<1> DEFINE b == a \div w
<1> DEFINE lo == x % w
<1> DEFINE med == a % w
<1>2. w \in Nat \ {0} /\ v = w * w /\ v \in Nat \ {0}  BY <1>1
<1>3. Lo(x) = lo /\ Med(x) = med /\ Hi(x) = x \div v  BY Zenon DEF Lo, Med, Hi
<1> HIDE DEF w, v
<1>4. a \in Nat /\ x = w * a + lo /\ lo \in 0..w - 1  BY <1>1, <1>2, Division
<1> HIDE DEF a, lo
<1>5. b \in Nat /\ a = w * b + med /\ med \in 0..w - 1  BY <1>2, <1>4, Division
<1> HIDE DEF b, med
<1>6. w * a = v * b + w * med
  <2>1. w * (w * b + med) = w * (w * b) + w * med  BY <1>2, <1>5
  <2>2. w * (w * b) = (w * w) * b  BY <1>2, <1>5
  <2> QED  BY <1>2, <1>5, <2>1, <2>2
<1> DEFINE r == w * med + lo
<1>7. r \in 0..v - 1
  <2>1. w * med <= w * (w - 1) /\ w * med \in Nat  BY <1>2, <1>5
  <2>2. w * (w - 1) = v - w  BY <1>2
  <2> QED  BY <1>2, <1>4, <2>1, <2>2
<1>8. x = v * b + r  BY <1>2, <1>4, <1>5, <1>6
<1> HIDE DEF r
<1>9. x \div v = b  BY <1>2, <1>5, <1>7, <1>8, DivisionUnique
<1>10. b \in 0..w - 1
  <2> SUFFICES ASSUME b >= w PROVE FALSE  BY <1>2, <1>5
  <2>1. v * b >= v * w  BY <1>2, <1>5
  <2>2. Volume = v * w  BY Zenon DEF Volume, v, w
  <2> QED  BY <1>1, <1>2, <1>5, <1>7, <1>8, <2>1, <2>2
<1>11. x = Join(lo, med, b)
  <2>1. Join(lo, med, b) = lo + w * med + v * b  BY Zenon DEF Join, w, v
  <2>2. w * med \in Nat /\ v * b \in Nat  BY <1>2, <1>5
  <2> QED  BY <1>4, <1>8, <2>1, <2>2 DEF r
<1> QED  BY <1>3, <1>4, <1>5, <1>9, <1>10, <1>11, Zenon DEF w

\* The carries from word to word are right.
LEMMA AddExact ==
    ASSUME NEW x \in 0..Volume - 1, NEW y \in 0..Volume - 1, x + y < Volume
    PROVE  add_12(x, y) = x + y
<1> DEFINE c0 == addl(Lo(x), Lo(y))
<1> DEFINE c1 == addl(Med(x), c0.carry)
<1> DEFINE c2 == addl(c1.sum, Med(y))
<1> DEFINE h == Hi(x) + c1.carry + c2.carry + Hi(y)
<1> DEFINE w == W
<1> DEFINE v == W * W
<1>1. w \in Nat \ {0} /\ v = w * w /\ v \in Nat \ {0} /\ Volume = v * w /\ Volume \in Nat
  BY Widths, VolumeType DEF Volume
<1>2. /\ Lo(x) \in 0..w - 1 /\ Med(x) \in 0..w - 1 /\ Hi(x) \in 0..w - 1
      /\ x = Lo(x) + w * Med(x) + v * Hi(x)
  BY Words, Zenon DEF Join
<1>3. /\ Lo(y) \in 0..w - 1 /\ Med(y) \in 0..w - 1 /\ Hi(y) \in 0..w - 1
      /\ y = Lo(y) + w * Med(y) + v * Hi(y)
  BY Words, Zenon DEF Join
<1>4. c0.sum \in 0..w - 1 /\ c0.carry \in {0, 1} /\ w * c0.carry + c0.sum = Lo(x) + Lo(y)
  BY <1>2, <1>3, AddlExact
<1> HIDE DEF c0
<1>5. CASE w > 1
  <2>1. c0.carry \in 0..w - 1  BY <1>1, <1>4, <1>5
  <2>2. c1.sum \in 0..w - 1 /\ c1.carry \in {0, 1} /\ w * c1.carry + c1.sum = Med(x) + c0.carry
    BY <1>2, <2>1, AddlExact
  <2> HIDE DEF c1
  <2>3. c2.sum \in 0..w - 1 /\ c2.carry \in {0, 1} /\ w * c2.carry + c2.sum = c1.sum + Med(y)
    BY <1>3, <2>2, AddlExact
  <2> HIDE DEF c2
  <2>4. add_12(x, y) = Join(c0.sum, c2.sum, h % w)  BY Zenon DEF add_12, c0, c1, c2, h, w
  <2>5. Join(c0.sum, c2.sum, h % w) = c0.sum + w * c2.sum + v * (h % w)
    BY Zenon DEF Join, w, v
  <2> DEFINE k0 == c0.carry
  <2> DEFINE k1 == c1.carry
  <2> DEFINE k2 == c2.carry
  <2> DEFINE s0 == c0.sum
  <2> DEFINE s1 == c1.sum
  <2> DEFINE s2 == c2.sum
  <2> DEFINE lx == Lo(x)
  <2> DEFINE ly == Lo(y)
  <2> DEFINE mx == Med(x)
  <2> DEFINE my == Med(y)
  <2> DEFINE hx == Hi(x)
  <2> DEFINE hy == Hi(y)
  <2> HIDE DEF w, v
  <2>6. /\ k0 \in Nat /\ k1 \in Nat /\ k2 \in Nat /\ s0 \in Nat /\ s1 \in Nat /\ s2 \in Nat
        /\ lx \in Nat /\ ly \in Nat /\ mx \in Nat /\ my \in Nat /\ hx \in Nat /\ hy \in Nat
        /\ w * k0 + s0 = lx + ly /\ w * k1 + s1 = mx + k0 /\ w * k2 + s2 = s1 + my
        /\ h = hx + k1 + k2 + hy
        /\ x = lx + w * mx + v * hx /\ y = ly + w * my + v * hy
    <3>1. /\ k0 \in Nat /\ k1 \in Nat /\ k2 \in Nat /\ s0 \in Nat /\ s1 \in Nat /\ s2 \in Nat
      <4>1. \A z : (z \in 0..w - 1 => z \in Nat) /\ (z \in {0, 1} => z \in Nat)  BY <1>1
      <4> QED  BY <1>4, <2>2, <2>3, <4>1, Zenon
    <3>2. /\ lx \in Nat /\ ly \in Nat /\ mx \in Nat /\ my \in Nat /\ hx \in Nat /\ hy \in Nat
      BY <1>1, <1>2, <1>3
    <3>3. x = lx + w * mx + v * hx /\ y = ly + w * my + v * hy  BY <1>2, <1>3, Zenon
    <3>4. w * k0 + s0 = lx + ly /\ w * k1 + s1 = mx + k0 /\ w * k2 + s2 = s1 + my
      BY <1>4, <2>2, <2>3, Zenon
    <3>5. h = hx + k1 + k2 + hy  BY Zenon
    <3> QED  BY <3>1, <3>2, <3>3, <3>4, <3>5, Zenon
  <2> HIDE DEF h, k0, k1, k2, s0, s1, s2, lx, ly, mx, my, hx, hy
  <2>7. x + y = s0 + w * s2 + v * h
    <3>1. w * (mx + my) = w * mx + w * my  BY <1>1, <2>6
    <3>2. mx + my = w * (k1 + k2) + s2 - k0  BY <1>1, <2>6
    <3>3. w * (w * (k1 + k2) + s2 - k0) = v * (k1 + k2) + w * s2 - w * k0  BY <1>1, <2>6
    <3>4. v * h = v * hx + v * hy + v * (k1 + k2)  BY <1>1, <2>6
    <3> QED  BY <1>1, <2>6, <3>1, <3>2, <3>3, <3>4
  <2>8. h \in 0..w - 1
    <3>1. h \in Nat  BY <2>6
    <3> SUFFICES ASSUME h >= w PROVE FALSE  BY <1>1, <3>1
    <3>2. v * h >= v * w  BY <1>1, <3>1
    <3>3. w * s2 \in Nat  BY <1>1, <2>6
    <3>4. v * h \in Nat  BY <1>1, <3>1
    <3> QED  BY <1>1, <2>6, <2>7, <3>2, <3>3, <3>4
  <2>9. h % w = h  BY <1>1, <2>8
  <2> QED  BY <2>4, <2>5, <2>7, <2>9 DEF s0, s2
<1>6. CASE w = 1
  <2>1. v = 1 /\ Volume = 1  BY <1>1, <1>6
  <2>2. add_12(x, y) \in 0..Volume - 1
    <3>1. x \in Int /\ y \in Int  BY <1>1
    <3> QED  BY <3>1, AddRange DEF Volume
  <2> HIDE DEF w, v
  <2> QED  BY <2>1, <2>2
<1> QED  BY <1>1, <1>5, <1>6

LEMMA ShlExact ==
    ASSUME NEW x \in Nat, 2 * x < Volume
    PROVE  shl_12(x) = 2 * x
<1> DEFINE y == 2 * x
<1>1. Volume \in Nat \ {0} /\ y \in 0..Volume - 1  BY VolumeType
<1>2. shl_12(x) = y % Volume  BY Zenon DEF shl_12, Volume
<1> HIDE DEF y
<1>3. shl_12(x) = y  BY <1>1, <1>2
<1> QED  BY <1>3 DEF y

\* One digit more, if the number still fits.
LEMMA AppendExact ==
    ASSUME NEW x \in Nat, NEW d \in Nat, 10 * x + d < Volume
    PROVE  AppendDigit(x, d) = 10 * x + d
<1>1. Volume \in Nat \ {0}  BY VolumeType
<1>2. shl_12(x) = 2 * x  BY <1>1, ShlExact
<1> DEFINE y == 2 * x
<1> DEFINE z == 2 * y
<1>3. y \in Nat /\ z \in Nat /\ 2 * y < Volume /\ z = 4 * x  BY <1>1
<1> HIDE DEF y
<1>4. shl_12(y) = z  BY <1>3, ShlExact
<1> HIDE DEF z
<1>5. z \in 0..Volume - 1 /\ x \in 0..Volume - 1 /\ z + x < Volume  BY <1>1, <1>3
<1>6. add_12(z, x) = z + x  BY <1>5, AddExact
<1> DEFINE u == z + x
<1>7. u \in Nat /\ 2 * u < Volume /\ 2 * u = 10 * x  BY <1>1, <1>3
<1> HIDE DEF u
<1>8. shl_12(u) = 2 * u  BY <1>7, ShlExact
<1>9. timesTen(x) = 10 * x
  <2>1. timesTen(x) = shl_12(u)
    <3>1. shl_12(shl_12(x)) = z  BY <1>2, <1>4, Zenon DEF y
    <3> QED  BY <1>6, <3>1, Zenon DEF timesTen, u
  <2> QED  BY <1>7, <1>8, <2>1
<1> DEFINE sum(n) == add_12(n, d)
<1>10. AppendDigit(x, d) = sum(timesTen(x))
  <2>1. AppendDigit(x, d) = CHOOSE r \in {sum(n) : n \in {timesTen(x)}} : TRUE
    BY Zenon DEF AppendDigit, Once
  <2> HIDE DEF sum
  <2> QED  BY <2>1
<1> DEFINE m == 10 * x
<1>11. m \in 0..Volume - 1 /\ d \in 0..Volume - 1 /\ m + d < Volume  BY <1>1
<1>12. timesTen(x) = m  BY <1>9
<1> HIDE DEF m
<1>13. add_12(m, d) = m + d  BY <1>11, AddExact
<1> QED  BY <1>10, <1>12, <1>13 DEF m

-----------------------------------------------------------------------------
(* The digits of a mantissa that has been read up to j                      *)

Val(s, j) == Spelled(s, Start(s), j)

PointsIn(s, j) == {k \in Start(s)..j : s[k] = Point}
Frac(s, j) == IF PointsIn(s, j) = {} THEN 0 ELSE j - CHOOSE k \in PointsIn(s, j) : TRUE

NonZeros(s, j) == {k \in Start(s)..j : s[k] \in 1..9}
PointBehind(s, f, j) == IF \E k \in f..j : s[k] = Point THEN 1 ELSE 0
Sig(s, j) ==
    IF NonZeros(s, j) = {} THEN 0
    ELSE LET f == CHOOSE k \in NonZeros(s, j) : \A m \in NonZeros(s, j) : k <= m IN
         j - f + 1 - PointBehind(s, f, j)

LEMMA WholeMantissa ==
    ASSUME NEW s
    PROVE  /\ ValueDigits(s) = Val(s, MantissaEnd(s))
           /\ FractionDigits(s) = Frac(s, MantissaEnd(s))
           /\ SignificantDigits(s) = Sig(s, MantissaEnd(s))
<1>1. ValueDigits(s) = Val(s, MantissaEnd(s))  BY DEF ValueDigits, Val
<1>2. FractionDigits(s) = Frac(s, MantissaEnd(s))
  BY Zenon DEF FractionDigits, Frac, PointsIn
<1>3. SignificantDigits(s) = Sig(s, MantissaEnd(s))
  BY Zenon DEF SignificantDigits, Sig, NonZeros, PointBehind
<1> QED  BY <1>1, <1>2, <1>3

LEMMA FracIs ==
    ASSUME NEW s, NEW j
    PROVE  /\ AllDigits(s, Start(s), j) => Frac(s, j) = 0
           /\ \A k \in PointsIn(s, j) : (\A m \in PointsIn(s, j) : m = k) => Frac(s, j) = j - k
<1>1. ASSUME AllDigits(s, Start(s), j) PROVE PointsIn(s, j) = {}
  BY <1>1, Letters DEF AllDigits, PointsIn
<1>2. ASSUME NEW k \in PointsIn(s, j), \A m \in PointsIn(s, j) : m = k PROVE Frac(s, j) = j - k
  <2>1. (CHOOSE m \in PointsIn(s, j) : TRUE) = k  BY <1>2
  <2> QED  BY <2>1 DEF Frac
<1> QED  BY <1>1, <1>2 DEF Frac

LEMMA SigIs ==
    ASSUME NEW s, NEW j \in Nat, NEW f \in NonZeros(s, j), \A m \in NonZeros(s, j) : f <= m,
           Start(s) \in Nat
    PROVE  Sig(s, j) = j - f + 1 - PointBehind(s, f, j)
<1> DEFINE Least(k) == \A m \in NonZeros(s, j) : k <= m
<1>1. Least(f)  OBVIOUS
<1>2. ASSUME NEW k \in NonZeros(s, j), Least(k) PROVE k = f
  <2>1. k <= f /\ f <= k  BY <1>2
  <2>2. k \in Nat /\ f \in Nat  BY DEF NonZeros
  <2> QED  BY <2>1, <2>2
<1> DEFINE g == CHOOSE k \in NonZeros(s, j) : Least(k)
<1>3. g = f
  <2> HIDE DEF Least
  <2> QED  BY <1>1, <1>2
<1>4. Sig(s, j) = j - g + 1 - PointBehind(s, g, j)  BY Zenon DEF Sig
<1> HIDE DEF g
<1> QED  BY <1>3, <1>4

\* The first digit that is not zero, if there is one.
LEMMA FirstNonZero ==
    ASSUME NEW s, NEW j \in Nat, Start(s) \in Nat, NonZeros(s, j) # {}
    PROVE  \E f \in NonZeros(s, j) : \A m \in NonZeros(s, j) : f <= m
<1> DEFINE S == {n \in Nat : \A m \in NonZeros(s, j) : n <= m}
<1>1. 0 \in S  BY DEF NonZeros
<1>2. ~\A n \in Nat : n \in S
  <2>1. PICK m : m \in NonZeros(s, j)  OBVIOUS
  <2>2. m \in Nat  BY <2>1 DEF NonZeros
  <2>3. m + 1 \notin S  BY <2>1, <2>2
  <2>4. m + 1 \in Nat  BY <2>2
  <2> QED  BY <2>3, <2>4, Zenon
<1>3. PICK n \in Nat : n \in S /\ n + 1 \notin S
  <2> HIDE DEF S
  <2> QED  BY <1>1, <1>2, SetInduction
<1>4. PICK f \in NonZeros(s, j) : ~(n + 1 <= f)  BY <1>3
<1>5. f \in Nat /\ n <= f  BY <1>3, <1>4 DEF NonZeros
<1>6. f = n  BY <1>4, <1>5
<1> QED  BY <1>3, <1>6

LEMMA SigType ==
    ASSUME NEW s, NEW j \in Nat, Start(s) \in Nat
    PROVE  /\ NonZeros(s, j) = {} => Sig(s, j) = 0
           /\ NonZeros(s, j) # {} => Sig(s, j) \in Nat \ {0}
<1>1. NonZeros(s, j) = {} => Sig(s, j) = 0  BY DEF Sig
<1>2. ASSUME NonZeros(s, j) # {} PROVE Sig(s, j) \in Nat \ {0}
  <2>1. PICK f \in NonZeros(s, j) : \A m \in NonZeros(s, j) : f <= m
    BY <1>2, FirstNonZero
  <2>2. f \in Nat /\ f <= j /\ s[f] # Point  BY DEF NonZeros, Point
  <2>3. Sig(s, j) = j - f + 1 - PointBehind(s, f, j)  BY <2>1, SigIs
  <2>4. CASE \E k \in f..j : s[k] = Point
    <3>1. PICK k \in f..j : s[k] = Point  BY <2>4
    <3>2. k # f /\ j > f  BY <2>2, <3>1
    <3>3. PointBehind(s, f, j) = 1  BY <2>4 DEF PointBehind
    <3> QED  BY <2>2, <2>3, <3>2, <3>3
  <2>5. CASE ~\E k \in f..j : s[k] = Point
    <3>1. PointBehind(s, f, j) = 0  BY <2>5 DEF PointBehind
    <3> QED  BY <2>2, <2>3, <3>1
  <2> QED  BY <2>4, <2>5
<1> QED  BY <1>1, <1>2

\* Nothing has been read.
LEMMA NothingRead ==
    ASSUME NEW s, Placed(s)
    PROVE  LET j == Start(s) - 1 IN Val(s, j) = 0 /\ Frac(s, j) = 0 /\ Sig(s, j) = 0
<1> DEFINE a == Start(s)
<1>1. a \in Nat \ {0}  BY DEF Placed
<1>2. Val(s, a - 1) = 0  BY <1>1, SpelledStep DEF Val
<1>3. a..a - 1 = {}  BY <1>1
<1>4. AllDigits(s, a, a - 1)  BY <1>3 DEF AllDigits
<1>5. NonZeros(s, a - 1) = {}  BY <1>3 DEF NonZeros
<1>6. Frac(s, a - 1) = 0  BY <1>4, FracIs
<1>7. Sig(s, a - 1) = 0  BY <1>5 DEF Sig
<1> QED  BY <1>2, <1>6, <1>7

\* What another character does to the digits before it.
LEMMA SigMore ==
    ASSUME NEW s, Placed(s), NEW q \in Nat, q >= Start(s), IsDigit(s[q])
    PROVE  Sig(s, q) = IF Sig(s, q - 1) = 0 /\ s[q] = 0 THEN 0 ELSE Sig(s, q - 1) + 1
<1>1. Start(s) \in Nat \ {0} /\ q - 1 \in Nat /\ q \in Nat  BY DEF Placed
<1>2. NonZeros(s, q) = NonZeros(s, q - 1) \cup {k \in {q} : s[k] \in 1..9}
  <2>1. \A k \in Start(s)..q : k \in Start(s)..q - 1 \/ k = q  BY <1>1
  <2>2. Start(s)..q - 1 \subseteq Start(s)..q /\ q \in Start(s)..q  BY <1>1
  <2> QED  BY <2>1, <2>2 DEF NonZeros
<1>3. s[q] # Point  BY Letters
<1>4. CASE NonZeros(s, q - 1) = {}
  <2>1. Sig(s, q - 1) = 0  BY <1>4 DEF Sig
  <2>2. CASE s[q] = 0
    <3>1. NonZeros(s, q) = {}  BY <1>2, <1>4, <2>2
    <3>2. Sig(s, q) = 0  BY <3>1 DEF Sig
    <3> QED  BY <2>1, <2>2, <3>2
  <2>3. CASE s[q] # 0
    <3>1. s[q] \in 1..9  BY <2>3 DEF IsDigit
    <3>2. q \in NonZeros(s, q) /\ \A m \in NonZeros(s, q) : q <= m  BY <1>1, <1>2, <1>4, <3>1
    <3>3. Sig(s, q) = q - q + 1 - PointBehind(s, q, q)  BY <1>1, <3>2, SigIs
    <3>4. PointBehind(s, q, q) = 0
      <4>1. \A k \in q..q : k = q  BY <1>1
      <4> QED  BY <1>3, <4>1 DEF PointBehind
    <3> QED  BY <1>1, <2>1, <2>3, <3>3, <3>4
  <2> QED  BY <2>2, <2>3
<1>5. CASE NonZeros(s, q - 1) # {}
  <2>1. PICK f \in NonZeros(s, q - 1) : \A m \in NonZeros(s, q - 1) : f <= m
    BY <1>1, <1>5, FirstNonZero
  <2>2. f \in Nat /\ f <= q - 1  BY <1>1 DEF NonZeros
  <2>3. f \in NonZeros(s, q) /\ \A m \in NonZeros(s, q) : f <= m  BY <1>1, <1>2, <2>1, <2>2
  <2>4. Sig(s, q) = q - f + 1 - PointBehind(s, f, q)  BY <1>1, <2>3, SigIs
  <2>5. Sig(s, q - 1) = (q - 1) - f + 1 - PointBehind(s, f, q - 1)  BY <1>1, <2>1, SigIs
  <2>6. PointBehind(s, f, q) = PointBehind(s, f, q - 1)
    <3>1. \A k \in f..q : k \in f..q - 1 \/ k = q  BY <1>1, <2>2
    <3>2. f..q - 1 \subseteq f..q  BY <1>1, <2>2
    <3>3. (\E k \in f..q : s[k] = Point) <=> \E k \in f..q - 1 : s[k] = Point
      BY <1>3, <3>1, <3>2
    <3> QED  BY <3>3, Zenon DEF PointBehind
  <2>7. Sig(s, q - 1) # 0  BY <1>1, <1>5, SigType
  <2>8. PointBehind(s, f, q - 1) \in Int  BY DEF PointBehind
  <2> QED  BY <1>1, <2>2, <2>4, <2>5, <2>6, <2>7, <2>8
<1> QED  BY <1>4, <1>5

LEMMA SigPoint ==
    ASSUME NEW s, Placed(s), NEW q \in Nat, q >= Start(s), AllDigits(s, Start(s), q - 1), s[q] = Point
    PROVE  Sig(s, q) = Sig(s, q - 1)
<1>1. Start(s) \in Nat \ {0} /\ q - 1 \in Nat /\ q \in Nat  BY DEF Placed
<1>2. NonZeros(s, q) = NonZeros(s, q - 1)
  <2>1. \A k \in Start(s)..q : k \in Start(s)..q - 1 \/ k = q  BY <1>1
  <2>2. Start(s)..q - 1 \subseteq Start(s)..q /\ Point \notin 1..9  BY <1>1 DEF Point
  <2> QED  BY <2>1, <2>2 DEF NonZeros
<1>3. CASE NonZeros(s, q - 1) = {}  BY <1>2, <1>3 DEF Sig
<1>4. CASE NonZeros(s, q - 1) # {}
  <2>1. PICK f \in NonZeros(s, q - 1) : \A m \in NonZeros(s, q - 1) : f <= m
    BY <1>1, <1>4, FirstNonZero
  <2>2. f \in Nat /\ f <= q - 1 /\ f >= Start(s)  BY <1>1 DEF NonZeros
  <2>3. Sig(s, q) = q - f + 1 - PointBehind(s, f, q)  BY <1>1, <1>2, <2>1, SigIs
  <2>4. Sig(s, q - 1) = (q - 1) - f + 1 - PointBehind(s, f, q - 1)  BY <1>1, <2>1, SigIs
  <2>5. PointBehind(s, f, q) = 1
    <3>1. q \in f..q  BY <1>1, <2>2
    <3> QED  BY <3>1 DEF PointBehind
  <2>6. PointBehind(s, f, q - 1) = 0
    <3>1. \A k \in f..q - 1 : k \in Start(s)..q - 1  BY <1>1, <2>2
    <3> QED  BY <3>1, Letters DEF AllDigits, PointBehind
  <2> QED  BY <1>1, <2>2, <2>3, <2>4, <2>5, <2>6
<1> QED  BY <1>3, <1>4

LEMMA FracPointed ==
    ASSUME NEW s, Placed(s), NEW j, NEW k \in Start(s)..j, s[k] = Point,
           AllDigits(s, Start(s), k - 1), AllDigits(s, k + 1, j)
    PROVE  Frac(s, j) = j - k
<1>1. Start(s) \in Nat /\ k \in Nat  BY DEF Placed
<1>2. \A m \in Start(s)..j : m = k \/ m \in Start(s)..k - 1 \/ m \in k + 1..j  BY <1>1
<1>3. k \in PointsIn(s, j) /\ \A m \in PointsIn(s, j) : m = k
  BY <1>2, Letters DEF PointsIn, AllDigits
<1> QED  BY <1>3, FracIs

LEMMA FracMore ==
    ASSUME NEW s, Placed(s), NEW q \in Nat, q >= Start(s)
    PROVE  /\ AllDigits(s, Start(s), q - 1) /\ (IsDigit(s[q]) \/ s[q] = Point) =>
                 Frac(s, q) = 0 /\ Frac(s, q - 1) = 0
           /\ Pointed(s, q - 1) /\ IsDigit(s[q]) => Frac(s, q) = Frac(s, q - 1) + 1
           /\ Pointed(s, q - 1) => Frac(s, q - 1) \in Nat
<1>1. Start(s) \in Nat \ {0} /\ q - 1 \in Nat /\ q \in Nat  BY DEF Placed
<1>2. ASSUME AllDigits(s, Start(s), q - 1), IsDigit(s[q]) \/ s[q] = Point
      PROVE  Frac(s, q) = 0 /\ Frac(s, q - 1) = 0
  <2>1. Frac(s, q - 1) = 0  BY <1>2, FracIs
  <2>2. CASE IsDigit(s[q])
    <3>1. AllDigits(s, Start(s), q)  BY <1>1, <1>2, <2>2, MoreDigits
    <3> QED  BY <2>1, <3>1, FracIs
  <2>3. CASE s[q] = Point
    <3>1. q \in Start(s)..q /\ AllDigits(s, q + 1, q)  BY <1>1 DEF AllDigits
    <3>2. Frac(s, q) = q - q  BY <1>2, <2>3, <3>1, FracPointed
    <3> QED  BY <2>1, <3>2
  <2> QED  BY <1>2, <2>2, <2>3
<1>3. ASSUME Pointed(s, q - 1)
      PROVE  /\ IsDigit(s[q]) => Frac(s, q) = Frac(s, q - 1) + 1
             /\ Frac(s, q - 1) \in Nat
  <2>1. PICK k \in Start(s)..q - 1 :
           s[k] = Point /\ AllDigits(s, Start(s), k - 1) /\ AllDigits(s, k + 1, q - 1)
    BY <1>3 DEF Pointed
  <2>2. k \in Nat /\ k \in Start(s)..q /\ k + 1 \in Nat  BY <1>1
  <2>3. Frac(s, q - 1) = (q - 1) - k  BY <2>1, FracPointed
  <2>4. ASSUME IsDigit(s[q]) PROVE Frac(s, q) = q - k
    <3>1. AllDigits(s, k + 1, q)  BY <1>1, <2>1, <2>2, <2>4, MoreDigits
    <3> QED  BY <2>1, <2>2, <3>1, FracPointed
  <2> QED  BY <1>1, <2>2, <2>3, <2>4
<1> QED  BY <1>2, <1>3

-----------------------------------------------------------------------------
(* The digits in the buffer                                                 *)

LEMMA TenGrows ==
    \A i, j \in Nat : i <= j => Ten[i] <= Ten[j]
<1> SUFFICES ASSUME NEW i \in Nat PROVE \A n \in Nat : Ten[i] <= Ten[i + n]
  <2>1. ASSUME NEW i \in Nat, NEW j \in Nat, i <= j PROVE j - i \in Nat /\ i + (j - i) = j
    BY <2>1
  <2> QED  BY <2>1
<1> DEFINE S == {n \in Nat : Ten[i] <= Ten[i + n]}
<1>1. 0 \in S
  <2>1. i + 0 = i /\ Ten[i] \in Nat  BY TenPowers
  <2> QED  BY <2>1
<1>2. ASSUME NEW n \in Nat, n \in S PROVE n + 1 \in S
  <2>1. i + n \in Nat /\ i + (n + 1) = (i + n) + 1  OBVIOUS
  <2>2. Ten[i + n] \in Nat /\ Ten[i] \in Nat /\ Ten[(i + n) + 1] = 10 * Ten[i + n]
    BY <2>1, TenPowers
  <2>3. Ten[i] <= Ten[i + n]  BY <1>2
  <2>4. Ten[i] <= Ten[i + (n + 1)]  BY <2>1, <2>2, <2>3
  <2> QED  BY <2>4
<1> QED
  <2> HIDE DEF S
  <2>1. \A n \in Nat : n \in S  BY <1>1, <1>2, SetInduction
  <2> QED  BY <2>1 DEF S

\* val[i] is the number the first i of the n digits in b spell.
Prefixes(val, n, b) ==
    /\ val[0] = 0
    /\ \A i \in 0..n - 1 : b[i] \in 0..9 /\ val[i + 1] = 10 * val[i] + b[i]
    /\ \A i \in 0..n : val[i] < Ten[i]

\* The n digits in b are the first of the mantissa of s up to j.
Leads(s, j, v, n) ==
    LET left == Sig(s, j) - n IN
    /\ left \in Nat
    /\ Val(s, j) - v * Ten[left] \in 0..Ten[left] - 1
Holds(s, j, n, b) == \E val \in [Nat -> Nat] : Prefixes(val, n, b) /\ Leads(s, j, val[n], n)

LEMMA HoldsNothing ==
    ASSUME NEW s, NEW j, NEW b, Val(s, j) = 0, Sig(s, j) = 0
    PROVE  Holds(s, j, 0, b)
<1> DEFINE val == [n \in Nat |-> 0]
<1>1. val \in [Nat -> Nat] /\ val[0] = 0  OBVIOUS
<1>2. 0..0 - 1 = {} /\ \A i \in 0..0 : i = 0  OBVIOUS
<1>3. Ten[0] = 1  BY TenPowers
<1> HIDE DEF val
<1>4. Prefixes(val, 0, b)  BY <1>1, <1>2, <1>3 DEF Prefixes
<1>5. Leads(s, j, val[0], 0)  BY <1>1, <1>3 DEF Leads
<1> QED  BY <1>1, <1>4, <1>5 DEF Holds

LEMMA HoldsSame ==
    ASSUME NEW s, NEW j, NEW i, NEW n, NEW b, Holds(s, i, n, b),
           Val(s, j) = Val(s, i), Sig(s, j) = Sig(s, i)
    PROVE  Holds(s, j, n, b)
BY Zenon DEF Holds, Leads

LEMMA HoldsZero ==
    ASSUME NEW s, NEW j, NEW b, Holds(s, j, 0, b), Sig(s, j) = 0, Val(s, j) \in Nat
    PROVE  Val(s, j) = 0
<1>1. PICK val \in [Nat -> Nat] : val[0] = 0 /\ Leads(s, j, val[0], 0)
  BY DEF Holds, Prefixes
<1>2. Ten[0] = 1  BY TenPowers
<1>3. Val(s, j) - 0 * Ten[0] \in 0..Ten[0] - 1  BY <1>1 DEF Leads
<1> QED  BY <1>2, <1>3

\* A digit that is stored, and one that is only counted.
LEMMA HoldsStore ==
    ASSUME NEW s, NEW i, NEW j, NEW n \in Nat, NEW b \in [0..LD_MAX_MAN_LEN -> Nat],
           NEW d \in 0..9, n <= LD_MAX_MAN_LEN, Holds(s, i, n, b), Val(s, i) \in Nat,
           Sig(s, i) = n, Sig(s, j) = n + 1, Val(s, j) = 10 * Val(s, i) + d
    PROVE  Holds(s, j, n + 1, [b EXCEPT ![n] = d])
<1>1. PICK val \in [Nat -> Nat] : Prefixes(val, n, b) /\ Leads(s, i, val[n], n)
  BY DEF Holds
<1> DEFINE v == [k \in Nat |-> IF k = n + 1 THEN 10 * val[n] + d ELSE val[k]]
<1> DEFINE c1 == [b EXCEPT ![n] = d]
<1>2. v \in [Nat -> Nat] /\ v[n + 1] = 10 * val[n] + d /\ \A k \in 0..n : v[k] = val[k]
  <2> DEFINE y == val[n]
  <2> DEFINE x == 10 * y + d
  <2>1. y \in Nat  OBVIOUS
  <2> HIDE DEF y
  <2>2. x \in Nat /\ n + 1 \in Nat  BY <2>1
  <2> HIDE DEF x
  <2>3. \A k \in 0..n : k \in Nat /\ k # n + 1  OBVIOUS
  <2> QED  BY <2>2, <2>3 DEF x, y
<1>3. c1[n] = d /\ \A k \in 0..n - 1 : c1[k] = b[k]  OBVIOUS
<1> HIDE DEF v, c1
<1>4. Ten[0] = 1 /\ Ten[n] \in Nat /\ Ten[n + 1] = 10 * Ten[n]  BY TenPowers
<1>5. val[n] = Val(s, i)
  <2>1. Val(s, i) - val[n] * Ten[0] \in 0..Ten[0] - 1
    <3>1. n - n = 0  OBVIOUS
    <3> QED  BY <1>1, <3>1 DEF Leads
  <2>2. val[n] \in Nat  OBVIOUS
  <2>3. \A x, y \in Nat : x - y * 1 \in 0..1 - 1 => y = x  OBVIOUS
  <2> QED  BY <1>4, <2>1, <2>2, <2>3, Zenon
<1>6. Prefixes(v, n + 1, c1)
  <2>1. v[0] = 0  BY <1>1, <1>2 DEF Prefixes
  <2>2. ASSUME NEW k \in 0..(n + 1) - 1 PROVE c1[k] \in 0..9 /\ v[k + 1] = 10 * v[k] + c1[k]
    <3>1. CASE k = n
      <4>1. v[n] = val[n]
        <5>1. n \in 0..n  OBVIOUS
        <5> QED  BY <1>2, <5>1
      <4> QED  BY <1>2, <1>3, <3>1, <4>1
    <3>2. CASE k # n
      <4>1. k \in 0..n - 1 /\ k \in 0..n /\ k + 1 \in 0..n  BY <3>2
      <4>2. b[k] \in 0..9 /\ val[k + 1] = 10 * val[k] + b[k]  BY <1>1, <4>1 DEF Prefixes
      <4> QED  BY <1>2, <1>3, <4>1, <4>2
    <3> QED  BY <3>1, <3>2
  <2>3. ASSUME NEW k \in 0..n + 1 PROVE v[k] < Ten[k]
    <3>1. val[n] < Ten[n] /\ val[n] \in Nat  BY <1>1 DEF Prefixes
    <3>2. CASE k = n + 1
      <4>1. \A x, y \in Nat : x < y => 10 * x + d < 10 * y  OBVIOUS
      <4>2. 10 * val[n] + d < 10 * Ten[n]  BY <1>4, <3>1, <4>1
      <4> QED  BY <1>2, <1>4, <3>2, <4>2
    <3>3. CASE k # n + 1
      <4>1. k \in 0..n  BY <3>3
      <4> QED  BY <1>1, <1>2, <4>1 DEF Prefixes
    <3> QED  BY <3>2, <3>3
  <2> QED  BY <2>1, <2>2, <2>3 DEF Prefixes
<1>7. Leads(s, j, v[n + 1], n + 1)
  <2>1. Sig(s, j) - (n + 1) = 0  OBVIOUS
  <2>2. v[n + 1] = Val(s, j)  BY <1>2, <1>5
  <2>3. Val(s, j) \in Nat
    <3>1. \A x \in Nat : 10 * x + d \in Nat  OBVIOUS
    <3> QED  BY <3>1, Zenon
  <2>4. Val(s, j) - v[n + 1] * Ten[0] = 0 /\ 0 \in 0..Ten[0] - 1
    <3>1. \A x \in Nat : x - x * 1 = 0 /\ 0 \in 0..1 - 1  OBVIOUS
    <3> QED  BY <1>4, <2>2, <2>3, <3>1, Zenon
  <2> HIDE DEF v
  <2> QED  BY <2>1, <2>4 DEF Leads
<1>8. Holds(s, j, n + 1, c1)  BY <1>2, <1>6, <1>7 DEF Holds
<1> QED  BY <1>8 DEF c1

LEMMA HoldsDrop ==
    ASSUME NEW s, NEW i, NEW j, NEW n \in Nat, NEW b, NEW d \in 0..9,
           Holds(s, i, n, b), Val(s, i) \in Nat, Sig(s, i) \in Nat,
           Sig(s, j) = Sig(s, i) + 1, Val(s, j) = 10 * Val(s, i) + d
    PROVE  Holds(s, j, n, b)
<1>1. PICK val \in [Nat -> Nat] : Prefixes(val, n, b) /\ Leads(s, i, val[n], n)
  BY DEF Holds
<1> DEFINE left == Sig(s, i) - n
<1> DEFINE u == Ten[left]
<1> DEFINE w == val[n]
<1>2. left \in Nat /\ Sig(s, j) - n = left + 1  BY <1>1 DEF Leads
<1>3. u \in Nat /\ Ten[left + 1] = 10 * u  BY <1>2, TenPowers
<1>4. Val(s, i) - w * u \in 0..u - 1  BY <1>1, Zenon DEF Leads
<1>5. w \in Nat  OBVIOUS
<1> HIDE DEF left, u, w
<1>6. w * (10 * u) = 10 * (w * u) /\ w * u \in Nat  BY <1>3, <1>5
<1>7. Val(s, j) - w * (10 * u) \in 0..(10 * u) - 1  BY <1>3, <1>4, <1>6
<1>8. Leads(s, j, w, n)  BY <1>2, <1>3, <1>7 DEF Leads
<1> QED  BY <1>1, <1>8 DEF Holds, w

\* What has been read up to j: n digits are in b, adj is what the others do to the exponent.
Part(s, j, n, adj, b) ==
    /\ n = IF Sig(s, j) <= LD_MAX_MAN_LEN THEN Sig(s, j) ELSE LD_MAX_MAN_LEN + 1
    /\ adj = Sig(s, j) - n - Frac(s, j)
    /\ Holds(s, j, n, b)

LEMMA PartNothing ==
    ASSUME NEW s, Placed(s), NEW b
    PROVE  Part(s, Start(s) - 1, 0, 0, b)
<1> DEFINE j == Start(s) - 1
<1>1. Val(s, j) = 0 /\ Frac(s, j) = 0 /\ Sig(s, j) = 0  BY NothingRead
<1> HIDE DEF j
<1>2. Holds(s, j, 0, b)  BY <1>1, HoldsNothing
<1>3. Part(s, j, 0, 0, b)  BY <1>1, <1>2 DEF Part
<1> QED  BY <1>3 DEF j

LEMMA PartPoint ==
    ASSUME NEW s, Placed(s), NEW q \in Nat, q >= Start(s), AllDigits(s, Start(s), q - 1),
           s[q] = Point, NEW n, NEW adj, NEW b, Part(s, q - 1, n, adj, b)
    PROVE  Part(s, q, n, adj, b)
<1>1. Start(s) \in Nat \ {0}  BY DEF Placed
<1>2. Sig(s, q) = Sig(s, q - 1)  BY SigPoint
<1>3. Frac(s, q) = Frac(s, q - 1)  BY FracMore
<1>4. Val(s, q) = Val(s, q - 1)
  <2>1. ~IsDigit(s[q])  BY Letters
  <2> QED  BY <1>1, <2>1, SpelledStep DEF Val
<1> DEFINE i == q - 1
<1>5. Holds(s, i, n, b) /\ Sig(s, q) = Sig(s, i) /\ Frac(s, q) = Frac(s, i) /\ Val(s, q) = Val(s, i)
      /\ Part(s, i, n, adj, b)
  BY <1>2, <1>3, <1>4 DEF Part
<1> HIDE DEF i
<1>6. Holds(s, q, n, b)  BY <1>5, HoldsSame
<1> QED  BY <1>5, <1>6, Zenon DEF Part

LEMMA PartDigit ==
    ASSUME NEW s, Placed(s), NEW q \in Nat, q >= Start(s), IsDigit(s[q]),
           NEW frac \in {0, 1}, Frac(s, q - 1) \in Nat, Frac(s, q) = Frac(s, q - 1) + frac,
           NEW n \in Nat, NEW adj \in Int, NEW b \in [0..LD_MAX_MAN_LEN -> Nat],
           Part(s, q - 1, n, adj, b)
    PROVE  /\ n = 0 /\ s[q] = 0 => Part(s, q, 0, adj - frac, b)
           /\ ~(n = 0 /\ s[q] = 0) /\ n < LD_MAX_MAN_LEN + 1 =>
                 Part(s, q, n + 1, adj - frac, [b EXCEPT ![n] = s[q]])
           /\ ~(n < LD_MAX_MAN_LEN + 1) => Part(s, q, n, adj + 1 - frac, b)
<1> DEFINE i == q - 1
<1> DEFINE d == s[q]
<1>1. Start(s) \in Nat \ {0} /\ q - 1 \in Nat /\ q - 1 >= Start(s) - 1
  <2> DEFINE k == Start(s)
  <2> DEFINE l == Len(s)
  <2>1. l \in Nat /\ k \in 1..l + 1 /\ q >= k  BY DEF Placed
  <2> HIDE DEF k, l
  <2>2. k \in Nat \ {0} /\ q - 1 \in Nat /\ q - 1 >= k - 1  BY <2>1
  <2> QED  BY <2>2 DEF k
<1>2. d \in 0..9  BY DEF IsDigit
<1>3. Val(s, i) \in Nat /\ Val(s, q) = 10 * Val(s, i) + d
  BY <1>1, SpelledStep DEF Val
<1>4. Sig(s, q) = IF Sig(s, i) = 0 /\ d = 0 THEN 0 ELSE Sig(s, i) + 1  BY SigMore
<1>5. Sig(s, i) \in Nat  BY <1>1, SigType
<1>6. /\ n = IF Sig(s, i) <= LD_MAX_MAN_LEN THEN Sig(s, i) ELSE LD_MAX_MAN_LEN + 1
      /\ adj = Sig(s, i) - n - Frac(s, i) /\ Holds(s, i, n, b)
  BY DEF Part
<1>7. Frac(s, i) \in Nat /\ Frac(s, q) = Frac(s, i) + frac  OBVIOUS
<1> DEFINE k == LD_MAX_MAN_LEN
<1> DEFINE v0 == Val(s, i)
<1> DEFINE v1 == Val(s, q)
<1> DEFINE n0 == Sig(s, i)
<1> DEFINE n1 == Sig(s, q)
<1> DEFINE f0 == Frac(s, i)
<1> DEFINE f1 == Frac(s, q)
<1>11. /\ v0 \in Nat /\ v1 = 10 * v0 + d /\ n0 \in Nat /\ f0 \in Nat /\ f1 = f0 + frac
       /\ n1 = IF n0 = 0 /\ d = 0 THEN 0 ELSE n0 + 1
       /\ n = IF n0 <= k THEN n0 ELSE k + 1
       /\ adj = n0 - n - f0 /\ k \in Nat \ {0}
  BY <1>3, <1>4, <1>5, <1>6, <1>7, DigitsAssumption, Zenon
<1> HIDE DEF i, d, k, v0, v1, n0, n1, f0, f1
<1>8. ASSUME n = 0, d = 0 PROVE Part(s, q, 0, adj - frac, b)
  <2>1. n0 = 0 /\ n1 = 0  BY <1>8, <1>11
  <2>2. Val(s, i) = 0
    <3>1. Holds(s, i, 0, b) /\ Sig(s, i) = 0 /\ Val(s, i) \in Nat  BY <1>3, <1>6, <1>8, <2>1 DEF n0
    <3> QED  BY <3>1, HoldsZero
  <2>3. v1 = 0  BY <1>8, <1>11, <2>2 DEF v0
  <2>4. Holds(s, q, 0, b)  BY <2>1, <2>3, HoldsNothing DEF v1, n1
  <2>5. adj - frac = 0 - 0 - f1  BY <1>8, <1>11, <2>1
  <2>6. 0 = IF n1 <= k THEN n1 ELSE k + 1  BY <1>11, <2>1
  <2> QED  BY <2>1, <2>4, <2>5, <2>6, Zenon DEF Part, n1, f1, k
<1>9. ASSUME ~(n = 0 /\ d = 0), n < k + 1
      PROVE  Part(s, q, n + 1, adj - frac, [b EXCEPT ![n] = d])
  <2>1. n0 = n /\ n <= k /\ n1 = n + 1  BY <1>9, <1>11
  <2>2. Holds(s, q, n + 1, [b EXCEPT ![n] = d])
    <3>1. /\ Sig(s, i) = n /\ n <= LD_MAX_MAN_LEN /\ Sig(s, q) = n + 1 /\ Val(s, i) \in Nat
          /\ Val(s, q) = 10 * Val(s, i) + d /\ Holds(s, i, n, b)
      BY <1>3, <1>6, <2>1, Zenon DEF n0, n1, k
    <3> QED  BY <1>2, <3>1, HoldsStore
  <2>3. adj - frac = n1 - (n + 1) - f1  BY <1>11, <2>1
  <2>4. n + 1 = IF n1 <= k THEN n1 ELSE k + 1  BY <1>11, <2>1
  <2> QED  BY <2>2, <2>3, <2>4, Zenon DEF Part, n1, f1, k
<1>10. ASSUME ~(n < k + 1) PROVE Part(s, q, n, adj + 1 - frac, b)
  <2>1. n0 > k /\ n = k + 1 /\ n1 = n0 + 1  BY <1>10, <1>11
  <2>2. Holds(s, q, n, b)
    <3>1. /\ Sig(s, q) = Sig(s, i) + 1 /\ Sig(s, i) \in Nat /\ Val(s, i) \in Nat
          /\ Val(s, q) = 10 * Val(s, i) + d /\ Holds(s, i, n, b)
      BY <1>3, <1>5, <1>6, <2>1, Zenon DEF n0, n1
    <3> QED  BY <1>2, <3>1, HoldsDrop
  <2>3. adj + 1 - frac = n1 - n - f1  BY <1>11, <2>1
  <2>4. n = IF n1 <= k THEN n1 ELSE k + 1  BY <1>11, <2>1
  <2> QED  BY <2>2, <2>3, <2>4, Zenon DEF Part, n1, f1, k
<1> QED  BY <1>8, <1>9, <1>10, Zenon DEF d, k

\* One character of the mantissa, in front of the point, the point, and behind it.
LEMMA DigitRead ==
    ASSUME NEW s, NEW q \in 1..Len(s) + 1, InDigits(s, q), IsDigit(CharAt(s, q)),
           NEW n \in Nat, NEW adj \in Int, NEW b \in [0..LD_MAX_MAN_LEN -> Nat],
           Part(s, q - 1, n, adj, b)
    PROVE  /\ n = 0 /\ CharAt(s, q) = 0 => Part(s, q, 0, adj, b)
           /\ ~(n = 0 /\ CharAt(s, q) = 0) /\ n < LD_MAX_MAN_LEN + 1 =>
                 Part(s, q, n + 1, adj, [b EXCEPT ![n] = CharAt(s, q)])
           /\ ~(n < LD_MAX_MAN_LEN + 1) => Part(s, q, n, adj + 1, b)
<1>1. s \in Seq(Char) /\ q \in Nat /\ q >= Start(s) /\ Placed(s) /\ AllDigits(s, Start(s), q - 1)
  BY DEF InDigits, Placed
<1>2. CharAt(s, q) = s[q]  BY <1>1, InString, Letters
<1>3. IsDigit(s[q])  BY <1>2
<1>4. Frac(s, q) = 0 /\ Frac(s, q - 1) = 0  BY <1>1, <1>3, FracMore
<1>5. 0 \in {0, 1} /\ Frac(s, q - 1) \in Nat /\ Frac(s, q) = Frac(s, q - 1) + 0
  BY <1>4
<1>6. adj - 0 = adj /\ adj + 1 - 0 = adj + 1  OBVIOUS
<1>7. /\ n = 0 /\ s[q] = 0 => Part(s, q, 0, adj - 0, b)
      /\ ~(n = 0 /\ s[q] = 0) /\ n < LD_MAX_MAN_LEN + 1 =>
            Part(s, q, n + 1, adj - 0, [b EXCEPT ![n] = s[q]])
      /\ ~(n < LD_MAX_MAN_LEN + 1) => Part(s, q, n, adj + 1 - 0, b)
  BY <1>1, <1>3, <1>5, PartDigit
<1> QED  BY <1>2, <1>6, <1>7, Zenon

LEMMA PointRead ==
    ASSUME NEW s, NEW q \in 1..Len(s) + 1, InDigits(s, q), CharAt(s, q) = Point,
           NEW n, NEW adj, NEW b, Part(s, q - 1, n, adj, b)
    PROVE  Part(s, q, n, adj, b)
<1>1. s \in Seq(Char) /\ q \in Nat /\ q >= Start(s) /\ Placed(s) /\ AllDigits(s, Start(s), q - 1)
  BY DEF InDigits, Placed
<1>2. s[q] = Point  BY <1>1, InString, Letters
<1> QED  BY <1>1, <1>2, PartPoint

LEMMA FractionRead ==
    ASSUME NEW s, Placed(s), NEW q \in 1..Len(s) + 1, Pointed(s, q - 1), IsDigit(CharAt(s, q)),
           NEW n \in Nat, NEW adj \in Int, NEW b \in [0..LD_MAX_MAN_LEN -> Nat],
           Part(s, q - 1, n, adj, b)
    PROVE  /\ n = 0 /\ CharAt(s, q) = 0 => Part(s, q, 0, adj - 1, b)
           /\ ~(n = 0 /\ CharAt(s, q) = 0) /\ n < LD_MAX_MAN_LEN + 1 =>
                 Part(s, q, n + 1, adj - 1, [b EXCEPT ![n] = CharAt(s, q)])
           /\ ~(n < LD_MAX_MAN_LEN + 1) => Part(s, q, n, adj, b)
<1>1. s \in Seq(Char) /\ q \in Nat /\ q >= Start(s)
  <2>1. \E k \in Start(s)..q - 1 : TRUE  BY DEF Pointed
  <2> QED  BY <2>1 DEF Placed
<1>2. CharAt(s, q) = s[q]  BY <1>1, InString, Letters
<1>3. IsDigit(s[q])  BY <1>2
<1>4. Frac(s, q - 1) \in Nat /\ Frac(s, q) = Frac(s, q - 1) + 1  BY <1>1, <1>3, FracMore
<1>5. 1 \in {0, 1} /\ adj + 1 - 1 = adj  OBVIOUS
<1>6. /\ n = 0 /\ s[q] = 0 => Part(s, q, 0, adj - 1, b)
      /\ ~(n = 0 /\ s[q] = 0) /\ n < LD_MAX_MAN_LEN + 1 =>
            Part(s, q, n + 1, adj - 1, [b EXCEPT ![n] = s[q]])
      /\ ~(n < LD_MAX_MAN_LEN + 1) => Part(s, q, n, adj + 1 - 1, b)
  BY <1>1, <1>3, <1>4, <1>5, PartDigit
<1> QED  BY <1>2, <1>5, <1>6, Zenon

-----------------------------------------------------------------------------
(* Where mantissa and number end, and the value of the exponent             *)

\* The longest mantissa of s is one.
Known(s) == Placed(s) /\ MantissaEnd(s) \in MantissaEnds(s)

LEMMA MantissaEndIs ==
    ASSUME NEW s, Placed(s), NEW m \in MantissaEnds(s), \A j \in MantissaEnds(s) : j <= m
    PROVE  MantissaEnd(s) = m
<1>1. MantissaEnds(s) \in SUBSET Int  BY NumberTypes
<1> QED  BY <1>1, LongestIs DEF MantissaEnd

LEMMA LetterEnds ==
    ASSUME NEW s, Placed(s), NEW m \in MantissaEnds(s), CharAt(s, m + 1) = Exp
    PROVE  MantissaEnd(s) = m /\ Known(s)
BY LongestMantissa, MantissaEndIs DEF Known

LEMMA NoExponent ==
    ASSUME NEW s, NEW m \in Nat, MantissaEnd(s) = m, Longest(NumberEnds(s)) = m
    PROVE  ExponentField(s) = 0
<1>1. ~HasExponent(s)  BY DEF HasExponent
<1> QED  BY <1>1 DEF ExponentField

LEMMA KnownTypes ==
    ASSUME NEW s, Known(s)
    PROVE  LET m == MantissaEnd(s) IN
           m \in Nat /\ Sig(s, m) \in Nat /\ Val(s, m) \in Nat /\ Frac(s, m) \in Nat
<1> DEFINE m == MantissaEnd(s)
<1>1. m \in MantissaEnds(s) /\ Placed(s)  BY DEF Known
<1>2. m \in Nat /\ m \in Start(s)..Len(s) /\ Start(s) \in Nat \ {0}  BY <1>1, MantissaChars DEF Placed
<1>3. Mantissa(s, Start(s), m)  BY <1>1 DEF MantissaEnds
<1> HIDE DEF m
<1>4. Sig(s, m) \in Nat  BY <1>2, SigType
<1>5. Val(s, m) \in Nat
  <2>1. m >= Start(s) - 1  BY <1>2
  <2> QED  BY <1>2, <2>1, SpelledStep DEF Val
<1>6. Frac(s, m) \in Nat
  <2>1. CASE AllDigits(s, Start(s), m)  BY <2>1, FracIs
  <2>2. CASE Pointed(s, m)
    <3>1. m + 1 \in Nat /\ m + 1 >= Start(s) /\ (m + 1) - 1 = m  BY <1>2
    <3>2. Frac(s, (m + 1) - 1) \in Nat  BY <1>1, <2>2, <3>1, FracMore
    <3> QED  BY <3>1, <3>2
  <2> QED  BY <1>3, <2>1, <2>2, MantissaIs
<1> QED  BY <1>2, <1>4, <1>5, <1>6 DEF m

LEMMA DigitsEnd ==
    ASSUME NEW s, NEW q \in 1..Len(s) + 1, InDigits(s, q), q > Start(s),
           ~IsDigit(CharAt(s, q)), CharAt(s, q) # Point
    PROVE  /\ Known(s) /\ MantissaEnd(s) = q - 1
           /\ CharAt(s, q) # Exp => ExponentField(s) = 0
<1> DEFINE m == q - 1
<1>1. /\ Placed(s) /\ AllDigits(s, Start(s), m) /\ m + 1 = q /\ m \in Start(s)..Len(s)
      /\ m >= Start(s) /\ m \in Nat
  BY DEF InDigits, Placed
<1> HIDE DEF m
<1>2. m \in MantissaEnds(s)  BY <1>1, MantissaIs DEF MantissaEnds
<1>3. MantissaEnd(s) = m  BY <1>1, <1>2, LongestMantissa, MantissaEndIs
<1>4. ASSUME CharAt(s, q) # Exp PROVE ExponentField(s) = 0
  <2>1. Longest(NumberEnds(s)) = m  BY <1>1, <1>2, <1>4, EndsAtMantissa
  <2> QED  BY <1>1, <1>3, <2>1, NoExponent
<1> QED  BY <1>1, <1>2, <1>3, <1>4 DEF m, Known

LEMMA FractionEnd ==
    ASSUME NEW s, Placed(s), NEW q \in 1..Len(s) + 1, Pointed(s, q - 1), q - 1 > Start(s),
           ~IsDigit(CharAt(s, q))
    PROVE  /\ Known(s) /\ MantissaEnd(s) = q - 1
           /\ CharAt(s, q) # Exp => ExponentField(s) = 0
<1> DEFINE m == q - 1
<1>1. Pointed(s, m) /\ m + 1 = q /\ m \in Start(s)..Len(s) /\ m > Start(s) /\ m \in Nat
  BY DEF Placed
<1> HIDE DEF m
<1>2. m \in MantissaEnds(s)  BY <1>1, MantissaIs DEF MantissaEnds
<1>3. MantissaEnd(s) = m  BY <1>1, <1>2, LongestMantissa, MantissaEndIs
<1>4. ASSUME CharAt(s, q) # Exp PROVE ExponentField(s) = 0
  <2>1. Longest(NumberEnds(s)) = m  BY <1>1, <1>2, <1>4, EndsAtMantissa
  <2> QED  BY <1>1, <1>3, <2>1, NoExponent
<1> QED  BY <1>1, <1>2, <1>3, <1>4 DEF m, Known

LEMMA LetterAlone ==
    ASSUME NEW s, Placed(s), NEW m \in MantissaEnds(s), CharAt(s, m + 1) = Exp,
           ~IsDigit(CharAt(s, ExponentStart(s, m)))
    PROVE  ExponentField(s) = 0
<1>1. Longest(NumberEnds(s)) = m  BY EndsBeforeLetter
<1>2. m \in Nat  BY MantissaChars
<1> QED  BY <1>1, <1>2, LetterEnds, NoExponent

SignOf(ch) == IF ch = Minus THEN -1 ELSE 1

LEMMA ExponentRead ==
    ASSUME NEW s, Placed(s), NEW q \in 1..Len(s) + 1, NEW m \in MantissaEnds(s),
           InExponent(s, q, m), q > ExponentStart(s, m), ~IsDigit(CharAt(s, q))
    PROVE  ExponentField(s) = SignOf(CharAt(s, m + 2)) * Spelled(s, m + 2, q - 1)
<1> DEFINE e == ExponentStart(s, m)
<1> DEFINE n == q - 1
<1>1. CharAt(s, m + 1) = Exp /\ AllDigits(s, e, n)  BY DEF InExponent
<1>2. e \in Nat /\ e \in {m + 2, m + 3} /\ m \in Nat /\ Len(s) \in Nat
  BY <1>1, ExponentEnds, MantissaChars DEF Placed
<1>3. n \in Nat /\ n >= e /\ n <= Len(s) /\ n + 1 = q /\ n > m /\ m + 2 <= Len(s)
  BY <1>2
<1> HIDE DEF n, e
<1>4. Longest(NumberEnds(s)) = n  BY <1>1, <1>3, EndsAtExponent DEF e
<1>5. MantissaEnd(s) = m  BY <1>1, LetterEnds
<1>6. HasExponent(s)  BY <1>3, <1>4, <1>5 DEF HasExponent
<1>7. CharAt(s, m + 2) = s[m + 2]  BY <1>3 DEF CharAt
<1> DEFINE v == Spelled(s, m + 2, n)
<1>8. ExponentField(s) = IF s[m + 2] = Minus THEN -v ELSE v
  BY <1>4, <1>5, <1>6, Zenon DEF ExponentField
<1>9. v \in Nat
  <2>1. m + 2 \in Nat \ {0} /\ n >= (m + 2) - 1  BY <1>2, <1>3
  <2> QED  BY <1>3, <2>1, SpelledStep
<1> HIDE DEF v
<1>10. -v = -1 * v /\ v = 1 * v  BY <1>9
<1>11. ExponentField(s) = SignOf(CharAt(s, m + 2)) * v
  <2>1. CASE s[m + 2] = Minus
    <3>1. SignOf(CharAt(s, m + 2)) = -1  BY <1>7, <2>1, Zenon DEF SignOf
    <3>2. ExponentField(s) = -v  BY <1>8, <2>1
    <3> QED  BY <1>9, <3>1, <3>2
  <2>2. CASE s[m + 2] # Minus  BY <1>7, <1>8, <1>10, <2>2 DEF SignOf
  <2> QED  BY <2>1, <2>2
<1> QED  BY <1>11 DEF v, n

LEMMA ExponentDigit ==
    ASSUME NEW s, Placed(s), NEW q \in 1..Len(s) + 1, NEW m \in Nat, q >= m + 2
    PROVE  /\ Spelled(s, m + 2, q - 1) \in Nat
           /\ IsDigit(CharAt(s, q)) =>
                 Spelled(s, m + 2, q) = 10 * Spelled(s, m + 2, q - 1) + CharAt(s, q)
           /\ ~IsDigit(CharAt(s, q)) /\ q <= Len(s) =>
                 Spelled(s, m + 2, q) = Spelled(s, m + 2, q - 1)
           /\ Spelled(s, m + 2, m + 1) = 0
<1>1. s \in Seq(Char) /\ m + 2 \in Nat \ {0} /\ (m + 2) - 1 = m + 1 /\ q \in Nat
      /\ q - 1 \in Nat /\ q - 1 >= (m + 2) - 1
  BY DEF Placed
<1>2. IsDigit(CharAt(s, q)) => q <= Len(s)  BY <1>1, InString, Letters
<1>3. q <= Len(s) => CharAt(s, q) = s[q]  BY DEF CharAt
<1> DEFINE i == m + 2
<1> HIDE DEF i
<1>4. /\ Spelled(s, i, i - 1) = 0
      /\ Spelled(s, i, q - 1) \in Nat
      /\ Spelled(s, i, q) = IF IsDigit(s[q]) THEN 10 * Spelled(s, i, q - 1) + s[q]
                            ELSE Spelled(s, i, q - 1)
  <2>1. i \in Nat \ {0} /\ q - 1 >= i - 1 /\ q >= i  BY <1>1 DEF i
  <2> QED  BY <1>1, <2>1, SpelledStep
<1>5. i - 1 = m + 1  BY <1>1 DEF i
<1> QED  BY <1>2, <1>3, <1>4, <1>5 DEF i

-----------------------------------------------------------------------------
(* The number __mtold12_my reads from the buffer                            *)

\* val[i] is the number the first i digits in b spell; the last one may be a 10.
Chain(val, n, b) ==
    /\ val[0] = 0
    /\ \A i \in 0..n - 1 : b[i] \in Nat /\ val[i + 1] = 10 * val[i] + b[i]
    /\ \A i \in 0..n : val[i] <= Ten[i]

\* v, with as many zeros behind it as digits are missing, is the mantissa up to j.
Close(s, j, v, n) ==
    LET left == Sig(s, j) - n
        dropped == Sig(s, j) - LD_MAX_MAN_LEN
        error == v * Ten[left] - Val(s, j)
    IN  /\ left \in Nat
        /\ IF dropped <= 0 THEN error = 0 ELSE error \in -Ten[dropped]..Ten[dropped]

Reading(s, j, n, adj, b, nread, man) ==
    /\ n \in 0..LD_MAX_MAN_LEN /\ nread \in 0..n
    /\ adj = Sig(s, j) - n - Frac(s, j)
    /\ \E val \in [Nat -> Nat] : Chain(val, n, b) /\ Close(s, j, val[n], n) /\ man = val[nread]

\* The digits behind the buffer are dropped.
Cut(s, j, adj, b) ==
    /\ Sig(s, j) > LD_MAX_MAN_LEN
    /\ adj = Sig(s, j) - LD_MAX_MAN_LEN - Frac(s, j)
    /\ Holds(s, j, LD_MAX_MAN_LEN, b)

LEMMA PrefixesChain ==
    ASSUME NEW val \in [Nat -> Nat], NEW n \in Nat, NEW b, Prefixes(val, n, b)
    PROVE  Chain(val, n, b)
<1>1. val[0] = 0 /\ \A i \in 0..n - 1 : b[i] \in Nat /\ val[i + 1] = 10 * val[i] + b[i]
  BY DEF Prefixes
<1>2. ASSUME NEW i \in 0..n PROVE val[i] <= Ten[i]
  <2>1. val[i] < Ten[i] /\ i \in Nat  BY DEF Prefixes
  <2>2. val[i] \in Nat /\ Ten[i] \in Nat  BY <2>1, TenPowers
  <2> QED  BY <2>1, <2>2
<1> QED  BY <1>1, <1>2 DEF Chain

LEMMA StripsAll ==
    ASSUME NEW s, NEW j, NEW n \in 1..LD_MAX_MAN_LEN, NEW adj, NEW b, Part(s, j, n, adj, b),
           Sig(s, j) \in Nat, Val(s, j) \in Nat
    PROVE  Reading(s, j, n, adj, b, 0, 0)
<1>1. Sig(s, j) = n /\ adj = Sig(s, j) - n - Frac(s, j) /\ Holds(s, j, n, b)  BY DEF Part
<1>2. PICK val \in [Nat -> Nat] : Prefixes(val, n, b) /\ Leads(s, j, val[n], n)
  BY <1>1 DEF Holds
<1>3. Chain(val, n, b) /\ val[0] = 0
  <2>1. n \in Nat  OBVIOUS
  <2>2. val[0] = 0  BY <1>2, Zenon DEF Prefixes
  <2> QED  BY <1>2, <2>1, <2>2, PrefixesChain, Zenon
<1>4. Close(s, j, val[n], n)
  <2> DEFINE v == Val(s, j)
  <2> DEFINE w == val[n]
  <2>1. Sig(s, j) - n = 0 /\ Sig(s, j) - LD_MAX_MAN_LEN <= 0
    <3>1. n - n = 0 /\ n - LD_MAX_MAN_LEN <= 0  OBVIOUS
    <3>2. Sig(s, j) = n  BY <1>1
    <3> QED  BY <3>1, <3>2, Zenon
  <2>2. v - w * Ten[0] \in 0..Ten[0] - 1 /\ Ten[0] = 1 /\ v \in Nat /\ w \in Nat
    BY <1>2, <2>1, TenPowers DEF Leads
  <2> HIDE DEF v, w
  <2>3. w * Ten[0] - v = 0  BY <2>2
  <2> QED  BY <2>1, <2>3 DEF Close, v, w
<1>5. n \in 0..LD_MAX_MAN_LEN /\ 0 \in 0..n  OBVIOUS
<1> QED  BY <1>1, <1>3, <1>4, <1>5 DEF Reading

LEMMA HoldsFewer ==
    ASSUME NEW s, NEW j, NEW n \in Nat, NEW b, Holds(s, j, n + 1, b), Sig(s, j) \in Nat,
           Val(s, j) \in Nat
    PROVE  Holds(s, j, n, b) /\ b[n] \in 0..9
<1>1. PICK val \in [Nat -> Nat] : Prefixes(val, n + 1, b) /\ Leads(s, j, val[n + 1], n + 1)
  BY DEF Holds
<1>2. 0..n - 1 \subseteq 0..(n + 1) - 1 /\ 0..n \subseteq 0..n + 1 /\ n \in 0..(n + 1) - 1
  OBVIOUS
<1>3. Prefixes(val, n, b)  BY <1>1, <1>2 DEF Prefixes
<1>4. b[n] \in 0..9 /\ val[n + 1] = 10 * val[n] + b[n]  BY <1>1, <1>2 DEF Prefixes
<1> DEFINE left == Sig(s, j) - (n + 1)
<1> DEFINE u == Ten[left]
<1> DEFINE v == Val(s, j)
<1> DEFINE w == val[n]
<1> DEFINE d == b[n]
<1>5. left \in Nat /\ v - (10 * w + d) * u \in 0..u - 1
  <2>1. left \in Nat /\ v - val[n + 1] * u \in 0..u - 1  BY <1>1, Zenon DEF Leads
  <2>2. val[n + 1] = 10 * w + d  BY <1>4
  <2> QED  BY <2>1, <2>2, Zenon
<1>6. w \in Nat /\ v \in Nat /\ d \in 0..9  BY <1>4
<1>7. Sig(s, j) - n = left + 1  OBVIOUS
<1> HIDE DEF left, v, w, d
<1>8. u \in Nat \ {0} /\ Ten[left + 1] = 10 * u  BY <1>5, TenPowers
<1> HIDE DEF u
<1>9. (10 * w + d) * u = w * (10 * u) + d * u
  <2> DEFINE x == 10 * w
  <2>1. x \in Nat /\ d \in Nat /\ u \in Nat  BY <1>6, <1>8
  <2>2. x * u = w * (10 * u)  BY <1>6, <1>8
  <2> HIDE DEF x
  <2>3. (x + d) * u = x * u + d * u  BY <2>1
  <2> QED  BY <2>2, <2>3 DEF x
<1>10. d * u \in 0..9 * u
  <2>1. d = 0 \/ d = 1 \/ d = 2 \/ d = 3 \/ d = 4 \/ d = 5 \/ d = 6 \/ d = 7 \/ d = 8 \/ d = 9
    BY <1>6
  <2> QED  BY <1>8, <2>1
<1>11. w * (10 * u) \in Nat  BY <1>6, <1>8
<1>12. v - w * (10 * u) \in 0..(10 * u) - 1
  <2> DEFINE x == w * (10 * u)
  <2> DEFINE y == d * u
  <2>1. x \in Nat /\ y \in 0..9 * u /\ v - (x + y) \in 0..u - 1  BY <1>5, <1>9, <1>10, <1>11
  <2> HIDE DEF x, y
  <2>2. v - x \in 0..(10 * u) - 1  BY <1>6, <1>8, <2>1
  <2> QED  BY <2>2 DEF x
<1>13. Leads(s, j, w, n)  BY <1>5, <1>7, <1>8, <1>12 DEF Leads, v
<1> QED  BY <1>3, <1>4, <1>13 DEF Holds, w

\* One digit too many.
LEMMA PartCut ==
    ASSUME NEW s, NEW j, NEW adj \in Int, NEW b, Part(s, j, LD_MAX_MAN_LEN + 1, adj, b),
           Sig(s, j) \in Nat, Val(s, j) \in Nat, Frac(s, j) \in Nat
    PROVE  Cut(s, j, adj + 1, b)
<1> DEFINE g == Sig(s, j)
<1> DEFINE f == Frac(s, j)
<1> DEFINE k == LD_MAX_MAN_LEN
<1>1. /\ k + 1 = (IF g <= k THEN g ELSE k + 1) /\ adj = g - (k + 1) - f /\ Holds(s, j, k + 1, b)
      /\ g \in Nat /\ f \in Nat /\ k \in Nat
  BY Zenon, DigitsAssumption DEF Part
<1>2. Holds(s, j, k, b)  BY <1>1, HoldsFewer
<1> HIDE DEF g, f, k
<1>3. g > k /\ adj + 1 = g - k - f  BY <1>1
<1> QED  BY <1>2, <1>3, Zenon DEF Cut, g, f, k

\* The number the digits kept spell is the one read, or one less than a digit's worth.
LEMMA CutValue ==
    ASSUME NEW s, NEW j, NEW adj, NEW b, Cut(s, j, adj, b), Sig(s, j) \in Nat, Val(s, j) \in Nat
    PROVE  \E val \in [Nat -> Nat] :
              /\ Prefixes(val, LD_MAX_MAN_LEN, b)
              /\ Close(s, j, val[LD_MAX_MAN_LEN], LD_MAX_MAN_LEN)
              /\ Close(s, j, val[LD_MAX_MAN_LEN] + 1, LD_MAX_MAN_LEN)
<1> DEFINE k == LD_MAX_MAN_LEN
<1>1. PICK val \in [Nat -> Nat] : Prefixes(val, k, b) /\ Leads(s, j, val[k], k)
  BY DEF Cut, Holds
<1> DEFINE left == Sig(s, j) - k
<1> DEFINE u == Ten[left]
<1> DEFINE v == Val(s, j)
<1> DEFINE w == val[k]
<1>2. left \in Nat /\ v - w * u \in 0..u - 1  BY <1>1, Zenon DEF Leads
<1>3. ~(left <= 0)  BY DEF Cut
<1>4. w \in Nat /\ v \in Nat  BY DigitsAssumption
<1> HIDE DEF left
<1>5. u \in Nat \ {0}  BY <1>2, TenPowers
<1> HIDE DEF u, v, w
<1> DEFINE x == w * u
<1>6. x \in Nat /\ (w + 1) * u = x + u /\ v - x \in 0..u - 1  BY <1>2, <1>4, <1>5
<1> HIDE DEF x
<1>7. x - v \in -u..u /\ (x + u) - v \in -u..u  BY <1>4, <1>5, <1>6
<1>8. w * u - v \in -u..u /\ (w + 1) * u - v \in -u..u  BY <1>6, <1>7 DEF x
<1>9. Close(s, j, w, k) /\ Close(s, j, w + 1, k)
  BY <1>2, <1>3, <1>8, Zenon DEF Close, left, u, v, k
<1> QED  BY <1>1, <1>9 DEF w, k

LEMMA StripsCut ==
    ASSUME NEW s, NEW j, NEW adj, NEW b, Cut(s, j, adj, b), Sig(s, j) \in Nat, Val(s, j) \in Nat
    PROVE  Reading(s, j, LD_MAX_MAN_LEN, adj, b, 0, 0)
<1> DEFINE k == LD_MAX_MAN_LEN
<1>1. PICK val \in [Nat -> Nat] : Prefixes(val, k, b) /\ Close(s, j, val[k], k)
  BY CutValue
<1>2. Chain(val, k, b) /\ val[0] = 0  BY <1>1, PrefixesChain DEF Prefixes
<1>3. k \in 0..k /\ 0 \in 0..k /\ adj = Sig(s, j) - k - Frac(s, j)  BY DEF Cut
<1> QED  BY <1>1, <1>2, <1>3 DEF Reading

LEMMA StripsRounded ==
    ASSUME NEW s, NEW j, NEW adj, NEW b \in [0..LD_MAX_MAN_LEN -> Nat], Cut(s, j, adj, b),
           Sig(s, j) \in Nat, Val(s, j) \in Nat
    PROVE  Reading(s, j, LD_MAX_MAN_LEN, adj,
                   [b EXCEPT ![LD_MAX_MAN_LEN - 1] = b[LD_MAX_MAN_LEN - 1] + 1], 0, 0)
<1> DEFINE k == LD_MAX_MAN_LEN
<1> DEFINE d == b[k - 1] + 1
<1> DEFINE c1 == [b EXCEPT ![k - 1] = d]
<1>1. PICK val \in [Nat -> Nat] : Prefixes(val, k, b) /\ Close(s, j, val[k] + 1, k)
  BY CutValue
<1> DEFINE w == [val EXCEPT ![k] = val[k] + 1]
<1>2. k \in Nat \ {0} /\ k - 1 \in 0..k - 1 /\ k - 1 \in 0..k /\ k \in 0..k /\ 0 # k
      /\ (k - 1) + 1 = k /\ b \in [0..k -> Nat]
  <2>1. b \in [0..k -> Nat] /\ k \in Nat \ {0}  OBVIOUS
  <2> HIDE DEF k
  <2>2. \A n \in Nat \ {0} : n - 1 \in 0..n - 1 /\ n - 1 \in 0..n /\ n \in 0..n /\ (n - 1) + 1 = n
    OBVIOUS
  <2> QED  BY <2>1, <2>2
<1>14. val[k] \in Nat /\ val[k - 1] \in Nat /\ b[k - 1] \in Nat
  <2> HIDE DEF k
  <2>1. k \in Nat /\ k - 1 \in Nat  BY <1>2
  <2> QED  BY <1>2, <2>1
<1> DEFINE v1 == val[k]
<1> DEFINE v0 == val[k - 1]
<1> DEFINE b0 == b[k - 1]
<1> HIDE DEF k
<1>3. c1[k - 1] = d /\ \A i \in 0..k - 1 : i # k - 1 => c1[i] = b[i]  BY <1>2
<1>4. w[k] = val[k] + 1 /\ \A i \in Nat : i # k => w[i] = val[i]  BY <1>2
<1>5. w \in [Nat -> Nat]
  <2>1. v1 + 1 \in Nat
    <3>1. v1 \in Nat  BY <1>14
    <3> HIDE DEF v1
    <3> QED  BY <3>1
  <2> QED  BY <2>1
<1>6. /\ val[0] = 0
      /\ \A i \in 0..k - 1 : b[i] \in 0..9 /\ val[i + 1] = 10 * val[i] + b[i]
      /\ \A i \in 0..k : val[i] < Ten[i]
  BY <1>1 DEF Prefixes
<1>7. d \in Nat /\ v1 + 1 = 10 * v0 + d
  <2>1. v1 = 10 * v0 + b0 /\ d = b0 + 1  BY <1>2, <1>6
  <2>2. v1 \in Nat /\ v0 \in Nat /\ b0 \in Nat  BY <1>14
  <2> HIDE DEF v1, v0, b0, d
  <2> QED  BY <2>1, <2>2
<1> HIDE DEF w, d, c1
<1>8. ASSUME NEW i \in 0..k - 1 PROVE c1[i] \in Nat /\ w[i + 1] = 10 * w[i] + c1[i]
  <2>1. i \in Nat /\ i # k /\ i + 1 \in Nat  BY <1>2
  <2>4. b[i] \in 0..9 /\ val[i + 1] = 10 * val[i] + b[i]  BY <1>6
  <2>2. CASE i = k - 1
    <3>1. w[i] = v0 /\ w[i + 1] = v1 + 1  BY <1>2, <1>4, <2>1, <2>2
    <3>2. c1[i] = d  BY <1>3, <2>2
    <3> QED  BY <1>7, <3>1, <3>2, Zenon
  <2>3. CASE i # k - 1
    <3>1. i + 1 # k  BY <1>2, <2>1, <2>3
    <3>2. w[i] = val[i] /\ w[i + 1] = val[i + 1] /\ c1[i] = b[i]
      BY <1>3, <1>4, <2>1, <2>3, <3>1
    <3>3. b[i] \in Nat
      <4>1. i \in 0..k  BY <1>2
      <4> QED  BY <1>2, <4>1
    <3> QED  BY <2>4, <3>2, <3>3, Zenon
  <2> QED  BY <2>2, <2>3
<1>9. ASSUME NEW i \in 0..k PROVE w[i] <= Ten[i]
  <2>1. i \in Nat  BY <1>2
  <2> DEFINE x == val[i]
  <2> DEFINE y == Ten[i]
  <2>2. x < y /\ x \in Nat /\ y \in Nat  BY <1>6, <2>1, TenPowers
  <2>3. w[i] = x \/ w[i] = x + 1  BY <1>4, <2>1
  <2> HIDE DEF x, y
  <2>4. x <= y /\ x + 1 <= y  BY <2>2
  <2> QED  BY <2>3, <2>4, Zenon DEF y
<1>10. Chain(w, k, c1) /\ w[0] = 0
  <2>1. w[0] = 0  BY <1>2, <1>4, <1>6
  <2> QED  BY <1>8, <1>9, <2>1 DEF Chain
<1>11. Close(s, j, w[k], k)  BY <1>1, <1>4
<1>12. k \in 0..k /\ 0 \in 0..k /\ adj = Sig(s, j) - k - Frac(s, j)  BY <1>2 DEF Cut, k
<1>13. Reading(s, j, k, adj, c1, 0, 0)  BY <1>5, <1>10, <1>11, <1>12 DEF Reading, k
<1> QED  BY <1>13 DEF k, c1, d

\* A zero at the end is counted in the exponent instead.
LEMMA StripsZero ==
    ASSUME NEW s, NEW j, NEW n \in Nat \ {0}, NEW adj \in Int, NEW b, Reading(s, j, n, adj, b, 0, 0),
           b[n - 1] = 0, Sig(s, j) \in Nat, Frac(s, j) \in Nat
    PROVE  Reading(s, j, n - 1, adj + 1, b, 0, 0)
<1> DEFINE i == n - 1
<1>1. i \in Nat /\ i + 1 = n /\ 0..i - 1 \subseteq 0..n - 1 /\ 0..i \subseteq 0..n /\ i \in 0..n - 1
  OBVIOUS
<1>2. n \in 0..LD_MAX_MAN_LEN /\ adj = Sig(s, j) - n - Frac(s, j)  BY DEF Reading
<1>3. PICK val \in [Nat -> Nat] : Chain(val, n, b) /\ Close(s, j, val[n], n) /\ val[0] = 0
  BY DEF Reading
<1> HIDE DEF i
<1>4. Chain(val, i, b)  BY <1>1, <1>3 DEF Chain
<1>5. val[n] = 10 * val[i] + b[i]  BY <1>1, <1>3 DEF Chain
<1>6. b[i] = 0  BY DEF i
<1> DEFINE left == Sig(s, j) - n
<1> DEFINE v == Val(s, j)
<1> DEFINE w == val[i]
<1> DEFINE w1 == val[n]
<1> DEFINE u == Ten[left]
<1>7. left \in Nat /\ Sig(s, j) - i = left + 1
  <2>1. left \in Nat  BY <1>3 DEF Close
  <2>2. Sig(s, j) - i = left + 1  BY <1>1
  <2> QED  BY <2>1, <2>2
<1>8. u \in Nat /\ Ten[left + 1] = 10 * u  BY <1>7, TenPowers
<1>9. w \in Nat /\ w1 \in Nat  BY <1>1
<1> HIDE DEF u, w, w1
<1>10. w1 = 10 * w  BY <1>5, <1>6, <1>9 DEF w, w1
<1>11. w * (10 * u) = w1 * u  BY <1>8, <1>9, <1>10
<1>12. Close(s, j, w, i)
  <2> DEFINE d == Sig(s, j) - LD_MAX_MAN_LEN
  <2> DEFINE Near(e) == IF d <= 0 THEN e = 0 ELSE e \in -Ten[d]..Ten[d]
  <2>1. Near(w1 * u - v)  BY <1>3, Zenon DEF Close, u, w1
  <2> HIDE DEF Near
  <2>2. Near(w * Ten[left + 1] - v)  BY <1>8, <1>11, <2>1
  <2>3. left + 1 \in Nat  BY <1>7
  <2> HIDE DEF left, v
  <2>4. Near(w * Ten[Sig(s, j) - i] - v) /\ Sig(s, j) - i \in Nat  BY <1>7, <2>2, <2>3
  <2> QED  BY <2>4, Zenon DEF Close, Near, v
<1>13. i \in 0..LD_MAX_MAN_LEN /\ 0 \in 0..i  BY <1>1, <1>2
<1>14. adj + 1 = Sig(s, j) - i - Frac(s, j)
  <2> DEFINE g == Sig(s, j)
  <2> DEFINE f == Frac(s, j)
  <2>1. adj = g - n - f /\ g \in Nat /\ f \in Nat  BY <1>2
  <2> HIDE DEF g, f
  <2>2. adj + 1 = g - i - f  BY <1>1, <2>1
  <2> QED  BY <2>2 DEF g, f
<1>15. Reading(s, j, i, adj + 1, b, 0, 0)  BY <1>3, <1>4, <1>12, <1>13, <1>14 DEF Reading, w
<1> QED  BY <1>15 DEF i

\* The integer grows by a digit, without overflow: the digits fit into 12 bytes.
LEMMA ReadsDigit ==
    ASSUME NEW s, NEW j, NEW n \in Nat, NEW adj, NEW b, NEW k \in Nat, NEW man,
           Reading(s, j, n, adj, b, k, man), k < n
    PROVE  Reading(s, j, n, adj, b, k + 1, AppendDigit(man, b[k]))
<1>1. n \in 0..LD_MAX_MAN_LEN /\ adj = Sig(s, j) - n - Frac(s, j)  BY DEF Reading
<1>2. PICK val \in [Nat -> Nat] : Chain(val, n, b) /\ Close(s, j, val[n], n) /\ man = val[k]
  BY DEF Reading
<1>3. k \in 0..n - 1 /\ k + 1 \in 0..n /\ k + 1 \in Nat /\ k + 1 <= LD_MAX_MAN_LEN
  BY <1>1
<1>4. b[k] \in Nat /\ val[k + 1] = 10 * val[k] + b[k] /\ val[k + 1] <= Ten[k + 1]
  BY <1>2, <1>3 DEF Chain
<1>5. Ten[k + 1] <= Ten[LD_MAX_MAN_LEN] /\ Ten[LD_MAX_MAN_LEN] < Volume
  BY <1>3, TenGrows, DigitsFit DEF Volume
<1> DEFINE x == val[k]
<1> DEFINE y == val[k + 1]
<1> DEFINE d == b[k]
<1> DEFINE t1 == Ten[k + 1]
<1> DEFINE t2 == Ten[LD_MAX_MAN_LEN]
<1>6. x \in Nat /\ y \in Nat /\ d \in Nat /\ t1 \in Nat /\ t2 \in Nat /\ Volume \in Nat
  <2>1. x \in Nat /\ y \in Nat  BY <1>3
  <2>2. t1 \in Nat /\ t2 \in Nat  BY <1>3, TenPowers
  <2> QED  BY <1>4, <2>1, <2>2, VolumeType
<1>7. y = 10 * x + d /\ y <= t1 /\ t1 <= t2 /\ t2 < Volume  BY <1>4, <1>5
<1> HIDE DEF x, y, d, t1, t2
<1>8. 10 * x + d < Volume  BY <1>6, <1>7
<1>9. AppendDigit(x, d) = y  BY <1>6, <1>7, <1>8, AppendExact
<1>10. AppendDigit(man, b[k]) = val[k + 1]  BY <1>2, <1>9 DEF x, y, d
<1> QED  BY <1>1, <1>2, <1>3, <1>10 DEF Reading

\* All digits have been read.
LEMMA ReadsAll ==
    ASSUME NEW s, NEW j, NEW n, NEW adj, NEW b, NEW man, Reading(s, j, n, adj, b, n, man)
    PROVE  Close(s, j, man, n) /\ adj = Sig(s, j) - n - Frac(s, j) /\ n \in 0..LD_MAX_MAN_LEN
BY DEF Reading

-----------------------------------------------------------------------------
(* The digits of the mantissa, state by state                               *)

Early == {"idle", "S_WHITE", "S_INIT"}
Zeros == {"S_SIGNM", "S_POINT", "S_EAT0L"}
MantissaStates == Zeros \cup {"S_GETL", "S_GETR"}
ExponentStates == {"S_E", "S_SIGNE", "S_EAT0E", "S_GETE"}

\* In front of q, then up to the end of the mantissa.
Digits(st, s, q, n, adj, b) ==
    /\ st \in Early => n = 0 /\ adj = 0
    /\ st \in Zeros => n = 0
    /\ st \in MantissaStates => Part(s, q - 1, n, adj, b)
    /\ st \in ExponentStates \cup {"round"} \/ (st = "S_END" /\ IsNumber(s)) =>
          Known(s) /\ Part(s, MantissaEnd(s), n, adj, b)
    /\ st = "round" => n = LD_MAX_MAN_LEN + 1

DigitsHere(t) == Digits(state[t], text[t], p[t], manlen[t], loc[t].exp_adj, buf)
DigitsThere(t) == Digits(state'[t], text[t], p'[t], manlen'[t], loc'[t].exp_adj, buf')

\* What is to be shown, by the state a step leads to.
LEMMA LeadsTo ==
    ASSUME NEW t
    PROVE  /\ /\ state'[t] \in MantissaStates /\ (state'[t] \in Zeros => manlen'[t] = 0)
              /\ Part(text[t], p'[t] - 1, manlen'[t], loc'[t].exp_adj, buf')
              => DigitsThere(t)
           /\ /\ state'[t] \in ExponentStates \cup {"S_END"}
              /\ Known(text[t])
              /\ Part(text[t], MantissaEnd(text[t]), manlen'[t], loc'[t].exp_adj, buf')
              => DigitsThere(t)
           /\ state'[t] = "S_END" /\ ~IsNumber(text[t]) => DigitsThere(t)
           /\ state'[t] \in Early /\ manlen'[t] = 0 /\ loc'[t].exp_adj = 0 => DigitsThere(t)
           /\ state'[t] \in (Computing \cup {"done"}) \ {"S_END", "round"} => DigitsThere(t)
<1> USE DEF Early, Zeros, MantissaStates, ExponentStates, Computing
<1>1. ASSUME state'[t] \in MantissaStates, state'[t] \in Zeros => manlen'[t] = 0,
             Part(text[t], p'[t] - 1, manlen'[t], loc'[t].exp_adj, buf')
      PROVE  DigitsThere(t)
  <2>1. state'[t] \notin Early \cup ExponentStates \cup {"round", "S_END"}  BY <1>1
  <2> HIDE DEF Early, Zeros, MantissaStates, ExponentStates, Computing
  <2>2. state'[t] \notin Early /\ state'[t] \notin ExponentStates \cup {"round"} /\ state'[t] # "S_END"
        /\ state'[t] # "round"
    BY <2>1
  <2> QED  BY <1>1, <2>2, Zenon DEF DigitsThere, Digits
<1>2. ASSUME state'[t] \in ExponentStates \cup {"S_END"}, Known(text[t]),
             Part(text[t], MantissaEnd(text[t]), manlen'[t], loc'[t].exp_adj, buf')
      PROVE  DigitsThere(t)
  <2>1. state'[t] \notin Early /\ state'[t] \notin Zeros /\ state'[t] \notin MantissaStates
        /\ state'[t] # "round"
    BY <1>2
  <2> HIDE DEF Early, Zeros, MantissaStates, ExponentStates, Computing
  <2> QED  BY <1>2, <2>1, Zenon DEF DigitsThere, Digits
<1>3. ASSUME state'[t] = "S_END", ~IsNumber(text[t]) PROVE DigitsThere(t)
  <2>1. state'[t] \notin Early /\ state'[t] \notin Zeros /\ state'[t] \notin MantissaStates
        /\ state'[t] # "round" /\ state'[t] \notin ExponentStates \cup {"round"}
    BY <1>3
  <2> HIDE DEF Early, Zeros, MantissaStates, ExponentStates, Computing
  <2> QED  BY <1>3, <2>1, Zenon DEF DigitsThere, Digits
<1>4. ASSUME state'[t] \in Early, manlen'[t] = 0, loc'[t].exp_adj = 0 PROVE DigitsThere(t)
  <2>1. /\ state'[t] \notin Zeros /\ state'[t] \notin MantissaStates /\ state'[t] # "round"
        /\ state'[t] \notin ExponentStates \cup {"round"} /\ state'[t] # "S_END"
    BY <1>4
  <2> HIDE DEF Early, Zeros, MantissaStates, ExponentStates, Computing
  <2> QED  BY <1>4, <2>1, Zenon DEF DigitsThere, Digits
<1>5. ASSUME state'[t] \in (Computing \cup {"done"}) \ {"S_END", "round"} PROVE DigitsThere(t)
  <2>1. /\ state'[t] \notin Zeros /\ state'[t] \notin MantissaStates /\ state'[t] # "round"
        /\ state'[t] \notin ExponentStates \cup {"round"} /\ state'[t] # "S_END"
        /\ state'[t] \notin Early
    BY <1>5
  <2> HIDE DEF Early, Zeros, MantissaStates, ExponentStates, Computing
  <2> QED  BY <2>1, Zenon DEF DigitsThere, Digits
<1> HIDE DEF Early, Zeros, MantissaStates, ExponentStates, Computing
<1> QED  BY <1>1, <1>2, <1>3, <1>4, <1>5, Zenon

\* The numbers a step of the scanner does not touch.
Quiet(t) ==
    /\ loc'[t].exp_adj = loc[t].exp_adj /\ loc'[t].exp_sign = loc[t].exp_sign
    /\ loc'[t].longpow = loc[t].longpow /\ loc'[t].nread = loc[t].nread /\ loc'[t].man = loc[t].man

LEMMA LocQuiet ==
    ASSUME NEW t \in Threads, IInv, NEW v,
           \/ UNCHANGED loc \/ loc' = [loc EXCEPT ![t].found_digit = v]
           \/ loc' = [loc EXCEPT ![t].man_sign = v] \/ loc' = [loc EXCEPT ![t].savedp = v]
    PROVE  Quiet(t)
BY DEF IInv, Shape, Locals, Quiet

LEMMA StartDigits ==
    ASSUME NEW t \in Threads, IInv, Here(t), There(t), DigitsHere(t), Numbers(t), S_INIT(t) \/ S_SIGNM(t)
    PROVE  DigitsThere(t)
<1> DEFINE s == text[t]
<1> DEFINE q == p[t]
<1> DEFINE n == manlen[t]
<1> DEFINE adj == loc[t].exp_adj
<1>1. state[t] \in {"S_INIT", "S_SIGNM"} /\ state[t] \in Scanning
  BY DEF S_INIT, S_SIGNM, Scanning
<1>2. /\ s \in Seq(Char) /\ q \in 1..Len(s) + 1 /\ q \in Nat /\ c(t) = CharAt(s, q) /\ c(t) \in Char
  BY <1>1, ReadFacts
<1>3. /\ Placed(s)
      /\ state[t] = "S_INIT" => q = AfterBlanks(s)
      /\ state[t] = "S_SIGNM" => q = Start(s)
  BY <1>1 DEF Here, Where
<1>4. manlen'[t] = n /\ buf' = buf /\ loc'[t].exp_adj = adj
  <2>1. manlen' = manlen /\ buf' = buf  BY DEF S_INIT, S_SIGNM, Unscanned
  <2>2. UNCHANGED loc \/ \E v : loc' = [loc EXCEPT ![t].man_sign = v]
    BY Zenon DEF S_INIT, S_SIGNM
  <2>3. Quiet(t)  BY <2>2, LocQuiet
  <2> QED  BY <2>1, <2>3 DEF Quiet
<1>5. state[t] = "S_INIT" => Start(s) = IF c(t) \in {Plus, Minus} THEN q + 1 ELSE q
  BY <1>2, <1>3, StartHere
<1>6. n = 0 /\ adj \in Int /\ buf \in [0..LD_MAX_MAN_LEN -> Nat]
  BY <1>1 DEF DigitsHere, Digits, Early, Zeros, Numbers, IInv, Shape
<1>7. state[t] = "S_INIT" => adj = 0  BY DEF DigitsHere, Digits, Early
<1>8. q = Start(s) => Part(s, q - 1, 0, adj, buf)
  <2>1. CASE state[t] = "S_INIT"  BY <1>3, <1>7, <2>1, PartNothing
  <2>2. CASE state[t] = "S_SIGNM"
    BY <1>6, <2>2 DEF DigitsHere, Digits, MantissaStates, Zeros
  <2> QED  BY <1>1, <2>1, <2>2
<1> HIDE DEF s, q, n, adj
<1>9. q = Start(s) => InDigits(s, q)  BY <1>2, <1>3 DEF InDigits, AllDigits
<1>10. (q + 1) - 1 = q  BY <1>2
<1>11. CASE q = Start(s) /\ state'[t] = "S_GETL" /\ p'[t] = q
  <2>1. Part(s, p'[t] - 1, manlen'[t], loc'[t].exp_adj, buf')  BY <1>4, <1>6, <1>8, <1>11
  <2> QED  BY <1>11, <2>1, LeadsTo DEF MantissaStates, Zeros, s
<1>12. CASE c(t) = 0 /\ q = Start(s) /\ state'[t] = "S_EAT0L" /\ p'[t] = q + 1
  <2>1. Part(s, q, 0, adj, buf)  BY <1>2, <1>6, <1>8, <1>9, <1>12, DigitRead, Kinds
  <2>2. Part(s, p'[t] - 1, manlen'[t], loc'[t].exp_adj, buf')  BY <1>4, <1>6, <1>10, <1>12, <2>1
  <2> QED  BY <1>4, <1>6, <1>12, <2>2, LeadsTo DEF MantissaStates, Zeros, s
<1>13. CASE c(t) = Point /\ q = Start(s) /\ state'[t] = "S_POINT" /\ p'[t] = q + 1
  <2>1. Part(s, q, 0, adj, buf)  BY <1>2, <1>6, <1>8, <1>9, <1>13, PointRead
  <2>2. Part(s, p'[t] - 1, manlen'[t], loc'[t].exp_adj, buf')  BY <1>4, <1>6, <1>10, <1>13, <2>1
  <2> QED  BY <1>4, <1>6, <1>13, <2>2, LeadsTo DEF MantissaStates, Zeros, s
<1>14. CASE state[t] = "S_INIT" /\ state'[t] = "S_SIGNM" /\ p'[t] = Start(s)
  <2>1. Part(s, p'[t] - 1, manlen'[t], loc'[t].exp_adj, buf')
    BY <1>3, <1>4, <1>6, <1>7, <1>14, PartNothing
  <2> QED  BY <1>4, <1>6, <1>14, <2>1, LeadsTo DEF MantissaStates, Zeros, s
<1>15. CASE ~IsDigit(c(t)) /\ c(t) # Point /\ q = Start(s) /\ state'[t] = "S_END"
  <2>1. ~IsNumber(s)  BY <1>2, <1>3, <1>15, FromStart
  <2> QED  BY <1>15, <2>1, LeadsTo DEF s
<1>16. CASE S_INIT(t)
  <2>1. \/ IsNzDigit(c(t)) /\ state'[t] = "S_GETL" /\ p'[t] = q
        \/ c(t) = 0 /\ state'[t] = "S_EAT0L" /\ p'[t] = q + 1
        \/ c(t) \in {Plus, Minus} /\ state'[t] = "S_SIGNM" /\ p'[t] = q + 1
        \/ c(t) = Point /\ state'[t] = "S_POINT" /\ p'[t] = q + 1
        \/ c(t) \in {Blank, Exp, Other} /\ state'[t] = "S_END" /\ p'[t] = q
    BY <1>16, TakeEffect DEF S_INIT, q
  <2>2. state[t] = "S_INIT"  BY <1>16 DEF S_INIT
  <2> QED
    BY <1>3, <1>5, <1>11, <1>12, <1>13, <1>14, <1>15, <2>1, <2>2, Letters, Kinds
<1>17. CASE S_SIGNM(t)
  <2>1. \/ IsNzDigit(c(t)) /\ state'[t] = "S_GETL" /\ p'[t] = q
        \/ c(t) = 0 /\ state'[t] = "S_EAT0L" /\ p'[t] = q + 1
        \/ c(t) = Point /\ state'[t] = "S_POINT" /\ p'[t] = q + 1
        \/ c(t) \in {Blank, Plus, Minus, Exp, Other} /\ state'[t] = "S_END"
    BY <1>17, TakeEffect, GotoEffect DEF S_SIGNM, q
  <2>2. state[t] = "S_SIGNM"  BY <1>17 DEF S_SIGNM
  <2> QED
    BY <1>3, <1>11, <1>12, <1>13, <1>15, <2>1, <2>2, Letters, Kinds
<1> QED  BY <1>16, <1>17

\* What storing a digit does to the thread.
LEMMA StoreEffect ==
    ASSUME NEW t \in Threads, IInv, NEW a, NEW b, StoreDigit(t, a, b)
    PROVE  /\ manlen[t] < LD_MAX_MAN_LEN + 1 =>
                 /\ manlen'[t] = manlen[t] + 1 /\ buf' = [buf EXCEPT ![manlen[t]] = c(t)]
                 /\ loc'[t].exp_adj = loc[t].exp_adj + a
           /\ ~(manlen[t] < LD_MAX_MAN_LEN + 1) =>
                 manlen'[t] = manlen[t] /\ buf' = buf /\ loc'[t].exp_adj = loc[t].exp_adj + b
           /\ loc'[t].exp_sign = loc[t].exp_sign /\ loc'[t].longpow = loc[t].longpow
           /\ loc'[t].nread = loc[t].nread /\ loc'[t].man = loc[t].man
<1> DEFINE step == IF manlen[t] < LD_MAX_MAN_LEN + 1 THEN a ELSE b
<1>1. /\ loc' = [loc EXCEPT ![t].found_digit = TRUE, ![t].exp_adj = @ + step]
      /\ manlen' = IF manlen[t] < LD_MAX_MAN_LEN + 1 THEN [manlen EXCEPT ![t] = @ + 1] ELSE manlen
      /\ buf' = IF manlen[t] < LD_MAX_MAN_LEN + 1 THEN [buf EXCEPT ![manlen[t]] = c(t)] ELSE buf
  BY DEF StoreDigit
<1> HIDE DEF step
<1>2. /\ loc'[t].exp_adj = loc[t].exp_adj + step
      /\ loc'[t].exp_sign = loc[t].exp_sign /\ loc'[t].longpow = loc[t].longpow
      /\ loc'[t].nread = loc[t].nread /\ loc'[t].man = loc[t].man
  BY <1>1 DEF IInv, Shape, Locals
<1>3. DOMAIN manlen = Threads  BY DEF IInv, Shape
<1> QED  BY <1>1, <1>2, <1>3 DEF step

\* The digits in front of the point.
LEMMA WholeDigits ==
    ASSUME NEW t \in Threads, IInv, Here(t), There(t), DigitsHere(t), Numbers(t), S_EAT0L(t) \/ S_GETL(t)
    PROVE  DigitsThere(t)
<1> DEFINE s == text[t]
<1> DEFINE q == p[t]
<1> DEFINE n == manlen[t]
<1> DEFINE adj == loc[t].exp_adj
<1>1. state[t] \in {"S_EAT0L", "S_GETL"} /\ state[t] \in Scanning
  BY DEF S_EAT0L, S_GETL, Scanning
<1>2. /\ s \in Seq(Char) /\ q \in 1..Len(s) + 1 /\ q \in Nat /\ c(t) = CharAt(s, q) /\ c(t) \in Char
  BY <1>1, ReadFacts
<1>3. InDigits(s, q) /\ (q > Start(s) \/ IsDigit(c(t)))
  BY <1>1, <1>2 DEF Here, Where
<1>4. Part(s, q - 1, n, adj, buf) /\ (state[t] = "S_EAT0L" => n = 0)
  BY <1>1 DEF DigitsHere, Digits, MantissaStates, Zeros
<1>5. n \in Nat /\ adj \in Int /\ buf \in [0..LD_MAX_MAN_LEN -> Nat]
      /\ (state[t] = "S_GETL" /\ n = 0 => IsNzDigit(c(t)))
  BY DEF Numbers, IInv, Shape, ThreadInv, ThreadType, DigitsStored
<1>6. IsDigit(c(t)) =>
      /\ n = 0 /\ c(t) = 0 => Part(s, q, 0, adj, buf)
      /\ ~(n = 0 /\ c(t) = 0) /\ n < LD_MAX_MAN_LEN + 1 =>
            Part(s, q, n + 1, adj, [buf EXCEPT ![n] = c(t)])
      /\ ~(n < LD_MAX_MAN_LEN + 1) => Part(s, q, n, adj + 1, buf)
  <2> HIDE DEF s, q, n, adj
  <2> QED  BY <1>2, <1>3, <1>4, <1>5, DigitRead
<1>7. c(t) = Point => Part(s, q, n, adj, buf)
  <2> HIDE DEF s, q, n, adj
  <2> QED  BY <1>2, <1>3, <1>4, PointRead
<1>8. ~IsDigit(c(t)) /\ c(t) # Point => Known(s) /\ MantissaEnd(s) = q - 1
  <2> HIDE DEF s, q, n, adj
  <2> QED  BY <1>2, <1>3, DigitsEnd
<1>9. (q + 1) - 1 = q  BY <1>2
<1>10. ASSUME manlen'[t] = n, buf' = buf, loc'[t].exp_adj = adj,
              \/ IsNzDigit(c(t)) /\ state'[t] = "S_GETL" /\ p'[t] = q
              \/ c(t) = 0 /\ n = 0 /\ state'[t] = "S_EAT0L" /\ p'[t] = q + 1
              \/ c(t) = Point /\ state'[t] = "S_GETR" /\ p'[t] = q + 1
              \/ ~IsDigit(c(t)) /\ c(t) # Point /\ state'[t] \in {"S_E", "S_END"}
       PROVE  DigitsThere(t)
  <2>1. CASE IsNzDigit(c(t)) /\ state'[t] = "S_GETL" /\ p'[t] = q
    <3>1. Part(s, p'[t] - 1, manlen'[t], loc'[t].exp_adj, buf')  BY <1>4, <1>10, <2>1, Zenon
    <3> QED  BY <2>1, <3>1, LeadsTo DEF MantissaStates, Zeros
  <2>2. CASE c(t) = 0 /\ n = 0 /\ state'[t] = "S_EAT0L" /\ p'[t] = q + 1
    <3>1. Part(s, q, n, adj, buf)  BY <1>6, <2>2, Kinds
    <3>2. Part(s, p'[t] - 1, manlen'[t], loc'[t].exp_adj, buf')  BY <1>9, <1>10, <2>2, <3>1, Zenon
    <3> QED  BY <1>10, <2>2, <3>2, LeadsTo DEF MantissaStates, Zeros
  <2>3. CASE c(t) = Point /\ state'[t] = "S_GETR" /\ p'[t] = q + 1
    <3>1. Part(s, p'[t] - 1, manlen'[t], loc'[t].exp_adj, buf')  BY <1>7, <1>9, <1>10, <2>3, Zenon
    <3> QED  BY <2>3, <3>1, LeadsTo DEF MantissaStates, Zeros
  <2>4. CASE ~IsDigit(c(t)) /\ c(t) # Point /\ state'[t] \in {"S_E", "S_END"}
    <3>1. Known(s) /\ Part(s, MantissaEnd(s), manlen'[t], loc'[t].exp_adj, buf')
      BY <1>4, <1>8, <1>10, <2>4, Zenon
    <3> QED  BY <2>4, <3>1, LeadsTo DEF ExponentStates
  <2> QED  BY <1>10, <2>1, <2>2, <2>3, <2>4
<1>11. CASE S_EAT0L(t)
  <2>1. manlen' = manlen /\ buf' = buf /\ Quiet(t)
    BY <1>11, LocQuiet DEF S_EAT0L, Unscanned
  <2>2. \/ IsNzDigit(c(t)) /\ state'[t] = "S_GETL" /\ p'[t] = q
        \/ c(t) = 0 /\ n = 0 /\ state'[t] = "S_EAT0L" /\ p'[t] = q + 1
        \/ c(t) = Point /\ state'[t] = "S_GETR" /\ p'[t] = q + 1
        \/ ~IsDigit(c(t)) /\ c(t) # Point /\ state'[t] \in {"S_E", "S_END"}
    BY <1>4, <1>11, TakeEffect, Letters, Kinds DEF S_EAT0L
  <2> QED  BY <1>10, <2>1, <2>2 DEF Quiet
<1>12. CASE S_GETL(t) /\ ~IsDigit(c(t))
  <2>1. manlen' = manlen /\ buf' = buf /\ loc' = [loc EXCEPT ![t].found_digit = TRUE]
    BY <1>12 DEF S_GETL
  <2>2. Quiet(t)  BY <2>1, LocQuiet
  <2>3. \/ c(t) = Point /\ state'[t] = "S_GETR" /\ p'[t] = q + 1
        \/ ~IsDigit(c(t)) /\ c(t) # Point /\ state'[t] \in {"S_E", "S_END"}
    BY <1>12, TakeEffect, Letters DEF S_GETL
  <2> QED  BY <1>10, <2>1, <2>2, <2>3 DEF Quiet
<1>13. CASE S_GETL(t) /\ IsDigit(c(t))
  <2>1. StoreDigit(t, 0, 1) /\ state'[t] = "S_GETL" /\ p'[t] = q + 1
    BY <1>13, TakeEffect DEF S_GETL
  <2>2. ~(n = 0 /\ c(t) = 0)  BY <1>5, <1>13, Kinds DEF S_GETL
  <2>3. adj + 0 = adj  BY <1>5
  <2>4. /\ n < LD_MAX_MAN_LEN + 1 =>
                 /\ manlen'[t] = n + 1 /\ buf' = [buf EXCEPT ![n] = c(t)]
                 /\ loc'[t].exp_adj = adj + 0
        /\ ~(n < LD_MAX_MAN_LEN + 1) => manlen'[t] = n /\ buf' = buf /\ loc'[t].exp_adj = adj + 1
    BY <2>1, StoreEffect
  <2> HIDE DEF n, adj, q
  <2>5. Part(s, q, manlen'[t], loc'[t].exp_adj, buf')  BY <1>6, <1>13, <2>2, <2>3, <2>4, Zenon
  <2>6. Part(s, p'[t] - 1, manlen'[t], loc'[t].exp_adj, buf')  BY <1>9, <2>1, <2>5, Zenon
  <2> QED  BY <2>1, <2>6, LeadsTo DEF MantissaStates, Zeros
<1> QED  BY <1>11, <1>12, <1>13

\* The digits behind the point.
LEMMA PointDigits ==
    ASSUME NEW t \in Threads, IInv, Here(t), There(t), DigitsHere(t), Numbers(t), S_POINT(t)
    PROVE  DigitsThere(t)
<1>1. state[t] = "S_POINT" /\ state[t] \in Scanning  BY DEF S_POINT, Scanning
<1>2. /\ text[t] \in Seq(Char) /\ p[t] \in 1..Len(text[t]) + 1 /\ c(t) = CharAt(text[t], p[t])
  BY <1>1, ReadFacts
<1>3. Placed(text[t]) /\ p[t] = Start(text[t]) + 1 /\ CharAt(text[t], Start(text[t])) = Point
  BY <1>1 DEF Here, Where
<1>4. ~IsDigit(c(t)) => ~IsNumber(text[t])  BY <1>2, <1>3, FromFirstPoint
<1>5. Part(text[t], p[t] - 1, manlen[t], loc[t].exp_adj, buf)
  BY <1>1 DEF DigitsHere, Digits, MantissaStates, Zeros
<1>6. manlen' = manlen /\ buf' = buf /\ Quiet(t)  BY LocQuiet DEF S_POINT, Unscanned
<1>7. \/ IsDigit(c(t)) /\ state'[t] = "S_GETR" /\ p'[t] = p[t]
      \/ ~IsDigit(c(t)) /\ state'[t] = "S_END"
  BY TakeEffect, GotoEffect DEF S_POINT
<1>8. CASE state'[t] = "S_GETR" /\ p'[t] = p[t]
  <2>1. Part(text[t], p'[t] - 1, manlen'[t], loc'[t].exp_adj, buf')
    BY <1>5, <1>6, <1>8, Zenon DEF Quiet
  <2> QED  BY <1>8, <2>1, LeadsTo DEF MantissaStates, Zeros
<1>9. CASE ~IsDigit(c(t)) /\ state'[t] = "S_END"  BY <1>4, <1>9, LeadsTo
<1> QED  BY <1>7, <1>8, <1>9

LEMMA BehindPoint ==
    ASSUME NEW t \in Threads, IInv, Here(t), There(t), DigitsHere(t), Numbers(t), S_GETR(t)
    PROVE  DigitsThere(t)
<1> DEFINE s == text[t]
<1> DEFINE q == p[t]
<1> DEFINE n == manlen[t]
<1> DEFINE adj == loc[t].exp_adj
<1>1. state[t] = "S_GETR" /\ state[t] \in Scanning  BY DEF S_GETR, Scanning
<1>2. /\ s \in Seq(Char) /\ q \in 1..Len(s) + 1 /\ q \in Nat /\ c(t) = CharAt(s, q) /\ c(t) \in Char
  BY <1>1, ReadFacts
<1>3. Placed(s) /\ Pointed(s, q - 1) /\ (q - 1 > Start(s) \/ IsDigit(c(t)))
  BY <1>1, <1>2 DEF Here, Where
<1>4. Part(s, q - 1, n, adj, buf)
  BY <1>1 DEF DigitsHere, Digits, MantissaStates, Zeros
<1>5. n \in Nat /\ adj \in Int /\ buf \in [0..LD_MAX_MAN_LEN -> Nat]
  BY DEF Numbers, IInv, Shape, ThreadInv, ThreadType
<1>6. IsDigit(c(t)) =>
      /\ n = 0 /\ c(t) = 0 => Part(s, q, 0, adj - 1, buf)
      /\ ~(n = 0 /\ c(t) = 0) /\ n < LD_MAX_MAN_LEN + 1 =>
            Part(s, q, n + 1, adj - 1, [buf EXCEPT ![n] = c(t)])
      /\ ~(n < LD_MAX_MAN_LEN + 1) => Part(s, q, n, adj, buf)
  <2> HIDE DEF s, q, n, adj
  <2> QED  BY <1>2, <1>3, <1>4, <1>5, FractionRead
<1>7. ~IsDigit(c(t)) => Known(s) /\ MantissaEnd(s) = q - 1
  <2> HIDE DEF s, q, n, adj
  <2> QED  BY <1>2, <1>3, FractionEnd
<1>8. (q + 1) - 1 = q  BY <1>2
<1>9. ASSUME Part(s, q, manlen'[t], loc'[t].exp_adj, buf'), state'[t] = "S_GETR", p'[t] = q + 1
      PROVE  DigitsThere(t)
  <2>1. Part(s, p'[t] - 1, manlen'[t], loc'[t].exp_adj, buf')  BY <1>8, <1>9, Zenon
  <2> QED  BY <1>9, <2>1, LeadsTo DEF MantissaStates, Zeros
<1>10. CASE IsDigit(c(t)) /\ c(t) = 0 /\ n = 0
  <2>1. /\ manlen' = manlen /\ buf' = buf /\ state'[t] = "S_GETR" /\ p'[t] = q + 1
        /\ loc' = [loc EXCEPT ![t].found_digit = TRUE, ![t].exp_adj = @ - 1]
    BY <1>10, TakeEffect DEF S_GETR
  <2>2. loc'[t].exp_adj = adj - 1  BY <2>1 DEF IInv, Shape, Locals
  <2>3. Part(s, q, manlen'[t], loc'[t].exp_adj, buf')  BY <1>6, <1>10, <2>1, <2>2, Zenon
  <2> QED  BY <1>9, <2>1, <2>3
<1>11. CASE IsDigit(c(t)) /\ ~(c(t) = 0 /\ n = 0)
  <2>1. StoreDigit(t, -1, 0) /\ state'[t] = "S_GETR" /\ p'[t] = q + 1
    BY <1>11, TakeEffect DEF S_GETR
  <2>2. adj + 0 = adj /\ adj + -1 = adj - 1  BY <1>5
  <2>3. /\ n < LD_MAX_MAN_LEN + 1 =>
                 /\ manlen'[t] = n + 1 /\ buf' = [buf EXCEPT ![n] = c(t)]
                 /\ loc'[t].exp_adj = adj + -1
        /\ ~(n < LD_MAX_MAN_LEN + 1) => manlen'[t] = n /\ buf' = buf /\ loc'[t].exp_adj = adj + 0
    BY <2>1, StoreEffect
  <2> HIDE DEF n, adj, q
  <2>4. Part(s, q, manlen'[t], loc'[t].exp_adj, buf')  BY <1>6, <1>11, <2>2, <2>3, Zenon
  <2> QED  BY <1>9, <2>1, <2>4 DEF q
<1>12. CASE ~IsDigit(c(t))
  <2>1. /\ manlen' = manlen /\ buf' = buf /\ loc' = [loc EXCEPT ![t].found_digit = TRUE]
        /\ state'[t] \in {"S_E", "S_END"}
    BY <1>12, TakeEffect, Kinds DEF S_GETR
  <2>2. Quiet(t)  BY <2>1, LocQuiet
  <2>3. Known(s) /\ Part(s, MantissaEnd(s), manlen'[t], loc'[t].exp_adj, buf')
    BY <1>4, <1>7, <1>12, <2>1, <2>2, Zenon DEF Quiet
  <2> QED  BY <2>1, <2>3, LeadsTo DEF ExponentStates
<1> QED  BY <1>10, <1>11, <1>12

\* The exponent and its sign.
LEMMA ExponentDigits ==
    ASSUME NEW t \in Threads, IInv, DigitsHere(t), S_E(t) \/ S_SIGNE(t) \/ S_EAT0E(t) \/ S_GETE(t)
    PROVE  DigitsThere(t)
<1>1. state[t] \in ExponentStates  BY DEF S_E, S_SIGNE, S_EAT0E, S_GETE, ExponentStates
<1>2. Known(text[t]) /\ Part(text[t], MantissaEnd(text[t]), manlen[t], loc[t].exp_adj, buf)
  BY <1>1, Zenon DEF DigitsHere, Digits
<1>3. manlen' = manlen /\ buf' = buf
  BY DEF S_E, S_SIGNE, S_EAT0E, S_GETE, Unscanned
<1>4. loc'[t].exp_adj = loc[t].exp_adj
  <2>1. \/ UNCHANGED loc
        \/ \E v : loc' = [loc EXCEPT ![t].savedp = v]
        \/ \E v, w : loc' = [loc EXCEPT ![t].savedp = v, ![t].exp_sign = w]
        \/ \E v : loc' = [loc EXCEPT ![t].longpow = v]
    BY Zenon DEF S_E, S_SIGNE, S_EAT0E, S_GETE
  <2>2. DOMAIN loc = Threads /\ DOMAIN loc[t] = DOMAIN Locals  BY DEF IInv, Shape
  <2>3. CASE UNCHANGED loc  BY <2>3
  <2>4. CASE \E v : loc' = [loc EXCEPT ![t].savedp = v]  BY <2>2, <2>4 DEF Locals
  <2>5. CASE \E v, w : loc' = [loc EXCEPT ![t].savedp = v, ![t].exp_sign = w]
    BY <2>2, <2>5 DEF Locals
  <2>6. CASE \E v : loc' = [loc EXCEPT ![t].longpow = v]  BY <2>2, <2>6 DEF Locals
  <2> QED  BY <2>1, <2>3, <2>4, <2>5, <2>6
<1>5. state'[t] \in ExponentStates \cup {"S_END"}
  BY TakeEffect, GotoEffect DEF S_E, S_SIGNE, S_EAT0E, S_GETE, ExponentStates
<1>6. Part(text[t], MantissaEnd(text[t]), manlen'[t], loc'[t].exp_adj, buf')
  BY <1>2, <1>3, <1>4, Zenon
<1> QED  BY <1>2, <1>5, <1>6, LeadsTo

LEMMA EarlyDigits ==
    ASSUME NEW t \in Threads, IInv, DigitsHere(t), White(t) \/ Call(t)
    PROVE  DigitsThere(t)
<1>1. state[t] \in Early  BY DEF White, Call, Early
<1>2. manlen[t] = 0 /\ loc[t].exp_adj = 0  BY <1>1, Zenon DEF DigitsHere, Digits
<1>3. manlen' = manlen /\ loc' = loc  BY DEF White, Call, Unscanned
<1>4. state'[t] \in Early  BY TakeEffect DEF White, Call, Early
<1> QED  BY <1>2, <1>3, <1>4, LeadsTo

LEMMA ScanDigits ==
    ASSUME NEW t \in Threads, IInv, Here(t), There(t), DigitsHere(t), Numbers(t), Scan(t) \/ Call(t)
    PROVE  DigitsThere(t)
BY EarlyDigits, StartDigits, WholeDigits, PointDigits, BehindPoint, ExponentDigits DEF Scan

-----------------------------------------------------------------------------
(* The exponent, state by state                                             *)

BeforeExponent == Early \cup MantissaStates \cup {"S_E"}
Counted == {"round", "roundup", "strip", "digits", "pow"}

\* Up to q, and the whole field; a field above TMAX10 is not followed further.
ExponentSoFar(s, q, sign, lp) ==
    /\ sign = SignOf(CharAt(s, MantissaEnd(s) + 2))
    /\ lp <= TMAX10 => lp = Spelled(s, MantissaEnd(s) + 2, q - 1)
WholeExponent(s, sign, lp) ==
    sign \in {1, -1} /\ (lp <= TMAX10 => sign * lp = ExponentField(s))

Power(st, s, q, sign, lp) ==
    /\ st \in BeforeExponent => sign = 1 /\ lp = 0
    /\ st = "S_SIGNE" => sign = SignOf(CharAt(s, q - 1)) /\ lp = 0
    /\ st \in {"S_EAT0E", "S_GETE"} => ExponentSoFar(s, q, sign, lp)
    /\ st = "S_EAT0E" => lp = 0
    /\ st \in Counted \/ (st = "S_END" /\ IsNumber(s)) => WholeExponent(s, sign, lp)

PowerHere(t) == Power(state[t], text[t], p[t], loc[t].exp_sign, loc[t].longpow)
PowerThere(t) == Power(state'[t], text[t], p'[t], loc'[t].exp_sign, loc'[t].longpow)

LEMMA PowerTo ==
    ASSUME NEW t
    PROVE  /\ state'[t] \in BeforeExponent /\ loc'[t].exp_sign = 1 /\ loc'[t].longpow = 0
              => PowerThere(t)
           /\ /\ state'[t] = "S_SIGNE" /\ loc'[t].longpow = 0
              /\ loc'[t].exp_sign = SignOf(CharAt(text[t], p'[t] - 1))
              => PowerThere(t)
           /\ /\ state'[t] \in {"S_EAT0E", "S_GETE"} /\ (state'[t] = "S_EAT0E" => loc'[t].longpow = 0)
              /\ ExponentSoFar(text[t], p'[t], loc'[t].exp_sign, loc'[t].longpow)
              => PowerThere(t)
           /\ state'[t] = "S_END" /\ ~IsNumber(text[t]) => PowerThere(t)
           /\ /\ state'[t] \in Counted \cup {"S_END"}
              /\ WholeExponent(text[t], loc'[t].exp_sign, loc'[t].longpow)
              => PowerThere(t)
           /\ state'[t] \in (Computing \cup {"done"}) \ (Counted \cup {"S_END"}) => PowerThere(t)
<1> USE DEF BeforeExponent, Counted, Early, Zeros, MantissaStates, Computing
<1>1. ASSUME state'[t] \in BeforeExponent, loc'[t].exp_sign = 1, loc'[t].longpow = 0
      PROVE  PowerThere(t)
  <2>1. /\ state'[t] # "S_SIGNE" /\ state'[t] \notin {"S_EAT0E", "S_GETE"} /\ state'[t] # "S_EAT0E"
        /\ state'[t] \notin Counted /\ state'[t] # "S_END"
    BY <1>1
  <2> HIDE DEF BeforeExponent, Counted, Early, Zeros, MantissaStates, Computing
  <2> QED  BY <1>1, <2>1, Zenon DEF PowerThere, Power
<1>2. ASSUME state'[t] = "S_SIGNE", loc'[t].longpow = 0,
             loc'[t].exp_sign = SignOf(CharAt(text[t], p'[t] - 1))
      PROVE  PowerThere(t)
  <2>1. /\ state'[t] \notin BeforeExponent /\ state'[t] \notin {"S_EAT0E", "S_GETE"}
        /\ state'[t] # "S_EAT0E" /\ state'[t] \notin Counted /\ state'[t] # "S_END"
    BY <1>2
  <2> HIDE DEF BeforeExponent, Counted, Early, Zeros, MantissaStates, Computing
  <2> QED  BY <1>2, <2>1, Zenon DEF PowerThere, Power
<1>3. ASSUME state'[t] \in {"S_EAT0E", "S_GETE"}, state'[t] = "S_EAT0E" => loc'[t].longpow = 0,
             ExponentSoFar(text[t], p'[t], loc'[t].exp_sign, loc'[t].longpow)
      PROVE  PowerThere(t)
  <2>1. /\ state'[t] \notin BeforeExponent /\ state'[t] # "S_SIGNE"
        /\ state'[t] \notin Counted /\ state'[t] # "S_END"
    BY <1>3
  <2> HIDE DEF BeforeExponent, Counted, Early, Zeros, MantissaStates, Computing
  <2> QED  BY <1>3, <2>1, Zenon DEF PowerThere, Power
<1>4. ASSUME state'[t] = "S_END", ~IsNumber(text[t]) PROVE PowerThere(t)
  <2>1. /\ state'[t] \notin BeforeExponent /\ state'[t] # "S_SIGNE" /\ state'[t] # "S_EAT0E"
        /\ state'[t] \notin Counted /\ state'[t] \notin {"S_EAT0E", "S_GETE"}
    BY <1>4
  <2> HIDE DEF BeforeExponent, Counted, Early, Zeros, MantissaStates, Computing
  <2> QED  BY <1>4, <2>1, Zenon DEF PowerThere, Power
<1>5. ASSUME state'[t] \in Counted \cup {"S_END"},
             WholeExponent(text[t], loc'[t].exp_sign, loc'[t].longpow)
      PROVE  PowerThere(t)
  <2>1. /\ state'[t] \notin BeforeExponent /\ state'[t] # "S_SIGNE" /\ state'[t] # "S_EAT0E"
        /\ state'[t] \notin {"S_EAT0E", "S_GETE"}
    BY <1>5
  <2> HIDE DEF BeforeExponent, Counted, Early, Zeros, MantissaStates, Computing
  <2> QED  BY <1>5, <2>1, Zenon DEF PowerThere, Power
<1>6. ASSUME state'[t] \in (Computing \cup {"done"}) \ (Counted \cup {"S_END"}) PROVE PowerThere(t)
  <2>1. /\ state'[t] \notin BeforeExponent /\ state'[t] # "S_SIGNE" /\ state'[t] # "S_EAT0E"
        /\ state'[t] \notin Counted /\ state'[t] \notin {"S_EAT0E", "S_GETE"} /\ state'[t] # "S_END"
    BY <1>6
  <2> HIDE DEF BeforeExponent, Counted, Early, Zeros, MantissaStates, Computing
  <2> QED  BY <2>1, Zenon DEF PowerThere, Power
<1> HIDE DEF BeforeExponent, Counted, Early, Zeros, MantissaStates, Computing
<1> QED  BY <1>1, <1>2, <1>3, <1>4, <1>5, <1>6, Zenon

\* Up to the end of the mantissa there is no exponent.
LEMMA MantissaPower ==
    ASSUME NEW t \in Threads, IInv, Here(t), PowerHere(t),
           White(t) \/ S_INIT(t) \/ S_SIGNM(t) \/ S_POINT(t) \/ S_EAT0L(t) \/ S_GETL(t) \/ S_GETR(t)
           \/ Call(t)
    PROVE  PowerThere(t)
<1>1. state[t] \in BeforeExponent
  BY DEF White, S_INIT, S_SIGNM, S_POINT, S_EAT0L, S_GETL, S_GETR, Call, BeforeExponent, Early,
     MantissaStates, Zeros
<1>2. loc[t].exp_sign = 1 /\ loc[t].longpow = 0  BY <1>1, Zenon DEF PowerHere, Power
<1>3. loc'[t].exp_sign = loc[t].exp_sign /\ loc'[t].longpow = loc[t].longpow
  <2>1. \/ UNCHANGED loc
        \/ \E v : loc' = [loc EXCEPT ![t].man_sign = v]
        \/ \E v : loc' = [loc EXCEPT ![t].found_digit = v]
        \/ loc' = [loc EXCEPT ![t].found_digit = TRUE, ![t].exp_adj = @ - 1]
        \/ \E a, b : StoreDigit(t, a, b)
    BY Zenon DEF White, S_INIT, S_SIGNM, S_POINT, S_EAT0L, S_GETL, S_GETR, Call
  <2>2. CASE loc' = [loc EXCEPT ![t].found_digit = TRUE, ![t].exp_adj = @ - 1]
    BY <2>2 DEF IInv, Shape, Locals
  <2> QED  BY <2>1, <2>2, LocQuiet, StoreEffect DEF Quiet
<1>4. CASE state'[t] \in BeforeExponent  BY <1>2, <1>3, <1>4, PowerTo
<1>5. ASSUME state'[t] = "S_END", ~IsNumber(text[t]) \/ ExponentField(text[t]) = 0
      PROVE  PowerThere(t)
  <2>1. ASSUME ExponentField(text[t]) = 0
        PROVE  WholeExponent(text[t], loc'[t].exp_sign, loc'[t].longpow)
    BY <1>2, <1>3, <2>1 DEF WholeExponent
  <2> QED  BY <1>5, <2>1, PowerTo
<1>6. state[t] \in Scanning \cup {"idle"}
  BY DEF White, S_INIT, S_SIGNM, S_POINT, S_EAT0L, S_GETL, S_GETR, Call, Scanning
<1>7. state[t] \in Scanning =>
      /\ text[t] \in Seq(Char) /\ p[t] \in 1..Len(text[t]) + 1 /\ p[t] \in Nat
      /\ c(t) = CharAt(text[t], p[t]) /\ c(t) \in Char
  BY ReadFacts
<1>8. CASE White(t) \/ Call(t)
  BY <1>4, <1>8, TakeEffect DEF White, Call, BeforeExponent, Early
<1>9. CASE S_INIT(t) \/ S_SIGNM(t)
  <2>1. state[t] \in {"S_INIT", "S_SIGNM"} /\ state[t] \in Scanning
    BY <1>9 DEF S_INIT, S_SIGNM, Scanning
  <2>2. \/ state'[t] \in BeforeExponent
        \/ /\ state'[t] = "S_END" /\ ~IsDigit(c(t)) /\ c(t) # Point
           /\ state[t] = "S_INIT" => c(t) \notin {Plus, Minus}
    BY <1>9, TakeEffect, GotoEffect, Letters, Kinds
       DEF S_INIT, S_SIGNM, BeforeExponent, MantissaStates, Zeros
  <2>3. /\ Placed(text[t])
        /\ state[t] = "S_INIT" => p[t] = AfterBlanks(text[t])
        /\ state[t] = "S_SIGNM" => p[t] = Start(text[t])
    BY <2>1 DEF Here, Where
  <2>4. ASSUME state[t] = "S_INIT" => c(t) \notin {Plus, Minus} PROVE p[t] = Start(text[t])
    BY <1>7, <2>1, <2>3, <2>4, StartHere
  <2>5. ASSUME ~IsDigit(c(t)), c(t) # Point, p[t] = Start(text[t]) PROVE ~IsNumber(text[t])
    BY <1>7, <2>1, <2>3, <2>5, FromStart
  <2> QED  BY <1>4, <1>5, <2>2, <2>4, <2>5
<1>10. CASE S_POINT(t)
  <2>1. state[t] = "S_POINT" /\ state[t] \in Scanning  BY <1>10 DEF S_POINT, Scanning
  <2>2. state'[t] \in BeforeExponent \/ (state'[t] = "S_END" /\ ~IsDigit(c(t)))
    BY <1>10, TakeEffect, GotoEffect DEF S_POINT, BeforeExponent, MantissaStates
  <2>3. /\ Placed(text[t]) /\ p[t] = Start(text[t]) + 1 /\ CharAt(text[t], Start(text[t])) = Point
    BY <2>1 DEF Here, Where
  <2>4. ~IsDigit(c(t)) => ~IsNumber(text[t])  BY <1>7, <2>1, <2>3, FromFirstPoint
  <2> QED  BY <1>4, <1>5, <2>2, <2>4
<1>11. CASE S_EAT0L(t) \/ S_GETL(t)
  <2>1. state[t] \in {"S_EAT0L", "S_GETL"} /\ state[t] \in Scanning
    BY <1>11 DEF S_EAT0L, S_GETL, Scanning
  <2>2. \/ state'[t] \in BeforeExponent
        \/ state'[t] = "S_END" /\ ~IsDigit(c(t)) /\ c(t) # Point /\ c(t) # Exp
    BY <1>11, TakeEffect, Letters, Kinds DEF S_EAT0L, S_GETL, BeforeExponent, MantissaStates, Zeros
  <2>3. InDigits(text[t], p[t]) /\ (p[t] > Start(text[t]) \/ IsDigit(c(t)))
    BY <1>7, <2>1 DEF Here, Where
  <2>4. ~IsDigit(c(t)) /\ c(t) # Point /\ c(t) # Exp => ExponentField(text[t]) = 0
    BY <1>7, <2>1, <2>3, DigitsEnd
  <2> QED  BY <1>4, <1>5, <2>2, <2>4
<1>12. CASE S_GETR(t)
  <2>1. state[t] = "S_GETR" /\ state[t] \in Scanning  BY <1>12 DEF S_GETR, Scanning
  <2>2. \/ state'[t] \in BeforeExponent
        \/ state'[t] = "S_END" /\ ~IsDigit(c(t)) /\ c(t) # Exp
    BY <1>12, TakeEffect DEF S_GETR, BeforeExponent, MantissaStates
  <2>3. /\ Placed(text[t]) /\ Pointed(text[t], p[t] - 1)
        /\ p[t] - 1 > Start(text[t]) \/ IsDigit(c(t))
    BY <1>7, <2>1 DEF Here, Where
  <2>4. ~IsDigit(c(t)) /\ c(t) # Exp => ExponentField(text[t]) = 0
    BY <1>7, <2>1, <2>3, FractionEnd
  <2> QED  BY <1>4, <1>5, <2>2, <2>4
<1> QED  BY <1>8, <1>9, <1>10, <1>11, <1>12

LEMMA SignValue == \A ch : SignOf(ch) \in {1, -1}
BY DEF SignOf

\* Where the digits of the exponent start.
LEMMA ExponentBegins ==
    ASSUME NEW t \in Threads, NEW m, m \in MantissaEnds(text[t]), Placed(text[t]), IInv,
           CharAt(text[t], m + 1) = Exp, p[t] = ExponentStart(text[t], m), state[t] \in Scanning,
           p[t] = m + 2 \/ (p[t] = m + 3 /\ CharAt(text[t], m + 2) \in {Plus, Minus}),
           loc'[t].longpow = 0, loc'[t].exp_sign = SignOf(CharAt(text[t], m + 2)),
           \/ IsDigit(c(t)) /\ state'[t] = "S_GETE" /\ p'[t] = p[t]
           \/ c(t) = 0 /\ state'[t] = "S_EAT0E" /\ p'[t] = p[t] + 1
           \/ ~IsDigit(c(t)) /\ state'[t] = "S_END"
    PROVE  PowerThere(t)
<1> DEFINE s == text[t]
<1> DEFINE q == p[t]
<1>1. /\ s \in Seq(Char) /\ q \in 1..Len(s) + 1 /\ q \in Nat /\ c(t) = CharAt(s, q)
  BY ReadFacts
<1>2. m \in Nat /\ MantissaEnd(s) = m /\ q >= m + 2
  <2>1. m \in Nat  BY MantissaChars
  <2> QED  BY <2>1, LetterEnds
<1>3. Spelled(s, m + 2, q - 1) = 0
  <2>1. Spelled(s, m + 2, m + 1) = 0  BY <1>1, <1>2, ExponentDigit
  <2>2. CASE q = m + 2
    <3>1. q - 1 = m + 1  BY <1>2, <2>2
    <3> QED  BY <2>1, <3>1
  <2>3. CASE q = m + 3 /\ CharAt(s, m + 2) \in {Plus, Minus}
    <3>1. m + 2 \in 1..Len(s) + 1 /\ m + 2 <= Len(s) /\ (m + 2) - 1 = m + 1 /\ q - 1 = m + 2
          /\ m + 2 >= m + 2
      BY <1>1, <1>2, <2>3
    <3>2. ~IsDigit(CharAt(s, m + 2))  BY <2>3, Letters
    <3>3. \A j \in 1..Len(s) + 1 : j >= m + 2 /\ ~IsDigit(CharAt(s, j)) /\ j <= Len(s) =>
             Spelled(s, m + 2, j) = Spelled(s, m + 2, j - 1)
      BY <1>2, ExponentDigit
    <3> QED  BY <2>1, <3>1, <3>2, <3>3
  <2> QED  BY <2>2, <2>3
<1>4. ASSUME c(t) = 0 PROVE Spelled(s, m + 2, q) = 0
  <2>1. IsDigit(CharAt(s, q)) /\ CharAt(s, q) = 0  BY <1>1, <1>4, Kinds
  <2>2. Spelled(s, m + 2, q) = 10 * Spelled(s, m + 2, q - 1) + CharAt(s, q)
    BY <1>1, <1>2, <2>1, ExponentDigit
  <2> QED  BY <1>3, <2>1, <2>2
<1> HIDE DEF s, q
<1>5. CASE state'[t] = "S_GETE" /\ p'[t] = q
  <2>1. ExponentSoFar(s, p'[t], loc'[t].exp_sign, loc'[t].longpow)
    BY <1>2, <1>3, <1>5 DEF ExponentSoFar, s
  <2> QED  BY <1>5, <2>1, PowerTo DEF s
<1>6. CASE c(t) = 0 /\ state'[t] = "S_EAT0E" /\ p'[t] = q + 1
  <2>1. (q + 1) - 1 = q  BY <1>1
  <2>2. ExponentSoFar(s, p'[t], loc'[t].exp_sign, loc'[t].longpow)
    BY <1>2, <1>4, <1>6, <2>1 DEF ExponentSoFar, s
  <2> QED  BY <1>6, <2>2, PowerTo DEF s
<1>7. CASE ~IsDigit(c(t)) /\ state'[t] = "S_END"
  <2>1. ExponentField(s) = 0  BY <1>1, <1>7, LetterAlone DEF s, q
  <2>2. loc'[t].exp_sign \in {1, -1} /\ loc'[t].exp_sign * loc'[t].longpow = 0  BY SignValue
  <2>3. WholeExponent(s, loc'[t].exp_sign, loc'[t].longpow)
    BY <2>1, <2>2, Zenon DEF WholeExponent
  <2> QED  BY <1>7, <2>3, PowerTo DEF s
<1> QED  BY <1>5, <1>6, <1>7 DEF q

LEMMA LetterPower ==
    ASSUME NEW t \in Threads, IInv, Here(t), PowerHere(t), S_E(t)
    PROVE  PowerThere(t)
<1> DEFINE s == text[t]
<1> DEFINE q == p[t]
<1> DEFINE m == q - 2
<1>1. state[t] = "S_E" /\ state[t] \in Scanning  BY DEF S_E, Scanning
<1>2. /\ s \in Seq(Char) /\ q \in 1..Len(s) + 1 /\ q \in Nat /\ c(t) = CharAt(s, q) /\ c(t) \in Char
  BY <1>1, ReadFacts
<1>3. Placed(s) /\ m \in MantissaEnds(s) /\ CharAt(s, q - 1) = Exp
  BY <1>1 DEF Here, Where
<1>4. loc[t].exp_sign = 1 /\ loc[t].longpow = 0
  BY <1>1 DEF PowerHere, Power, BeforeExponent
<1>5. m + 1 = q - 1 /\ m + 2 = q /\ (q + 1) - 1 = q  BY <1>2
<1>6. CASE c(t) \in {Plus, Minus}
  <2>1. /\ state'[t] = "S_SIGNE" /\ p'[t] = q + 1
        /\ loc' = [loc EXCEPT ![t].savedp = q - 1, ![t].exp_sign = IF c(t) = Minus THEN -1 ELSE @]
    BY <1>6, TakeEffect, Letters, Kinds DEF S_E
  <2> HIDE DEF q
  <2>2. /\ loc'[t].longpow = loc[t].longpow
        /\ loc'[t].exp_sign = IF c(t) = Minus THEN -1 ELSE loc[t].exp_sign
    BY <2>1 DEF IInv, Shape, Locals
  <2>3. loc'[t].exp_sign = SignOf(CharAt(s, p'[t] - 1))
    BY <1>2, <1>4, <1>5, <2>1, <2>2, Zenon DEF SignOf
  <2> QED  BY <1>4, <2>1, <2>2, <2>3, PowerTo
<1>7. CASE c(t) \notin {Plus, Minus}
  <2>1. loc' = [loc EXCEPT ![t].savedp = q - 1]
    BY <1>7, Zenon DEF S_E
  <2>2. Quiet(t)  BY <2>1, LocQuiet
  <2>3. \/ IsDigit(c(t)) /\ state'[t] = "S_GETE" /\ p'[t] = q
        \/ c(t) = 0 /\ state'[t] = "S_EAT0E" /\ p'[t] = q + 1
        \/ ~IsDigit(c(t)) /\ state'[t] = "S_END"
    BY <1>7, TakeEffect, GotoEffect, Kinds, Letters DEF S_E
  <2>4. q = ExponentStart(s, m)  BY <1>2, <1>3, <1>7, LetterStart
  <2>5. m \in MantissaEnds(s) /\ CharAt(s, m + 1) = Exp  BY <1>3, <1>5
  <2>6. loc'[t].longpow = 0 /\ loc'[t].exp_sign = SignOf(CharAt(s, m + 2))
    BY <1>2, <1>4, <1>5, <1>7, <2>2 DEF Quiet, SignOf
  <2> HIDE DEF m
  <2> QED  BY <1>1, <1>3, <1>5, <2>3, <2>4, <2>5, <2>6, ExponentBegins
<1> QED  BY <1>6, <1>7

LEMMA SignPower ==
    ASSUME NEW t \in Threads, IInv, Here(t), PowerHere(t), S_SIGNE(t)
    PROVE  PowerThere(t)
<1> DEFINE s == text[t]
<1> DEFINE q == p[t]
<1> DEFINE m == q - 3
<1>1. state[t] = "S_SIGNE" /\ state[t] \in Scanning  BY DEF S_SIGNE, Scanning
<1>2. /\ s \in Seq(Char) /\ q \in 1..Len(s) + 1 /\ q \in Nat /\ c(t) = CharAt(s, q) /\ c(t) \in Char
  BY <1>1, ReadFacts
<1>3. /\ Placed(s) /\ m \in MantissaEnds(s) /\ CharAt(s, q - 2) = Exp
      /\ CharAt(s, q - 1) \in {Plus, Minus}
  BY <1>1 DEF Here, Where
<1>4. loc[t].exp_sign = SignOf(CharAt(s, q - 1)) /\ loc[t].longpow = 0
  BY <1>1, Zenon DEF PowerHere, Power
<1>5. m + 1 = q - 2 /\ m + 2 = q - 1 /\ m + 3 = q  BY <1>2
<1>6. Quiet(t)  BY LocQuiet DEF S_SIGNE
<1>7. \/ IsDigit(c(t)) /\ state'[t] = "S_GETE" /\ p'[t] = q
      \/ c(t) = 0 /\ state'[t] = "S_EAT0E" /\ p'[t] = q + 1
      \/ ~IsDigit(c(t)) /\ state'[t] = "S_END"
  BY TakeEffect, GotoEffect, Kinds DEF S_SIGNE
<1>8. q = ExponentStart(s, m)  BY <1>2, <1>3, LetterStart
<1>9. m \in MantissaEnds(s) /\ CharAt(s, m + 1) = Exp /\ CharAt(s, m + 2) \in {Plus, Minus}
  BY <1>3, <1>5
<1>10. loc'[t].longpow = 0 /\ loc'[t].exp_sign = SignOf(CharAt(s, m + 2))
  BY <1>4, <1>5, <1>6, Zenon DEF Quiet
<1> HIDE DEF m
<1> QED  BY <1>1, <1>3, <1>5, <1>7, <1>8, <1>9, <1>10, ExponentBegins

LEMMA ExponentPower ==
    ASSUME NEW t \in Threads, IInv, Here(t), PowerHere(t), Numbers(t), S_EAT0E(t) \/ S_GETE(t)
    PROVE  PowerThere(t)
<1> DEFINE s == text[t]
<1> DEFINE q == p[t]
<1> DEFINE lp == loc[t].longpow
<1> DEFINE lp1 == loc'[t].longpow
<1>1. state[t] \in {"S_EAT0E", "S_GETE"} /\ state[t] \in Scanning
  BY DEF S_EAT0E, S_GETE, Scanning
<1>2. /\ s \in Seq(Char) /\ q \in 1..Len(s) + 1 /\ q \in Nat /\ c(t) = CharAt(s, q) /\ c(t) \in Char
  BY <1>1, ReadFacts
<1>3. Placed(s)  BY <1>1 DEF Here, Where
<1>4. PICK m \in MantissaEnds(s) :
         InExponent(s, q, m) /\ (q > ExponentStart(s, m) \/ IsDigit(c(t)))
  BY <1>1, <1>2 DEF Here, Where
<1>5. ExponentSoFar(s, q, loc[t].exp_sign, lp) /\ (state[t] = "S_EAT0E" => lp = 0)
  BY <1>1, Zenon DEF PowerHere, Power
<1>6. CharAt(s, m + 1) = Exp  BY <1>4 DEF InExponent
<1>7. m \in Nat /\ MantissaEnd(s) = m /\ q >= m + 2
  <2>1. m \in Nat  BY <1>3, MantissaChars
  <2>2. ExponentStart(s, m) \in Nat /\ ExponentStart(s, m) \in {m + 2, m + 3}
    BY <1>3, <1>6, ExponentEnds
  <2>3. q >= ExponentStart(s, m)  BY <1>4 DEF InExponent
  <2>4. q >= m + 2  BY <1>2, <2>1, <2>2, <2>3
  <2> QED  BY <1>3, <1>6, <2>1, <2>4, LetterEnds
<1> DEFINE v0 == Spelled(s, m + 2, q - 1)
<1> DEFINE v1 == Spelled(s, m + 2, q)
<1>8. v0 \in Nat /\ (IsDigit(c(t)) => v1 = 10 * v0 + c(t))  BY <1>2, <1>3, <1>7, ExponentDigit
<1>9. loc[t].exp_sign = SignOf(CharAt(s, m + 2)) /\ (lp <= TMAX10 => lp = v0)
  BY <1>5, <1>7, Zenon DEF ExponentSoFar
<1>10. lp \in Nat /\ loc'[t].exp_sign = loc[t].exp_sign
  <2>1. UNCHANGED loc \/ \E v : loc' = [loc EXCEPT ![t].longpow = v]
    BY Zenon DEF S_EAT0E, S_GETE
  <2> QED  BY <2>1 DEF Numbers, IInv, Shape, Locals
<1>11. ASSUME ~IsDigit(c(t)), lp1 = lp, state'[t] = "S_END" PROVE PowerThere(t)
  <2>1. ExponentField(s) = SignOf(CharAt(s, m + 2)) * v0
    BY <1>2, <1>3, <1>4, <1>11, ExponentRead
  <2>2. WholeExponent(s, loc'[t].exp_sign, loc'[t].longpow)
    BY <1>9, <1>10, <1>11, <2>1, SignValue, Zenon DEF WholeExponent
  <2> QED  BY <1>11, <2>2, PowerTo
<1>12. ASSUME IsDigit(c(t)), lp1 <= TMAX10 => lp1 = v1, state'[t] = "S_EAT0E" => lp1 = 0,
              state'[t] \in {"S_EAT0E", "S_GETE"}, p'[t] = q + 1
       PROVE  PowerThere(t)
  <2>1. (q + 1) - 1 = q  BY <1>2
  <2>2. ExponentSoFar(s, p'[t], loc'[t].exp_sign, loc'[t].longpow)
    BY <1>7, <1>9, <1>10, <1>12, <2>1, Zenon DEF ExponentSoFar
  <2> QED  BY <1>12, <2>2, PowerTo
<1>13. ASSUME lp1 = lp, state'[t] = "S_GETE", p'[t] = q PROVE PowerThere(t)
  <2>1. ExponentSoFar(s, p'[t], loc'[t].exp_sign, loc'[t].longpow)
    BY <1>5, <1>10, <1>13, Zenon
  <2> QED  BY <1>13, <2>1, PowerTo
<1>14. CASE S_EAT0E(t)
  <2>1. lp1 = lp /\ lp = 0  BY <1>5, <1>14 DEF S_EAT0E
  <2>2. \/ c(t) = 0 /\ state'[t] = "S_EAT0E" /\ p'[t] = q + 1
        \/ state'[t] = "S_GETE" /\ p'[t] = q
        \/ ~IsDigit(c(t)) /\ state'[t] = "S_END"
    BY <1>14, TakeEffect DEF S_EAT0E
  <2>3. c(t) = 0 => IsDigit(c(t)) /\ lp1 = v1
    <3>1. 0 <= TMAX10  OBVIOUS
    <3>2. lp = v0  BY <1>9, <2>1, <3>1
    <3> QED  BY <1>8, <2>1, <3>2, Kinds
  <2> QED  BY <1>11, <1>12, <1>13, <2>1, <2>2, <2>3
<1>15. CASE S_GETE(t)
  <2>1. \/ /\ IsDigit(c(t)) /\ state'[t] = "S_GETE" /\ p'[t] = q + 1
           /\ LET n == 10 * loc[t].longpow + c(t) IN
              loc' = [loc EXCEPT ![t].longpow = IF n > TMAX10 \/ @ > TMAX10 THEN TMAX10 + 1 ELSE n]
        \/ ~IsDigit(c(t)) /\ state'[t] = "S_END" /\ UNCHANGED loc
    BY <1>15, TakeEffect DEF S_GETE
  <2>2. CASE ~IsDigit(c(t)) /\ state'[t] = "S_END" /\ UNCHANGED loc  BY <1>11, <2>2
  <2>3. CASE /\ IsDigit(c(t)) /\ state'[t] = "S_GETE" /\ p'[t] = q + 1
             /\ LET n == 10 * loc[t].longpow + c(t) IN
                loc' = [loc EXCEPT ![t].longpow = IF n > TMAX10 \/ @ > TMAX10 THEN TMAX10 + 1 ELSE n]
    <3> DEFINE n == 10 * lp + c(t)
    <3>1. lp1 = IF n > TMAX10 \/ lp > TMAX10 THEN TMAX10 + 1 ELSE n
      BY <2>3 DEF IInv, Shape, Locals
    <3>2. c(t) \in Nat  BY <2>3, Kinds
    <3>3. v1 = 10 * v0 + c(t)  BY <1>8, <2>3
    <3> HIDE DEF lp, lp1, v0, v1
    <3>4. lp1 <= TMAX10 => lp1 = v1  BY <1>8, <1>9, <1>10, <3>1, <3>2, <3>3
    <3> QED  BY <1>12, <2>3, <3>4
  <2> QED  BY <2>1, <2>2, <2>3
<1> QED  BY <1>14, <1>15

LEMMA ScanPower ==
    ASSUME NEW t \in Threads, IInv, Here(t), PowerHere(t), Numbers(t), Scan(t) \/ Call(t)
    PROVE  PowerThere(t)
BY MantissaPower, LetterPower, SignPower, ExponentPower DEF Scan

-----------------------------------------------------------------------------
(* The result, state by state                                               *)

Reads == {"strip", "digits", "pow"}
Given == {"multiply", "convert"}
Returning == {"flags", "nbytes", "dval", "return", "done"}
BeforeReading == {"idle"} \cup Scanning \cup {"S_END", "round", "roundup", "strip"}

\* What DigitsAreTheNumber says of the numbers given to the arithmetic.
Answer(s, pow, man) ==
    LET scale == pow - ValueExponent(s)
        dropped == SignificantDigits(s) - LD_MAX_MAN_LEN
        error == Abs(man * Ten[scale] - ValueDigits(s))
    IN  /\ scale >= 0
        /\ IF dropped <= 0 THEN error = 0 ELSE error <= Ten[dropped]

Result(st, s, n, b, l) ==
    /\ st \in BeforeReading => l.nread = 0 /\ l.man = 0
    /\ st \in Counted => Known(s)
    /\ st = "roundup" =>
          /\ Cut(s, MantissaEnd(s), l.exp_adj, b) /\ l.byte = b[LD_MAX_MAN_LEN - 1]
          /\ n = LD_MAX_MAN_LEN
    /\ st \in Reads => Reading(s, MantissaEnd(s), n, l.exp_adj, b, l.nread, l.man)
    /\ st = "pow" => l.nread = n
    /\ st \in Given /\ l.nread > 0 /\ l.longpow <= TMAX10 => Answer(s, l.pow, l.man)

ResultHere(t) == Result(state[t], text[t], manlen[t], buf, loc[t])
ResultThere(t) == Result(state'[t], text[t], manlen'[t], buf', loc'[t])

LEMMA ResultTo ==
    ASSUME NEW t
    PROVE  /\ /\ state'[t] \in {"idle", "S_END"} \cup Scanning
              /\ loc'[t].nread = 0 /\ loc'[t].man = 0
              => ResultThere(t)
           /\ /\ state'[t] = "round" /\ Known(text[t]) /\ loc'[t].nread = 0 /\ loc'[t].man = 0
              => ResultThere(t)
           /\ /\ state'[t] = "roundup" /\ Known(text[t]) /\ loc'[t].nread = 0 /\ loc'[t].man = 0
              /\ Cut(text[t], MantissaEnd(text[t]), loc'[t].exp_adj, buf')
              /\ loc'[t].byte = buf'[LD_MAX_MAN_LEN - 1] /\ manlen'[t] = LD_MAX_MAN_LEN
              => ResultThere(t)
           /\ /\ state'[t] \in Reads /\ Known(text[t])
              /\ Reading(text[t], MantissaEnd(text[t]), manlen'[t], loc'[t].exp_adj, buf',
                         loc'[t].nread, loc'[t].man)
              /\ state'[t] = "strip" => loc'[t].nread = 0 /\ loc'[t].man = 0
              /\ state'[t] = "pow" => loc'[t].nread = manlen'[t]
              => ResultThere(t)
           /\ /\ state'[t] \in Given
              /\ loc'[t].nread > 0 /\ loc'[t].longpow <= TMAX10 =>
                    Answer(text[t], loc'[t].pow, loc'[t].man)
              => ResultThere(t)
           /\ state'[t] \in Returning => ResultThere(t)
<1> USE DEF BeforeReading, Counted, Reads, Given, Returning, Scanning
<1>1. ASSUME state'[t] \in {"idle", "S_END"} \cup Scanning, loc'[t].nread = 0, loc'[t].man = 0
      PROVE  ResultThere(t)
  <2>1. /\ state'[t] \notin Counted /\ state'[t] # "roundup" /\ state'[t] \notin Reads
        /\ state'[t] # "pow" /\ state'[t] \notin Given
    BY <1>1
  <2> HIDE DEF BeforeReading, Counted, Reads, Given, Returning, Scanning
  <2> QED  BY <1>1, <2>1, Zenon DEF ResultThere, Result
<1>2. ASSUME state'[t] = "round", Known(text[t]), loc'[t].nread = 0, loc'[t].man = 0
      PROVE  ResultThere(t)
  <2>1. /\ state'[t] # "roundup" /\ state'[t] \notin Reads
        /\ state'[t] # "pow" /\ state'[t] \notin Given
    BY <1>2
  <2> HIDE DEF BeforeReading, Counted, Reads, Given, Returning, Scanning
  <2> QED  BY <1>2, <2>1, Zenon DEF ResultThere, Result
<1>3. ASSUME state'[t] = "roundup", Known(text[t]), loc'[t].nread = 0, loc'[t].man = 0,
             Cut(text[t], MantissaEnd(text[t]), loc'[t].exp_adj, buf'),
             loc'[t].byte = buf'[LD_MAX_MAN_LEN - 1], manlen'[t] = LD_MAX_MAN_LEN
      PROVE  ResultThere(t)
  <2>1. state'[t] \notin Reads /\ state'[t] # "pow" /\ state'[t] \notin Given  BY <1>3
  <2> HIDE DEF BeforeReading, Counted, Reads, Given, Returning, Scanning
  <2> QED  BY <1>3, <2>1, Zenon DEF ResultThere, Result
<1>4. ASSUME state'[t] \in Reads, Known(text[t]),
             Reading(text[t], MantissaEnd(text[t]), manlen'[t], loc'[t].exp_adj, buf',
                     loc'[t].nread, loc'[t].man),
             state'[t] = "strip" => loc'[t].nread = 0 /\ loc'[t].man = 0,
             state'[t] = "pow" => loc'[t].nread = manlen'[t]
      PROVE  ResultThere(t)
  <2>1. /\ state'[t] # "roundup" /\ state'[t] \notin Given
        /\ state'[t] \in BeforeReading => state'[t] = "strip"
    BY <1>4
  <2> HIDE DEF BeforeReading, Counted, Reads, Given, Returning, Scanning
  <2> QED  BY <1>4, <2>1, Zenon DEF ResultThere, Result
<1>5. ASSUME state'[t] \in Given,
             loc'[t].nread > 0 /\ loc'[t].longpow <= TMAX10 =>
                Answer(text[t], loc'[t].pow, loc'[t].man)
      PROVE  ResultThere(t)
  <2>1. /\ state'[t] \notin BeforeReading /\ state'[t] \notin Counted /\ state'[t] # "roundup"
        /\ state'[t] \notin Reads /\ state'[t] # "pow"
    BY <1>5
  <2> HIDE DEF BeforeReading, Counted, Reads, Given, Returning, Scanning
  <2> QED  BY <1>5, <2>1, Zenon DEF ResultThere, Result
<1>6. ASSUME state'[t] \in Returning PROVE ResultThere(t)
  <2>1. /\ state'[t] \notin BeforeReading /\ state'[t] \notin Counted /\ state'[t] # "roundup"
        /\ state'[t] \notin Reads /\ state'[t] # "pow" /\ state'[t] \notin Given
    BY <1>6
  <2> HIDE DEF BeforeReading, Counted, Reads, Given, Returning, Scanning
  <2> QED  BY <2>1, Zenon DEF ResultThere, Result
<1> HIDE DEF BeforeReading, Counted, Reads, Given, Returning, Scanning
<1> QED  BY <1>1, <1>2, <1>3, <1>4, <1>5, <1>6, Zenon

\* All digits and the exponent make the number.
LEMMA AnswerFound ==
    ASSUME NEW s, Known(s), NEW n, NEW adj, NEW b, NEW man, NEW sign, NEW lp \in Nat,
           Reading(s, MantissaEnd(s), n, adj, b, n, man), WholeExponent(s, sign, lp), lp <= TMAX10
    PROVE  Answer(s, sign * lp + adj, man)
<1> DEFINE m == MantissaEnd(s)
<1> DEFINE g == Sig(s, m)
<1> DEFINE f == Frac(s, m)
<1> DEFINE v == Val(s, m)
<1> DEFINE e == ExponentField(s)
<1> DEFINE k == LD_MAX_MAN_LEN
<1>1. g \in Nat /\ v \in Nat /\ f \in Nat  BY KnownTypes
<1>2. Close(s, m, man, n) /\ adj = g - n - f /\ n \in 0..k  BY ReadsAll
<1>3. sign * lp = e /\ e \in Int
  <2>1. sign * lp = e /\ (sign = 1 \/ sign = -1)  BY DEF WholeExponent
  <2>2. \A x \in Nat : 1 * x \in Int /\ -1 * x \in Int  OBVIOUS
  <2>3. sign * lp \in Int  BY <2>1, <2>2
  <2> QED  BY <2>1, <2>3, Zenon
<1>4. ValueDigits(s) = v /\ FractionDigits(s) = f /\ SignificantDigits(s) = g  BY WholeMantissa
<1>5. ValueExponent(s) = e - f  BY <1>4, Zenon DEF ValueExponent
<1> DEFINE left == g - n
<1> DEFINE dropped == g - k
<1> DEFINE error == man * Ten[left] - v
<1>6. left \in Nat /\ IF dropped <= 0 THEN error = 0 ELSE error \in -Ten[dropped]..Ten[dropped]
  BY <1>2, Zenon DEF Close
<1>7. k \in Nat  BY DigitsAssumption
<1> HIDE DEF m, g, f, v, e, k
<1>8. (sign * lp + adj) - (e - f) = left /\ left >= 0
  <2>1. (e + adj) - (e - f) = left
    BY <1>1, <1>2, <1>3
  <2> QED  BY <1>3, <1>6, <2>1
<1>9. IF dropped <= 0 THEN Abs(error) = 0 ELSE Abs(error) <= Ten[dropped]
  <2> HIDE DEF error
  <2>1. CASE dropped <= 0  BY <1>6, <2>1 DEF Abs
  <2>2. CASE ~(dropped <= 0)
    <3>1. dropped \in Nat  BY <1>1, <1>7, <2>2
    <3> HIDE DEF dropped
    <3> DEFINE u == Ten[dropped]
    <3>2. u \in Nat /\ error \in -u..u  BY <1>6, <2>2, <3>1, TenPowers
    <3> HIDE DEF u
    <3>3. Abs(error) <= u  BY <3>2 DEF Abs
    <3> QED  BY <2>2, <3>3 DEF u
  <2> QED  BY <2>1, <2>2
<1> HIDE DEF left, dropped, error
<1>10. (sign * lp + adj) - ValueExponent(s) = left  BY <1>5, <1>8, Zenon
<1>11. SignificantDigits(s) - LD_MAX_MAN_LEN = dropped  BY <1>4, Zenon DEF dropped, k
<1>12. man * Ten[left] - ValueDigits(s) = error  BY <1>4, Zenon DEF error
<1> QED  BY <1>8, <1>9, <1>10, <1>11, <1>12, Zenon DEF Answer

LEMMA ScanResult ==
    ASSUME NEW t \in Threads, IInv, ResultHere(t), Scan(t) \/ Call(t)
    PROVE  ResultThere(t)
<1>1. state[t] \in BeforeReading
  BY DEF Scan, White, S_INIT, S_SIGNM, S_POINT, S_EAT0L, S_GETL, S_GETR, S_E, S_SIGNE, S_EAT0E, S_GETE,
     Call, BeforeReading, Scanning
<1>2. loc[t].nread = 0 /\ loc[t].man = 0  BY <1>1, Zenon DEF ResultHere, Result
<1>3. loc'[t].nread = loc[t].nread /\ loc'[t].man = loc[t].man
  <2>1. \/ UNCHANGED loc
        \/ \E v : loc' = [loc EXCEPT ![t].man_sign = v]
        \/ \E v : loc' = [loc EXCEPT ![t].found_digit = v]
        \/ \E v : loc' = [loc EXCEPT ![t].savedp = v]
        \/ \E v, w : loc' = [loc EXCEPT ![t].savedp = v, ![t].exp_sign = w]
        \/ \E v : loc' = [loc EXCEPT ![t].longpow = v]
        \/ loc' = [loc EXCEPT ![t].found_digit = TRUE, ![t].exp_adj = @ - 1]
        \/ \E a, b : StoreDigit(t, a, b)
    <3>1. CASE S_GETE(t)  BY <3>1, Zenon DEF S_GETE
    <3>2. CASE S_E(t)  BY <3>2, Zenon DEF S_E
    <3>3. CASE S_GETR(t)  BY <3>3, Zenon DEF S_GETR
    <3>4. CASE S_GETL(t)  BY <3>4, Zenon DEF S_GETL
    <3>5. CASE White(t) \/ S_INIT(t) \/ S_SIGNM(t) \/ S_POINT(t) \/ S_EAT0L(t) \/ S_SIGNE(t)
               \/ S_EAT0E(t) \/ Call(t)
      BY <3>5, Zenon DEF White, S_INIT, S_SIGNM, S_POINT, S_EAT0L, S_SIGNE, S_EAT0E, Call
    <3> QED  BY <3>1, <3>2, <3>3, <3>4, <3>5 DEF Scan
  <2>2. CASE \/ \E v, w : loc' = [loc EXCEPT ![t].savedp = v, ![t].exp_sign = w]
             \/ \E v : loc' = [loc EXCEPT ![t].longpow = v]
             \/ loc' = [loc EXCEPT ![t].found_digit = TRUE, ![t].exp_adj = @ - 1]
    <3>1. DOMAIN loc = Threads /\ DOMAIN loc[t] = DOMAIN Locals  BY DEF IInv, Shape
    <3>2. CASE \E v, w : loc' = [loc EXCEPT ![t].savedp = v, ![t].exp_sign = w]
      BY <3>1, <3>2 DEF Locals
    <3>3. CASE \E v : loc' = [loc EXCEPT ![t].longpow = v]  BY <3>1, <3>3 DEF Locals
    <3>4. CASE loc' = [loc EXCEPT ![t].found_digit = TRUE, ![t].exp_adj = @ - 1]
      BY <3>1, <3>4 DEF Locals
    <3> QED  BY <2>2, <3>2, <3>3, <3>4
  <2>3. CASE \/ UNCHANGED loc
             \/ \E v : loc' = [loc EXCEPT ![t].man_sign = v]
             \/ \E v : loc' = [loc EXCEPT ![t].found_digit = v]
             \/ \E v : loc' = [loc EXCEPT ![t].savedp = v]
    BY <2>3, LocQuiet, Zenon DEF Quiet
  <2>4. CASE \E a, b : StoreDigit(t, a, b)  BY <2>4, StoreEffect, Zenon
  <2> QED  BY <2>1, <2>2, <2>3, <2>4, Zenon
<1>4. state'[t] \in {"S_END"} \cup Scanning
  <2> USE DEF Scanning
  <2>1. CASE White(t) \/ S_INIT(t) \/ S_SIGNM(t) \/ S_POINT(t) \/ Call(t)
    BY <2>1, TakeEffect, GotoEffect DEF White, S_INIT, S_SIGNM, S_POINT, Call
  <2>2. CASE S_EAT0L(t) \/ S_GETL(t) \/ S_GETR(t)
    BY <2>2, TakeEffect, GotoEffect DEF S_EAT0L, S_GETL, S_GETR
  <2>3. CASE S_E(t) \/ S_SIGNE(t) \/ S_EAT0E(t) \/ S_GETE(t)
    BY <2>3, TakeEffect, GotoEffect DEF S_E, S_SIGNE, S_EAT0E, S_GETE
  <2> QED  BY <2>1, <2>2, <2>3 DEF Scan
<1> QED  BY <1>2, <1>3, <1>4, ResultTo

-----------------------------------------------------------------------------
(* The steps behind the scan                                                *)

\* Where a number was found, its digits and its exponent are known.
LEMMA EndFound ==
    ASSUME NEW t, Here(t), state[t] = "S_END", loc[t].found_digit
    PROVE  IsNumber(text[t])
BY DEF Here, Where, Computing, Ended

\* The exponent is not touched any more.
LEMMA ExponentKept ==
    ASSUME NEW t \in Threads, IInv, Compute(t)
    PROVE  loc'[t].exp_sign = loc[t].exp_sign /\ loc'[t].longpow = loc[t].longpow
<1> DEFINE Kept == loc'[t].exp_sign = loc[t].exp_sign /\ loc'[t].longpow = loc[t].longpow
<1>1. DOMAIN loc = Threads /\ DOMAIN loc[t] = DOMAIN Locals  BY DEF IInv, Shape
<1>2. UNCHANGED loc => Kept  OBVIOUS
<1>3. CASE RoundUp(t) \/ StoreFlags(t) \/ StoreNbytes(t) \/ StoreDval(t) \/ ReadResult(t)
  BY <1>3, Zenon DEF RoundUp, StoreFlags, StoreNbytes, StoreDval, ReadResult
<1>4. CASE S_END(t)
  <2>1. UNCHANGED loc \/ loc' = [loc EXCEPT ![t].flags = {"NODIGITS"}]  BY <1>4, Zenon DEF S_END
  <2> QED  BY <1>1, <2>1 DEF Locals
<1>5. CASE Round(t)
  <2>1. loc' = [loc EXCEPT ![t].exp_adj = @ + 1, ![t].byte = buf[LD_MAX_MAN_LEN - 1]]
    BY <1>5, Zenon DEF Round
  <2> QED  BY <1>1, <2>1 DEF Locals
<1>6. CASE Strip(t)
  <2>1. UNCHANGED loc \/ loc' = [loc EXCEPT ![t].exp_adj = @ + 1]  BY <1>6, Zenon DEF Strip
  <2> QED  BY <1>1, <2>1 DEF Locals
<1>7. CASE ReadDigit(t)
  <2>1. UNCHANGED loc \/ \E v, w : loc' = [loc EXCEPT ![t].man = v, ![t].nread = w]
    BY <1>7, Zenon DEF ReadDigit
  <2>2. CASE UNCHANGED loc  BY <2>2
  <2>3. CASE \E v, w : loc' = [loc EXCEPT ![t].man = v, ![t].nread = w]
    BY <1>1, <2>3 DEF Locals
  <2> QED  BY <2>1, <2>2, <2>3, Zenon
<1>8. CASE Pow(t)
  <2> DEFINE pow == loc[t].exp_sign * loc[t].longpow + loc[t].exp_adj
  <2> DEFINE Set(v, x, y) ==
         loc' = [loc EXCEPT ![t].ld12 = v, ![t].pow = pow, ![t].mulpow = x, ![t].flags = y]
  <2>1. \/ Set(Inf12(0), 0, {"OVERFLOW"})
        \/ Set(Zero12, 0, {"UNDERFLOW"})
        \/ Set(mtold12(loc[t].man), 0, {})
        \/ Set(DropXT(mtold12(loc[t].man)), pow, {})
    BY <1>8, Zenon DEF Pow
  <2> HIDE DEF pow
  <2>2. ASSUME NEW v, NEW x, NEW y, Set(v, x, y) PROVE Kept  BY <1>1, <2>2 DEF Locals
  <2> HIDE DEF Set
  <2> QED  BY <2>1, <2>2
<1>9. CASE Multiply(t)
  <2> DEFINE v0 == IF last3(t) = 0 THEN loc[t].ld12
                   ELSE Once(LAMBDA f : ld12mul(loc[t].ld12, f), factor(t))
  <2> DEFINE w0 == Signed(t, Signed(t, loc[t].mulpow) \div 8)
  <2> DEFINE x0 == 8 * loc[t].group
  <2>1. UNCHANGED loc \/ loc' = [loc EXCEPT ![t].ld12 = v0, ![t].mulpow = w0, ![t].group = x0]
    BY <1>9, Zenon DEF Multiply
  <2> HIDE DEF v0, w0, x0
  <2> QED  BY <1>1, <2>1 DEF Locals
<1>10. CASE Convert(t)
  <2>1. \E v, w : loc' = [loc EXCEPT ![t].x = v, ![t].flags = w]  BY <1>10, Zenon DEF Convert
  <2> QED  BY <1>1, <2>1 DEF Locals
<1> QED  BY <1>3, <1>4, <1>5, <1>6, <1>7, <1>8, <1>9, <1>10, Zenon DEF Compute

LEMMA ComputePower ==
    ASSUME NEW t \in Threads, IInv, Here(t), PowerHere(t), Compute(t)
    PROVE  PowerThere(t)
<1>1. /\ state'[t] \in Computing \cup {"done"} /\ state'[t] # "S_END"
      /\ state'[t] \in Counted => state[t] \in Counted \/ (state[t] = "S_END" /\ loc[t].found_digit)
  <2> USE DEF IInv, Shape, To, Computing, Counted
  <2>1. CASE S_END(t)  BY <2>1 DEF S_END
  <2>2. CASE Round(t) \/ RoundUp(t)  BY <2>2 DEF Round, RoundUp
  <2>3. CASE Strip(t) \/ ReadDigit(t)  BY <2>3 DEF Strip, ReadDigit
  <2>4. CASE Pow(t)
    <3>1. state'[t] \in {"convert", "multiply"}  BY <2>4 DEF Pow
    <3> QED  BY <3>1
  <2>5. CASE Multiply(t)
    <3>1. state[t] = "multiply" /\ (state'[t] = "convert" \/ state' = state)
      BY <2>5 DEF Multiply
    <3> QED  BY <3>1
  <2>6. CASE Convert(t) \/ StoreFlags(t) \/ StoreNbytes(t) \/ StoreDval(t) \/ ReadResult(t)
    BY <2>6 DEF Convert, StoreFlags, StoreNbytes, StoreDval, ReadResult
  <2> QED  BY <2>1, <2>2, <2>3, <2>4, <2>5, <2>6 DEF Compute
<1>2. loc'[t].exp_sign = loc[t].exp_sign /\ loc'[t].longpow = loc[t].longpow  BY ExponentKept
<1>3. CASE state'[t] \in Counted
  <2>1. state[t] \in Counted \/ (state[t] = "S_END" /\ IsNumber(text[t]))  BY <1>1, <1>3, EndFound
  <2>2. WholeExponent(text[t], loc[t].exp_sign, loc[t].longpow)  BY <2>1, Zenon DEF PowerHere, Power
  <2>3. WholeExponent(text[t], loc'[t].exp_sign, loc'[t].longpow)  BY <1>2, <2>2, Zenon
  <2> QED  BY <1>3, <2>3, PowerTo
<1>4. CASE state'[t] \notin Counted
  <2>1. state'[t] \in (Computing \cup {"done"}) \ (Counted \cup {"S_END"})  BY <1>1, <1>4
  <2> QED  BY <2>1, PowerTo
<1> QED  BY <1>3, <1>4

LEMMA ComputeDigits ==
    ASSUME NEW t \in Threads, IInv, Here(t), DigitsHere(t), Compute(t)
    PROVE  DigitsThere(t)
<1>1. state'[t] \in (Computing \cup {"done"}) \ {"S_END"} /\ (state'[t] = "round" => S_END(t))
  <2> USE DEF IInv, Shape, To, Computing
  <2>1. CASE S_END(t)  BY <2>1 DEF S_END
  <2>2. CASE Round(t) \/ RoundUp(t)  BY <2>2 DEF Round, RoundUp
  <2>3. CASE Strip(t) \/ ReadDigit(t)  BY <2>3 DEF Strip, ReadDigit
  <2>4. CASE Pow(t)
    <3>1. state'[t] \in {"convert", "multiply"}  BY <2>4 DEF Pow
    <3> QED  BY <3>1
  <2>5. CASE Multiply(t)
    <3>1. state[t] = "multiply" /\ (state'[t] = "convert" \/ state' = state)
      BY <2>5 DEF Multiply
    <3> QED  BY <3>1
  <2>6. CASE Convert(t) \/ StoreFlags(t) \/ StoreNbytes(t) \/ StoreDval(t) \/ ReadResult(t)
    BY <2>6 DEF Convert, StoreFlags, StoreNbytes, StoreDval, ReadResult
  <2> QED  BY <2>1, <2>2, <2>3, <2>4, <2>5, <2>6 DEF Compute
<1>2. CASE state'[t] # "round"
  <2>1. state'[t] \in (Computing \cup {"done"}) \ {"S_END", "round"}  BY <1>1, <1>2
  <2> QED  BY <2>1, LeadsTo
<1>3. CASE state'[t] = "round" /\ S_END(t)
  <2>1. /\ state[t] = "S_END" /\ loc[t].found_digit /\ manlen[t] > LD_MAX_MAN_LEN
        /\ loc' = loc /\ manlen' = manlen /\ buf' = buf
    BY <1>3 DEF S_END, To, IInv, Shape
  <2>2. IsNumber(text[t])  BY <2>1, EndFound
  <2>3. Known(text[t]) /\ Part(text[t], MantissaEnd(text[t]), manlen[t], loc[t].exp_adj, buf)
    BY <2>1, <2>2, Zenon DEF DigitsHere, Digits
  <2>4. manlen'[t] = LD_MAX_MAN_LEN + 1  BY <2>1 DEF IInv, ThreadInv, ThreadType
  <2>5. /\ state'[t] \notin Early /\ state'[t] \notin Zeros /\ state'[t] \notin MantissaStates
    BY <1>3 DEF Early, Zeros, MantissaStates
  <2>6. Part(text[t], MantissaEnd(text[t]), manlen'[t], loc'[t].exp_adj, buf')
    BY <2>1, <2>3, Zenon
  <2> QED  BY <2>3, <2>4, <2>5, <2>6, Zenon DEF DigitsThere, Digits
<1> QED  BY <1>1, <1>2, <1>3

LEMMA EndResult ==
    ASSUME NEW t \in Threads, IInv, Here(t), DigitsHere(t), ResultHere(t), S_END(t)
    PROVE  ResultThere(t)
<1> DEFINE s == text[t]
<1>1. state[t] = "S_END" /\ manlen' = manlen /\ buf' = buf  BY DEF S_END
<1>2. loc[t].nread = 0 /\ loc[t].man = 0
  BY <1>1, Zenon DEF ResultHere, Result, BeforeReading
<1>3. CASE ~loc[t].found_digit
  <2>1. state'[t] = "flags"  BY <1>3 DEF S_END, To, IInv, Shape
  <2> QED  BY <2>1, ResultTo DEF Returning
<1>4. CASE loc[t].found_digit
  <2>1. IsNumber(s)  BY <1>1, <1>4, EndFound
  <2>2. Known(s) /\ Part(s, MantissaEnd(s), manlen[t], loc[t].exp_adj, buf)
    BY <1>1, <2>1, Zenon DEF DigitsHere, Digits
  <2>3. loc' = loc  BY <1>4 DEF S_END
  <2>4. \/ state'[t] = "round"
        \/ state'[t] = "strip" /\ manlen[t] \in 1..LD_MAX_MAN_LEN
        \/ state'[t] = "convert"
    BY <1>4 DEF S_END, To, IInv, Shape
  <2>5. CASE state'[t] = "round"  BY <1>2, <2>2, <2>3, <2>5, ResultTo
  <2>6. CASE state'[t] = "strip" /\ manlen[t] \in 1..LD_MAX_MAN_LEN
    <3> DEFINE m == MantissaEnd(s)
    <3> DEFINE n == manlen[t]
    <3> DEFINE adj == loc[t].exp_adj
    <3>1. Sig(s, m) \in Nat /\ Val(s, m) \in Nat  BY <2>2, KnownTypes
    <3>2. Part(s, m, n, adj, buf) /\ n \in 1..LD_MAX_MAN_LEN  BY <2>2, <2>6
    <3> HIDE DEF s, m, n, adj
    <3>3. Reading(s, m, n, adj, buf, 0, 0)  BY <3>1, <3>2, StripsAll
    <3> USE DEF s, m, n, adj
    <3>4. Reading(text[t], MantissaEnd(text[t]), manlen'[t], loc'[t].exp_adj, buf',
                  loc'[t].nread, loc'[t].man)
      BY <1>1, <1>2, <2>3, <3>3, Zenon
    <3>5. state'[t] \in Reads /\ state'[t] # "pow" /\ Known(text[t])  BY <2>2, <2>6 DEF Reads
    <3> QED  BY <1>2, <2>3, <3>4, <3>5, ResultTo
  <2>7. CASE state'[t] = "convert"
    <3>1. ~(loc'[t].nread > 0)  BY <1>2, <2>3
    <3> QED  BY <2>7, <3>1, ResultTo DEF Given
  <2> QED  BY <2>4, <2>5, <2>6, <2>7
<1> QED  BY <1>3, <1>4

LEMMA RoundResult ==
    ASSUME NEW t \in Threads, IInv, DigitsHere(t), ResultHere(t), Numbers(t), Round(t)
    PROVE  ResultThere(t)
<1> DEFINE s == text[t]
<1> DEFINE m == MantissaEnd(s)
<1> DEFINE k == LD_MAX_MAN_LEN
<1> DEFINE adj == loc[t].exp_adj
<1>1. /\ state[t] = "round" /\ manlen'[t] = k /\ buf' = buf /\ state'[t] \in {"roundup", "strip"}
  BY DEF Round, To, IInv, Shape
<1>2. /\ loc'[t].exp_adj = adj + 1 /\ loc'[t].byte = buf[k - 1] /\ loc'[t].nread = loc[t].nread
      /\ loc'[t].man = loc[t].man
  <2>1. loc' = [loc EXCEPT ![t].exp_adj = @ + 1, ![t].byte = buf[LD_MAX_MAN_LEN - 1]]
    BY Zenon DEF Round
  <2> QED  BY <2>1 DEF IInv, Shape, Locals
<1>3. loc[t].nread = 0 /\ loc[t].man = 0
  BY <1>1, Zenon DEF ResultHere, Result, BeforeReading
<1>4. Known(s) /\ Part(s, m, k + 1, adj, buf)
  BY <1>1, Zenon DEF DigitsHere, Digits
<1>5. Sig(s, m) \in Nat /\ Val(s, m) \in Nat /\ Frac(s, m) \in Nat  BY <1>4, KnownTypes
<1>6. adj \in Int  BY DEF Numbers
<1>7. Cut(s, m, adj + 1, buf)
  <2> HIDE DEF s, m, adj
  <2> QED  BY <1>4, <1>5, <1>6, PartCut
<1>8. CASE state'[t] = "roundup"
  <2>1. Cut(s, m, loc'[t].exp_adj, buf')  BY <1>1, <1>2, <1>7, Zenon
  <2>2. loc'[t].byte = buf'[k - 1]  BY <1>1, <1>2, Zenon
  <2> QED  BY <1>1, <1>2, <1>3, <1>4, <1>8, <2>1, <2>2, ResultTo
<1>9. CASE state'[t] = "strip"
  <2>1. Reading(s, m, k, adj + 1, buf, 0, 0)
    <3> HIDE DEF s, m, adj
    <3> QED  BY <1>5, <1>7, StripsCut
  <2>2. Reading(s, m, manlen'[t], loc'[t].exp_adj, buf', loc'[t].nread, loc'[t].man)
    BY <1>1, <1>2, <1>3, <2>1, Zenon
  <2>3. state'[t] \in Reads /\ state'[t] # "pow"  BY <1>9 DEF Reads
  <2> QED  BY <1>2, <1>3, <1>4, <2>2, <2>3, ResultTo
<1> QED  BY <1>1, <1>8, <1>9

LEMMA RoundUpResult ==
    ASSUME NEW t \in Threads, IInv, ResultHere(t), RoundUp(t)
    PROVE  ResultThere(t)
<1> DEFINE s == text[t]
<1> DEFINE m == MantissaEnd(s)
<1> DEFINE k == LD_MAX_MAN_LEN
<1> DEFINE adj == loc[t].exp_adj
<1>1. state[t] = "roundup" /\ state'[t] = "strip" /\ manlen' = manlen /\ loc' = loc
  BY DEF RoundUp, To, IInv, Shape
<1>2. loc[t].nread = 0 /\ loc[t].man = 0
  BY <1>1, Zenon DEF ResultHere, Result, BeforeReading
<1>3. Known(s) /\ Cut(s, m, adj, buf) /\ loc[t].byte = buf[k - 1] /\ manlen[t] = k
  BY <1>1, Zenon DEF ResultHere, Result, Counted
<1>4. buf' = [buf EXCEPT ![k - 1] = buf[k - 1] + 1]
  <2>1. \E byte \in {loc[t].byte, buf[k - 1]} : buf' = [buf EXCEPT ![k - 1] = byte + 1]
    BY Zenon DEF RoundUp
  <2>2. \A byte \in {loc[t].byte, buf[k - 1]} : byte = buf[k - 1]  BY <1>3
  <2> QED  BY <2>1, <2>2
<1>5. Sig(s, m) \in Nat /\ Val(s, m) \in Nat  BY <1>3, KnownTypes
<1>6. buf \in [0..k -> Nat]  BY DEF IInv, Shape
<1>7. Reading(s, m, k, adj, [buf EXCEPT ![k - 1] = buf[k - 1] + 1], 0, 0)
  <2> HIDE DEF s, m, adj
  <2> QED  BY <1>3, <1>5, <1>6, StripsRounded
<1>8. Reading(s, m, manlen'[t], loc'[t].exp_adj, buf', loc'[t].nread, loc'[t].man)
  BY <1>1, <1>2, <1>3, <1>4, <1>7, Zenon
<1>9. state'[t] \in Reads /\ state'[t] # "pow"  BY <1>1 DEF Reads
<1> QED  BY <1>1, <1>2, <1>3, <1>8, <1>9, ResultTo

LEMMA StripResult ==
    ASSUME NEW t \in Threads, IInv, ResultHere(t), Numbers(t), Strip(t)
    PROVE  ResultThere(t)
<1> DEFINE s == text[t]
<1> DEFINE m == MantissaEnd(s)
<1> DEFINE n == manlen[t]
<1> DEFINE adj == loc[t].exp_adj
<1>1. state[t] = "strip" /\ buf' = buf  BY DEF Strip
<1>2. loc[t].nread = 0 /\ loc[t].man = 0
  BY <1>1, Zenon DEF ResultHere, Result, BeforeReading
<1>3. Known(s) /\ Reading(s, m, n, adj, buf, loc[t].nread, loc[t].man)
  BY <1>1, Zenon DEF ResultHere, Result, Counted, Reads
<1>4. Sig(s, m) \in Nat /\ Frac(s, m) \in Nat  BY <1>3, KnownTypes
<1>5. n \in Nat \ {0} /\ adj \in Int
  BY <1>1 DEF Numbers, IInv, ThreadInv, ThreadType, DigitsStored
<1>6. CASE buf[n - 1] = 0
  <2>1. /\ state' = state /\ manlen' = [manlen EXCEPT ![t] = @ - 1]
        /\ loc' = [loc EXCEPT ![t].exp_adj = @ + 1]
    BY <1>6 DEF Strip
  <2>2. manlen'[t] = n - 1 /\ loc'[t].exp_adj = adj + 1 /\ loc'[t].nread = 0 /\ loc'[t].man = 0
    BY <1>2, <2>1 DEF IInv, Shape, Locals
  <2>3. Reading(s, m, n, adj, buf, 0, 0)  BY <1>2, <1>3
  <2>4. Reading(s, m, n - 1, adj + 1, buf, 0, 0)
    <3> HIDE DEF s, m, n, adj
    <3> QED  BY <1>4, <1>5, <1>6, <2>3, StripsZero
  <2>5. Reading(s, m, manlen'[t], loc'[t].exp_adj, buf', loc'[t].nread, loc'[t].man)
    BY <1>1, <2>2, <2>4, Zenon
  <2>6. state'[t] \in Reads /\ state'[t] # "pow"  BY <1>1, <2>1 DEF Reads
  <2> QED  BY <1>3, <2>2, <2>5, <2>6, ResultTo
<1>7. CASE buf[n - 1] # 0
  <2>1. state'[t] = "digits" /\ manlen' = manlen /\ loc' = loc
    BY <1>7 DEF Strip, To, IInv, Shape
  <2>2. Reading(s, m, manlen'[t], loc'[t].exp_adj, buf', loc'[t].nread, loc'[t].man)
    BY <1>1, <1>3, <2>1, Zenon
  <2>3. state'[t] \in Reads /\ state'[t] # "pow" /\ state'[t] # "strip"  BY <2>1 DEF Reads
  <2> QED  BY <1>3, <2>2, <2>3, ResultTo
<1> QED  BY <1>6, <1>7

LEMMA DigitResult ==
    ASSUME NEW t \in Threads, IInv, ResultHere(t), Numbers(t), ReadDigit(t)
    PROVE  ResultThere(t)
<1> DEFINE s == text[t]
<1> DEFINE m == MantissaEnd(s)
<1> DEFINE n == manlen[t]
<1> DEFINE adj == loc[t].exp_adj
<1> DEFINE k == loc[t].nread
<1> DEFINE man == loc[t].man
<1>1. state[t] = "digits" /\ buf' = buf /\ manlen' = manlen  BY DEF ReadDigit
<1>2. Known(s) /\ Reading(s, m, n, adj, buf, k, man)
  BY <1>1, Zenon DEF ResultHere, Result, Counted, Reads
<1>3. n \in Nat /\ k \in Nat  BY DEF Numbers, IInv, ThreadInv, ThreadType
<1>4. CASE k < n
  <2> DEFINE man1 == AppendDigit(man, buf[k])
  <2>1. state' = state /\ loc' = [loc EXCEPT ![t].man = man1, ![t].nread = k + 1]
    <3>1. ~(k = n)  BY <1>3, <1>4
    <3> QED  BY <3>1, Zenon DEF ReadDigit
  <2>2. Reading(s, m, n, adj, buf, k + 1, man1)
    <3> HIDE DEF s, m, n, adj, k, man
    <3> QED  BY <1>2, <1>3, <1>4, ReadsDigit
  <2> HIDE DEF man1
  <2>3. loc'[t].exp_adj = adj /\ loc'[t].nread = k + 1 /\ loc'[t].man = man1
    BY <2>1 DEF IInv, Shape, Locals
  <2>4. Reading(s, m, manlen'[t], loc'[t].exp_adj, buf', loc'[t].nread, loc'[t].man)
    BY <1>1, <2>2, <2>3, Zenon
  <2>5. state'[t] \in Reads /\ state'[t] # "pow" /\ state'[t] # "strip"  BY <1>1, <2>1 DEF Reads
  <2> QED  BY <1>2, <2>4, <2>5, ResultTo
<1>5. CASE ~(k < n)
  <2>1. state'[t] = "pow" /\ k = n /\ loc' = loc  BY <1>5 DEF ReadDigit, To, IInv, Shape
  <2>2. Reading(s, m, manlen'[t], loc'[t].exp_adj, buf', loc'[t].nread, loc'[t].man)
    BY <1>1, <1>2, <2>1, Zenon
  <2>3. state'[t] \in Reads /\ state'[t] # "strip"  BY <2>1 DEF Reads
  <2> QED  BY <1>1, <1>2, <2>1, <2>2, <2>3, ResultTo
<1> QED  BY <1>4, <1>5

LEMMA PowResult ==
    ASSUME NEW t \in Threads, IInv, PowerHere(t), ResultHere(t), Numbers(t), Pow(t)
    PROVE  ResultThere(t)
<1> DEFINE s == text[t]
<1> DEFINE pow == loc[t].exp_sign * loc[t].longpow + loc[t].exp_adj
<1>1. state[t] = "pow"  BY DEF Pow
<1>2. Known(s) /\ loc[t].nread = manlen[t]
      /\ Reading(s, MantissaEnd(s), manlen[t], loc[t].exp_adj, buf, loc[t].nread, loc[t].man)
  BY <1>1, Zenon DEF ResultHere, Result, Counted, Reads
<1>3. WholeExponent(s, loc[t].exp_sign, loc[t].longpow)
  BY <1>1, Zenon DEF PowerHere, Power, Counted
<1>4. loc[t].longpow \in Nat  BY DEF Numbers
<1>5. loc[t].longpow <= TMAX10 => Answer(s, pow, loc[t].man)
  <2>1. Reading(s, MantissaEnd(s), manlen[t], loc[t].exp_adj, buf, manlen[t], loc[t].man)
    BY <1>2, Zenon
  <2> QED  BY <1>2, <1>3, <1>4, <2>1, AnswerFound
<1>6. state'[t] \in Given
  <2>1. state'[t] \in {"convert", "multiply"}
    BY <1>1 DEF Pow, To, IInv, Shape
  <2> QED  BY <2>1 DEF Given
<1>7. /\ loc'[t].pow = pow /\ loc'[t].longpow = loc[t].longpow /\ loc'[t].man = loc[t].man
  <2> DEFINE Set(v, x, y) ==
         loc' = [loc EXCEPT ![t].ld12 = v, ![t].pow = pow, ![t].mulpow = x, ![t].flags = y]
  <2>1. \/ Set(Inf12(0), 0, {"OVERFLOW"})
        \/ Set(Zero12, 0, {"UNDERFLOW"})
        \/ Set(mtold12(loc[t].man), 0, {})
        \/ Set(DropXT(mtold12(loc[t].man)), pow, {})
    BY Zenon DEF Pow
  <2> HIDE DEF pow
  <2>2. ASSUME NEW v, NEW x, NEW y, Set(v, x, y)
        PROVE  /\ loc'[t].pow = pow /\ loc'[t].longpow = loc[t].longpow
               /\ loc'[t].man = loc[t].man
    BY <2>2 DEF IInv, Shape, Locals
  <2> HIDE DEF Set
  <2> QED  BY <2>1, <2>2
<1>8. loc'[t].longpow <= TMAX10 => Answer(s, loc'[t].pow, loc'[t].man)  BY <1>5, <1>7, Zenon
<1> QED  BY <1>6, <1>8, ResultTo

LEMMA MultiplyResult ==
    ASSUME NEW t \in Threads, IInv, ResultHere(t), Multiply(t)
    PROVE  ResultThere(t)
<1>1. state[t] = "multiply" /\ state'[t] \in Given
  <2>1. state[t] = "multiply" /\ (state' = state \/ To(t, "convert"))  BY DEF Multiply
  <2> QED  BY <2>1 DEF To, IInv, Shape, Given
<1>2. loc[t].nread > 0 /\ loc[t].longpow <= TMAX10 => Answer(text[t], loc[t].pow, loc[t].man)
  BY <1>1, Zenon DEF ResultHere, Result, Given
<1>3. /\ loc'[t].pow = loc[t].pow /\ loc'[t].longpow = loc[t].longpow
      /\ loc'[t].man = loc[t].man /\ loc'[t].nread = loc[t].nread
  <2> DEFINE v0 == IF last3(t) = 0 THEN loc[t].ld12
                   ELSE Once(LAMBDA f : ld12mul(loc[t].ld12, f), factor(t))
  <2> DEFINE w0 == Signed(t, Signed(t, loc[t].mulpow) \div 8)
  <2> DEFINE x0 == 8 * loc[t].group
  <2>1. UNCHANGED loc \/ loc' = [loc EXCEPT ![t].ld12 = v0, ![t].mulpow = w0, ![t].group = x0]
    BY Zenon DEF Multiply
  <2> HIDE DEF v0, w0, x0
  <2> QED  BY <2>1 DEF IInv, Shape, Locals
<1>4. loc'[t].nread > 0 /\ loc'[t].longpow <= TMAX10 => Answer(text[t], loc'[t].pow, loc'[t].man)
  BY <1>2, <1>3, Zenon
<1> QED  BY <1>1, <1>4, ResultTo

LEMMA ComputeResult ==
    ASSUME NEW t \in Threads, IInv, Here(t), DigitsHere(t), PowerHere(t), ResultHere(t), Numbers(t),
           Compute(t)
    PROVE  ResultThere(t)
<1>1. CASE Convert(t) \/ StoreFlags(t) \/ StoreNbytes(t) \/ StoreDval(t) \/ ReadResult(t)
  <2>1. state'[t] \in Returning
    BY <1>1 DEF Convert, StoreFlags, StoreNbytes, StoreDval, ReadResult, To, IInv, Shape, Returning
  <2> QED  BY <2>1, ResultTo
<1> QED
  BY <1>1, EndResult, RoundResult, RoundUpResult, StripResult, DigitResult, PowResult, MultiplyResult
     DEF Compute

-----------------------------------------------------------------------------
(* Calls that run alone                                                     *)

OwnInv(t) == DigitsHere(t) /\ PowerHere(t) /\ ResultHere(t)
Alone == \A t, u \in Threads : t # u /\ Active(t) /\ Active(u) => t \in overlapped
AnswerInv == Alone /\ \A t \in Threads \ overlapped : OwnInv(t)

LEMMA InitAnswerInv == Init => AnswerInv
<1> SUFFICES ASSUME Init PROVE AnswerInv
  OBVIOUS
<1>1. Alone  BY DEF Init, Alone, Active, Scanning, Computing
<1>2. ASSUME NEW t \in Threads PROVE OwnInv(t)
  <2>1. state[t] = "idle" /\ manlen[t] = 0 /\ loc[t] = Locals  BY DEF Init
  <2>2. DigitsHere(t)
    <3>1. "idle" \notin Zeros /\ "idle" \notin MantissaStates /\ "idle" \notin ExponentStates \cup {"round"}
      BY DEF Zeros, MantissaStates, ExponentStates
    <3>2. Locals.exp_adj = 0  BY DEF Locals
    <3> QED  BY <2>1, <3>1, <3>2 DEF DigitsHere, Digits
  <2>3. PowerHere(t)
    <3>1. "idle" \notin Counted  BY DEF Counted
    <3>2. Locals.exp_sign = 1 /\ Locals.longpow = 0  BY DEF Locals
    <3> QED  BY <2>1, <3>1, <3>2 DEF PowerHere, Power
  <2>4. ResultHere(t)
    <3>1. "idle" \notin Counted /\ "idle" \notin Reads /\ "idle" \notin Given
      BY DEF Counted, Reads, Given
    <3>2. Locals.nread = 0 /\ Locals.man = 0  BY DEF Locals
    <3> QED  BY <2>1, <3>1, <3>2 DEF ResultHere, Result
  <2> QED  BY <2>2, <2>3, <2>4 DEF OwnInv
<1> QED  BY <1>1, <1>2 DEF AnswerInv

\* A thread that is not inside a call does not mind what others write into the buffer.
LEMMA Outside ==
    ASSUME NEW st \in {"idle", "done"}, NEW s, NEW q, NEW n, NEW l, NEW a, NEW b
    PROVE  /\ Digits(st, s, q, n, l.exp_adj, a) => Digits(st, s, q, n, l.exp_adj, b)
           /\ Result(st, s, n, a, l) => Result(st, s, n, b, l)
<1>1. /\ st \notin Zeros /\ st \notin MantissaStates /\ st \notin ExponentStates \cup {"round"}
      /\ st # "S_END" /\ st # "round"
  BY DEF Zeros, MantissaStates, ExponentStates
<1>2. st \notin Reads /\ st # "roundup" /\ st \notin Counted /\ st \notin Given
  BY DEF Reads, Counted, Given
<1>3. Digits(st, s, q, n, l.exp_adj, a) => Digits(st, s, q, n, l.exp_adj, b)
  BY <1>1, Zenon DEF Digits
<1>4. Result(st, s, n, a, l) => Result(st, s, n, b, l)  BY <1>2, Zenon DEF Result
<1> QED  BY <1>3, <1>4

\* A step of a thread: it is inside a call, and no other thread comes into one or leaves.
LEMMA StepActive ==
    ASSUME NEW t \in Threads, Step(t)
    PROVE  Active(t) /\ overlapped' = overlapped
<1>1. CASE Scan(t)
  <2>1. state[t] \in Scanning /\ overlapped' = overlapped
    BY <1>1 DEF Scan, White, S_INIT, S_EAT0L, S_SIGNM, S_GETL, S_GETR, S_POINT, S_E, S_SIGNE,
       S_EAT0E, S_GETE, Unscanned, Scanning
  <2> QED  BY <2>1 DEF Active
<1>2. CASE Compute(t)
  <2>1. state[t] \in Computing /\ overlapped' = overlapped
    BY <1>2 DEF Compute, S_END, Round, RoundUp, Strip, ReadDigit, Pow, Multiply, Convert, StoreFlags,
       StoreNbytes, StoreDval, ReadResult, Computing
  <2> QED  BY <2>1 DEF Active
<1> QED  BY <1>1, <1>2 DEF Step

\* Who runs at the same time as another is marked.
LEMMA NextAlone ==
    ASSUME NEW t \in Threads, IInv, Alone, Call(t) \/ Step(t)
    PROVE  /\ Alone' /\ overlapped \subseteq overlapped'
           /\ \A u \in Threads : u # t /\ Active(u) => u \in overlapped'
<1>1. \A u \in Threads : u # t => state'[u] = state[u]
  BY StepGood DEF Good, Others, Step
<1>2. \A u \in Threads : u # t => (Active(u)' <=> Active(u))  BY <1>1, Zenon DEF Active
<1>3. CASE Step(t)
  <2>1. Active(t) /\ overlapped' = overlapped  BY <1>3, StepActive
  <2> QED  BY <1>2, <2>1 DEF Alone
<1>4. CASE Call(t)
  <2>1. overlapped' = IF \E u \in Threads : Active(u)
                      THEN overlapped \cup {t} \cup {u \in Threads : Active(u)} ELSE overlapped
    BY <1>4 DEF Call
  <2>2. ~Active(t)  BY <1>4 DEF Call, Active, Scanning, Computing
  <2>3. \A u \in Threads : u # t /\ Active(u) => u \in overlapped' /\ t \in overlapped'
    BY <2>1
  <2>4. overlapped \subseteq overlapped'  BY <2>1
  <2>5. Alone'
    <3> SUFFICES ASSUME NEW v \in Threads, NEW u \in Threads, v # u, Active(v)', Active(u)'
                 PROVE  v \in overlapped'
      BY DEF Alone
    <3>1. CASE v = t  BY <1>2, <2>3, <3>1
    <3>2. CASE v # t  BY <1>2, <2>3, <3>2
    <3> QED  BY <3>1, <3>2
  <2> QED  BY <2>3, <2>4, <2>5
<1> QED  BY <1>3, <1>4

LEMMA NextAnswerInv == IInv /\ TypeInv /\ EndInv /\ AnswerInv /\ [Next]_vars => AnswerInv'
<1> SUFFICES ASSUME IInv, TypeInv, EndInv, AnswerInv, [Next]_vars PROVE AnswerInv'
  OBVIOUS
<1>1. CASE UNCHANGED vars
  <2>1. /\ text' = text /\ state' = state /\ p' = p /\ manlen' = manlen /\ buf' = buf
        /\ loc' = loc /\ overlapped' = overlapped
    BY <1>1 DEF vars
  <2>2. Alone'  BY <2>1, Zenon DEF AnswerInv, Alone, Active
  <2>3. ASSUME NEW t \in Threads, t \notin overlapped' PROVE OwnInv(t)'
    <3>1. OwnInv(t)  BY <2>1, <2>3 DEF AnswerInv
    <3> QED  BY <2>1, <3>1, Zenon DEF OwnInv, DigitsHere, PowerHere, ResultHere
  <2> QED  BY <2>2, <2>3 DEF AnswerInv
<1>2. ASSUME NEW t \in Threads, Call(t) \/ Step(t) PROVE AnswerInv'
  <2>1. /\ Alone' /\ overlapped \subseteq overlapped'
        /\ \A u \in Threads : u # t /\ Active(u) => u \in overlapped'
    BY <1>2, NextAlone DEF AnswerInv
  <2>2. Call(t) \/ Scan(t) \/ Compute(t)  BY <1>2 DEF Step
  <2>3. Others(t) /\ text' = text  BY <2>2, StepGood DEF Good, Others
  <2>4. ASSUME t \notin overlapped' PROVE OwnInv(t)'
    <3>1. DigitsHere(t) /\ PowerHere(t) /\ ResultHere(t)
      BY <2>1, <2>4 DEF AnswerInv, OwnInv
    <3>2. Here(t)  BY Zenon DEF EndInv, Here
    <3>3. There(t)  BY <2>2, <3>2, CallWhere, ScanWhere, ComputeWhere
    <3>4. Numbers(t)  BY DEF TypeInv
    <3>5. DigitsThere(t) /\ PowerThere(t) /\ ResultThere(t)
      <4>1. CASE Scan(t) \/ Call(t)
        BY <3>1, <3>2, <3>3, <3>4, <4>1, ScanDigits, ScanPower, ScanResult
      <4>2. CASE Compute(t)
        BY <3>1, <3>2, <3>4, <4>2, ComputeDigits, ComputePower, ComputeResult
      <4> QED  BY <2>2, <4>1, <4>2
    <3>6. DigitsHere(t)'  BY <2>3, <3>5, Zenon DEF DigitsThere, DigitsHere
    <3>7. PowerHere(t)'  BY <2>3, <3>5, Zenon DEF PowerThere, PowerHere
    <3>8. ResultHere(t)'  BY <2>3, <3>5, Zenon DEF ResultThere, ResultHere
    <3> QED  BY <3>6, <3>7, <3>8 DEF OwnInv
  <2>5. ASSUME NEW u \in Threads, u # t, u \notin overlapped' PROVE OwnInv(u)'
    <3>1. /\ state'[u] = state[u] /\ p'[u] = p[u] /\ manlen'[u] = manlen[u]
          /\ loc'[u] = loc[u] /\ text'[u] = text[u]
      BY <2>3, <2>5 DEF Others
    <3>2. OwnInv(u)  BY <2>1, <2>5 DEF AnswerInv
    <3>3. state[u] \in {"idle", "done"}
      <4>1. ~Active(u)  BY <2>1, <2>5
      <4>2. state[u] \in Place  BY DEF IInv, ThreadInv, ThreadType
      <4> QED  BY <4>1, <4>2 DEF Active, Place
    <3>4. Digits(state[u], text[u], p[u], manlen[u], loc[u].exp_adj, buf')
      BY <3>2, <3>3, Outside, Zenon DEF OwnInv, DigitsHere
    <3>5. Result(state[u], text[u], manlen[u], buf', loc[u])
      BY <3>2, <3>3, Outside, Zenon DEF OwnInv, ResultHere
    <3>6. DigitsHere(u)'  BY <3>1, <3>4, Zenon DEF DigitsHere
    <3>7. PowerHere(u)'  BY <3>1, <3>2, Zenon DEF OwnInv, PowerHere
    <3>8. ResultHere(u)'  BY <3>1, <3>5, Zenon DEF ResultHere
    <3> QED  BY <3>6, <3>7, <3>8 DEF OwnInv
  <2>6. ASSUME NEW u \in Threads, u \notin overlapped' PROVE OwnInv(u)'
    <3>1. CASE u = t  BY <2>4, <2>6, <3>1
    <3>2. CASE u # t  BY <2>5, <2>6, <3>2
    <3> QED  BY <3>1, <3>2
  <2> QED  BY <2>1, <2>6 DEF AnswerInv
<1> QED  BY <1>1, <1>2 DEF Next

\* For a call that ran alone, digits and exponent given to the arithmetic are the number
\* its string writes, whatever its length: exactly when its digits fit into the buffer,
\* else within one unit of the last digit kept (fltintrn.c:612-885).
THEOREM DigitsExact == Spec => []DigitsAreTheNumber
<1>1. IInv /\ AnswerInv => DigitsAreTheNumber
  <2> SUFFICES ASSUME AnswerInv, NEW t \in Threads \ overlapped,
                      state[t] \in {"multiply", "convert"}, loc[t].nread > 0, InRange(t)
               PROVE  Answer(text[t], loc[t].pow, loc[t].man)
    BY Zenon DEF DigitsAreTheNumber, Answer
  <2>1. ResultHere(t)  BY DEF AnswerInv, OwnInv
  <2> QED  BY <2>1, Zenon DEF ResultHere, Result, Given, InRange
<1>2. Spec => []TypeInv  BY InitTypeInv, NextTypeInv, Invariant, PTL DEF Spec
<1>3. Spec => []EndInv  BY InitEndInv, NextEndInv, Invariant, PTL DEF Spec
<1>4. Spec => []AnswerInv
  BY <1>2, <1>3, InitAnswerInv, NextAnswerInv, Invariant, PTL DEF Spec
<1> QED  BY <1>1, <1>4, Invariant, PTL
====
