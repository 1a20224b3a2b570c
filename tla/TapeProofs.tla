----------------------------- MODULE TapeProofs -----------------------------
(***************************************************************************)
(* Theorems about Tape for any requests and callers and any bounds: what   *)
(* becomes of what is recorded, and in what order it is read back.         *)
(***************************************************************************)
EXTENDS Tape, FiniteSetTheorems, SequenceTheorems, NaturalsInduction, WellFoundedInduction,
        TLAPS

-----------------------------------------------------------------------------
(* The inductive invariant. *)

Line(e) == e \in [key : {e.key}, seq : {e.seq}, val : Nat, ok : BOOLEAN]

(* A file of lines, with something in it if its last line is not ended. *)
Shape ==
  /\ \E S : file \in Seq(S)
  /\ \A i \in 1..Len(file) : Line(file[i])
  /\ ended \in BOOLEAN /\ (~ended => Len(file) > 0)

(* A process that is down has nothing open and nobody calling. *)
Handle ==
  /\ up \in BOOLEAN /\ f \in BOOLEAN /\ cut \in BOOLEAN
  /\ writeErr \in {"none", "append", "closed"}
  /\ pc \in [Callers -> {"idle", "live", "record"}] /\ val \in [Callers -> Nat]
  /\ DOMAIN key = Callers
  /\ lives \in Nat /\ failures \in Nat /\ crashes \in Nat
  /\ ~up => ~f /\ mine = {} /\ \A c \in Callers : pc[c] = "idle"

(* Every answer is one call's, and tried once. *)
Own(c) ==
  /\ val[c] \in 1..lives
  /\ \A t \in tried : t[2] # val[c]
  /\ \A d \in Callers \ {c} : pc[d] # "idle" => val[d] # val[c]

Numbering ==
  /\ IsFiniteSet(tried)
  /\ \A t \in tried : t[2] \in 1..lives
  /\ \A t, u \in tried : t[2] = u[2] => t = u
  /\ \A c \in Callers : pc[c] # "idle" => Own(c)

(* What no later line can be glued to. *)
Safe(v) == \E i \in 1..Len(file) : file[i].ok /\ file[i].val = v /\ (ended \/ i < Len(file))

(* What was vouched for is safe, and what may be is, until it no longer    *)
(* may.                                                                    *)
Kept ==
  /\ \A v \in vouched : Safe(v)
  /\ up /\ writeErr = "none" /\ ~cut => ended /\ \A v \in mine : Safe(v)

(* What the next append costs, whatever becomes of it: the line it is      *)
(* glued to, if that can still be read, and itself.                        *)
Debt == IF ended THEN 0 ELSE IF file[Len(file)].ok THEN 2 ELSE 1

Account == Cardinality(Lost) + Debt <= 2 * (failures + crashes)

IInv == Shape /\ Handle /\ Numbering /\ Kept /\ Account
-----------------------------------------------------------------------------
(* What an append makes of the file. *)

LEMMA WrittenNothing ==
  ASSUME Shape, NEW e, Writes(e, "nothing")
  PROVE  file' = file /\ ended' = ended /\ Shape'
<1>1. file' = file /\ ended' = ended
  BY DEF Writes, Appended
<1> QED  BY <1>1 DEF Shape, Line

(* Behind a whole line, another one. *)
LEMMA WrittenBehind ==
  ASSUME Shape, NEW e, e.val \in Nat, NEW how \in {"line", "part", "unended"}, ended,
         Writes(e, how)
  PROVE  /\ Len(file') = Len(file) + 1
         /\ \A i \in 1..Len(file) : file'[i] = file[i]
         /\ file'[Len(file) + 1].key = e.key /\ file'[Len(file) + 1].seq = e.seq
         /\ file'[Len(file) + 1].val = e.val
         /\ file'[Len(file) + 1].ok <=> how # "part"
         /\ ended' <=> how = "line"
         /\ Shape'
<1> DEFINE l == [key |-> e.key, seq |-> e.seq, val |-> e.val, ok |-> how # "part"]
<1>1. file' = Append(file, l) /\ ended' = (how = "line")
  BY DEF Writes, Appended
<1>2. /\ Line(l) /\ l.key = e.key /\ l.seq = e.seq /\ l.val = e.val
      /\ l.ok <=> how # "part"
  BY DEF Line
<1> HIDE DEF l
<1>3. PICK S : file \in Seq(S)
  BY DEF Shape
<1>4. file \in Seq(S \cup {l}) /\ l \in S \cup {l}
  BY <1>3, SeqMonotonic
<1>5. /\ file' \in Seq(S \cup {l}) /\ Len(file') = Len(file) + 1
      /\ \A i \in 1..Len(file) : file'[i] = file[i]
      /\ file'[Len(file) + 1] = l
  BY <1>1, <1>4, AppendProperties
<1>6. Len(file) \in Nat
  BY <1>3, LenProperties
<1>7. \A i \in 1..Len(file') : Line(file'[i])
  BY <1>2, <1>5, <1>6 DEF Shape
<1>8. Shape'
  BY <1>1, <1>5, <1>6, <1>7 DEF Shape
<1> QED  BY <1>1, <1>2, <1>5, <1>8

(* Behind a line that was not ended, nothing but the end of that one. *)
LEMMA WrittenGlued ==
  ASSUME Shape, NEW e, NEW how \in {"line", "part", "unended"}, ~ended, Writes(e, how)
  PROVE  /\ Len(file') = Len(file)
         /\ \A i \in 1..(Len(file) - 1) : file'[i] = file[i]
         /\ ~file'[Len(file)].ok
         /\ file'[Len(file)].key = file[Len(file)].key
         /\ file'[Len(file)].seq = file[Len(file)].seq
         /\ file'[Len(file)].val = file[Len(file)].val
         /\ ended' <=> how = "line"
         /\ Shape'
<1> DEFINE n == Len(file)
           l == [file[n] EXCEPT !.ok = FALSE]
<1>1. file' = [file EXCEPT ![n].ok = FALSE] /\ ended' = (how = "line")
  BY DEF Writes, Appended
<1>2. PICK S : file \in Seq(S)
  BY DEF Shape
<1>3. n \in Nat /\ n > 0 /\ DOMAIN file = 1..n
  BY <1>2, LenProperties DEF Shape
<1>4. Line(l) /\ ~l.ok /\ l.key = file[n].key /\ l.seq = file[n].seq /\ l.val = file[n].val
  <2>1. Line(file[n])
    BY <1>3 DEF Shape
  <2> QED  BY <2>1 DEF Line
<1>5. file' = [file EXCEPT ![n] = l]
  BY <1>1
<1> HIDE DEF l, n
<1>6. file \in Seq(S \cup {l}) /\ l \in S \cup {l}
  BY <1>2, SeqMonotonic
<1>7. file' \in Seq(S \cup {l}) /\ Len(file') = n
  BY <1>3, <1>5, <1>6, ExceptSeq DEF n
<1>8. file'[n] = l /\ \A i \in 1..(n - 1) : file'[i] = file[i]
  BY <1>3, <1>5
<1>9. \A i \in 1..Len(file') : Line(file'[i])
  BY <1>3, <1>4, <1>7, <1>8 DEF Shape, n
<1>10. Shape'
  BY <1>1, <1>3, <1>7, <1>9 DEF Shape
<1> QED  BY <1>1, <1>4, <1>7, <1>8, <1>10 DEF n
Hows == {"line", "part", "unended", "nothing"}

LEMMA FileDomain ==
  ASSUME Shape
  PROVE  DOMAIN file = 1..Len(file) /\ Len(file) \in Nat
<1>1. PICK S : file \in Seq(S)
  BY DEF Shape
<1> QED  BY <1>1, LenProperties

(* What is safe stays so, whatever is written and however far it gets.     *)
LEMMA SafeStays ==
  ASSUME Shape, NEW e, e.val \in Nat, NEW how \in Hows, Writes(e, how), NEW v, Safe(v)
  PROVE  Safe(v)'
<1>1. PICK i \in 1..Len(file) : file[i].ok /\ file[i].val = v /\ (ended \/ i < Len(file))
  BY DEF Safe
<1>2. Len(file) \in Nat
  BY FileDomain
<1>3. CASE how = "nothing"
  BY <1>1, <1>3, WrittenNothing DEF Safe
<1>4. CASE how # "nothing" /\ ended
  <2>1. /\ Len(file') = Len(file) + 1 /\ file'[i] = file[i]
    BY <1>1, <1>4, WrittenBehind DEF Hows
  <2>2. i \in 1..Len(file') /\ i < Len(file')
    BY <1>2, <2>1
  <2> QED  BY <1>1, <2>1, <2>2 DEF Safe
<1>5. CASE how # "nothing" /\ ~ended
  <2>1. i \in 1..(Len(file) - 1)
    BY <1>1, <1>2, <1>5
  <2>2. Len(file') = Len(file) /\ file'[i] = file[i]
    BY <1>5, <2>1, WrittenGlued DEF Hows
  <2>3. i \in 1..Len(file') /\ i < Len(file')
    BY <1>2, <2>1, <2>2
  <2> QED  BY <1>1, <2>2, <2>3 DEF Safe
<1> QED  BY <1>3, <1>4, <1>5

(* A whole line behind a whole line is safe at once. *)
LEMMA LineIsSafe ==
  ASSUME Shape, NEW e, e.val \in Nat, ended, Writes(e, "line")
  PROVE  ended' /\ Safe(e.val)'
<1>1. /\ Len(file') = Len(file) + 1 /\ file'[Len(file) + 1].val = e.val
      /\ file'[Len(file) + 1].ok /\ ended'
  BY WrittenBehind
<1>2. Len(file) + 1 \in 1..Len(file')
  BY <1>1, FileDomain
<1> QED  BY <1>1, <1>2 DEF Safe

(* What can be read can be read still, the line apart that is glued to.    *)
LEMMA ReadableStays ==
  ASSUME Shape, NEW e, e.val \in Nat, NEW how \in Hows, Writes(e, how), NEW v, Readable(v),
         how # "nothing" /\ ~ended /\ file[Len(file)].ok => v # file[Len(file)].val
  PROVE  Readable(v)'
<1>1. PICK i \in 1..Len(file) : file[i].ok /\ file[i].val = v
  BY FileDomain DEF Readable
<1>2. Len(file) \in Nat
  BY FileDomain
<1>3. ASSUME Shape', NEW j \in 1..Len(file'), file'[j].ok, file'[j].val = v
      PROVE  Readable(v)'
  <2>1. DOMAIN file' = 1..Len(file')
    <3>1. PICK S : file' \in Seq(S)
      BY <1>3 DEF Shape
    <3> QED  BY <3>1, LenProperties
  <2> QED  BY <1>3, <2>1 DEF Readable
<1>4. CASE how = "nothing"
  BY <1>1, <1>3, <1>4, WrittenNothing
<1>5. CASE how # "nothing" /\ ended
  <2>1. Len(file') = Len(file) + 1 /\ file'[i] = file[i] /\ Shape'
    BY <1>1, <1>5, WrittenBehind DEF Hows
  <2>2. i \in 1..Len(file')
    BY <1>2, <2>1
  <2> QED  BY <1>1, <1>3, <2>1, <2>2
<1>6. CASE how # "nothing" /\ ~ended
  <2>1. i # Len(file)
    BY <1>1, <1>6
  <2>2. i \in 1..(Len(file) - 1)
    BY <1>1, <1>2, <2>1
  <2>3. Len(file') = Len(file) /\ file'[i] = file[i] /\ Shape'
    BY <1>6, <2>2, WrittenGlued DEF Hows
  <2> QED  BY <1>1, <1>3, <2>3
<1> QED  BY <1>4, <1>5, <1>6
-----------------------------------------------------------------------------
(* What an append costs. *)

LEMMA CountOne ==
  ASSUME NEW S, IsFiniteSet(S), NEW x
  PROVE  /\ IsFiniteSet(S \cup {x}) /\ Cardinality(S) \in Nat
         /\ Cardinality(S \cup {x}) \in Nat
         /\ Cardinality(S \cup {x}) <= Cardinality(S) + 1
  BY FS_AddElement, FS_CardinalityType

LEMMA CountMore ==
  ASSUME NEW S, IsFiniteSet(S), NEW T, NEW x, NEW y
  PROVE  /\ Cardinality(S) \in Nat
         /\ T \subseteq S => Cardinality(T) \in Nat /\ Cardinality(T) <= Cardinality(S)
         /\ T \subseteq S \cup {x} =>
              Cardinality(T) \in Nat /\ Cardinality(T) <= Cardinality(S) + 1
         /\ T \subseteq S \cup {x, y} =>
              Cardinality(T) \in Nat /\ Cardinality(T) <= Cardinality(S) + 2
<1> DEFINE S1 == S \cup {x}
           S2 == S1 \cup {y}
<1>1. /\ IsFiniteSet(S1) /\ Cardinality(S) \in Nat /\ Cardinality(S1) \in Nat
      /\ Cardinality(S1) <= Cardinality(S) + 1
  BY CountOne
<1> HIDE DEF S1
<1>2. /\ IsFiniteSet(S2) /\ Cardinality(S2) \in Nat
      /\ Cardinality(S2) <= Cardinality(S1) + 1
  BY <1>1, CountOne
<1>3. S2 = S \cup {x, y}
  BY DEF S1
<1> HIDE DEF S2
<1>4. ASSUME NEW U, IsFiniteSet(U), T \subseteq U
      PROVE  Cardinality(T) \in Nat /\ Cardinality(T) <= Cardinality(U)
  BY <1>4, FS_Subset, FS_CardinalityType
<1>5. T \subseteq S => Cardinality(T) \in Nat /\ Cardinality(T) <= Cardinality(S)
  BY <1>4
<1>6. T \subseteq S \cup {x} =>
        Cardinality(T) \in Nat /\ Cardinality(T) <= Cardinality(S) + 1
  <2>1. T \subseteq S1 => Cardinality(T) \in Nat /\ Cardinality(T) <= Cardinality(S1)
    BY <1>1, <1>4
  <2> QED  BY <1>1, <2>1 DEF S1
<1>7. T \subseteq S \cup {x, y} =>
        Cardinality(T) \in Nat /\ Cardinality(T) <= Cardinality(S) + 2
  <2>1. T \subseteq S2 => Cardinality(T) \in Nat /\ Cardinality(T) <= Cardinality(S2)
    BY <1>2, <1>4
  <2> QED  BY <1>1, <1>2, <1>3, <2>1
<1> QED  BY <1>1, <1>5, <1>6, <1>7

(* The bound, one append later: nothing is added by a line that is written *)
(* whole, two by one that is not.                                          *)
LEMMA AppendCosts ==
  ASSUME Shape, Numbering, NEW e, e.val \in Nat, \A t \in tried : t[2] # e.val,
         NEW how \in Hows, Writes(e, how)
  PROVE  /\ Cardinality(Lost) \in Nat /\ Cardinality(Lost') \in Nat
         /\ Debt \in Nat /\ Debt' \in Nat
         /\ Cardinality(Lost') + Debt' <=
              Cardinality(Lost) + Debt + (IF how = "line" THEN 0 ELSE 2)
<1> DEFINE t0 == <<e.key, e.val>>
           n == Len(file)
<1>1. tried' = tried \cup {t0} /\ IsFiniteSet(Lost)
  BY FS_Subset DEF Writes, Numbering, Lost
<1>2. Lost' \subseteq tried' /\ \A t \in Lost' : ~Readable(t[2])'
  BY DEF Lost
<1>3. Debt \in {0, 1, 2} /\ Debt' \in {0, 1, 2}
  BY DEF Debt
<1>4. ASSUME NEW t \in Lost', t # t0,
             how # "nothing" /\ ~ended /\ file[n].ok => t[2] # file[n].val
      PROVE  t \in Lost
  <2>1. t \in tried /\ ~Readable(t[2])'
    BY <1>1, <1>2, <1>4
  <2>2. ~Readable(t[2])
    BY <1>4, <2>1, ReadableStays
  <2> QED  BY <2>1, <2>2 DEF Lost
<1> HIDE DEF t0
<1>5. CASE how = "nothing"
  <2>1. Lost' \subseteq Lost \cup {t0}
    BY <1>4, <1>5
  <2>2. Debt' = Debt
    BY <1>5, WrittenNothing DEF Debt
  <2>3. /\ Cardinality(Lost) \in Nat /\ Cardinality(Lost') \in Nat
        /\ Cardinality(Lost') <= Cardinality(Lost) + 1
    BY <1>1, <2>1, CountMore
  <2> QED  BY <1>3, <1>5, <2>2, <2>3
<1>6. CASE how # "nothing" /\ ended
  <2>1. Lost' \subseteq Lost \cup {t0}
    BY <1>4, <1>6
  <2>2. /\ Len(file') = n + 1 /\ file'[n + 1].val = e.val
        /\ file'[n + 1].ok <=> how # "part"
        /\ ended' <=> how = "line"
        /\ Shape' /\ n \in Nat
    BY <1>6, WrittenBehind, FileDomain DEF Hows
  <2>3. CASE how = "part"
    <3>1. Debt' = 1 /\ Debt = 0
      BY <1>6, <2>2, <2>3 DEF Debt
    <3>2. /\ Cardinality(Lost) \in Nat /\ Cardinality(Lost') \in Nat
          /\ Cardinality(Lost') <= Cardinality(Lost) + 1
      BY <1>1, <2>1, CountMore
    <3> QED  BY <2>3, <3>1, <3>2
  <2>4. CASE how # "part"
    <3>1. Readable(e.val)'
      <4>1. PICK S : file' \in Seq(S)
        BY <2>2 DEF Shape
      <4>2. n + 1 \in DOMAIN file'
        BY <2>2, <4>1, LenProperties
      <4> QED  BY <2>2, <2>4, <4>2 DEF Readable
    <3>2. t0 \notin Lost'
      <4>1. t0[2] = e.val
        BY DEF t0
      <4>2. \A t \in Lost' : t[2] # e.val
        BY <1>2, <3>1
      <4> QED  BY <4>1, <4>2
    <3>3. Lost' \subseteq Lost
      BY <2>1, <3>2
    <3>4. Debt = 0 /\ (how = "line" => Debt' = 0)
      BY <1>6, <2>2 DEF Debt
    <3> QED  BY <1>1, <1>3, <3>3, <3>4, CountMore
  <2> QED  BY <2>3, <2>4
<1>7. CASE how # "nothing" /\ ~ended
  <2>1. Len(file') = n /\ ~file'[n].ok /\ (ended' <=> how = "line")
    BY <1>7, WrittenGlued DEF Hows
  <2>2. Debt' = IF how = "line" THEN 0 ELSE 1
    BY <2>1 DEF Debt
  <2>3. CASE ~file[n].ok
    <3>1. Lost' \subseteq Lost \cup {t0}
      BY <1>4, <2>3
    <3>2. Debt = 1
      BY <1>7, <2>3 DEF Debt
    <3> QED  BY <1>1, <2>2, <3>1, <3>2, CountMore
  <2>4. CASE file[n].ok
    <3> DEFINE v == file[n].val
               y == CHOOSE u \in tried : u[2] = v
    <3>1. ASSUME NEW t \in tried, t[2] = v  PROVE t = y
      <4>1. y \in tried /\ y[2] = v
        BY <3>1
      <4> QED  BY <3>1, <4>1 DEF Numbering
    <3> HIDE DEF y
    <3>2. ASSUME NEW t \in Lost'  PROVE t \in Lost \cup {t0, y}
      <4>1. t \in tried \/ t = t0
        BY <1>1, <1>2
      <4> QED  BY <1>4, <3>1, <4>1
    <3>3. Lost' \subseteq Lost \cup {t0, y}
      BY <3>2
    <3>4. Debt = 2
      BY <1>7, <2>4 DEF Debt
    <3>5. /\ Cardinality(Lost) \in Nat /\ Cardinality(Lost') \in Nat
          /\ Cardinality(Lost') <= Cardinality(Lost) + 2
      BY <1>1, <3>3, CountMore
    <3> QED  BY <2>2, <3>4, <3>5
  <2> QED  BY <2>3, <2>4
<1> QED  BY <1>5, <1>6, <1>7
-----------------------------------------------------------------------------
(* What the operator deletes. *)

LEMMA Removed ==
  ASSUME NEW S, NEW s \in Seq(S), NEW i \in 1..Len(s)
  PROVE  /\ RemoveAt(s, i) \in Seq(S) /\ Len(RemoveAt(s, i)) = Len(s) - 1
         /\ \A j \in 1..(i - 1) : RemoveAt(s, i)[j] = s[j]
         /\ \A j \in i..(Len(s) - 1) : RemoveAt(s, i)[j] = s[j + 1]
<1> DEFINE a == SubSeq(s, 1, i - 1)
           b == SubSeq(s, i + 1, Len(s))
<1>1. Len(s) \in Nat /\ i \in Nat
  BY LenProperties
<1>2. a \in Seq(S) /\ Len(a) = i - 1 /\ \A j \in 1..(i - 1) : a[j] = s[j]
  BY <1>1
<1>3. /\ b \in Seq(S) /\ Len(b) = Len(s) - i
      /\ \A j \in 1..(Len(s) - i) : b[j] = s[i + j]
  BY <1>1
<1> HIDE DEF a, b
<1>4. /\ a \o b \in Seq(S) /\ Len(a \o b) = Len(a) + Len(b)
      /\ \A j \in 1..Len(a) + Len(b) :
           (a \o b)[j] = IF j <= Len(a) THEN a[j] ELSE b[j - Len(a)]
  BY <1>2, <1>3, ConcatProperties
<1>5. \A j \in 1..(i - 1) : (a \o b)[j] = s[j]
  BY <1>1, <1>2, <1>3, <1>4
<1>6. ASSUME NEW j \in i..(Len(s) - 1)  PROVE (a \o b)[j] = s[j + 1]
  <2>1. j \in 1..Len(a) + Len(b) /\ ~(j <= Len(a)) /\ j - Len(a) \in 1..(Len(s) - i)
    BY <1>1, <1>2, <1>3
  <2>2. (a \o b)[j] = b[j - Len(a)]
    BY <1>4, <2>1
  <2>3. b[j - Len(a)] = s[i + (j - Len(a))]
    BY <1>3, <2>1
  <2>4. i + (j - Len(a)) = j + 1
    BY <1>1, <1>2
  <2> QED  BY <2>2, <2>3, <2>4
<1>7. RemoveAt(s, i) = a \o b
  BY DEF RemoveAt, a, b
<1>8. Len(a \o b) = Len(s) - 1
  BY <1>1, <1>2, <1>3, <1>4
<1> QED  BY <1>4, <1>5, <1>6, <1>7, <1>8

(* The deletion of a line that cannot be read takes nothing that can.      *)
LEMMA Deleted ==
  ASSUME Shape, NEW i, DeleteLine(i)
  PROVE  /\ Shape'
         /\ \A v : Safe(v) => Safe(v)'
         /\ \A v : Readable(v) => Readable(v)'
         /\ Debt \in Nat /\ Debt' \in Nat /\ Debt' <= Debt
<1> DEFINE n == Len(file)
<1>1. PICK S : file \in Seq(S)
  BY DEF Shape
<1>2. n \in Nat /\ i \in 1..n /\ ~file[i].ok /\ file' = RemoveAt(file, i)
  BY FileDomain DEF DeleteLine
<1>3. ended' \in BOOLEAN /\ (ended' <=> (i < n => ended))
  BY DEF DeleteLine
<1>4. /\ file' \in Seq(S) /\ Len(file') = n - 1 /\ DOMAIN file' = 1..(n - 1)
      /\ \A j \in 1..(i - 1) : file'[j] = file[j]
      /\ \A j \in i..(n - 1) : file'[j] = file[j + 1]
  <2>1. /\ RemoveAt(file, i) \in Seq(S) /\ Len(RemoveAt(file, i)) = Len(file) - 1
        /\ \A j \in 1..(i - 1) : RemoveAt(file, i)[j] = file[j]
        /\ \A j \in i..(Len(file) - 1) : RemoveAt(file, i)[j] = file[j + 1]
    BY <1>1, <1>2, Removed
  <2>2. DOMAIN RemoveAt(file, i) = 1..(n - 1)
    BY <2>1, LenProperties
  <2> QED  BY <1>2, <2>1, <2>2
<1>5. ASSUME NEW j \in 1..n, file[j].ok
      PROVE  \E k \in 1..(n - 1) : /\ file'[k] = file[j]
                                   /\ i < n /\ j < n => k < n - 1
                                   /\ i = n => k < n
  <2>1. j # i
    BY <1>2, <1>5
  <2>2. CASE j < i
    <3>1. j \in 1..(i - 1) /\ j \in 1..(n - 1) /\ (i < n => j < n - 1)
      BY <1>2, <2>2
    <3> QED  BY <1>2, <1>4, <3>1
  <2>3. CASE j > i
    <3> DEFINE k == j - 1
    <3>1. k \in i..(n - 1) /\ k \in 1..(n - 1) /\ k + 1 = j /\ (j < n => k < n - 1) /\ k < n
      BY <1>2, <2>3
    <3>2. file'[k] = file[j]
      BY <1>4, <3>1
    <3> HIDE DEF k
    <3> QED  BY <3>1, <3>2
  <2> QED  BY <1>2, <2>1, <2>2, <2>3
<1>6. ASSUME NEW v, Safe(v)  PROVE Safe(v)'
  <2>1. PICK j \in 1..n : file[j].ok /\ file[j].val = v /\ (ended \/ j < n)
    BY <1>6 DEF Safe
  <2>2. PICK k \in 1..(n - 1) : file'[k] = file[j] /\ (i < n /\ j < n => k < n - 1)
    BY <1>5, <2>1
  <2>3. ended' \/ k < n - 1
    BY <1>2, <1>3, <2>1, <2>2
  <2> QED  BY <1>4, <2>1, <2>2, <2>3 DEF Safe
<1>7. ASSUME NEW v, Readable(v)  PROVE Readable(v)'
  <2>1. PICK j \in 1..n : file[j].ok /\ file[j].val = v
    BY <1>7, FileDomain DEF Readable
  <2>2. PICK k \in 1..(n - 1) : file'[k] = file[j]
    BY <1>5, <2>1
  <2> QED  BY <1>4, <2>1, <2>2 DEF Readable
<1>8. Shape'
  <2>1. ASSUME NEW k \in 1..(n - 1)  PROVE Line(file'[k])
    <3>1. CASE k < i
      BY <1>2, <1>4, <3>1 DEF Shape
    <3>2. CASE k >= i
      <4>1. k \in i..(n - 1) /\ k + 1 \in 1..n
        BY <1>2, <3>2
      <4> QED  BY <1>4, <4>1 DEF Shape
    <3> QED  BY <1>2, <3>1, <3>2
  <2>2. ended' \in BOOLEAN /\ (~ended' => n - 1 > 0)
    BY <1>2, <1>3
  <2> QED  BY <1>4, <2>1, <2>2 DEF Shape
<1>9. Debt \in Nat /\ Debt' \in Nat /\ Debt' <= Debt
  <2>1. CASE ended'
    BY <2>1 DEF Debt
  <2>2. CASE ~ended'
    <3>1. i < n /\ ~ended
      BY <1>3, <2>2
    <3>2. n - 1 \in i..(n - 1) /\ n - 1 + 1 = n
      BY <1>2, <3>1
    <3>3. file'[n - 1] = file[n]
      BY <1>4, <3>2
    <3>4. Debt' = Debt
      BY <1>4, <2>2, <3>1, <3>3 DEF Debt
    <3> QED  BY <3>4 DEF Debt
  <2> QED  BY <2>1, <2>2
<1> QED  BY <1>6, <1>7, <1>8, <1>9
-----------------------------------------------------------------------------
(* The invariant, step by step. *)

LEMMA InitIInv == Init => IInv
<1> SUFFICES ASSUME Init  PROVE IInv
  OBVIOUS
<1>1. file = <<>> /\ ended /\ tried = {} /\ mine = {} /\ vouched = {}
  BY DEF Init
<1>2. Shape
  <2>1. <<>> \in Seq({}) /\ Len(<<>>) = 0 /\ 1..0 = {}
    OBVIOUS
  <2> QED  BY <1>1, <2>1 DEF Shape, Init
<1>3. Handle
  BY DEF Init, Handle
<1>4. Numbering
  <2>1. IsFiniteSet({})
    BY FS_EmptySet
  <2> QED  BY <1>1, <2>1 DEF Numbering, Init
<1>5. Kept
  BY <1>1 DEF Kept
<1>6. Account
  <2>1. Lost = {} /\ Debt = 0
    BY <1>1 DEF Lost, Debt
  <2>2. Cardinality(Lost) = 0
    BY <2>1, FS_EmptySet
  <2> QED  BY <2>1, <2>2 DEF Account, Init
<1> QED  BY <1>2, <1>3, <1>4, <1>5, <1>6 DEF IInv

(* Steps that leave the disk alone. *)
LEMMA DiskStands ==
  ASSUME Shape, UNCHANGED <<disk, tried>>
  PROVE  /\ Shape' /\ Lost' = Lost /\ Debt' = Debt
         /\ \A v : Safe(v) => Safe(v)'
<1>1. file' = file /\ ended' = ended /\ tried' = tried
  BY DEF disk
<1> QED  BY <1>1 DEF Shape, Line, Lost, Readable, Debt, Safe

LEMMA OpenStep ==
  ASSUME IInv, NEW m \in Modes, Open(m)
  PROVE  IInv'
<1> USE DEF Open, calls
<1>1. UNCHANGED <<disk, tried>> /\ UNCHANGED <<vouched, mine, lives, failures, crashes>>
  OBVIOUS
<1>2. /\ Shape' /\ Lost' = Lost /\ Debt' = Debt
      /\ \A v : Safe(v) => Safe(v)'
  BY <1>1, DiskStands DEF IInv
<1>3. Handle'
  BY DEF IInv, Handle, Shape
<1>4. Numbering'
  BY DEF IInv, Numbering, Own
<1>5. Kept'
  <2>1. mine = {} /\ (~cut' => ended')
    BY DEF IInv, Handle, disk
  <2> QED  BY <1>1, <1>2, <2>1 DEF IInv, Kept, Shape
<1>6. Account'
  BY <1>1, <1>2 DEF IInv, Account
<1> QED  BY <1>2, <1>3, <1>4, <1>5, <1>6 DEF IInv

LEMMA DeleteStep ==
  ASSUME IInv, NEW i, DeleteLine(i)
  PROVE  IInv'
<1> USE DEF DeleteLine, handle, calls, bounds, history
<1>1. /\ Shape' /\ \A v : Safe(v) => Safe(v)'
      /\ \A v : Readable(v) => Readable(v)'
      /\ Debt \in Nat /\ Debt' \in Nat /\ Debt' <= Debt
  BY Deleted DEF IInv
<1>2. Handle'
  BY DEF IInv, Handle
<1>3. Numbering'
  BY DEF IInv, Numbering, Own
<1>4. Kept'
  BY <1>1 DEF IInv, Kept, Handle
<1>5. Account'
  <2>1. IsFiniteSet(Lost)
    BY FS_Subset DEF IInv, Numbering, Lost
  <2>2. Lost' \subseteq Lost
    BY <1>1 DEF Lost
  <2>3. /\ Cardinality(Lost) \in Nat /\ Cardinality(Lost') \in Nat
        /\ Cardinality(Lost') <= Cardinality(Lost)
    BY <2>1, <2>2, CountMore
  <2>4. failures' = failures /\ crashes' = crashes /\ failures \in Nat /\ crashes \in Nat
    BY DEF IInv, Handle
  <2> QED  BY <1>1, <2>3, <2>4 DEF IInv, Account
<1> QED  BY <1>1, <1>2, <1>3, <1>4, <1>5 DEF IInv

LEMMA ReplayedStep ==
  ASSUME IInv, NEW c \in Callers, NEW r \in Requests, Replayed(c, r)
  PROVE  IInv'
<1>1. /\ UNCHANGED <<disk, tried>> /\ UNCHANGED <<mode, up, f, writeErr>>
      /\ UNCHANGED calls /\ UNCHANGED bounds /\ UNCHANGED <<cut, mine, vouched>>
  BY Zenon DEF Replayed
<1>2. /\ Shape' /\ Lost' = Lost /\ Debt' = Debt
      /\ \A v : Safe(v) => Safe(v)'
  BY <1>1, DiskStands DEF IInv
<1> USE DEF calls, bounds
<1>3. Handle'
  BY <1>1 DEF IInv, Handle
<1>4. Numbering'
  BY <1>1 DEF IInv, Numbering, Own
<1>5. Kept'
  BY <1>1, <1>2 DEF IInv, Kept, disk
<1>6. Account'
  BY <1>1, <1>2 DEF IInv, Account
<1> QED  BY <1>2, <1>3, <1>4, <1>5, <1>6 DEF IInv

LEMMA GoesLiveStep ==
  ASSUME IInv, NEW c \in Callers, NEW r \in Requests, GoesLive(c, r)
  PROVE  IInv'
<1> USE DEF GoesLive, Idle, handle, history
<1>1. /\ UNCHANGED <<disk, tried>> /\ UNCHANGED <<up, f, writeErr, failures, crashes>>
      /\ UNCHANGED <<cut, mine, vouched>>
  OBVIOUS
<1>2. /\ Shape' /\ Lost' = Lost /\ Debt' = Debt
      /\ \A v : Safe(v) => Safe(v)'
  BY <1>1, DiskStands DEF IInv
<1>3. Handle'
  BY DEF IInv, Handle
<1>4. Numbering'
  <2>1. /\ lives \in Nat /\ lives' = lives + 1 /\ tried' = tried
        /\ val' = [val EXCEPT ![c] = lives + 1] /\ val \in [Callers -> Nat]
        /\ pc' = [pc EXCEPT ![c] = "live"] /\ DOMAIN pc = Callers
    BY DEF IInv, Handle
  <2>2. \A t \in tried' : t[2] \in 1..lives'
    BY <2>1 DEF IInv, Numbering
  <2>3. ASSUME NEW d \in Callers, pc'[d] # "idle"  PROVE Own(d)'
    <3>1. CASE d = c
      <4>1. val'[d] = lives + 1
        BY <2>1, <3>1
      <4>2. ASSUME NEW o \in Callers \ {d}, pc'[o] # "idle"  PROVE val'[o] # lives + 1
        <5>1. val'[o] = val[o] /\ val[o] \in 1..lives
          BY <2>1, <3>1, <4>2 DEF IInv, Numbering, Own
        <5> QED  BY <2>1, <5>1
      <4>3. \A t \in tried' : t[2] # lives + 1
        BY <2>1 DEF IInv, Numbering
      <4> QED  BY <2>1, <4>1, <4>2, <4>3 DEF Own
    <3>2. CASE d # c
      <4>1. Own(d) /\ val'[d] = val[d]
        BY <2>1, <2>3, <3>2 DEF IInv, Numbering
      <4>2. ASSUME NEW o \in Callers \ {d}, pc'[o] # "idle"  PROVE val'[o] # val[d]
        <5>1. CASE o = c
          BY <2>1, <4>1, <5>1 DEF Own
        <5>2. CASE o # c
          BY <2>1, <4>1, <4>2, <5>2 DEF Own
        <5> QED  BY <5>1, <5>2
      <4> QED  BY <2>1, <4>1, <4>2 DEF Own
    <3> QED  BY <3>1, <3>2
  <2> QED  BY <2>1, <2>2, <2>3 DEF IInv, Numbering
<1>5. Kept'
  BY <1>1, <1>2 DEF IInv, Kept, disk
<1>6. Account'
  BY <1>1, <1>2 DEF IInv, Account
<1> QED  BY <1>2, <1>3, <1>4, <1>5, <1>6 DEF IInv

(* A live call comes back, with an answer to record or without. *)
LEMMA LiveStep ==
  ASSUME IInv, NEW c \in Callers, LiveFails(c) \/ LiveAnswers(c)
  PROVE  IInv'
<1> USE DEF LiveFails, LiveAnswers, handle, bounds, history
<1>1. /\ UNCHANGED <<disk, tried>> /\ UNCHANGED <<up, f, writeErr, key, val, lives, failures>>
      /\ UNCHANGED <<crashes, cut, mine, vouched>> /\ pc[c] = "live"
      /\ \E to \in {"idle", "record"} : pc' = [pc EXCEPT ![c] = to]
  OBVIOUS
<1>2. /\ Shape' /\ Lost' = Lost /\ Debt' = Debt
      /\ \A v : Safe(v) => Safe(v)'
  BY <1>1, DiskStands DEF IInv
<1>3. Handle'
  BY <1>1 DEF IInv, Handle
<1>4. Numbering'
  BY <1>1 DEF IInv, Numbering, Own, Handle
<1>5. Kept'
  BY <1>1, <1>2 DEF IInv, Kept, disk
<1>6. Account'
  BY <1>1, <1>2 DEF IInv, Account
<1> QED  BY <1>2, <1>3, <1>4, <1>5, <1>6 DEF IInv

LEMMA CloseStep ==
  ASSUME IInv, Close
  PROVE  IInv'
<1> USE DEF Close, calls, bounds
<1>1. UNCHANGED <<disk, tried>>
  OBVIOUS
<1>2. /\ Shape' /\ Lost' = Lost /\ Debt' = Debt
      /\ \A v : Safe(v) => Safe(v)'
  BY <1>1, DiskStands DEF IInv
<1>3. Handle'
  BY DEF IInv, Handle
<1>4. Numbering'
  BY DEF IInv, Numbering, Own
<1>5. Kept'
  BY <1>1, <1>2 DEF IInv, Kept, disk
<1>6. Account'
  BY <1>2 DEF IInv, Account
<1> QED  BY <1>2, <1>3, <1>4, <1>5, <1>6 DEF IInv
(* What the call that writes its answer, under a handle that is open, does *)
(* to the books.                                                           *)
LEMMA EntryWritten ==
  ASSUME IInv, NEW c \in Callers, pc[c] = "record", NEW how \in Hows, Writes(Entry(c), how),
         UNCHANGED lives
  PROVE  /\ Shape' /\ \A v : Safe(v) => Safe(v)'
         /\ tried' = tried \cup {<<key[c], val[c]>>} /\ IsFiniteSet(tried')
         /\ \A t \in tried' : t[2] \in 1..lives'
         /\ \A t, u \in tried' : t[2] = u[2] => t = u
         /\ Cardinality(Lost) \in Nat /\ Cardinality(Lost') \in Nat
         /\ Debt \in Nat /\ Debt' \in Nat
         /\ Cardinality(Lost') + Debt' <=
              Cardinality(Lost) + Debt + (IF how = "line" THEN 0 ELSE 2)
<1> DEFINE e == Entry(c)
<1>1. e.val = val[c] /\ e.key = key[c] /\ e.val \in Nat
  BY DEF Entry, IInv, Handle
<1>2. \A t \in tried : t[2] # e.val
  BY <1>1 DEF IInv, Numbering, Own
<1>3. val[c] \in 1..lives
  BY DEF IInv, Numbering, Own
<1>4. Writes(e, how)
  OBVIOUS
<1> HIDE DEF e
<1>5. Shape /\ Numbering
  BY DEF IInv
<1>6. Shape'
  BY <1>1, <1>4, <1>5, WrittenNothing, WrittenBehind, WrittenGlued DEF Hows
<1>7. \A v : Safe(v) => Safe(v)'
  BY <1>1, <1>4, <1>5, SafeStays
<1>8. tried' = tried \cup {<<key[c], val[c]>>}
  BY <1>1, <1>4 DEF Writes
<1>9. IsFiniteSet(tried')
  BY <1>5, <1>8, FS_AddElement DEF Numbering
<1>10. \A t \in tried' : t[2] \in 1..lives'
  BY <1>3, <1>5, <1>8 DEF Numbering
<1>11. \A t, u \in tried' : t[2] = u[2] => t = u
  BY <1>1, <1>2, <1>5, <1>8 DEF Numbering
<1>12. /\ Cardinality(Lost) \in Nat /\ Cardinality(Lost') \in Nat
       /\ Debt \in Nat /\ Debt' \in Nat
       /\ Cardinality(Lost') + Debt' <=
            Cardinality(Lost) + Debt + (IF how = "line" THEN 0 ELSE 2)
  BY <1>1, <1>2, <1>4, <1>5, AppendCosts
<1> QED  BY <1>6, <1>7, <1>8, <1>9, <1>10, <1>11, <1>12

LEMMA RecordStep ==
  ASSUME IInv, NEW c \in Callers, Record(c)
  PROVE  IInv'
<1>1. /\ pc[c] = "record" /\ pc' = [pc EXCEPT ![c] = "idle"] /\ mine' = mine \cup {val[c]}
      /\ UNCHANGED <<up, f, key, val, lives, crashes, cut, vouched>>
      /\ up
  BY DEF Record, IInv, Handle
<1>2. CASE ~f
  <2>1. UNCHANGED <<disk, tried, failures>> /\ Latches("closed")
    BY <1>2 DEF Record
  <2>2. /\ Shape' /\ Lost' = Lost /\ Debt' = Debt
        /\ \A v : Safe(v) => Safe(v)'
    BY <2>1, DiskStands DEF IInv
  <2>3. Handle'
    BY <1>1, <2>1 DEF IInv, Handle, Latches
  <2>4. Numbering'
    BY <1>1, <2>1 DEF IInv, Numbering, Own, Handle
  <2>5. writeErr' # "none"
    BY <2>1 DEF Latches
  <2>6. Kept'
    BY <1>1, <2>2, <2>5 DEF IInv, Kept
  <2>7. Account'
    BY <1>1, <2>1, <2>2 DEF IInv, Account
  <2> QED  BY <2>2, <2>3, <2>4, <2>6, <2>7 DEF IInv
<1>3. ASSUME NEW how \in Hows, Writes(Entry(c), how), f,
             failures' = failures + (IF how = "line" THEN 0 ELSE 1),
             Latches(IF how = "line" THEN "none" ELSE "append")
      PROVE  IInv'
  <2>1. /\ Shape' /\ \A v : Safe(v) => Safe(v)'
        /\ tried' = tried \cup {<<key[c], val[c]>>} /\ IsFiniteSet(tried')
        /\ \A t \in tried' : t[2] \in 1..lives'
        /\ \A t, u \in tried' : t[2] = u[2] => t = u
        /\ Cardinality(Lost) \in Nat /\ Cardinality(Lost') \in Nat
        /\ Debt \in Nat /\ Debt' \in Nat
        /\ Cardinality(Lost') + Debt' <=
             Cardinality(Lost) + Debt + (IF how = "line" THEN 0 ELSE 2)
    BY <1>1, <1>3, EntryWritten
  <2>2. failures \in Nat /\ crashes \in Nat /\ failures' \in Nat
    BY <1>3 DEF IInv, Handle
  <2>3. Handle'
    BY <1>1, <1>3, <2>2 DEF IInv, Handle, Latches
  <2>4. Numbering'
    <3>1. ASSUME NEW d \in Callers, pc'[d] # "idle"  PROVE Own(d)'
      <4>1. d # c /\ Own(d) /\ Own(c)
        BY <1>1, <3>1 DEF IInv, Numbering, Handle
      <4>2. \A t \in tried' : t[2] # val[d]
        BY <1>1, <2>1, <4>1 DEF Own
      <4>3. \A o \in Callers \ {d} : pc'[o] # "idle" => val[o] # val[d]
        BY <1>1, <4>1 DEF Own, IInv, Handle
      <4> QED  BY <1>1, <4>1, <4>2, <4>3 DEF Own
    <3> QED  BY <2>1, <3>1 DEF Numbering
  <2>5. Kept'
    <3>1. ASSUME writeErr' = "none", ~cut  PROVE ended' /\ \A v \in mine' : Safe(v)'
      <4>1. writeErr = "none" /\ how = "line"
        BY <1>3, <3>1 DEF Latches
      <4>2. ended /\ \A v \in mine : Safe(v)
        BY <1>1, <3>1, <4>1 DEF IInv, Kept
      <4>3. PICK e : e = Entry(c)
        OBVIOUS
      <4>4. e.val = val[c] /\ e.val \in Nat
        BY <4>3 DEF Entry, IInv, Handle
      <4>5. Writes(e, "line")
        BY <1>3, <4>1, <4>3
      <4>6. ended' /\ Safe(e.val)'
        BY <4>2, <4>4, <4>5, LineIsSafe DEF IInv
      <4>7. ASSUME NEW v \in mine'  PROVE Safe(v)'
        <5>1. v \in mine \/ v = e.val
          BY <1>1, <4>4, <4>7
        <5> QED  BY <2>1, <4>2, <4>6, <5>1
      <4> QED  BY <4>6, <4>7
    <3> QED  BY <1>1, <2>1, <3>1 DEF IInv, Kept
  <2>6. Account'
    <3>1. CASE how = "line"
      BY <1>1, <1>3, <2>1, <2>2, <3>1 DEF IInv, Account
    <3>2. CASE how # "line"
      BY <1>1, <1>3, <2>1, <2>2, <3>2 DEF IInv, Account
    <3> QED  BY <3>1, <3>2
  <2> QED  BY <2>1, <2>3, <2>4, <2>5, <2>6 DEF IInv
<1>4. CASE f
  <2>1. CASE Writes(Entry(c), "line") /\ Latches("none") /\ UNCHANGED failures
    BY <1>3, <1>4, <2>1 DEF Hows, IInv, Handle
  <2>2. CASE /\ failures' = failures + 1 /\ Latches("append")
             /\ \E how \in {"nothing", "part", "unended"} : Writes(Entry(c), how)
    BY <1>3, <1>4, <2>2 DEF Hows
  <2> QED  BY <1>4, <2>1, <2>2 DEF Record
<1> QED  BY <1>2, <1>4 DEF IInv, Handle

(* The process is gone, and with it whatever it was doing. *)
LEMMA DownStands ==
  ASSUME IInv, Down
  PROVE  /\ mine' = {} /\ up' = FALSE /\ UNCHANGED <<lives, failures, vouched>>
         /\ \A c \in Callers : pc'[c] = "idle"
         /\ crashes' \in Nat => Handle'
  BY DEF Down, IInv, Handle

LEMMA ExitStep ==
  ASSUME IInv, Exits
  PROVE  IInv'
<1>1. Down /\ UNCHANGED <<disk, tried>> /\ UNCHANGED crashes
  BY DEF Exits
<1>2. /\ Shape' /\ Lost' = Lost /\ Debt' = Debt
      /\ \A v : Safe(v) => Safe(v)'
  BY <1>1, DiskStands DEF IInv
<1>3. Handle'
  BY <1>1, DownStands DEF IInv, Handle
<1>4. Numbering'
  BY <1>1, DownStands DEF IInv, Numbering
<1>5. Kept'
  BY <1>1, <1>2, DownStands DEF IInv, Kept
<1>6. Account'
  BY <1>1, <1>2, DownStands DEF IInv, Account
<1> QED  BY <1>2, <1>3, <1>4, <1>5, <1>6 DEF IInv

LEMMA DiesStep ==
  ASSUME IInv, NEW c \in Callers, DiesWriting(c)
  PROVE  IInv'
<1>1. /\ pc[c] = "record" /\ Down /\ crashes' = crashes + 1
      /\ \E how \in {"line", "part", "unended"} : Writes(Entry(c), how)
  BY DEF DiesWriting
<1>2. PICK how \in Hows : Writes(Entry(c), how)
  BY <1>1 DEF Hows
<1>3. /\ mine' = {} /\ up' = FALSE /\ UNCHANGED <<lives, failures, vouched>>
      /\ \A d \in Callers : pc'[d] = "idle"
      /\ crashes' \in Nat => Handle'
  BY <1>1, DownStands
<1>4. /\ Shape' /\ \A v : Safe(v) => Safe(v)'
      /\ tried' = tried \cup {<<key[c], val[c]>>} /\ IsFiniteSet(tried')
      /\ \A t \in tried' : t[2] \in 1..lives'
      /\ \A t, u \in tried' : t[2] = u[2] => t = u
      /\ Cardinality(Lost) \in Nat /\ Cardinality(Lost') \in Nat
      /\ Debt \in Nat /\ Debt' \in Nat
      /\ Cardinality(Lost') + Debt' <=
           Cardinality(Lost) + Debt + (IF how = "line" THEN 0 ELSE 2)
  BY <1>1, <1>2, <1>3, EntryWritten
<1>5. failures \in Nat /\ crashes \in Nat
  BY DEF IInv, Handle
<1>6. Handle'
  BY <1>1, <1>3, <1>5
<1>7. Numbering'
  BY <1>3, <1>4 DEF Numbering
<1>8. Kept'
  BY <1>3, <1>4 DEF IInv, Kept
<1>9. Account'
  BY <1>1, <1>3, <1>4, <1>5 DEF IInv, Account
<1> QED  BY <1>4, <1>6, <1>7, <1>8, <1>9 DEF IInv

LEMMA NothingStep ==
  ASSUME IInv, UNCHANGED vars
  PROVE  IInv'
<1> USE DEF vars, handle, calls, bounds, history
<1>1. UNCHANGED <<disk, tried>>
  OBVIOUS
<1>2. /\ Shape' /\ Lost' = Lost /\ Debt' = Debt
      /\ \A v : Safe(v) => Safe(v)'
  BY <1>1, DiskStands DEF IInv
<1>3. Handle'
  BY DEF IInv, Handle
<1>4. Numbering'
  BY DEF IInv, Numbering, Own
<1>5. Kept'
  BY <1>1, <1>2 DEF IInv, Kept, disk
<1>6. Account'
  BY <1>2 DEF IInv, Account
<1> QED  BY <1>2, <1>3, <1>4, <1>5, <1>6 DEF IInv

LEMMA StepIInv == IInv /\ [Next]_vars => IInv'
<1> SUFFICES ASSUME IInv, [Next]_vars  PROVE IInv'
  OBVIOUS
<1>1. CASE \E m \in Modes : Open(m)
  BY <1>1, OpenStep
<1>2. CASE \E i \in 1..MaxLive : DeleteLine(i)
  BY <1>2, DeleteStep
<1>3. CASE \E c \in Callers : \E r \in Requests : Replayed(c, r)
  BY <1>3, ReplayedStep
<1>4. CASE \E c \in Callers : \E r \in Requests : GoesLive(c, r)
  BY <1>4, GoesLiveStep
<1>5. CASE \E c \in Callers : LiveFails(c) \/ LiveAnswers(c)
  BY <1>5, LiveStep
<1>6. CASE \E c \in Callers : Record(c)
  BY <1>6, RecordStep
<1>7. CASE \E c \in Callers : DiesWriting(c)
  BY <1>7, DiesStep
<1>8. CASE Close
  BY <1>8, CloseStep
<1>9. CASE Exits
  BY <1>9, ExitStep
<1>10. CASE UNCHANGED vars
  BY <1>10, NothingStep
<1> QED
  BY <1>1, <1>2, <1>3, <1>4, <1>5, <1>6, <1>7, <1>8, <1>9, <1>10 DEF Next

LEMMA AlwaysIInv == Spec => []IInv
  BY InitIInv, StepIInv, PTL DEF Spec

-----------------------------------------------------------------------------
(* What is read of the file: a key's lines, in its order. *)

LEMMA LeastNumber ==
  ASSUME NEW S \in SUBSET Nat, S # {}
  PROVE  \E n \in S : \A m \in S : n <= m
<1> DEFINE R == {p \in Nat \X Nat : p[1] < p[2]}
<1>1. IsWellFoundedOn(R, Nat)
  BY NatLessThanWellFounded DEF OpToRel
<1> HIDE DEF R
<1>2. PICK n \in S : \A m \in S : ~(<<m, n>> \in R)
  BY <1>1, WFMin
<1>3. \A m \in S : ~(m < n)
  BY <1>2 DEF R
<1> QED BY <1>3

LEMMA Inductively ==
  ASSUME NEW S, 0 \in S, \A n \in Nat : n \in S => n + 1 \in S
  PROVE  \A n \in Nat : n \in S
<1> SUFFICES ASSUME Nat \ S # {} PROVE FALSE
  OBVIOUS
<1>1. PICK n \in Nat \ S : \A m \in Nat \ S : n <= m
  <2>1. Nat \ S \in SUBSET Nat
    OBVIOUS
  <2> QED BY <2>1, LeastNumber
<1>2. n # 0 /\ n - 1 \in Nat /\ n - 1 \in S
  BY <1>1
<1> QED BY <1>1, <1>2

Good(k, i) == file[i].ok /\ file[i].key = k

Further(k, read, i) == IF Good(k, i) THEN Append(read, file[i]) ELSE read

(* The reading so far, up to line n. *)
Reads(k, n, read) ==
  read = [i \in 0..n |-> IF i = 0 THEN <<>> ELSE Further(k, read[i - 1], i)]

LEMMA ReadsExists ==
  ASSUME NEW k
  PROVE  \A n \in Nat : \E read : Reads(k, n, read)
<1> DEFINE N == {n \in Nat : \E read : Reads(k, n, read)}
<1>1. 0 \in N
  <2>1. Reads(k, 0, [i \in 0..0 |-> <<>>])
    BY DEF Reads
  <2> QED BY <2>1
<1>2. ASSUME NEW n \in Nat, n \in N PROVE n + 1 \in N
  <2>1. PICK r : Reads(k, n, r)
    BY <1>2
  <2> DEFINE g == [i \in 0..(n + 1) |-> IF i = 0 THEN <<>> ELSE Further(k, r[i - 1], i)]
  <2>0. g = [i \in 0..(n + 1) |-> IF i = 0 THEN <<>> ELSE Further(k, r[i - 1], i)]
    OBVIOUS
  <2> HIDE DEF g
  <2>2. \A i \in 0..n : r[i] = g[i]
    <3>1. r[0] = <<>> /\ \A i \in 1..n : r[i] = Further(k, r[i - 1], i)
      BY <2>1 DEF Reads
    <3>2. g[0] = <<>> /\ \A i \in 1..n : g[i] = Further(k, r[i - 1], i)
      BY <2>0
    <3>3. \A i \in 0..n : i = 0 \/ i \in 1..n
      OBVIOUS
    <3> QED BY <3>1, <3>2, <3>3
  <2>3. g = [i \in 0..(n + 1) |-> IF i = 0 THEN <<>> ELSE Further(k, g[i - 1], i)]
    <3>1. \A i \in 0..(n + 1) : i # 0 => g[i - 1] = r[i - 1]
      BY <2>2
    <3> QED BY <2>0, <3>1
  <2>4. Reads(k, n + 1, g)
    BY <2>3 DEF Reads
  <2> QED BY <2>4
<1> HIDE DEF N
<1>3. \A n \in Nat : n \in N
  BY <1>1, <1>2, Inductively
<1> QED BY <1>3 DEF N

LEMMA LinesAreRead ==
  ASSUME NEW k, Len(file) \in Nat
  PROVE  \E read : /\ read[0] = <<>>
                   /\ \A i \in 1..Len(file) : read[i] = Further(k, read[i - 1], i)
                   /\ LinesOf(k) = read[Len(file)]
<1> DEFINE read == CHOOSE read : Reads(k, Len(file), read)
<1>1. Reads(k, Len(file), read)
  BY ReadsExists
<1>2. LinesOf(k) = read[Len(file)]
  BY DEF LinesOf, Reads, Further, Good
<1> HIDE DEF read
<1>3. read[0] = <<>> /\ \A i \in 1..Len(file) : read[i] = Further(k, read[i - 1], i)
  BY <1>1 DEF Reads
<1> QED BY <1>2, <1>3

-----------------------------------------------------------------------------
(* Sorting does not move what is in order already. *)
LEMMA SortedStands ==
  ASSUME NEW s, NEW m \in Nat, DOMAIN s = 1..m,
         \A i \in 1..m : s[i].seq \in Nat,
         \A i, j \in 1..m : i < j => s[i].seq <= s[j].seq
  PROVE  DOMAIN Sorted(s) = 1..m /\ \A n \in 1..m : Sorted(s)[n] = s[n]
<1> DEFINE before(i, j) == \/ s[i].seq < s[j].seq
                           \/ s[i].seq = s[j].seq /\ i < j
           rank(i) == Cardinality({j \in 1..m : before(j, i)})
<1>1. Sorted(s) = [n \in 1..m |-> s[CHOOSE i \in 1..m : rank(i) = n - 1]]
  BY DEF Sorted
<1>2. ASSUME NEW i \in 1..m  PROVE rank(i) = i - 1
  <2>1. ASSUME NEW j \in 1..m  PROVE before(j, i) <=> j < i
    <3>1. CASE j < i
      <4>1. s[j].seq <= s[i].seq
        BY <3>1
      <4> QED BY <3>1, <4>1
    <3>2. CASE j = i
      BY <3>2
    <3>3. CASE j > i
      <4>1. s[i].seq <= s[j].seq
        BY <3>3
      <4> QED BY <3>3, <4>1
    <3> QED BY <3>1, <3>2, <3>3
  <2> HIDE DEF before
  <2>2. {j \in 1..m : before(j, i)} = {j \in 1..m : j < i}
    BY <2>1
  <2>3. {j \in 1..m : j < i} = 1..(i - 1)
    OBVIOUS
  <2>4. Cardinality(1..(i - 1)) = i - 1
    BY FS_Interval
  <2> QED BY <2>2, <2>3, <2>4
<1> HIDE DEF rank
<1>3. ASSUME NEW n \in 1..m  PROVE (CHOOSE i \in 1..m : rank(i) = n - 1) = n
  <2>1. rank(n) = n - 1
    BY <1>2
  <2>2. \A i \in 1..m : rank(i) = n - 1 => i = n
    BY <1>2
  <2> QED BY <2>1, <2>2
<1> QED BY <1>1, <1>3
-----------------------------------------------------------------------------
(* The second invariant: in what order the file is, and how far a replay   *)
(* has come.                                                               *)

LostOf(k) == {t \in Lost : t[1] = k}
TriedOf(k) == {t \in tried : t[1] = k}

Few(k) == Cardinality(LostOf(k)) < 2

(* A line's number is less than the number of its key's appends, and while *)
(* few are lost the numbers do not fall.                                   *)
Lines ==
  /\ \A i \in 1..Len(file) :
       /\ file[i].seq \in Nat /\ <<file[i].key, file[i].val>> \in tried
       /\ file[i].seq + 1 <= Cardinality(TriedOf(file[i].key))
  /\ \A i, j \in 1..Len(file) : i < j =>
       /\ file[i].val # file[j].val
       /\ \A k \in Keys : Good(k, i) /\ Good(k, j) /\ Few(k) => file[i].seq <= file[j].seq

(* Nor will the next one be lower. *)
Nexts ==
  up => \A k \in Keys :
          /\ next[k] \in Nat /\ next[k] <= Cardinality(TriedOf(k))
          /\ Few(k) => \A i \in 1..Len(file) : Good(k, i) => file[i].seq <= next[k]

At(k, j) == IF j < Len(loaded[k]) THEN j ELSE Len(loaded[k])

Replay(k) ==
  /\ \E S : loaded[k] \in Seq(S) /\ past[k] \in Seq(S) /\ taken[k] \in Seq(S)
  /\ Len(loaded[k]) = Len(past[k])
  /\ cursor[k] = At(k, Len(taken[k]))
  /\ \A j \in 1..Len(taken[k]) : taken[k][j] = loaded[k][At(k, j)]
  /\ \A c \in Callers : mode = "auto" /\ pc[c] # "idle" /\ key[c] = k => loaded[k] = <<>>

Replays ==
  /\ DOMAIN cursor = Keys /\ DOMAIN taken = Keys /\ DOMAIN next = Keys
  /\ \A c \in Callers : pc[c] # "idle" => key[c] \in Keys
  /\ \A k \in Keys : Replay(k)

Faithful == \A k \in Keys : Few(k) => loaded[k] = past[k]

Order == Lines /\ Nexts /\ Replays /\ Faithful

LEMMA InitOrder == Init => Order
<1> SUFFICES ASSUME Init PROVE Order
  OBVIOUS
<1>1. file = <<>> /\ ~up /\ Len(<<>>) = 0 /\ <<>> \in Seq({})
  BY DEF Init
<1>2. Lines /\ Nexts /\ Faithful
  BY <1>1 DEF Lines, Nexts, Faithful, Init
<1>3. \A c \in Callers : pc[c] = "idle"
  BY DEF Init
<1>4. /\ DOMAIN cursor = Keys /\ DOMAIN taken = Keys /\ DOMAIN next = Keys
      /\ \A k \in Keys : loaded[k] = <<>> /\ past[k] = <<>> /\ taken[k] = <<>> /\ cursor[k] = 0
  BY DEF Init, None
<1>5. ASSUME NEW k \in Keys PROVE Replay(k)
  <2>1. loaded[k] = <<>> /\ past[k] = <<>> /\ taken[k] = <<>> /\ cursor[k] = 0
    BY <1>4
  <2>2. \E S : <<>> \in Seq(S)
    BY <1>1
  <2>3. At(k, Len(taken[k])) = 0 /\ 1..Len(taken[k]) = {}
    BY <1>1, <2>1 DEF At
  <2> QED BY <1>3, <2>1, <2>2, <2>3 DEF Replay
<1> QED BY <1>2, <1>3, <1>4, <1>5 DEF Order, Replays

LEMMA Counts ==
  ASSUME Numbering, NEW k
  PROVE  /\ IsFiniteSet(LostOf(k)) /\ Cardinality(LostOf(k)) \in Nat
         /\ IsFiniteSet(TriedOf(k)) /\ Cardinality(TriedOf(k)) \in Nat
<1>1. LostOf(k) \subseteq tried /\ TriedOf(k) \subseteq tried /\ IsFiniteSet(tried)
  BY DEF LostOf, Lost, TriedOf, Numbering
<1> QED BY <1>1, FS_Subset, FS_CardinalityType

(* What is lost stays so. *)
LEMMA LostStays ==
  ASSUME Numbering, Numbering', tried \subseteq tried',
         \A t \in tried : Readable(t[2])' => Readable(t[2])
  PROVE  \A k : /\ Cardinality(LostOf(k)) <= Cardinality(LostOf(k)')
                /\ Few(k)' => Few(k)
<1> SUFFICES ASSUME NEW k PROVE Cardinality(LostOf(k)) <= Cardinality(LostOf(k)') /\ (Few(k)' => Few(k))
  OBVIOUS
<1>1. LostOf(k) \subseteq LostOf(k)'
  BY DEF LostOf, Lost
<1>2. IsFiniteSet(LostOf(k)') /\ Cardinality(LostOf(k)') \in Nat /\ Cardinality(LostOf(k)) \in Nat
  <2>1. IsFiniteSet(tried') /\ LostOf(k)' \subseteq tried'
    BY DEF LostOf, Lost, Numbering
  <2>2. IsFiniteSet(LostOf(k)')
    BY <2>1, FS_Subset
  <2> QED BY <2>2, Counts, FS_CardinalityType
<1>3. Cardinality(LostOf(k)) <= Cardinality(LostOf(k)')
  BY <1>1, <1>2, FS_Subset
<1> QED BY <1>2, <1>3 DEF Few

(* A step that leaves the disk alone. *)
LEMMA OrderStands ==
  ASSUME Order, UNCHANGED <<disk, tried>>
  PROVE  /\ Lines' /\ \A k : (Few(k)' <=> Few(k)) /\ TriedOf(k)' = TriedOf(k)
         /\ UNCHANGED <<up, next>> => Nexts'
         /\ UNCHANGED <<loaded, past>> => Faithful'
<1>1. file' = file /\ tried' = tried
  BY DEF disk
<1>2. \A k : (Few(k)' <=> Few(k)) /\ TriedOf(k)' = TriedOf(k)
  BY <1>1 DEF Few, TriedOf, LostOf, Lost, Readable
<1>3. Lines'
  BY <1>1, <1>2 DEF Order, Lines, Good
<1>4. UNCHANGED <<up, next>> => Nexts'
  BY <1>1, <1>2 DEF Order, Nexts, Good
<1>5. UNCHANGED <<loaded, past>> => Faithful'
  BY <1>2 DEF Order, Faithful
<1> QED BY <1>2, <1>3, <1>4, <1>5

-----------------------------------------------------------------------------
(* Opening: what is read, and how much. *)

(* The answers under a key that lines 1 to i hold. *)
Seen(k, i) == {t \in TriedOf(k) : \E j \in 1..i : file[j].ok /\ file[j].val = t[2]}

LEMMA SeenMore ==
  ASSUME IInv, Lines, NEW k, NEW i \in 1..Len(file)
  PROVE  /\ IsFiniteSet(Seen(k, i - 1)) /\ Cardinality(Seen(k, i - 1)) \in Nat
         /\ Cardinality(Seen(k, i)) =
              Cardinality(Seen(k, i - 1)) + (IF Good(k, i) THEN 1 ELSE 0)
<1> DEFINE t0 == <<file[i].key, file[i].val>>
<1>1. Len(file) \in Nat /\ Numbering
  BY FileDomain DEF IInv
<1>2. IsFiniteSet(Seen(k, i - 1)) /\ Cardinality(Seen(k, i - 1)) \in Nat
  <2>1. Seen(k, i - 1) \subseteq TriedOf(k)
    BY DEF Seen
  <2> QED BY <1>1, <2>1, Counts, FS_Subset, FS_CardinalityType
<1>3. t0 \in tried /\ t0[1] = file[i].key /\ t0[2] = file[i].val
  BY DEF Lines
<1>4. \A t \in tried : t[2] = file[i].val => t = t0
  BY <1>1, <1>3 DEF Numbering
<1>5. \A j \in 1..i : j = i \/ j \in 1..(i - 1)
  BY <1>1
<1>6. 1..(i - 1) \subseteq 1..i /\ i \in 1..i
  BY <1>1
<1> HIDE DEF t0
<1>7. CASE Good(k, i)
  <2>1. Seen(k, i) = Seen(k, i - 1) \cup {t0}
    <3>1. ASSUME NEW t \in Seen(k, i) PROVE t \in Seen(k, i - 1) \cup {t0}
      <4>1. PICK j \in 1..i : file[j].ok /\ file[j].val = t[2]
        BY <3>1 DEF Seen
      <4>2. t \in TriedOf(k) /\ t \in tried
        BY <3>1 DEF Seen, TriedOf
      <4>3. CASE j = i
        BY <1>4, <4>1, <4>2, <4>3
      <4>4. CASE j \in 1..(i - 1)
        BY <4>1, <4>2, <4>4 DEF Seen
      <4> QED BY <1>5, <4>3, <4>4
    <3>2. ASSUME NEW t \in Seen(k, i - 1) PROVE t \in Seen(k, i)
      BY <1>6, <3>2 DEF Seen
    <3>3. t0 \in Seen(k, i)
      BY <1>3, <1>6, <1>7 DEF Seen, TriedOf, Good
    <3> QED BY <3>1, <3>2, <3>3
  <2>2. t0 \notin Seen(k, i - 1)
    <3>1. ASSUME NEW j \in 1..(i - 1) PROVE file[j].val # file[i].val
      <4>1. j \in 1..Len(file) /\ j < i
        BY <1>1
      <4> QED BY <4>1 DEF Lines
    <3> QED BY <1>3, <3>1 DEF Seen
  <2> QED BY <1>2, <1>7, <2>1, <2>2, FS_AddElement
<1>8. CASE ~Good(k, i)
  <2>1. ASSUME NEW t \in Seen(k, i) PROVE t \in Seen(k, i - 1)
    <3>1. PICK j \in 1..i : file[j].ok /\ file[j].val = t[2]
      BY <2>1 DEF Seen
    <3>2. t \in TriedOf(k) /\ t \in tried /\ t[1] = k
      BY <2>1 DEF Seen, TriedOf
    <3>3. j # i
      <4> SUFFICES ASSUME j = i PROVE FALSE
        OBVIOUS
      <4>1. t = t0
        BY <1>4, <3>1, <3>2
      <4> QED BY <1>3, <1>8, <3>1, <3>2, <4>1 DEF Good
    <3> QED BY <1>5, <3>1, <3>2, <3>3 DEF Seen
  <2>2. Seen(k, i) = Seen(k, i - 1)
    BY <1>6, <2>1 DEF Seen
  <2> QED BY <1>2, <1>8, <2>2
<1> QED BY <1>2, <1>7, <1>8

(* What can be read and what is lost is all that was tried. *)
LEMMA SeenAll ==
  ASSUME IInv, NEW k
  PROVE  Cardinality(Seen(k, Len(file))) + Cardinality(LostOf(k)) = Cardinality(TriedOf(k))
<1> DEFINE A == Seen(k, Len(file))
           B == LostOf(k)
<1>1. DOMAIN file = 1..Len(file) /\ Numbering
  BY FileDomain DEF IInv
<1>2. A = {t \in TriedOf(k) : Readable(t[2])}
  BY <1>1 DEF Seen, Readable
<1>3. B = {t \in TriedOf(k) : ~Readable(t[2])}
  BY DEF LostOf, Lost, TriedOf
<1>4. A \cup B = TriedOf(k) /\ A \cap B = {} /\ A \subseteq TriedOf(k)
  BY <1>2, <1>3
<1>5. /\ IsFiniteSet(A) /\ IsFiniteSet(B) /\ Cardinality(A) \in Nat
      /\ Cardinality(B) \in Nat
  BY <1>1, <1>4, Counts, FS_Subset, FS_CardinalityType
<1> HIDE DEF A, B
<1>6. Cardinality(A \cup B) = Cardinality(A) + Cardinality(B) - Cardinality(A \cap B)
  BY <1>5, FS_Union
<1>7. Cardinality({}) = 0
  BY FS_EmptySet
<1>8. Cardinality(A) + Cardinality(B) = Cardinality(TriedOf(k))
  <2>1. Cardinality(A \cap B) = 0
    BY <1>4, <1>7, Zenon
  <2>2. Cardinality(A \cup B) = Cardinality(TriedOf(k))
    BY <1>4, Zenon
  <2> QED BY <1>5, <1>6, <2>1, <2>2
<1> QED BY <1>8 DEF A, B

(* A key's lines as they are read. *)
Read(k, i, s) ==
  /\ \E S : s \in Seq(S)
  /\ Len(s) = Cardinality(Seen(k, i))
  /\ \A m \in 1..Len(s) : \E j \in 1..i : Good(k, j) /\ s[m] = file[j]
  /\ k \in Keys /\ Few(k) => \A a, b \in 1..Len(s) : a < b => s[a].seq <= s[b].seq

LEMMA ReadFurther ==
  ASSUME IInv, Lines, NEW k, NEW i \in 1..Len(file), NEW s, Read(k, i - 1, s)
  PROVE  Read(k, i, Further(k, s, i))
<1>1. /\ Len(file) \in Nat /\ i - 1 \in Nat /\ 1..(i - 1) \subseteq 1..i
      /\ i \in 1..i /\ 1..(i - 1) \subseteq 1..Len(file)
      /\ \A j \in 1..(i - 1) : j < i
  BY FileDomain DEF IInv
<1>2. PICK S : s \in Seq(S)
  BY DEF Read
<1>3. CASE Good(k, i)
  <2> DEFINE x == file[i]
             u == Append(s, x)
  <2>1. s \in Seq(S \cup {x}) /\ x \in S \cup {x}
    BY <1>2, SeqMonotonic
  <2>2. Len(s) \in Nat
    BY <1>2, LenProperties
  <2>3. /\ u \in Seq(S \cup {x}) /\ Len(u) = Len(s) + 1 /\ u[Len(s) + 1] = x
        /\ \A a \in 1..Len(s) : u[a] = s[a]
    BY <2>1, AppendProperties
  <2> HIDE DEF u
  <2>4. Len(u) = Cardinality(Seen(k, i))
    BY <1>3, <2>3, SeenMore DEF Read
  <2>5. ASSUME NEW m \in 1..Len(u) PROVE \E j \in 1..i : Good(k, j) /\ u[m] = file[j]
    <3>1. CASE m = Len(s) + 1
      BY <1>1, <1>3, <2>3, <3>1
    <3>2. CASE m # Len(s) + 1
      <4>1. m \in 1..Len(s)
        BY <2>2, <2>3, <3>2
      <4>2. PICK j \in 1..(i - 1) : Good(k, j) /\ s[m] = file[j]
        BY <4>1 DEF Read
      <4> QED BY <1>1, <2>3, <4>1, <4>2
    <3> QED BY <3>1, <3>2
  <2>6. ASSUME k \in Keys, Few(k), NEW a \in 1..Len(u), NEW b \in 1..Len(u), a < b
        PROVE  u[a].seq <= u[b].seq
    <3>1. a \in 1..Len(s)
      BY <2>2, <2>3, <2>6
    <3>2. CASE b = Len(s) + 1
      <4>1. PICK j \in 1..(i - 1) : Good(k, j) /\ s[a] = file[j]
        BY <3>1 DEF Read
      <4>2. file[j].seq <= file[i].seq
        BY <1>1, <1>3, <2>6, <4>1 DEF Lines
      <4> QED BY <2>3, <3>1, <3>2, <4>1, <4>2
    <3>3. CASE b # Len(s) + 1
      <4>1. b \in 1..Len(s)
        BY <2>2, <2>3, <3>3
      <4> QED BY <2>3, <2>6, <3>1, <4>1 DEF Read
    <3> QED BY <3>2, <3>3
  <2>7. Read(k, i, u)
    BY <2>3, <2>4, <2>5, <2>6 DEF Read
  <2> QED BY <1>3, <2>7 DEF Further, u
<1>4. CASE ~Good(k, i)
  <2>1. Len(s) = Cardinality(Seen(k, i))
    BY <1>4, SeenMore DEF Read
  <2>2. \A m \in 1..Len(s) : \E j \in 1..i : Good(k, j) /\ s[m] = file[j]
    BY <1>1 DEF Read
  <2>3. Read(k, i, s)
    BY <1>2, <2>1, <2>2 DEF Read
  <2> QED BY <1>4, <2>3 DEF Further
<1> QED BY <1>3, <1>4

LEMMA LinesRead ==
  ASSUME IInv, Lines, NEW k
  PROVE  Read(k, Len(file), LinesOf(k))
<1> DEFINE n == Len(file)
<1>1. n \in Nat
  BY FileDomain DEF IInv
<1>2. PICK read : /\ read[0] = <<>>
                  /\ \A i \in 1..n : read[i] = Further(k, read[i - 1], i)
                  /\ LinesOf(k) = read[n]
  BY <1>1, LinesAreRead
<1> HIDE DEF n
<1> DEFINE N == {i \in Nat : i <= n => Read(k, i, read[i])}
<1>3. 0 \in N
  <2>1. <<>> \in Seq({}) /\ Len(<<>>) = 0 /\ 1..0 = {}
    OBVIOUS
  <2>2. Seen(k, 0) = {} /\ Cardinality({}) = 0
    BY <2>1, FS_EmptySet DEF Seen
  <2>3. Read(k, 0, <<>>)
    BY <2>1, <2>2 DEF Read
  <2> QED BY <1>2, <2>3
<1>4. ASSUME NEW i \in Nat, i \in N PROVE i + 1 \in N
  <2> SUFFICES ASSUME i + 1 <= n PROVE Read(k, i + 1, read[i + 1])
    OBVIOUS
  <2>1. i + 1 \in 1..n /\ (i + 1) - 1 = i /\ Read(k, i, read[i])
    BY <1>1, <1>4
  <2>2. read[i + 1] = Further(k, read[i], i + 1)
    BY <1>2, <2>1
  <2>3. Read(k, i + 1, Further(k, read[i], i + 1))
    BY <2>1, ReadFurther DEF n
  <2> QED BY <2>2, <2>3
<1> HIDE DEF N
<1>5. n \in N
  BY <1>1, <1>3, <1>4, Inductively
<1> QED BY <1>1, <1>2, <1>5 DEF N, n

LEMMA IsASequence ==
  ASSUME NEW n \in Nat, NEW T, NEW s \in [1..n -> T]
  PROVE  s \in Seq(T)
BY SeqDef

LEMMA LengthOf ==
  ASSUME NEW T, NEW s \in Seq(T), NEW n \in Nat, DOMAIN s = 1..n
  PROVE  Len(s) = n
BY LenProperties

(* What is read in order is sorted already. *)
LEMMA ReadSorted ==
  ASSUME IInv, Lines, NEW k
  PROVE  /\ \E S : Answers(Sorted(LinesOf(k))) \in Seq(S) /\ Answers(LinesOf(k)) \in Seq(S)
         /\ Len(Answers(Sorted(LinesOf(k)))) = Len(Answers(LinesOf(k)))
         /\ k \in Keys /\ Few(k) => Answers(Sorted(LinesOf(k))) = Answers(LinesOf(k))
<1> DEFINE s == LinesOf(k)
           u == Sorted(s)
           m == Len(s)
           A == Answers(s)
           B == Answers(u)
<1>1. Read(k, Len(file), s)
  BY LinesRead
<1> HIDE DEF s
<1>2. PICK S : s \in Seq(S)
  BY <1>1 DEF Read
<1>3. m \in Nat /\ DOMAIN s = 1..m
  BY <1>2, LenProperties
<1>4. DOMAIN u = 1..m
  BY <1>3 DEF Sorted
<1> HIDE DEF m, u
<1>5. A = [i \in 1..m |-> s[i].val] /\ B = [i \in 1..m |-> u[i].val]
  BY <1>3, <1>4 DEF Answers
<1> HIDE DEF A, B
<1>6. \E T : A \in Seq(T) /\ B \in Seq(T)
  <2> DEFINE T == {s[i].val : i \in 1..m} \cup {u[i].val : i \in 1..m}
  <2>1. A \in [1..m -> T] /\ B \in [1..m -> T]
    BY <1>5
  <2> HIDE DEF T
  <2>2. A \in Seq(T) /\ B \in Seq(T)
    BY <1>3, <2>1, IsASequence
  <2> QED BY <2>2
<1>7. Len(A) = m /\ Len(B) = m
  <2>1. DOMAIN A = 1..m /\ DOMAIN B = 1..m
    BY <1>5
  <2> QED BY <1>3, <1>6, <2>1, LengthOf
<1>8. k \in Keys /\ Few(k) => B = A
  <2> SUFFICES ASSUME k \in Keys, Few(k) PROVE B = A
    OBVIOUS
  <2>1. \A i \in 1..m : s[i].seq \in Nat
    <3> SUFFICES ASSUME NEW i \in 1..m PROVE s[i].seq \in Nat
      OBVIOUS
    <3>1. PICK j \in 1..Len(file) : s[i] = file[j]
      BY <1>1 DEF Read, m
    <3> QED BY <3>1 DEF Lines
  <2>2. \A i, j \in 1..m : i < j => s[i].seq <= s[j].seq
    BY <1>1 DEF Read, m
  <2>3. \A i \in 1..m : u[i] = s[i]
    BY <1>3, <2>1, <2>2, SortedStands DEF u
  <2> QED BY <1>5, <2>3
<1> QED BY <1>6, <1>7, <1>8 DEF A, B, u, s

LEMMA OpenOrder ==
  ASSUME IInv, Order, NEW m \in Modes, Open(m)
  PROVE  Order'
<1>1. /\ UNCHANGED <<disk, tried>> /\ ~up /\ up' /\ UNCHANGED <<pc, key>>
      /\ loaded' = [k \in Keys |-> Answers(Sorted(LinesOf(k)))]
      /\ past' = [k \in Keys |-> Answers(LinesOf(k))]
      /\ cursor' = [k \in Keys |-> 0] /\ next' = [k \in Keys |-> Len(LinesOf(k))]
      /\ taken' = [k \in Keys |-> <<>>]
  BY DEF Open, calls, Seed, None
<1>2. Lines /\ Numbering /\ Handle /\ Replays
  BY DEF Order, IInv
<1>3. /\ Lines' /\ \A k : (Few(k)' <=> Few(k)) /\ TriedOf(k)' = TriedOf(k)
      /\ file' = file
  BY <1>1, OrderStands DEF disk
<1>4. \A c \in Callers : pc'[c] = "idle"
  BY <1>1, <1>2 DEF Handle
<1>5. Nexts'
  <2> SUFFICES ASSUME NEW k \in Keys
               PROVE  /\ next'[k] \in Nat /\ next'[k] <= Cardinality(TriedOf(k))
                      /\ Few(k) => \A i \in 1..Len(file) : Good(k, i) => file[i].seq <= next'[k]
    BY <1>3 DEF Nexts, Good
  <2>1. next'[k] = Cardinality(Seen(k, Len(file)))
    BY <1>1, <1>2, LinesRead DEF Read
  <2>2. Cardinality(Seen(k, Len(file))) + Cardinality(LostOf(k)) = Cardinality(TriedOf(k))
    BY SeenAll
  <2>3. Cardinality(LostOf(k)) \in Nat /\ Cardinality(TriedOf(k)) \in Nat
    BY <1>2, Counts
  <2>4. next'[k] \in Nat
    <3>1. \E S : LinesOf(k) \in Seq(S)
      BY <1>2, LinesRead DEF Read
    <3> QED BY <1>1, <3>1, LenProperties
  <2>5. ASSUME Few(k), NEW i \in 1..Len(file), Good(k, i) PROVE file[i].seq <= next'[k]
    <3>1. file[i].seq \in Nat /\ file[i].seq + 1 <= Cardinality(TriedOf(k))
      BY <1>2, <2>5 DEF Lines, Good
    <3>2. Cardinality(LostOf(k)) < 2
      BY <2>5 DEF Few
    <3> QED BY <2>1, <2>2, <2>3, <2>4, <3>1, <3>2
  <2>6. next'[k] <= Cardinality(TriedOf(k))
    BY <2>1, <2>2, <2>3, <2>4
  <2> QED BY <2>4, <2>5, <2>6
<1>6. ASSUME NEW k \in Keys PROVE Replay(k)'
  <2> DEFINE A == Answers(Sorted(LinesOf(k)))
             B == Answers(LinesOf(k))
  <2>1. loaded'[k] = A /\ past'[k] = B /\ taken'[k] = <<>> /\ cursor'[k] = 0
    BY <1>1
  <2>2. PICK S : A \in Seq(S) /\ B \in Seq(S)
    BY <1>2, ReadSorted
  <2>3. Len(A) = Len(B)
    BY <1>2, ReadSorted
  <2> HIDE DEF A, B
  <2>4. Len(A) \in Nat /\ Len(<<>>) = 0 /\ <<>> \in Seq(S) /\ 1..0 = {}
    BY <2>2, LenProperties
  <2>5. cursor'[k] = At(k, Len(taken[k]))'
    BY <2>1, <2>4 DEF At
  <2> QED BY <1>4, <2>1, <2>2, <2>3, <2>4, <2>5 DEF Replay
<1>7. Replays'
  BY <1>1, <1>4, <1>6 DEF Replays
<1>8. Faithful'
  BY <1>1, <1>2, <1>3, ReadSorted DEF Faithful
<1> QED BY <1>3, <1>5, <1>7, <1>8 DEF Order

-----------------------------------------------------------------------------
(* What a line more, or the end of one, does to the order. *)

Old(i) ==
  /\ i \in 1..Len(file) /\ file'[i].key = file[i].key /\ file'[i].seq = file[i].seq
  /\ file'[i].val = file[i].val /\ (file'[i].ok => file[i].ok)

LEMMA WrittenAre ==
  ASSUME Shape, NEW e, e.val \in Nat, NEW how \in Hows, Writes(e, how)
  PROVE  /\ Len(file) \in Nat /\ Len(file') \in Nat
         /\ \A i \in 1..Len(file') :
              \/ Old(i)
              \/ /\ i = Len(file) + 1
                 /\ file'[i].key = e.key /\ file'[i].seq = e.seq /\ file'[i].val = e.val
<1> DEFINE n == Len(file)
<1>1. n \in Nat
  BY FileDomain
<1>2. CASE how = "nothing"
  <2>1. Writes(e, "nothing")
    BY <1>2
  <2>2. file' = file
    BY <2>1, WrittenNothing
  <2> QED BY <1>1, <2>2 DEF Old
<1>3. CASE how # "nothing" /\ ended
  <2>1. how \in {"line", "part", "unended"}
    BY <1>3 DEF Hows
  <2>2. /\ Len(file') = n + 1
        /\ \A i \in 1..n : file'[i] = file[i]
        /\ file'[n + 1].key = e.key /\ file'[n + 1].seq = e.seq /\ file'[n + 1].val = e.val
    BY <1>3, <2>1, WrittenBehind
  <2>3. \A i \in 1..(n + 1) : i = n + 1 \/ i \in 1..n
    BY <1>1
  <2> HIDE DEF n
  <2>4. ASSUME NEW i \in 1..n PROVE Old(i)
    BY <2>2, <2>4 DEF Old, n
  <2> QED BY <1>1, <2>2, <2>3, <2>4 DEF n
<1>4. CASE how # "nothing" /\ ~ended
  <2>1. how \in {"line", "part", "unended"}
    BY <1>4 DEF Hows
  <2>2. /\ Len(file') = n
        /\ \A i \in 1..(n - 1) : file'[i] = file[i]
        /\ ~file'[n].ok
        /\ file'[n].key = file[n].key /\ file'[n].seq = file[n].seq /\ file'[n].val = file[n].val
    BY <1>4, <2>1, WrittenGlued
  <2>3. \A i \in 1..n : i = n \/ i \in 1..(n - 1)
    BY <1>1
  <2> HIDE DEF n
  <2>4. ASSUME NEW i \in 1..n PROVE Old(i)
    BY <2>2, <2>3, <2>4 DEF Old, n
  <2> QED BY <1>1, <2>2, <2>4 DEF n
<1> QED BY <1>2, <1>3, <1>4

LEMMA TriedOfBoth ==
  ASSUME Numbering, Numbering', NEW k
  PROVE  /\ IsFiniteSet(TriedOf(k)) /\ Cardinality(TriedOf(k)) \in Nat
         /\ IsFiniteSet(TriedOf(k)') /\ Cardinality(TriedOf(k)') \in Nat
<1>1. IsFiniteSet(tried') /\ TriedOf(k)' \subseteq tried'
  BY DEF TriedOf, Numbering
<1>2. IsFiniteSet(TriedOf(k)')
  BY <1>1, FS_Subset
<1> QED BY <1>2, Counts, FS_CardinalityType

LEMMA OrderWritten ==
  ASSUME IInv, Order, Numbering', NEW c \in Callers, pc[c] = "record", up,
         NEW how \in Hows, Writes(Entry(c), how)
  PROVE  /\ Lines'
         /\ \A k : Few(k)' => Few(k)
         /\ \A k : Cardinality(TriedOf(k)) <= Cardinality(TriedOf(k)')
         /\ \A k : k = key[c] => Cardinality(TriedOf(k)') = Cardinality(TriedOf(k)) + 1
         /\ \A k \in Keys : Few(k)' =>
              \A i \in 1..Len(file') : Good(k, i)' => file'[i].seq <= next[k]
<1> DEFINE n == Len(file)
<1>0. PICK e, k0, v, s0 : e = Entry(c) /\ k0 = key[c] /\ v = val[c] /\ s0 = next[k0]
  OBVIOUS
<1>1. /\ Shape /\ Numbering /\ Lines /\ k0 \in Keys
      /\ e.key = k0 /\ e.seq = s0 /\ e.val = v /\ v \in Nat
  BY <1>0 DEF IInv, Order, Replays, Entry, Handle
<1>2. \A t \in tried : t[2] # v
  BY <1>0 DEF IInv, Numbering, Own
<1>3. tried' = tried \cup {<<k0, v>>}
  BY <1>0, <1>1 DEF Writes
<1>4. Writes(e, how)
  BY <1>0
<1>5. s0 \in Nat /\ s0 <= Cardinality(TriedOf(k0))
  BY <1>0, <1>1 DEF Order, Nexts
<1>6. /\ n \in Nat /\ Len(file') \in Nat
      /\ \A i \in 1..Len(file') :
           \/ Old(i)
           \/ /\ i = n + 1
              /\ file'[i].key = k0 /\ file'[i].seq = s0 /\ file'[i].val = v
  BY <1>1, <1>4, WrittenAre
<1>7. DOMAIN file = 1..n /\ DOMAIN file' = 1..Len(file')
  <2>1. Shape'
    BY <1>1, <1>4, WrittenNothing, WrittenBehind, WrittenGlued DEF Hows
  <2>2. PICK S : file' \in Seq(S)
    BY <2>1 DEF Shape
  <2> QED BY <1>1, <2>2, FileDomain, LenProperties
<1> HIDE DEF n
<1>8. \A k : Few(k)' => Few(k)
  <2>1. ASSUME NEW t \in tried, Readable(t[2])' PROVE Readable(t[2])
    <3>1. PICK i \in 1..Len(file') : file'[i].ok /\ file'[i].val = t[2]
      BY <1>7, <2>1 DEF Readable
    <3>2. Old(i)
      BY <1>2, <1>6, <3>1
    <3> QED BY <1>7, <3>1, <3>2 DEF Old, Readable, n
  <2> QED BY <1>1, <1>3, <2>1, LostStays
<1>9. \A k : Cardinality(TriedOf(k)) \in Nat /\ Cardinality(TriedOf(k)') \in Nat
  BY <1>1, TriedOfBoth
<1>10. \A k : Cardinality(TriedOf(k)) <= Cardinality(TriedOf(k)')
  <2> SUFFICES ASSUME NEW k PROVE Cardinality(TriedOf(k)) <= Cardinality(TriedOf(k)')
    OBVIOUS
  <2>1. TriedOf(k) \subseteq TriedOf(k)' /\ IsFiniteSet(TriedOf(k)')
    BY <1>1, <1>3, TriedOfBoth DEF TriedOf
  <2> QED BY <2>1, FS_Subset
<1>11. Cardinality(TriedOf(k0)') = Cardinality(TriedOf(k0)) + 1
  <2>1. TriedOf(k0)' = TriedOf(k0) \cup {<<k0, v>>}
    BY <1>3 DEF TriedOf
  <2>2. <<k0, v>> \notin TriedOf(k0) /\ IsFiniteSet(TriedOf(k0))
    BY <1>1, <1>2, Counts DEF TriedOf
  <2> QED BY <2>1, <2>2, FS_AddElement
<1>12. ASSUME NEW i \in 1..Len(file'), ~Old(i), NEW k \in Keys, Good(k, i)'
       PROVE  k = k0
  BY <1>6, <1>12 DEF Good
<1>13. ASSUME NEW k \in Keys, NEW i, Old(i), Good(k, i)' PROVE Good(k, i)
  BY <1>13 DEF Old, Good
<1>14. ASSUME NEW k \in Keys, Few(k)', NEW i \in 1..Len(file'), Good(k, i)'
       PROVE  file'[i].seq <= next[k]
  <2>1. CASE Old(i)
    <3>1. Good(k, i) /\ i \in 1..Len(file) /\ file'[i].seq = file[i].seq
      BY <1>13, <1>14, <2>1 DEF Old
    <3>2. Few(k)
      BY <1>8, <1>14
    <3> QED BY <3>1, <3>2 DEF Order, Nexts
  <2>2. CASE ~Old(i)
    BY <1>0, <1>5, <1>6, <1>12, <1>14, <2>2
  <2> QED BY <2>1, <2>2
<1>15. ASSUME NEW i \in 1..Len(file'), NEW k, k = file'[i].key
       PROVE  /\ file'[i].seq \in Nat /\ <<k, file'[i].val>> \in tried'
              /\ file'[i].seq + 1 <= Cardinality(TriedOf(k)')
  <2>1. CASE Old(i)
    <3>1. /\ file[i].key = k /\ file[i].seq \in Nat /\ <<k, file[i].val>> \in tried
          /\ file[i].seq + 1 <= Cardinality(TriedOf(k))
      BY <1>1, <1>15, <2>1 DEF Old, Lines
    <3>2. file'[i].seq = file[i].seq /\ file'[i].val = file[i].val
      BY <2>1 DEF Old
    <3>3. file[i].seq + 1 <= Cardinality(TriedOf(k)')
      BY <1>9, <1>10, <3>1
    <3> QED BY <1>3, <3>1, <3>2, <3>3
  <2>2. CASE ~Old(i)
    <3>1. k = k0 /\ file'[i].seq = s0 /\ file'[i].val = v
      BY <1>6, <1>15, <2>2
    <3>2. s0 + 1 <= Cardinality(TriedOf(k)')
      BY <1>5, <1>9, <1>11, <3>1
    <3> QED BY <1>3, <1>5, <3>1, <3>2
  <2> QED BY <2>1, <2>2
<1>16. ASSUME NEW i \in 1..Len(file'), NEW j \in 1..Len(file'), i < j
       PROVE  /\ file'[i].val # file'[j].val
              /\ \A k \in Keys :
                   Good(k, i)' /\ Good(k, j)' /\ Few(k)' => file'[i].seq <= file'[j].seq
  <2>1. Old(i)
    <3> SUFFICES ASSUME ~Old(i) PROVE FALSE
      OBVIOUS
    <3>1. i = n + 1
      BY <1>6
    <3>2. Old(j) => j <= n
      BY <1>6 DEF Old, n
    <3> QED BY <1>6, <1>16, <3>1, <3>2
  <2>2. /\ i \in 1..Len(file) /\ file'[i].seq = file[i].seq /\ file'[i].val = file[i].val
    BY <2>1 DEF Old
  <2>3. CASE Old(j)
    <3>1. /\ j \in 1..Len(file) /\ file'[j].seq = file[j].seq /\ file'[j].val = file[j].val
      BY <2>3 DEF Old
    <3>2. \A k \in Keys : Good(k, i)' /\ Good(k, j)' /\ Few(k)' =>
                            Good(k, i) /\ Good(k, j) /\ Few(k)
      BY <1>8, <1>13, <2>1, <2>3
    <3> QED BY <1>1, <1>16, <2>2, <3>1, <3>2 DEF Lines
  <2>4. CASE ~Old(j)
    <3>1. file'[j].seq = s0 /\ file'[j].val = v
      BY <1>6, <2>4
    <3>2. <<file[i].key, file[i].val>> \in tried
      BY <1>1, <2>2 DEF Lines
    <3>3. file[i].val # v
      BY <1>2, <3>2
    <3>4. ASSUME NEW k \in Keys, Good(k, i)', Good(k, j)', Few(k)'
          PROVE  file'[i].seq <= file'[j].seq
      <4>1. next[k] = s0
        BY <1>0, <1>12, <2>4, <3>4
      <4> QED BY <1>14, <3>1, <3>4, <4>1
    <3> QED BY <2>2, <3>1, <3>3, <3>4
  <2> QED BY <2>3, <2>4
<1>17. Lines'
  <2>1. ASSUME NEW i \in 1..Len(file')
        PROVE  /\ file'[i].seq \in Nat /\ <<file'[i].key, file'[i].val>> \in tried'
               /\ file'[i].seq + 1 <= Cardinality(TriedOf(file[i].key))'
    <3>1. PICK k : k = file'[i].key
      OBVIOUS
    <3>2. TriedOf(file[i].key)' = TriedOf(k)'
      BY <3>1 DEF TriedOf
    <3> QED BY <1>15, <3>1, <3>2
  <2> QED BY <1>16, <2>1 DEF Lines
<1> QED BY <1>0, <1>8, <1>10, <1>11, <1>14, <1>17

-----------------------------------------------------------------------------
(* The second invariant, step by step. *)

LEMMA DeleteOrder ==
  ASSUME IInv, Order, NEW i \in 1..MaxLive, DeleteLine(i)
  PROVE  Order'
<1> DEFINE n == Len(file)
           from(j) == IF j < i THEN j ELSE j + 1
<1>1. /\ ~up /\ ~up' /\ tried' = tried /\ i \in DOMAIN file /\ file' = RemoveAt(file, i)
      /\ UNCHANGED <<loaded, past, taken, cursor, next, mode, pc, key>>
  BY DEF DeleteLine, history, handle, calls
<1>2. Shape /\ Numbering /\ Lines /\ n \in Nat /\ i \in 1..n
  BY <1>1, FileDomain DEF IInv, Order
<1>3. PICK S : file \in Seq(S)
  BY <1>2 DEF Shape
<1>4. /\ file' \in Seq(S) /\ Len(file') = n - 1 /\ DOMAIN file' = 1..(n - 1)
      /\ \A j \in 1..(i - 1) : file'[j] = file[j]
      /\ \A j \in i..(n - 1) : file'[j] = file[j + 1]
  BY <1>1, <1>2, <1>3, Removed, LenProperties
<1> HIDE DEF n
<1>5. ASSUME NEW j \in 1..(n - 1)
      PROVE  from(j) \in 1..n /\ file'[j] = file[from(j)]
  <2>1. CASE j < i
    BY <1>2, <1>4, <2>1
  <2>2. CASE ~(j < i)
    <3>1. j \in i..(n - 1)
      BY <1>2, <2>2
    <3> QED BY <1>2, <1>4, <2>2, <3>1
  <2> QED BY <2>1, <2>2
<1>6. ASSUME NEW j \in 1..(n - 1), NEW l \in 1..(n - 1), j < l  PROVE from(j) < from(l)
  BY <1>2, <1>6
<1> HIDE DEF from
<1>7. \A k : Few(k)' => Few(k)
  <2>1. Numbering'
    BY <1>1, DeleteStep DEF IInv
  <2>2. ASSUME NEW v, Readable(v)' PROVE Readable(v)
    <3>1. PICK j \in 1..(n - 1) : file'[j].ok /\ file'[j].val = v
      BY <1>4, <2>2 DEF Readable
    <3>2. DOMAIN file = 1..n
      BY <1>2, FileDomain DEF n
    <3> QED BY <1>5, <3>1, <3>2 DEF Readable
  <2> QED BY <1>1, <1>2, <2>1, <2>2, LostStays
<1>8. Lines'
  <2>1. \A k : TriedOf(k)' = TriedOf(k)
    BY <1>1 DEF TriedOf
  <2>2. ASSUME NEW j \in 1..(n - 1)
        PROVE  /\ file'[j].seq \in Nat /\ <<file'[j].key, file'[j].val>> \in tried'
               /\ file'[j].seq + 1 <= Cardinality(TriedOf(file[j].key))'
    <3>1. PICK k : k = file'[j].key
      OBVIOUS
    <3>2. TriedOf(file[j].key)' = TriedOf(k)
      BY <1>1, <3>1 DEF TriedOf
    <3> QED BY <1>1, <1>2, <1>5, <3>1, <3>2 DEF Lines, n
  <2>3. ASSUME NEW j \in 1..(n - 1), NEW l \in 1..(n - 1), j < l
        PROVE  /\ file'[j].val # file'[l].val
               /\ \A k \in Keys :
                    Good(k, j)' /\ Good(k, l)' /\ Few(k)' => file'[j].seq <= file'[l].seq
    <3>1. PICK a, b \in 1..n : file'[j] = file[a] /\ file'[l] = file[b] /\ a < b
      BY <1>5, <1>6, <2>3
    <3>2. \A k : (Good(k, j)' <=> Good(k, a)) /\ (Good(k, l)' <=> Good(k, b))
      BY <3>1 DEF Good
    <3> QED BY <1>2, <1>7, <3>1, <3>2 DEF Lines, n
  <2> QED BY <1>4, <2>2, <2>3 DEF Lines
<1>9. Replays'
  BY <1>1 DEF Order, Replays, Replay, At
<1> QED BY <1>1, <1>7, <1>8, <1>9 DEF Order, Nexts, Faithful

LEMMA ReplayedOrder ==
  ASSUME IInv, Order, NEW c \in Callers, NEW r \in Requests, Replayed(c, r)
  PROVE  Order'
<1> DEFINE k0 == KeyOf(r)
           l == loaded[k0]
           i == IF cursor[k0] < Len(l) THEN cursor[k0] + 1 ELSE Len(l)
<1>1. /\ UNCHANGED <<disk, tried>> /\ UNCHANGED <<mode, up, loaded, past, next, pc, key>>
      /\ cursor' = [cursor EXCEPT ![k0] = i]
      /\ taken' = [taken EXCEPT ![k0] = Append(@, l[i])]
      /\ l # <<>>
  BY DEF Replayed, calls, Takes
<1>2. k0 \in Keys
  BY DEF Keys
<1>3. /\ DOMAIN cursor = Keys /\ DOMAIN taken = Keys /\ \A k \in Keys : Replay(k)
      /\ \A d \in Callers : pc[d] # "idle" => key[d] \in Keys /\ DOMAIN next = Keys
      /\ DOMAIN next = Keys
  BY DEF Order, Replays
<1> HIDE DEF k0
<1>4. Replay(k0)'
  <2>1. PICK S : l \in Seq(S) /\ past[k0] \in Seq(S) /\ taken[k0] \in Seq(S)
    BY <1>2, <1>3 DEF Replay
  <2> DEFINE t == taken[k0]
             x == l[i]
             u == Append(t, x)
  <2>2. Len(l) \in Nat /\ Len(l) # 0 /\ Len(t) \in Nat
    BY <1>1, <2>1, LenProperties, EmptySeq
  <2>3. cursor[k0] = IF Len(t) < Len(l) THEN Len(t) ELSE Len(l)
    BY <1>2, <1>3 DEF Replay, At
  <2>4. i = IF Len(t) + 1 < Len(l) THEN Len(t) + 1 ELSE Len(l)
    BY <2>2, <2>3
  <2> HIDE DEF i, l
  <2>5. t \in Seq(S \cup {x}) /\ x \in S \cup {x} /\ l \in Seq(S \cup {x})
        /\ past[k0] \in Seq(S \cup {x})
    BY <2>1, SeqMonotonic
  <2>6. /\ u \in Seq(S \cup {x}) /\ Len(u) = Len(t) + 1 /\ u[Len(t) + 1] = x
        /\ \A j \in 1..Len(t) : u[j] = t[j]
    BY <2>5, AppendProperties
  <2>7. taken'[k0] = u /\ cursor'[k0] = i /\ loaded'[k0] = l /\ past'[k0] = past[k0]
    BY <1>1, <1>2, <1>3 DEF l
  <2> HIDE DEF u
  <2>8. \A j : At(k0, j)' = At(k0, j) /\ At(k0, j) = IF j < Len(l) THEN j ELSE Len(l)
    BY <1>1 DEF At, l
  <2>9. ASSUME NEW j \in 1..Len(u) PROVE u[j] = l[At(k0, j)]
    <3>1. CASE j = Len(t) + 1
      BY <2>4, <2>6, <2>8, <3>1
    <3>2. CASE j # Len(t) + 1
      <4>1. j \in 1..Len(t)
        BY <2>2, <2>6, <3>2
      <4>2. t[j] = l[At(k0, j)]
        BY <1>2, <1>3, <4>1 DEF Replay, l
      <4> QED BY <2>6, <4>1, <4>2
    <3> QED BY <3>1, <3>2
  <2>10. cursor'[k0] = At(k0, Len(taken'[k0]))
    BY <2>4, <2>6, <2>7, <2>8
  <2>11. \A d \in Callers : mode' = "auto" /\ pc'[d] # "idle" /\ key'[d] = k0 => l = <<>>
    BY <1>1, <1>2, <1>3 DEF Replay, l
  <2>12. Len(l) = Len(past[k0])
    BY <1>2, <1>3 DEF Replay, l
  <2> QED BY <2>5, <2>6, <2>7, <2>8, <2>9, <2>10, <2>11, <2>12 DEF Replay
<1>5. ASSUME NEW k \in Keys, k # k0 PROVE Replay(k)'
  <2>1. /\ taken'[k] = taken[k] /\ cursor'[k] = cursor[k] /\ loaded'[k] = loaded[k]
        /\ past'[k] = past[k] /\ \A j : At(k, j)' = At(k, j)
    BY <1>1, <1>3, <1>5 DEF At
  <2> QED BY <1>1, <1>3, <2>1 DEF Replay
<1>6. Replays'
  <2>1. DOMAIN cursor' = Keys /\ DOMAIN taken' = Keys
    BY <1>1, <1>3
  <2> QED BY <1>1, <1>3, <1>4, <1>5, <2>1 DEF Replays
<1> QED BY <1>1, <1>6, OrderStands DEF Order

LEMMA GoesLiveOrder ==
  ASSUME IInv, Order, NEW c \in Callers, NEW r \in Requests, GoesLive(c, r)
  PROVE  Order'
<1>1. /\ UNCHANGED <<disk, tried>>
      /\ UNCHANGED <<mode, up, loaded, past, taken, cursor, next>>
      /\ pc' = [pc EXCEPT ![c] = "live"] /\ key' = [key EXCEPT ![c] = KeyOf(r)]
      /\ mode = "auto" => loaded[KeyOf(r)] = <<>>
  BY DEF GoesLive, handle, history, Takes
<1>2. KeyOf(r) \in Keys /\ DOMAIN key = Callers /\ DOMAIN pc = Callers
  BY DEF Keys, IInv, Handle
<1>3. ASSUME NEW k \in Keys PROVE Replay(k)'
  BY <1>1, <1>2 DEF Order, Replays, Replay, At
<1>4. Replays'
  BY <1>1, <1>2, <1>3 DEF Order, Replays
<1> QED BY <1>1, <1>4, OrderStands DEF Order

(* Calls come back, the tape is closed, the process goes on: whatever      *)
(* leaves the disk and the replay alone and starts no call.                *)
LEMMA QuietOrder ==
  ASSUME Order, UNCHANGED <<disk, tried>>, UNCHANGED <<loaded, past, taken, cursor, next>>,
         UNCHANGED <<mode, up, key>>, \A c \in Callers : pc[c] = "idle" => pc'[c] = "idle"
  PROVE  Order'
<1>1. ASSUME NEW k \in Keys PROVE Replay(k)'
  BY DEF Order, Replays, Replay, At
<1>2. Replays'
  BY <1>1 DEF Order, Replays
<1> QED BY <1>2, OrderStands DEF Order

LEMMA RecordOrder ==
  ASSUME IInv, Order, NEW c \in Callers, Record(c)
  PROVE  Order'
<1>1. /\ pc[c] = "record" /\ pc' = [pc EXCEPT ![c] = "idle"] /\ up /\ up'
      /\ UNCHANGED <<mode, loaded, cursor, key, past, taken>>
      /\ DOMAIN pc = Callers
  BY DEF Record, IInv, Handle
<1>2. \A d \in Callers : pc[d] = "idle" => pc'[d] = "idle"
  BY <1>1
<1>3. CASE ~f
  <2>1. UNCHANGED <<disk, tried>> /\ UNCHANGED next
    BY <1>3 DEF Record
  <2> QED BY <1>1, <1>2, <2>1, QuietOrder
<1>4. CASE f
  <2>1. PICK how \in Hows : Writes(Entry(c), how)
    BY <1>4 DEF Record, Hows
  <2>2. next' = [next EXCEPT ![key[c]] = @ + 1]
    BY <1>4 DEF Record
  <2>3. PICK k0 : k0 = key[c]
    OBVIOUS
  <2>4. /\ k0 \in Keys /\ DOMAIN next = Keys /\ Numbering /\ Numbering'
    BY <1>1, <2>3, RecordStep DEF Order, Replays, IInv
  <2>5. /\ Lines' /\ \A k : Few(k)' => Few(k)
        /\ \A k : Cardinality(TriedOf(k)) <= Cardinality(TriedOf(k)')
        /\ Cardinality(TriedOf(k0)') = Cardinality(TriedOf(k0)) + 1
        /\ \A k \in Keys : Few(k)' =>
             \A i \in 1..Len(file') : Good(k, i)' => file'[i].seq <= next[k]
    BY <1>1, <2>1, <2>3, <2>4, OrderWritten
  <2>6. ASSUME NEW k \in Keys
        PROVE  /\ next'[k] \in Nat /\ next[k] \in Nat /\ next[k] <= next'[k]
               /\ next'[k] <= Cardinality(TriedOf(k)')
    <3>1. next[k] \in Nat /\ next[k] <= Cardinality(TriedOf(k))
      BY <1>1 DEF Order, Nexts
    <3>2. Cardinality(TriedOf(k)) \in Nat /\ Cardinality(TriedOf(k)') \in Nat
      BY <2>4, TriedOfBoth
    <3>3. CASE k = k0
      <4>1. next'[k] = next[k] + 1
        BY <2>2, <2>3, <2>4, <3>3
      <4> QED BY <2>5, <3>1, <3>2, <3>3, <4>1
    <3>4. CASE k # k0
      <4>1. next'[k] = next[k]
        BY <2>2, <2>3, <2>4, <3>4
      <4> QED BY <2>5, <3>1, <3>2, <4>1
    <3> QED BY <3>3, <3>4
  <2>7. Nexts'
    <3>1. ASSUME NEW k \in Keys, Few(k)', NEW i \in 1..Len(file'), Good(k, i)'
          PROVE  file'[i].seq <= next'[k]
      <4>1. file'[i].seq <= next[k] /\ file'[i].seq \in Nat
        BY <2>5, <3>1 DEF Lines
      <4> QED BY <2>6, <4>1
    <3> QED BY <2>6, <3>1 DEF Nexts
  <2>8. Faithful'
    BY <1>1, <2>5 DEF Order, Faithful
  <2>9. ASSUME NEW k \in Keys PROVE Replay(k)'
    BY <1>1, <1>2 DEF Order, Replays, Replay, At
  <2>10. Replays'
    BY <1>1, <1>2, <2>2, <2>9 DEF Order, Replays
  <2> QED BY <2>5, <2>7, <2>8, <2>10 DEF Order
<1> QED BY <1>3, <1>4 DEF IInv, Handle

LEMMA DownOrder ==
  ASSUME IInv, Down
  PROVE  ~up' /\ Replays' /\ Faithful'
<1>1. /\ ~up' /\ loaded' = None /\ cursor' = [k \in Keys |-> 0] /\ next' = [k \in Keys |-> 0]
      /\ taken' = None /\ past' = None /\ \A c \in Callers : pc'[c] = "idle"
  BY DEF Down
<1>2. ASSUME NEW k \in Keys PROVE Replay(k)'
  <2>1. loaded'[k] = <<>> /\ past'[k] = <<>> /\ taken'[k] = <<>> /\ cursor'[k] = 0
    BY <1>1 DEF None
  <2>2. <<>> \in Seq({}) /\ Len(<<>>) = 0 /\ 1..0 = {}
    OBVIOUS
  <2>3. At(k, Len(taken[k]))' = 0
    BY <2>1, <2>2 DEF At
  <2> QED BY <1>1, <2>1, <2>2, <2>3 DEF Replay
<1>3. DOMAIN cursor' = Keys /\ DOMAIN taken' = Keys /\ DOMAIN next' = Keys
  BY <1>1 DEF None
<1> QED BY <1>1, <1>2, <1>3 DEF Replays, Faithful

LEMMA ExitOrder ==
  ASSUME IInv, Order, Exits
  PROVE  Order'
<1>1. UNCHANGED <<disk, tried>> /\ ~up' /\ Replays' /\ Faithful'
  BY DownOrder DEF Exits
<1> QED BY <1>1, OrderStands DEF Order, Nexts

LEMMA DiesOrder ==
  ASSUME IInv, Order, NEW c \in Callers, DiesWriting(c)
  PROVE  Order'
<1>1. pc[c] = "record" /\ up /\ ~up' /\ Replays' /\ Faithful'
  BY DownOrder DEF DiesWriting, Down
<1>2. PICK how \in Hows : Writes(Entry(c), how)
  BY DEF DiesWriting, Hows
<1>3. Numbering'
  BY DiesStep DEF IInv
<1>4. Lines'
  BY <1>1, <1>2, <1>3, OrderWritten
<1> QED BY <1>1, <1>4 DEF Order, Nexts

LEMMA StepOrder == IInv /\ Order /\ [Next]_vars => Order'
<1> SUFFICES ASSUME IInv, Order, [Next]_vars  PROVE Order'
  OBVIOUS
<1>1. CASE \E m \in Modes : Open(m)
  BY <1>1, OpenOrder
<1>2. CASE \E i \in 1..MaxLive : DeleteLine(i)
  BY <1>2, DeleteOrder
<1>3. CASE \E c \in Callers : \E r \in Requests : Replayed(c, r)
  BY <1>3, ReplayedOrder
<1>4. CASE \E c \in Callers : \E r \in Requests : GoesLive(c, r)
  BY <1>4, GoesLiveOrder
<1>5. CASE \E c \in Callers : LiveFails(c) \/ LiveAnswers(c)
  <2>1. PICK c \in Callers : LiveFails(c) \/ LiveAnswers(c)
    BY <1>5
  <2>2. /\ UNCHANGED <<disk, tried>> /\ UNCHANGED <<loaded, past, taken, cursor, next>>
        /\ UNCHANGED <<mode, up, key>> /\ \A d \in Callers : pc[d] = "idle" => pc'[d] = "idle"
    BY <2>1 DEF LiveFails, LiveAnswers, handle, history, IInv, Handle
  <2> QED BY <2>2, QuietOrder
<1>6. CASE \E c \in Callers : Record(c)
  BY <1>6, RecordOrder
<1>7. CASE \E c \in Callers : DiesWriting(c)
  BY <1>7, DiesOrder
<1>8. CASE Close
  <2>1. /\ UNCHANGED <<disk, tried>> /\ UNCHANGED <<loaded, past, taken, cursor, next>>
        /\ UNCHANGED <<mode, up, key>> /\ pc' = pc
    BY <1>8 DEF Close, calls
  <2> QED BY <2>1, QuietOrder
<1>9. CASE Exits
  BY <1>9, ExitOrder
<1>10. CASE UNCHANGED vars
  <2>1. /\ UNCHANGED <<disk, tried>> /\ UNCHANGED <<loaded, past, taken, cursor, next>>
        /\ UNCHANGED <<mode, up, key>> /\ pc' = pc
    BY <1>10 DEF vars, handle, calls, history
  <2> QED BY <2>1, QuietOrder
<1> QED
  BY <1>1, <1>2, <1>3, <1>4, <1>5, <1>6, <1>7, <1>8, <1>9, <1>10 DEF Next

-----------------------------------------------------------------------------
(* The theorems. *)

(* The file is a sequence of lines, every answer is one call's and is      *)
(* tried once, and a process that is down has nothing open.                *)
THEOREM TapeIsWhole == Spec => [](Shape /\ Handle /\ Numbering)
<1>1. IInv => Shape /\ Handle /\ Numbering
  BY DEF IInv
<1> QED  BY AlwaysIInv, <1>1, PTL

(* When Close returns nil, what was recorded is in the file to stay,       *)
(* through every later failed append, crash and deletion (Tape.Close's     *)
(* write error); and a failed append, or a death in one, costs two answers *)
(* at the most, its own and the one its line is glued to.                  *)
THEOREM LossesAreReported == Spec => []LossIsReported
<1>1. ASSUME IInv  PROVE LossIsReported
  <2>1. ASSUME NEW v \in vouched  PROVE Readable(v)
    BY <1>1, FileDomain DEF IInv, Kept, Safe, Readable
  <2>2. Cardinality(Lost) \in Nat /\ Debt \in Nat
    <3>1. IsFiniteSet(Lost)
      BY <1>1, FS_Subset DEF IInv, Numbering, Lost
    <3> QED  BY <3>1, FS_CardinalityType DEF Debt
  <2>3. failures \in Nat /\ crashes \in Nat
    BY <1>1 DEF IInv, Handle
  <2>4. Cardinality(Lost) <= 2 * (failures + crashes)
    BY <1>1, <2>2, <2>3 DEF IInv, Account
  <2> QED  BY <2>1, <2>4 DEF LossIsReported
<1>2. IInv => LossIsReported
  BY <1>1
<1> QED  BY AlwaysIInv, <1>2, PTL

(* A session that replays gets a key's answers in the order they were      *)
(* recorded in over all earlier sessions, for keys that have lost at most  *)
(* one (Tape.take over what load sorted by seq), and Auto makes no call    *)
(* that the file can answer.                                               *)
THEOREM ReplaysInOrder == Spec => []ReplayFollowsTheRecording
<1>1. Spec => []Order
  BY InitOrder, StepOrder, AlwaysIInv, PTL DEF Spec
<1>2. ASSUME Order PROVE ReplayFollowsTheRecording
  <2> SUFFICES ASSUME NEW k \in Keys, Few(k)
               PROVE  /\ \A j \in DOMAIN taken[k] :
                           taken[k][j] = past[k][IF j < Len(past[k]) THEN j ELSE Len(past[k])]
                      /\ \A c \in Callers :
                           mode = "auto" /\ pc[c] # "idle" /\ key[c] = k => past[k] = <<>>
    BY DEF ReplayFollowsTheRecording, Few, LostOf
  <2>1. Replay(k)
    BY <1>2 DEF Order, Replays
  <2>2. PICK S : loaded[k] \in Seq(S) /\ past[k] \in Seq(S) /\ taken[k] \in Seq(S)
    BY <2>1 DEF Replay
  <2>3. loaded[k] = past[k]
    BY <1>2 DEF Order, Faithful
  <2>4. DOMAIN taken[k] = 1..Len(taken[k])
    BY <2>2, LenProperties
  <2> QED BY <2>1, <2>3, <2>4 DEF Replay, At
<1>3. Order => ReplayFollowsTheRecording
  BY <1>2
<1> QED BY <1>1, <1>3, PTL
=============================================================================
