--------------------------- MODULE ToolChainProofs ---------------------------
(***************************************************************************)
(* Theorems about ToolChain for any workers, runs, tools and calls, any    *)
(* policy and any thresholds.                                              *)
(***************************************************************************)
EXTENDS ToolChain, SequenceTheorems, WellFoundedInduction, TLAPS

-----------------------------------------------------------------------------
(* The inductive invariant. *)

Types ==
  /\ policy \in Policies
  /\ dead \subseteq Runs
  /\ grants \in [Runs -> SUBSET Calls]
  /\ breaker \in [Tools -> [failures : 0..Threshold, open : BOOLEAN]]
  /\ DOMAIN counts = Runs
  /\ pc \in [Workers -> Phases]
  /\ run \in [Workers -> Runs \cup {"none"}] /\ call \in [Workers -> Calls \cup {"none"}]
  /\ attempt \in [Workers -> 0..MaxAttempts] /\ result \in [Workers -> Results]
  /\ noted \in [Workers -> BOOLEAN] /\ begun \in 0..MaxCalls
  /\ ran \in [Workers -> Nat]
  /\ approved \in [Runs -> SUBSET Calls] /\ finished \in [Runs -> SUBSET Calls]
  /\ evidence \in [Tools -> Nat]
  /\ failed \in [Runs -> [Calls -> [Messages -> Nat]]]

(* What a layer reports when the layers inside it were not reached. *)
Unreached == {"denied", "abandoned", "circuitOpen"}

Limit(w) == IF Tool(w) \in Idempotent THEN MaxAttempts ELSE 1

(* A worker that is busy has a run and a call; its body was entered at     *)
(* most once per attempt, and no attempt is beyond what its tool may have. *)
WorkerBook(w) ==
  /\ pc[w] # "idle" => run[w] \in Runs /\ call[w] \in Calls
  /\ pc[w] \in {"idle", "gate", "asking", "remember", "look"} =>
       attempt[w] = 0 /\ result[w] = "none"
  /\ ran[w] <= attempt[w]
  /\ pc[w] # "idle" => attempt[w] <= Limit(w)
  /\ pc[w] = "sleep" => Tool(w) \in Idempotent /\ attempt[w] < MaxAttempts
  /\ result[w] \in Unreached => pc[w] \in {"repeats", "done"} /\ attempt[w] = 0
  /\ pc[w] = "tally" => \/ result[w] \in {"ok", "badCall"} \cup Own
                        \/ result[w] = "cause" /\ Dead(w)

WorkerBooks == \A w \in Workers : WorkerBook(w)

(* The policy lets the call through, or the run's memory of a yes does. *)
Settled(r, c) == Verdict(policy, RequestOf[c]) = "allow" \/ c \in grants[r]

(* Only what was approved in a run is remembered in it, and no call is     *)
(* past the gate, or finished after it, unsettled.                         *)
GateBook ==
  /\ \A r \in Runs : grants[r] \subseteq approved[r]
  /\ \A w \in Workers :
       /\ pc[w] = "remember" => call[w] \in approved[run[w]]
       /\ pc[w] \in {"look", "body", "sleep", "tally", "repeats"} =>
            Settled(run[w], call[w])
       /\ pc[w] = "done" /\ result[w] \notin {"denied", "abandoned", "cause"} =>
            Settled(run[w], call[w])
  /\ \A r \in Runs : \A c \in finished[r] : Settled(r, c)

(* A run's counter of a repeated failure is never ahead of the failures.   *)
CountBook ==
  \A r \in Runs :
    /\ DOMAIN counts[r] \subseteq Calls
    /\ \A c \in DOMAIN counts[r] :
         /\ counts[r][c] \in [Messages -> Nat]
         /\ \A m \in Messages : counts[r][c][m] <= failed[r][c][m]

IInv == Types /\ WorkerBooks /\ GateBook /\ TripNeedsEvidence /\ CountBook
-----------------------------------------------------------------------------
(* What the policies let through. *)

(* Any set of numbers with a member has a least one.                       *)
LEMMA LeastNumber ==
  ASSUME NEW S \in SUBSET Nat, S # {}
  PROVE  \E n \in S : \A m \in S : n <= m
<1> DEFINE R == {p \in Nat \X Nat : p[1] < p[2]}
<1>0. OpToRel(<, Nat) = R
  BY DEF OpToRel
<1>1. IsWellFoundedOn(R, Nat)
  BY NatLessThanWellFounded DEF OpToRel
<1> HIDE DEF R
<1>2. PICK n \in S : \A m \in S : ~(<<m, n>> \in R)
  BY <1>1, WFMin
<1>3. \A m \in S : ~(m < n)
  BY <1>2 DEF R
<1> QED BY <1>3

(* Induction over numbers, for a statement given as the set of those it    *)
(* holds of.                                                               *)
LEMMA Inductively ==
  ASSUME NEW S, 0 \in S, \A n \in Nat : n \in S => n + 1 \in S
  PROVE  \A n \in Nat : n \in S
<1> SUFFICES ASSUME Nat \ S # {} PROVE FALSE
  OBVIOUS
<1>1. PICK n \in Nat \ S : \A m \in Nat \ S : n <= m
  <2>1. Nat \ S \in SUBSET Nat
    OBVIOUS
  <2> QED BY <2>1, LeastNumber
<1>2. n # 0 /\ n - 1 \in Nat /\ n - 1 \in S
  BY <1>1
<1> QED BY <1>1, <1>2

(* ... and any bounded set of numbers with a member has a greatest one.    *)
LEMMA GreatestNumber ==
  ASSUME NEW n \in Nat, NEW S \in SUBSET (0..n), S # {}
  PROVE  \E x \in S : \A y \in S : y <= x
<1> DEFINE R == {z \in 0..n : n - z \in S}
<1>1. R \in SUBSET Nat /\ R # {}
  <2>1. PICK x \in S : TRUE
    OBVIOUS
  <2>2. x \in 0..n
    BY <2>1
  <2>3. n - x \in 0..n /\ n - (n - x) = x
    BY <2>2
  <2>4. n - x \in R
    BY <2>1, <2>3
  <2>5. \A z \in 0..n : z \in Nat
    OBVIOUS
  <2>6. R \in SUBSET Nat
    BY <2>5
  <2> HIDE DEF R
  <2> QED BY <2>4, <2>6
<1>2. PICK z \in R : \A m \in R : z <= m
  BY <1>1, LeastNumber
<1>3. n - z \in S /\ z \in 0..n
  BY <1>2
<1>4. ASSUME NEW y \in S PROVE y <= n - z
  <2>1. y \in 0..n /\ n - y \in 0..n /\ n - (n - y) = y
    BY <1>4
  <2>2. n - y \in R
    BY <2>1
  <2> QED BY <1>2, <1>3, <2>1, <2>2
<1> QED BY <1>3, <1>4

-----------------------------------------------------------------------------
(* The shell allow list (permission/safe.go).  Stripped, a word at a time. *)

Word  == STRING
Words == Seq(Word)

Kept(v, x) == IF x = Dup THEN v ELSE Append(v, x)

Keeps(s, n, f) == f = [i \in 0..n |-> IF i = 0 THEN <<>> ELSE Kept(f[i - 1], s[i])]

LEMMA KeepsAt ==
  ASSUME NEW s, NEW n \in Nat, NEW f, Keeps(s, n, f)
  PROVE  f[0] = <<>> /\ \A i \in 1..n : f[i] = Kept(f[i - 1], s[i])
BY DEF Keeps

LEMMA KeepsExists ==
  ASSUME NEW s
  PROVE  \A n \in Nat : \E f : Keeps(s, n, f)
<1> DEFINE N == {n \in Nat : \E f : Keeps(s, n, f)}
<1>1. 0 \in N
  <2>1. Keeps(s, 0, [i \in 0..0 |-> <<>>])
    BY DEF Keeps
  <2> QED BY <2>1
<1>2. ASSUME NEW n \in Nat, n \in N PROVE n + 1 \in N
  <2>1. PICK f : Keeps(s, n, f)
    BY <1>2
  <2> DEFINE g == [i \in 0..(n + 1) |-> IF i = 0 THEN <<>> ELSE Kept(f[i - 1], s[i])]
  <2>0. g = [i \in 0..(n + 1) |-> IF i = 0 THEN <<>> ELSE Kept(f[i - 1], s[i])]
    OBVIOUS
  <2> HIDE DEF g
  <2>2. \A i \in 0..n : f[i] = g[i]
    <3>1. f[0] = <<>> /\ \A i \in 1..n : f[i] = Kept(f[i - 1], s[i])
      BY <2>1, KeepsAt
    <3>2. g[0] = <<>> /\ \A i \in 1..n : g[i] = Kept(f[i - 1], s[i])
      BY <2>0
    <3>3. \A i \in 0..n : i = 0 \/ i \in 1..n
      OBVIOUS
    <3> QED BY <3>1, <3>2, <3>3
  <2>3. g = [i \in 0..(n + 1) |-> IF i = 0 THEN <<>> ELSE Kept(g[i - 1], s[i])]
    <3>1. \A i \in 0..(n + 1) : i # 0 => g[i - 1] = f[i - 1]
      BY <2>2
    <3> QED BY <2>0, <3>1
  <2>4. Keeps(s, n + 1, g)
    BY <2>3 DEF Keeps
  <2> QED BY <2>4
<1> HIDE DEF N
<1>3. \A n \in Nat : n \in N
  BY <1>1, <1>2, Inductively
<1> QED BY <1>3 DEF N

LEMMA KeepsAgree ==
  ASSUME NEW s, NEW t, NEW n \in Nat, NEW m \in Nat, n <= m,
         \A i \in 1..n : s[i] = t[i],
         NEW f, Keeps(s, n, f), NEW g, Keeps(t, m, g)
  PROVE  f[n] = g[n]
<1> DEFINE N == {k \in Nat : k <= n => f[k] = g[k]}
<1>0. /\ f[0] = <<>> /\ \A i \in 1..n : f[i] = Kept(f[i - 1], s[i])
      /\ g[0] = <<>> /\ \A i \in 1..m : g[i] = Kept(g[i - 1], t[i])
  <2>1. f[0] = <<>> /\ \A i \in 1..n : f[i] = Kept(f[i - 1], s[i])
    BY KeepsAt
  <2>2. g[0] = <<>> /\ \A i \in 1..m : g[i] = Kept(g[i - 1], t[i])
    BY KeepsAt
  <2> QED BY <2>1, <2>2
<1>1. 0 \in N
  BY <1>0
<1>2. ASSUME NEW k \in Nat, k \in N PROVE k + 1 \in N
  <2> SUFFICES ASSUME k + 1 <= n PROVE f[k + 1] = g[k + 1]
    OBVIOUS
  <2>1. f[k] = g[k] /\ k + 1 \in 1..n /\ k + 1 \in 1..m /\ (k + 1) - 1 = k
    BY <1>2
  <2>2. f[k + 1] = Kept(f[(k + 1) - 1], s[k + 1]) /\ g[k + 1] = Kept(g[(k + 1) - 1], t[k + 1])
    BY <1>0, <2>1
  <2> QED BY <2>1, <2>2
<1> HIDE DEF N
<1>3. n \in N
  BY <1>1, <1>2, Inductively
<1> QED BY <1>3 DEF N

LEMMA StrippedIsKept ==
  ASSUME NEW s, Len(s) \in Nat
  PROVE  \E f : Keeps(s, Len(s), f) /\ Stripped(s) = f[Len(s)]
<1> DEFINE f == CHOOSE f : Keeps(s, Len(s), f)
<1>1. Keeps(s, Len(s), f)
  BY KeepsExists
<1>2. Stripped(s) = f[Len(s)]
  BY DEF Stripped, Keeps, Kept
<1> QED BY <1>1, <1>2

LEMMA StrippedNothing == Stripped(<<>>) = <<>>
<1>1. Len(<<>>) = 0
  OBVIOUS
<1>2. PICK f : Keeps(<<>>, 0, f) /\ Stripped(<<>>) = f[0]
  BY <1>1, StrippedIsKept
<1> QED BY <1>2, KeepsAt

LEMMA StrippedOneMore ==
  ASSUME NEW s \in Words, NEW x \in Word
  PROVE  Stripped(Append(s, x)) = Kept(Stripped(s), x)
<1> DEFINE t == Append(s, x)
           n == Len(s)
<1>1. /\ n \in Nat /\ Len(t) = n + 1 /\ t[n + 1] = x /\ \A i \in 1..n : s[i] = t[i]
      /\ n <= n + 1 /\ n + 1 \in 1..(n + 1) /\ (n + 1) - 1 = n /\ n + 1 \in Nat
  BY AppendProperties DEF Words
<1> HIDE DEF t, n
<1>2. PICK f : Keeps(s, n, f) /\ Stripped(s) = f[n]
  BY <1>1, StrippedIsKept DEF n
<1>3. PICK g : Keeps(t, n + 1, g) /\ Stripped(t) = g[n + 1]
  BY <1>1, StrippedIsKept
<1>4. f[n] = g[n]
  <2>1. PICK m \in Nat : m = n + 1
    BY <1>1
  <2>2. n \in Nat /\ n <= m /\ (\A i \in 1..n : s[i] = t[i])
    BY <1>1, <2>1
  <2>3. Keeps(s, n, f) /\ Keeps(t, m, g)
    BY <1>2, <1>3, <2>1
  <2> HIDE DEF t, n
  <2> QED BY <2>2, <2>3, KeepsAgree
<1>5. g[n + 1] = Kept(g[(n + 1) - 1], t[n + 1])
  BY <1>1, <1>3, KeepsAt
<1> QED BY <1>1, <1>2, <1>3, <1>4, <1>5 DEF t

LEMMA LastOff ==
  ASSUME NEW s \in Words, NEW n \in Nat, Len(s) = n + 1
  PROVE  \E t \in Words, x \in Word : Len(t) = n /\ s = Append(t, x)
<1> DEFINE t == SubSeq(s, 1, n)
           x == s[n + 1]
<1>1. t \in Words /\ x \in Word /\ Len(t) = n /\ \A i \in 1..n : t[i] = s[i]
  BY DEF Words
<1> HIDE DEF t
<1>2. s = Append(t, x)
  <2>1. /\ Append(t, x) \in Words /\ Len(Append(t, x)) = n + 1
        /\ \A i \in 1..(n + 1) : Append(t, x)[i] = s[i]
    BY <1>1 DEF Words
  <2> QED BY <2>1, SeqEqual DEF Words
<1> QED BY <1>1, <1>2

LEMMA StrippedIsWords ==
  ASSUME NEW s \in Words
  PROVE  Stripped(s) \in Words
<1> DEFINE N == {n \in Nat : \A u \in Words : Len(u) = n => Stripped(u) \in Words}
<1>1. 0 \in N
  <2>1. \A u \in Words : Len(u) = 0 => u = <<>>
    BY DEF Words
  <2> QED BY <2>1, StrippedNothing DEF Words
<1>2. ASSUME NEW n \in Nat, n \in N PROVE n + 1 \in N
  <2>1. ASSUME NEW u \in Words, Len(u) = n + 1 PROVE Stripped(u) \in Words
    <3>1. PICK t \in Words, x \in Word : Len(t) = n /\ u = Append(t, x)
      BY <2>1, LastOff
    <3>2. Stripped(t) \in Words /\ Stripped(u) = Kept(Stripped(t), x)
      BY <1>2, <3>1, StrippedOneMore
    <3> QED BY <3>1, <3>2, AppendProperties DEF Kept, Words
  <2> QED BY <2>1
<1> HIDE DEF N
<1>3. Len(s) \in N
  BY <1>1, <1>2, Inductively DEF Words
<1> QED BY <1>3 DEF N

LEMMA ConcatOneMore ==
  ASSUME NEW S, NEW u \in Seq(S), NEW v \in Seq(S), NEW x \in S
  PROVE  u \o Append(v, x) = Append(u \o v, x)
<1>1. u \o v \in Seq(S) /\ Len(u \o v) = Len(u) + Len(v) /\ Len(u) \in Nat /\ Len(v) \in Nat
  OBVIOUS
<1>2. Append(v, x) \in Seq(S) /\ Len(Append(v, x)) = Len(v) + 1
  OBVIOUS
<1>3. u \o Append(v, x) \in Seq(S) /\ Append(u \o v, x) \in Seq(S)
  BY <1>1, <1>2
<1>4. Len(u \o Append(v, x)) = Len(Append(u \o v, x))
  BY <1>1, <1>2
<1>5. \A i \in 1..Len(Append(u \o v, x)) : (u \o Append(v, x))[i] = Append(u \o v, x)[i]
  BY <1>1, <1>2
<1> QED BY <1>3, <1>4, <1>5, SeqEqual

LEMMA StrippedTogether ==
  ASSUME NEW s \in Words, NEW t \in Words
  PROVE  Stripped(s \o t) = Stripped(s) \o Stripped(t)
<1> DEFINE Good(u) == Stripped(s \o u) = Stripped(s) \o Stripped(u)
           N == {n \in Nat : \A u \in Words : Len(u) = n => Good(u)}
<1>1. 0 \in N
  <2>1. \A u \in Words : Len(u) = 0 => u = <<>>
    BY DEF Words
  <2>2. Stripped(s) \in Words
    BY StrippedIsWords
  <2>3. s \o <<>> = s /\ Stripped(s) \o <<>> = Stripped(s)
    BY <2>2 DEF Words
  <2>4. Good(<<>>)
    BY <2>3, StrippedNothing
  <2> QED BY <2>1, <2>4
<1>2. ASSUME NEW n \in Nat, n \in N PROVE n + 1 \in N
  <2>1. ASSUME NEW u \in Words, Len(u) = n + 1 PROVE Good(u)
    <3>1. PICK v \in Words, x \in Word : Len(v) = n /\ u = Append(v, x)
      BY <2>1, LastOff
    <3>2. Good(v)
      BY <1>2, <3>1
    <3>3. Stripped(s) \in Words /\ Stripped(v) \in Words /\ s \o v \in Words
      BY StrippedIsWords, ConcatProperties DEF Words
    <3>4. s \o u = Append(s \o v, x)
      <4>1. s \in Seq(Word) /\ v \in Seq(Word) /\ u = Append(v, x)
        BY <3>1 DEF Words
      <4> QED BY <4>1, ConcatOneMore
    <3>5. Stripped(u) = Kept(Stripped(v), x) /\ Stripped(s \o u) = Kept(Stripped(s \o v), x)
      BY <3>1, <3>3, <3>4, StrippedOneMore
    <3>6. Kept(Stripped(s) \o Stripped(v), x) = Stripped(s) \o Kept(Stripped(v), x)
      <4>1. Stripped(s) \in Seq(Word) /\ Stripped(v) \in Seq(Word)
        BY <3>3 DEF Words
      <4>2. Stripped(s) \o Append(Stripped(v), x) = Append(Stripped(s) \o Stripped(v), x)
        BY <4>1, ConcatOneMore
      <4> QED BY <4>2 DEF Kept
    <3> QED BY <3>2, <3>5, <3>6
  <2> HIDE DEF Good
  <2> QED BY <2>1
<1> HIDE DEF N, Good
<1>3. Len(t) \in N
  BY <1>1, <1>2, Inductively DEF Words
<1> QED BY <1>3 DEF N, Good

(* Where a pipeline's stages end: at its bars, and at both its ends.       *)
Bars(w) == {0, Len(w) + 1} \cup {i \in DOMAIN w : w[i] = Bar}

(* The stage between two bars with none between them.                      *)
LEMMA StageBetween ==
  ASSUME NEW w \in Words, NEW m \in Bars(w), NEW e \in Bars(w), m < e,
         ~\E k \in Bars(w) : m < k /\ k < e
  PROVE  SubSeq(w, m + 1, e - 1) \in Stages(w)
<1> DEFINE next == {p \in Bars(w) \X Bars(w) : p[1] < p[2] /\ ~\E k \in Bars(w) : p[1] < k /\ k < p[2]}
<1>1. <<m, e>> \in next
  OBVIOUS
<1>2. Stages(w) = {SubSeq(w, p[1] + 1, p[2] - 1) : p \in next}
  BY DEF Stages, Bars
<1> HIDE DEF next
<1>3. <<m, e>>[1] = m /\ <<m, e>>[2] = e
  OBVIOUS
<1> QED BY <1>1, <1>2, <1>3

(* Every bar but the last has a next one.                                  *)
LEMMA NextBar ==
  ASSUME NEW w \in Words, NEW m \in 0..Len(w)
  PROVE  \E e \in Bars(w) : e \in (m + 1)..(Len(w) + 1) /\ ~\E k \in Bars(w) : m < k /\ k < e
<1>0. Len(w) \in Nat /\ DOMAIN w = 1..Len(w)
  BY DEF Words
<1> DEFINE S == {k \in Bars(w) : m < k}
<1>1. \A k \in Bars(w) : k \in 0..(Len(w) + 1)
  BY <1>0 DEF Bars
<1>2. S \in SUBSET Nat /\ Len(w) + 1 \in S
  BY <1>0, <1>1 DEF Bars
<1>3. PICK e \in S : \A k \in S : e <= k
  BY <1>2, LeastNumber
<1>4. e \in Bars(w) /\ e \in (m + 1)..(Len(w) + 1)
  BY <1>0, <1>1, <1>3
<1>5. \A k \in Bars(w) : ~(m < k /\ k < e)
  BY <1>0, <1>1, <1>3, <1>4
<1> QED BY <1>4, <1>5

(* A word that is no bar is a word of some stage.                          *)
LEMMA WordsAreStaged ==
  ASSUME NEW w \in Words, NEW j \in 1..Len(w), w[j] # Bar
  PROVE  \E stage \in Stages(w) : \E i \in DOMAIN stage : stage[i] = w[j]
<1>0. Len(w) \in Nat /\ DOMAIN w = 1..Len(w) /\ \A k \in Bars(w) : k \in 0..(Len(w) + 1)
  BY DEF Bars, Words
<1> DEFINE S == {k \in Bars(w) : k < j}
<1>1. S \in SUBSET (0..Len(w)) /\ 0 \in S
  BY <1>0 DEF Bars
<1>2. PICK m \in S : \A k \in S : k <= m
  BY <1>0, <1>1, GreatestNumber
<1>3. m \in Bars(w) /\ m < j /\ m \in 0..Len(w) /\ \A k \in Bars(w) : k < j => k <= m
  BY <1>1, <1>2
<1>4. PICK e \in Bars(w) : e \in (m + 1)..(Len(w) + 1) /\ ~\E k \in Bars(w) : m < k /\ k < e
  BY <1>3, NextBar
<1>5. j \notin Bars(w)
  BY <1>0 DEF Bars
<1>6. j < e
  <2>1. ~(e < j)
    BY <1>0, <1>3, <1>4
  <2> QED BY <1>0, <1>4, <1>5, <2>1
<1> DEFINE stage == SubSeq(w, m + 1, e - 1)
<1>7. stage \in Stages(w)
  BY <1>3, <1>4, StageBetween
<1>8. DOMAIN stage = 1..(e - 1 - m) /\ stage[j - m] = w[j]
  <2>1. m + 1 \in Int /\ e - 1 \in Int /\ m + 1 <= e
    BY <1>3, <1>4
  <2>2. \A k \in (m + 1)..(e - 1) : w[k] \in Word
    BY <1>0, <1>3, <1>4 DEF Words
  <2>3. Len(stage) = e - 1 - m /\ stage \in Seq(Word) /\ \A i \in 1..(e - 1 - m) : stage[i] = w[m + i]
    <3>1. /\ stage \in Seq(Word)
          /\ Len(stage) = IF m + 1 <= e - 1 THEN (e - 1) - (m + 1) + 1 ELSE 0
          /\ \A i \in 1..((e - 1) - (m + 1) + 1) : stage[i] = w[(m + 1) + i - 1]
      BY ONLY <2>1, <2>2, SubSeqProperties
    <3> HIDE DEF stage
    <3>2. /\ (e - 1) - (m + 1) + 1 = e - 1 - m /\ m + 1 <= e - 1
          /\ \A i \in 1..(e - 1 - m) : (m + 1) + i - 1 = m + i
      BY <1>0, <1>3, <1>4, <1>6
    <3> QED BY <3>1, <3>2
  <2>4. j - m \in 1..(e - 1 - m) /\ m + (j - m) = j
    BY <1>0, <1>3, <1>4, <1>6
  <2> HIDE DEF stage
  <2> QED BY <2>3, <2>4
<1>9. j - m \in 1..(e - 1 - m)
  BY <1>0, <1>3, <1>4, <1>6
<1> QED BY <1>7, <1>8, <1>9

(* What is cut off behind a word is the rest, and both are words.          *)
LEMMA CutAt ==
  ASSUME NEW s \in Words, NEW i \in 1..Len(s)
  PROVE  \E u \in Words, v \in Words :
           /\ Len(u) = i - 1 /\ v = SubSeq(s, i, Len(s)) /\ s = u \o v
           /\ i > 1 => \E t \in Words : u = Append(t, s[i - 1])
<1> DEFINE n == Len(s)
           u == SubSeq(s, 1, i - 1)
           v == SubSeq(s, i, n)
<1>0. n \in Nat /\ s \in Seq(Word) /\ i \in Nat /\ i \in 1..n
  BY DEF Words
<1>1. u \in Seq(Word) /\ Len(u) = i - 1 /\ \A k \in 1..(i - 1) : u[k] = s[k]
  BY <1>0, SubSeqProperties
<1>2. v \in Seq(Word) /\ Len(v) = n - i + 1 /\ \A k \in 1..(n - i + 1) : v[k] = s[i + k - 1]
  BY <1>0, SubSeqProperties
<1> HIDE DEF n, u, v
<1>3. s = u \o v
  <2>0. /\ u \o v \in Seq(Word) /\ Len(u \o v) = Len(u) + Len(v)
        /\ \A k \in 1..(Len(u) + Len(v)) : (u \o v)[k] = IF k <= Len(u) THEN u[k] ELSE v[k - Len(u)]
    BY <1>1, <1>2, ConcatProperties
  <2>1. u \o v \in Seq(Word) /\ Len(u \o v) = n
    BY <1>0, <1>1, <1>2, <2>0
  <2>2. ASSUME NEW k \in 1..n PROVE (u \o v)[k] = s[k]
    <3>1. CASE k <= i - 1
      BY <1>0, <1>1, <1>2, <2>0, <3>1
    <3>2. CASE k > i - 1
      <4>1. k - (i - 1) \in 1..(n - i + 1) /\ i + (k - (i - 1)) - 1 = k
        BY <1>0, <3>2
      <4>2. v[k - (i - 1)] = s[i + (k - (i - 1)) - 1]
        BY <1>2, <4>1
      <4>3. (u \o v)[k] = v[k - (i - 1)]
        BY <1>0, <1>1, <1>2, <2>0, <3>2
      <4> QED BY <4>1, <4>2, <4>3
    <3>3. k <= i - 1 \/ k > i - 1
      BY <1>0
    <3> QED BY <3>1, <3>2, <3>3
  <2> QED BY <1>0, <2>1, <2>2, SeqEqual DEF n
<1>4. ASSUME i > 1 PROVE \E t \in Words : u = Append(t, s[i - 1])
  <2>1. PICK t \in Words, x \in Word : Len(t) = i - 2 /\ u = Append(t, x)
    <3>1. u \in Words /\ i - 2 \in Nat /\ Len(u) = (i - 2) + 1
      BY <1>0, <1>1, <1>4 DEF Words
    <3> QED BY <3>1, LastOff
  <2>2. x = u[i - 1] /\ u[i - 1] = s[i - 1]
    <3>1. Append(t, x)[Len(t) + 1] = x /\ Len(t) + 1 = i - 1
      BY <1>0, <2>1, AppendProperties DEF Words
    <3> QED BY <1>0, <1>1, <1>4, <2>1, <3>1
  <2> QED BY <2>1, <2>2
<1> QED BY <1>0, <1>1, <1>2, <1>3, <1>4 DEF Words, n, v

(* Stripped loses no word but the one it is for.                           *)
LEMMA StrippedKeeps ==
  ASSUME NEW s \in Words, NEW i \in DOMAIN s, s[i] # Dup
  PROVE  \E j \in 1..Len(Stripped(s)) : Stripped(s)[j] = s[i]
<1>0. Len(s) \in Nat /\ DOMAIN s = 1..Len(s) /\ i \in 1..Len(s)
  BY DEF Words
<1>1. PICK u \in Words, v \in Words :
        Len(u) = i - 1 /\ v = SubSeq(s, i, Len(s)) /\ s = u \o v
  BY <1>0, CutAt
<1>2. PICK t \in Words : Len(t) = i /\ s = t \o SubSeq(s, i + 1, Len(s)) /\ t = Append(u, s[i])
  <2> DEFINE t == Append(u, s[i])
             r == SubSeq(s, i + 1, Len(s))
  <2>1. s[i] \in Word
    BY <1>0 DEF Words
  <2>2. t \in Seq(Word) /\ Len(t) = i /\ t[i] = s[i] /\ \A k \in 1..(i - 1) : t[k] = u[k]
    <3>1. u \in Seq(Word) /\ Len(u) = i - 1
      BY <1>1 DEF Words
    <3>2. /\ t \in Seq(Word) /\ Len(t) = Len(u) + 1 /\ t[Len(u) + 1] = s[i]
          /\ \A k \in 1..Len(u) : t[k] = u[k]
      BY <2>1, <3>1, AppendProperties
    <3> HIDE DEF t
    <3>3. (i - 1) + 1 = i
      BY <1>0
    <3> QED BY <3>1, <3>2, <3>3
  <2>3. \A k \in 1..(i - 1) : u[k] = s[k]
    BY <1>0, <1>1, ConcatProperties DEF Words
  <2>4. r \in Seq(Word) /\ Len(r) = Len(s) - i /\ \A k \in 1..(Len(s) - i) : r[k] = s[i + k]
    <3>1. \A k \in (i + 1)..Len(s) : s[k] \in Word
      BY <1>0 DEF Words
    <3> QED BY <1>0, <3>1, SubSeqProperties
  <2> HIDE DEF t, r
  <2>5. t \o r \in Seq(Word) /\ Len(t \o r) = Len(s) /\ \A k \in 1..Len(s) : (t \o r)[k] = s[k]
    <3>0. /\ t \o r \in Seq(Word) /\ Len(t \o r) = Len(t) + Len(r)
          /\ \A k \in 1..(Len(t) + Len(r)) : (t \o r)[k] = IF k <= Len(t) THEN t[k] ELSE r[k - Len(t)]
      <4>1. t \in Seq(Word) /\ r \in Seq(Word)
        BY <2>2, <2>4
      <4> QED BY ONLY <4>1, ConcatProperties
    <3>1. t \o r \in Seq(Word) /\ Len(t \o r) = Len(s)
      BY <1>0, <2>2, <2>4, <3>0
    <3>2. ASSUME NEW k \in 1..Len(s) PROVE (t \o r)[k] = s[k]
      <4>0. k \in 1..(Len(t) + Len(r)) /\ Len(t) = i
        BY <1>0, <2>2, <2>4
      <4>1. CASE k < i
        BY <2>2, <2>3, <3>0, <4>0, <4>1, <1>0
      <4>2. CASE k = i
        BY <2>2, <3>0, <4>0, <4>2, <1>0
      <4>3. CASE k > i
        <5>1. k - i \in 1..(Len(s) - i) /\ i + (k - i) = k
          BY <1>0, <4>3
        <5>2. (t \o r)[k] = r[k - i]
          BY <1>0, <3>0, <4>0, <4>3
        <5> QED BY <2>4, <5>1, <5>2
      <4>4. k < i \/ k = i \/ k > i
        BY <1>0
      <4> QED BY <4>1, <4>2, <4>3, <4>4
    <3> QED BY <3>1, <3>2
  <2>6. s = t \o r
    BY <1>0, <2>5, SeqEqual DEF Words
  <2> QED BY <2>2, <2>6 DEF t, r, Words
<1> DEFINE r == SubSeq(s, i + 1, Len(s))
<1>3. r \in Words
  <2>1. \A k \in (i + 1)..Len(s) : s[k] \in Word
    BY <1>0 DEF Words
  <2> QED BY <1>0, <2>1, SubSeqProperties DEF Words
<1>4. Stripped(s) = Stripped(t) \o Stripped(r)
  BY <1>2, <1>3, StrippedTogether
<1>5. Stripped(t) = Append(Stripped(u), s[i])
  <2>1. s[i] \in Word
    BY <1>0 DEF Words
  <2> QED BY <1>2, <2>1, StrippedOneMore DEF Kept
<1> HIDE DEF r
<1> DEFINE a == Stripped(u)
           b == Stripped(r)
<1>6. a \in Seq(Word) /\ b \in Seq(Word) /\ Len(a) \in Nat /\ Len(b) \in Nat /\ s[i] \in Word
  BY <1>0, <1>3, StrippedIsWords DEF Words
<1>7. Stripped(s) = Append(a, s[i]) \o b
  BY <1>4, <1>5
<1> HIDE DEF a, b
<1>8. /\ Append(a, s[i]) \in Seq(Word) /\ Len(Append(a, s[i])) = Len(a) + 1
      /\ Append(a, s[i])[Len(a) + 1] = s[i]
  BY <1>6, AppendProperties
<1>9. /\ Len(Stripped(s)) = Len(a) + 1 + Len(b) /\ Stripped(s)[Len(a) + 1] = s[i]
  BY <1>6, <1>7, <1>8, ConcatProperties
<1> QED BY <1>6, <1>9

(* No command talks its way past the allow list: what SafeCommands lets    *)
(* through begins, behind every bar, with words of the list, and holds     *)
(* nothing the list does not vouch for, however many words it has.         *)
LEMMA SafeIsBenign ==
  ASSUME NEW q, q.command \in Words, SafeCommands(q) = "allow"
  PROVE  BenignCommand(q)
<1> DEFINE s == q.command
           w == Stripped(s)
<1>0. /\ s \in Words /\ w \in Words /\ Len(s) \in Nat /\ Len(w) \in Nat
      /\ DOMAIN s = 1..Len(s) /\ DOMAIN w = 1..Len(w)
  BY StrippedIsWords DEF Words
<1>1. /\ s # <<>> /\ q.dir # "outside"
      /\ \A i \in DOMAIN w : w[i] \notin Rejected
      /\ \A stage \in Stages(w) : stage # <<>> /\ StageIsKnown(stage)
  BY DEF SafeCommands
<1> HIDE DEF s, w
<1>2. ASSUME NEW i \in 1..Len(s)
      PROVE  \E u \in Words, v \in Words :
               /\ v = SubSeq(s, i, Len(s)) /\ w = Stripped(u) \o Stripped(v) /\ s = u \o v
               /\ Len(u) = i - 1
               /\ i > 1 => \E t \in Words : u = Append(t, s[i - 1])
  <2>1. PICK u \in Words, v \in Words :
          /\ Len(u) = i - 1 /\ v = SubSeq(s, i, Len(s)) /\ s = u \o v
          /\ i > 1 => \E t \in Words : u = Append(t, s[i - 1])
    BY <1>0, <1>2, CutAt
  <2>2. w = Stripped(u) \o Stripped(v)
    BY <2>1, StrippedTogether DEF w
  <2> QED BY <2>1, <2>2
<1>3. ASSUME NEW i \in DOMAIN s PROVE s[i] \notin Rejected \cup Unvouched
  <2>1. CASE s[i] = Dup
    BY <2>1, Zenon DEF Rejected, Unvouched, Dup
  <2>2. CASE s[i] = Bar
    BY <2>2, Zenon DEF Rejected, Unvouched, Bar
  <2>3. CASE s[i] # Dup /\ s[i] # Bar
    <3>1. \E j \in 1..Len(w) : w[j] = s[i]
      BY <1>0, <2>3, StrippedKeeps DEF w
    <3>2. PICK j \in 1..Len(w) : w[j] = s[i]
      BY <3>1
    <3>3. s[i] \notin Rejected
      BY <1>0, <1>1, <3>2
    <3>4. PICK stage \in Stages(w) : \E k \in DOMAIN stage : stage[k] = w[j]
      BY <1>0, <2>3, <3>2, WordsAreStaged
    <3>5. s[i] \notin Unvouched
      BY <1>1, <3>2, <3>4 DEF StageIsKnown
    <3> QED BY <3>3, <3>5
  <2> QED BY <2>1, <2>2, <2>3
<1>4. ASSUME NEW i \in DOMAIN s, i = 1 \/ s[i - 1] = Bar
      PROVE  \E prefix \in SafePrefixes : IsPrefix(prefix, Stripped(SubSeq(s, i, Len(s))))
  <2>1. PICK u \in Words, v \in Words :
          /\ v = SubSeq(s, i, Len(s)) /\ w = Stripped(u) \o Stripped(v)
          /\ Len(u) = i - 1
          /\ i > 1 => \E t \in Words : u = Append(t, s[i - 1])
    BY <1>0, <1>2
  <2> DEFINE a == Stripped(u)
             b == Stripped(v)
             m == Len(a)
  <2>2. a \in Words /\ b \in Words /\ w = a \o b /\ m \in Nat /\ Len(b) \in Nat
    <3>1. a \in Words /\ b \in Words
      BY <2>1, StrippedIsWords
    <3>2. w = a \o b
      BY <2>1
    <3> HIDE DEF a, b
    <3> QED BY <3>1, <3>2 DEF Words
  <2>3. m \in Bars(w)
    <3>1. CASE i = 1
      <4>1. u = <<>>
        BY <2>1, <3>1 DEF Words
      <4>2. m = 0
        BY <4>1, StrippedNothing
      <4> QED BY <4>2 DEF Bars
    <3>2. CASE i # 1
      <4>1. PICK t \in Words : u = Append(t, Bar)
        BY <1>0, <1>4, <2>1, <3>2
      <4>0. Bar # Dup
        BY Zenon DEF Bar, Dup
      <4>2. Bar \in Word /\ Bar # Dup
        <5>1. i - 1 \in 1..Len(s)
          BY <1>0, <3>2
        <5>2. s[i - 1] \in Word
          BY <1>0, <5>1 DEF Words
        <5> QED BY <1>4, <3>2, <4>0, <5>2
      <4>3. a = Append(Stripped(t), Bar)
        BY <4>1, <4>2, StrippedOneMore DEF Kept
      <4>4. m >= 1 /\ a[m] = Bar
        BY <4>2, <4>3, StrippedIsWords, AppendProperties DEF Words
      <4>5. m \in 1..Len(w) /\ w[m] = Bar
        BY <2>2, <4>4, ConcatProperties DEF Words
      <4> QED BY <1>0, <4>5 DEF Bars
    <3> QED BY <3>1, <3>2
  <2> HIDE DEF a, b, m
  <2>4. Len(w) = m + Len(b) /\ m \in 0..Len(w) /\ \A k \in 1..Len(b) : w[m + k] = b[k]
    BY <2>2, ConcatProperties DEF Words, m
  <2>5. PICK e \in Bars(w) : e \in (m + 1)..(Len(w) + 1) /\ ~\E k \in Bars(w) : m < k /\ k < e
    BY <1>0, <2>4, NextBar
  <2> DEFINE stage == SubSeq(w, m + 1, e - 1)
  <2>6. stage \in Stages(w)
    BY <1>0, <2>2, <2>3, <2>4, <2>5, StageBetween
  <2>7. stage \in Seq(Word) /\ Len(stage) = e - 1 - m /\ \A k \in 1..(e - 1 - m) : stage[k] = w[m + k]
    <3>1. \A k \in (m + 1)..(e - 1) : w[k] \in Word
      BY <1>0, <2>4, <2>5 DEF Words
    <3> QED BY <1>0, <2>4, <2>5, <3>1, SubSeqProperties
  <2>8. PICK prefix \in SafePrefixes : IsPrefix(prefix, stage)
    BY <1>1, <2>6 DEF StageIsKnown
  <2> HIDE DEF stage
  <2>9. IsPrefix(prefix, b)
    <3>1. prefix \in Seq(Word) /\ Len(prefix) \in Nat /\ Len(prefix) <= Len(stage)
      BY <2>8, SafePrefixesAssumption DEF IsPrefix, Word
    <3>2. SubSeq(prefix, 1, Len(prefix)) = SubSeq(stage, 1, Len(prefix))
      BY <2>8 DEF IsPrefix
    <3>3. Len(prefix) <= Len(b) /\ \A k \in 1..Len(prefix) : b[k] = stage[k] /\ b[k] \in Word
      <4>1. Len(prefix) <= e - 1 - m /\ e - 1 - m <= Len(b) /\ e \in Nat
        BY <1>0, <2>2, <2>4, <2>5, <2>7, <3>1
      <4>2. Len(prefix) <= Len(b)
        BY <2>2, <2>4, <3>1, <4>1
      <4>3. \A k \in 1..Len(prefix) : k \in 1..Len(b) /\ k \in 1..(e - 1 - m)
        BY <2>2, <2>4, <3>1, <4>1
      <4>4. \A k \in 1..Len(b) : b[k] \in Word
        BY <2>2 DEF Words
      <4> QED BY <2>4, <2>7, <4>2, <4>3, <4>4
    <3>4. SubSeq(b, 1, Len(prefix)) = SubSeq(stage, 1, Len(prefix))
      <4>1. /\ SubSeq(b, 1, Len(prefix)) \in Seq(Word)
            /\ Len(SubSeq(b, 1, Len(prefix))) = Len(prefix)
            /\ \A k \in 1..Len(prefix) : SubSeq(b, 1, Len(prefix))[k] = b[k]
        BY <3>1, <3>3, SubSeqProperties
      <4>2. /\ SubSeq(stage, 1, Len(prefix)) \in Seq(Word)
            /\ Len(SubSeq(stage, 1, Len(prefix))) = Len(prefix)
            /\ \A k \in 1..Len(prefix) : SubSeq(stage, 1, Len(prefix))[k] = stage[k]
        BY <3>1, <3>3, SubSeqProperties
      <4> QED BY <3>3, <4>1, <4>2, SeqEqual
    <3> QED BY <3>1, <3>2, <3>3, <3>4 DEF IsPrefix
  <2> QED BY <2>1, <2>9 DEF b
<1> QED BY <1>1, <1>3, <1>4 DEF BenignCommand, s

(* A policy with a default other than "allow" allows what some rule of it  *)
(* allows, and nothing else (permission/policy.go, Policy.Decide).         *)
LEMMA SomeRuleAllows ==
  ASSUME NEW opinions, DOMAIN opinions \subseteq Nat, NEW default, default # "allow",
         Decide(opinions, default) = "allow"
  PROVE  \E i \in DOMAIN opinions : opinions[i] = "allow"
<1> DEFINE decided == {i \in DOMAIN opinions : opinions[i] # "undecided"}
           first == CHOOSE i \in decided : \A j \in decided : i <= j
<1>1. decided # {} /\ opinions[first] = "allow"
  BY DEF Decide
<1>2. \E i \in decided : \A j \in decided : i <= j
  BY <1>1, LeastNumber
<1>3. first \in decided
  BY <1>2
<1> QED BY <1>1, <1>3

(* What a policy lets through is harmless by what its documentation says.  *)
LEMMA AllowedIsHarmless ==
  ASSUME NEW p \in {"off", "readonly", "workspace", "ask"}, NEW q,
         q.paths \subseteq {"inside", "outside"}, q.command \in Seq(STRING),
         Verdict(p, q) = "allow"
  PROVE  Harmless(p, q)
<1>1. CASE p = "off"
  BY <1>1 DEF Harmless
<1>2. CASE p = "ask"
  <2>1. Decide(<<>>, "ask") # "allow"
    BY SomeRuleAllows
  <2> QED BY <1>2, <2>1 DEF Verdict, AskEverything
<1>3. CASE p = "readonly"
  <2>1. Decide(<<OnlyReads(q)>>, "deny") = "allow"
    BY <1>3 DEF Verdict, ReadOnly
  <2>2. \E i \in DOMAIN <<OnlyReads(q)>> : <<OnlyReads(q)>>[i] = "allow"
    BY <2>1, SomeRuleAllows
  <2>3. OnlyReads(q) = "allow"
    BY <2>2
  <2> QED BY <1>3, <2>3 DEF OnlyReads, Harmless
<1>4. CASE p = "workspace"
  <2> DEFINE opinions == <<AllowCaps({"meta"}, q), SelfContained(q), SafeCommands(q),
                           AskFor({"exec"}, q), InsideRoot(q)>>
  <2>1. Decide(opinions, "ask") = "allow"
    BY <1>4 DEF Verdict, Workspace
  <2>2. DOMAIN opinions = 1..5
    OBVIOUS
  <2>3. \E i \in 1..5 : opinions[i] = "allow"
    <3> HIDE DEF opinions
    <3> QED BY <2>1, <2>2, SomeRuleAllows
  <2>4. \/ AllowCaps({"meta"}, q) = "allow" \/ SelfContained(q) = "allow"
        \/ SafeCommands(q) = "allow" \/ AskFor({"exec"}, q) = "allow"
        \/ InsideRoot(q) = "allow"
    BY <2>3
  <2>5. AskFor({"exec"}, q) # "allow"
    BY DEF AskFor
  <2>6. AllowCaps({"meta"}, q) = "allow" => "meta" \in q.caps
    BY DEF AllowCaps
  <2>7. SelfContained(q) = "allow" => q.caps = {"readOnly"} /\ q.needs = {}
    BY DEF SelfContained
  <2>8. SafeCommands(q) = "allow" => "exec" \in q.caps /\ BenignCommand(q)
    <3>1. q.command \in Words
      BY DEF Words, Word
    <3>2. SafeCommands(q) = "allow" => "exec" \in q.caps
      BY DEF SafeCommands
    <3> QED BY <3>1, <3>2, SafeIsBenign
  <2>9. InsideRoot(q) = "allow" =>
          /\ "exec" \notin q.caps
          /\ q.needs \cap {"fsRead", "fsWrite"} # {} /\ q.paths = {"inside"}
    BY DEF InsideRoot, FSRoot
  <2> QED BY <1>4, <2>4, <2>5, <2>6, <2>7, <2>8, <2>9 DEF Harmless
<1> QED BY <1>1, <1>2, <1>3, <1>4
-----------------------------------------------------------------------------
(* Each step keeps the inductive invariant. *)

LEMMA InitOK == Init => IInv
<1> SUFFICES ASSUME Init PROVE IInv
  OBVIOUS
<1> USE ToolChainAssumption, FaultsAssumption
<1>1. Types
  BY DEF Init, Types, Phases, Results
<1>2. WorkerBooks
  BY DEF Init, WorkerBooks, WorkerBook, Unreached, Refusals
<1>3. GateBook
  BY DEF Init, GateBook
<1>4. TripNeedsEvidence
  BY DEF Init, TripNeedsEvidence
<1>5. CountBook
  BY DEF Init, CountBook
<1> QED BY <1>1, <1>2, <1>3, <1>4, <1>5 DEF IInv

(* What a step leaves alone keeps its book.                                *)
LEMMA TripAlone ==
  ASSUME TripNeedsEvidence, UNCHANGED <<breaker, evidence>>
  PROVE  TripNeedsEvidence'
BY DEF TripNeedsEvidence

LEMMA CountAlone ==
  ASSUME CountBook, UNCHANGED <<counts, failed>>
  PROVE  CountBook'
BY DEF CountBook

(* A worker keeps its book when another one moves.                         *)
LEMMA OthersBooks ==
  ASSUME WorkerBooks, NEW w \in Workers, dead \subseteq dead',
         \A v \in Workers : v # w =>
           /\ pc'[v] = pc[v] /\ run'[v] = run[v] /\ call'[v] = call[v]
           /\ attempt'[v] = attempt[v] /\ result'[v] = result[v] /\ ran'[v] = ran[v],
         WorkerBook(w)'
  PROVE  WorkerBooks'
<1> SUFFICES ASSUME NEW v \in Workers, v # w PROVE WorkerBook(v)'
  BY DEF WorkerBooks
<1> QED BY DEF WorkerBooks, WorkerBook, Limit, Tool, Dead
(* A dispatched call stands before the gate, or is refused at once.        *)
LEMMA DispatchOK ==
  ASSUME IInv, NEW w \in Workers, Dispatch(w)
  PROVE  IInv'
<1> USE ToolChainAssumption, FaultsAssumption DEF IInv, vars, state, history, Moved
<1>0. /\ WorkerBook(w) /\ pc[w] = "idle" /\ w \in Workers
      /\ UNCHANGED <<policy, dead, grants, breaker, counts, attempt, noted, history>>
  BY DEF WorkerBooks, Dispatch, At
<1>1. PICK r \in Runs, c \in Calls :
        /\ run' = [run EXCEPT ![w] = r] /\ call' = [call EXCEPT ![w] = c]
        /\ \/ pc' = [pc EXCEPT ![w] = "done"] /\ result' = [result EXCEPT ![w] = "cause"]
           \/ pc' = [pc EXCEPT ![w] = "gate"] /\ result' = result
  BY DEF Dispatch, Goto, Returns
<1>2. Types'
  <2>1. begun' \in 0..MaxCalls
    BY DEF Types, Dispatch
  <2> QED BY <1>0, <1>1, <2>1 DEF Types, Phases, Results, Refusals
<1>3. WorkerBook(w)'
  <2>1. run'[w] = r /\ call'[w] = c /\ attempt'[w] = 0 /\ ran'[w] = 0
    BY <1>0, <1>1 DEF Types, WorkerBook
  <2>2. \/ pc'[w] = "done" /\ result'[w] = "cause"
        \/ pc'[w] = "gate" /\ result'[w] = "none"
    BY <1>0, <1>1 DEF Types, WorkerBook
  <2>3. Limit(w)' \in Nat
    BY DEF Limit
  <2> QED BY <2>1, <2>2, <2>3 DEF WorkerBook, Unreached
<1>4. WorkerBooks'
  BY <1>0, <1>1, <1>3, OthersBooks DEF Types
<1>5. GateBook'
  BY <1>0, <1>1 DEF GateBook, Settled, Types, WorkerBooks, WorkerBook
<1> QED BY <1>0, <1>2, <1>4, <1>5, TripAlone, CountAlone

(* A call that got past the gate is finished and its run has settled it.   *)
LEMMA FinishOK ==
  ASSUME IInv, NEW w \in Workers, Finish(w)
  PROVE  IInv'
<1> USE ToolChainAssumption, FaultsAssumption DEF IInv, vars, state, history, Moved
<1>0. /\ WorkerBook(w) /\ pc[w] = "done" /\ run[w] \in Runs /\ call[w] \in Calls
      /\ UNCHANGED <<policy, dead, grants, breaker, counts, begun, approved, evidence, failed>>
  BY DEF WorkerBooks, WorkerBook, Finish, At
<1>1. /\ pc' = [pc EXCEPT ![w] = "idle"] /\ result' = [result EXCEPT ![w] = "none"]
      /\ run' = [run EXCEPT ![w] = "none"] /\ call' = [call EXCEPT ![w] = "none"]
      /\ attempt' = [attempt EXCEPT ![w] = 0] /\ ran' = [ran EXCEPT ![w] = 0]
      /\ noted' = [noted EXCEPT ![w] = FALSE]
  BY DEF Finish, Goto, Returns
<1>2. /\ finished' \in [Runs -> SUBSET Calls]
      /\ \A r \in Runs : \A c \in finished'[r] :
           \/ c \in finished[r]
           \/ r = run[w] /\ c = call[w] /\ result[w] \notin {"denied", "abandoned", "cause"}
  BY <1>0 DEF Finish, Types
<1>3. Types'
  BY <1>0, <1>1, <1>2 DEF Types, Phases, Results
<1>4. WorkerBook(w)'
  BY <1>0, <1>1 DEF Types, WorkerBook, Unreached, Limit
<1>5. WorkerBooks'
  BY <1>0, <1>1, <1>4, OthersBooks DEF Types
<1>6. GateBook'
  <2>1. \A r, c : Settled(r, c)' = Settled(r, c)
    BY <1>0 DEF Settled
  <2>2. \A r \in Runs : \A c \in finished'[r] : Settled(r, c)'
    BY <1>0, <1>2, <2>1 DEF GateBook
  <2>3. ASSUME NEW v \in Workers, pc'[v] # "idle"
        PROVE  v # w /\ pc'[v] = pc[v] /\ result'[v] = result[v] /\ run'[v] = run[v] /\ call'[v] = call[v]
    BY <1>0, <1>1, <2>3 DEF Types
  <2> QED BY <1>0, <2>1, <2>2, <2>3 DEF GateBook
<1> QED BY <1>0, <1>3, <1>5, <1>6, TripAlone, CountAlone

(* A run that ends its context leaves every book as it is.                 *)
LEMMA CancelOK ==
  ASSUME IInv, NEW r \in Runs, Cancel(r)
  PROVE  IInv'
<1> USE ToolChainAssumption, FaultsAssumption DEF IInv, vars, state, history, Moved
<1>1. Types'
  BY DEF Cancel, Types
<1>2. WorkerBooks'
  BY DEF Cancel, WorkerBooks, WorkerBook, Limit, Tool, Dead
<1>3. GateBook'
  BY DEF Cancel, GateBook, Settled
<1> QED BY <1>1, <1>2, <1>3, TripAlone, CountAlone DEF Cancel
(* The gate lets a settled call by, refuses it, or has it asked about.     *)
LEMMA GateOK ==
  ASSUME IInv, NEW w \in Workers, Gate(w)
  PROVE  IInv'
<1> USE ToolChainAssumption, FaultsAssumption DEF IInv, vars, state, history, Moved
<1>0. /\ WorkerBook(w) /\ pc[w] = "gate" /\ run[w] \in Runs /\ call[w] \in Calls
      /\ UNCHANGED Moved
  BY DEF WorkerBooks, WorkerBook, Gate, Granted, Settled, At
<1>1. \/ /\ pc' = [pc EXCEPT ![w] = "look"] /\ result' = result /\ Settled(run[w], call[w])
      \/ pc' = [pc EXCEPT ![w] = "done"] /\ result' = [result EXCEPT ![w] = "denied"]
      \/ pc' = [pc EXCEPT ![w] = "asking"] /\ result' = result
  BY DEF Gate, Granted, Settled, Goto, Returns
<1>2. Types'
  BY <1>0, <1>1 DEF Types, Phases, Results, Messages, Own, Refusals
<1>3. WorkerBook(w)'
  BY <1>0, <1>1 DEF Types, WorkerBook, Unreached, Limit, Tool, Dead
<1>4. WorkerBooks'
  BY <1>0, <1>1, <1>3, OthersBooks DEF Types
<1>5. GateBook'
  BY <1>0, <1>1 DEF GateBook, Settled, Types, WorkerBooks, WorkerBook
<1> QED BY <1>0, <1>2, <1>4, <1>5, TripAlone, CountAlone

(* A no ends the call before any layer below the gate.                     *)
LEMMA SaysNoOK ==
  ASSUME IInv, NEW w \in Workers, SaysNo(w)
  PROVE  IInv'
<1> USE ToolChainAssumption, FaultsAssumption DEF IInv, vars, state, history, Moved
<1>0. /\ WorkerBook(w) /\ pc[w] = "asking" /\ run[w] \in Runs /\ call[w] \in Calls
      /\ UNCHANGED Moved
  BY DEF WorkerBooks, WorkerBook, SaysNo, At
<1>1. pc' = [pc EXCEPT ![w] = "done"] /\ result' = [result EXCEPT ![w] = "denied"]
  BY DEF SaysNo, Goto, Returns
<1>2. Types'
  BY <1>0, <1>1 DEF Types, Phases, Results, Messages, Own, Refusals
<1>3. WorkerBook(w)'
  BY <1>0, <1>1 DEF Types, WorkerBook, Unreached, Limit, Tool, Dead
<1>4. WorkerBooks'
  BY <1>0, <1>1, <1>3, OthersBooks DEF Types
<1>5. GateBook'
  BY <1>0, <1>1 DEF GateBook, Settled, Types, WorkerBooks, WorkerBook
<1> QED BY <1>0, <1>2, <1>4, <1>5, TripAlone, CountAlone

(* So does the end of the run while the question is open.                  *)
LEMMA AbandonsWaitOK ==
  ASSUME IInv, NEW w \in Workers, AbandonsWait(w)
  PROVE  IInv'
<1> USE ToolChainAssumption, FaultsAssumption DEF IInv, vars, state, history, Moved
<1>0. /\ WorkerBook(w) /\ pc[w] = "asking" /\ run[w] \in Runs /\ call[w] \in Calls
      /\ UNCHANGED Moved
  BY DEF WorkerBooks, WorkerBook, AbandonsWait, At
<1>1. pc' = [pc EXCEPT ![w] = "done"] /\ result' = [result EXCEPT ![w] = "abandoned"]
  BY DEF AbandonsWait, Goto, Returns
<1>2. Types'
  BY <1>0, <1>1 DEF Types, Phases, Results, Messages, Own, Refusals
<1>3. WorkerBook(w)'
  BY <1>0, <1>1 DEF Types, WorkerBook, Unreached, Limit, Tool, Dead
<1>4. WorkerBooks'
  BY <1>0, <1>1, <1>3, OthersBooks DEF Types
<1>5. GateBook'
  BY <1>0, <1>1 DEF GateBook, Settled, Types, WorkerBooks, WorkerBook
<1> QED BY <1>0, <1>2, <1>4, <1>5, TripAlone, CountAlone

(* The end of the run cuts the pause between two attempts short.           *)
LEMMA SleepCutOK ==
  ASSUME IInv, NEW w \in Workers, SleepCut(w)
  PROVE  IInv'
<1> USE ToolChainAssumption, FaultsAssumption DEF IInv, vars, state, history, Moved
<1>0. /\ WorkerBook(w) /\ pc[w] = "sleep" /\ run[w] \in Runs /\ call[w] \in Calls
      /\ UNCHANGED Moved
  BY DEF WorkerBooks, WorkerBook, SleepCut, Dead, At
<1>1. /\ pc' = [pc EXCEPT ![w] = "tally"] /\ result' = [result EXCEPT ![w] = "cause"]
      /\ run[w] \in dead
  BY DEF SleepCut, Dead, Goto, Returns
<1>2. Types'
  BY <1>0, <1>1 DEF Types, Phases, Results, Messages, Own, Refusals
<1>3. WorkerBook(w)'
  BY <1>0, <1>1 DEF Types, WorkerBook, Unreached, Limit, Tool, Dead
<1>4. WorkerBooks'
  BY <1>0, <1>1, <1>3, OthersBooks DEF Types
<1>5. GateBook'
  BY <1>0, <1>1 DEF GateBook, Settled, Types, WorkerBooks, WorkerBook
<1> QED BY <1>0, <1>2, <1>4, <1>5, TripAlone, CountAlone
(* A yes is noted as said in this run, of these arguments.                 *)
LEMMA SaysYesOK ==
  ASSUME IInv, NEW w \in Workers, SaysYes(w)
  PROVE  IInv'
<1> USE ToolChainAssumption, FaultsAssumption DEF IInv, vars, state, history, Moved
<1>0. /\ WorkerBook(w) /\ pc[w] = "asking" /\ run[w] \in Runs /\ call[w] \in Calls
      /\ pc' = [pc EXCEPT ![w] = "remember"]
      /\ UNCHANGED <<policy, dead, grants, breaker, counts, run, call, attempt, result, noted, begun,
                     ran, finished, evidence, failed>>
  BY DEF WorkerBooks, WorkerBook, SaysYes, At, Goto
<1>1. /\ approved' \in [Runs -> SUBSET Calls] /\ call[w] \in approved'[run[w]]
      /\ \A r \in Runs : approved[r] \subseteq approved'[r]
  BY <1>0 DEF SaysYes, Types
<1>2. Types'
  BY <1>0, <1>1 DEF Types, Phases
<1>3. WorkerBook(w)'
  BY <1>0 DEF Types, WorkerBook, Unreached, Limit, Tool, Dead
<1>4. WorkerBooks'
  BY <1>0, <1>3, OthersBooks DEF Types
<1>5. GateBook'
  BY <1>0, <1>1 DEF GateBook, Settled, Types, WorkerBooks, WorkerBook
<1> QED BY <1>0, <1>2, <1>4, <1>5, TripAlone, CountAlone

(* What is remembered was approved, and settles the call from then on.     *)
LEMMA RememberOK ==
  ASSUME IInv, NEW w \in Workers, Remember(w)
  PROVE  IInv'
<1> USE ToolChainAssumption, FaultsAssumption DEF IInv, vars, state, history, Moved
<1>0. /\ WorkerBook(w) /\ pc[w] = "remember" /\ run[w] \in Runs /\ call[w] \in Calls
      /\ call[w] \in approved[run[w]]
      /\ pc' = [pc EXCEPT ![w] = "look"]
      /\ UNCHANGED <<policy, dead, breaker, counts, run, call, attempt, result, noted, begun, history>>
  BY DEF WorkerBooks, WorkerBook, GateBook, Remember, At, Goto
<1>1. /\ grants' \in [Runs -> SUBSET Calls] /\ call[w] \in grants'[run[w]]
      /\ \A r \in Runs : grants[r] \subseteq grants'[r] /\ grants'[r] \subseteq approved[r]
  BY <1>0 DEF Remember, Types, GateBook
<1>2. Types'
  BY <1>0, <1>1 DEF Types, Phases
<1>3. WorkerBook(w)'
  BY <1>0 DEF Types, WorkerBook, Unreached, Limit, Tool, Dead
<1>4. WorkerBooks'
  BY <1>0, <1>3, OthersBooks DEF Types
<1>5. GateBook'
  BY <1>0, <1>1 DEF GateBook, Settled, Types, WorkerBooks, WorkerBook
<1> QED BY <1>0, <1>2, <1>4, <1>5, TripAlone, CountAlone

(* The first attempt is within the limit; an open circuit allows none.     *)
LEMMA LookOK ==
  ASSUME IInv, NEW w \in Workers, Look(w)
  PROVE  IInv'
<1> USE ToolChainAssumption, FaultsAssumption DEF IInv, vars, state, history, Moved
<1>0. /\ WorkerBook(w) /\ pc[w] = "look" /\ run[w] \in Runs /\ call[w] \in Calls
      /\ UNCHANGED <<policy, dead, grants, breaker, counts, run, call, noted, begun,
                     approved, finished, evidence, failed>>
  BY DEF WorkerBooks, WorkerBook, Look, At
<1>1. \/ /\ pc' = [pc EXCEPT ![w] = "body"] /\ UNCHANGED result
         /\ attempt' = [attempt EXCEPT ![w] = @ + 1]
         /\ ran' = [ran EXCEPT ![w] = @ + (IF call[w] \in Malformed THEN 0 ELSE 1)]
      \/ /\ pc' = [pc EXCEPT ![w] = "repeats"] /\ UNCHANGED <<attempt, ran>>
         /\ result' = [result EXCEPT ![w] = "circuitOpen"]
  BY DEF Look, Enters, Goto, Returns
<1>2. Tool(w) \in Tools /\ Limit(w) \in 1..MaxAttempts /\ attempt[w] < Limit(w)
  BY <1>0 DEF WorkerBook, Limit, Tool
<1>3. /\ attempt[w] \in Nat /\ ran[w] \in Nat /\ ran[w] <= attempt[w]
      /\ attempt'[w] \in 0..MaxAttempts /\ attempt'[w] <= Limit(w)
      /\ ran'[w] \in Nat /\ ran'[w] <= attempt'[w]
      /\ pc'[w] = "repeats" => attempt'[w] = 0
  BY <1>0, <1>1, <1>2 DEF Types, WorkerBook
<1>4. Types'
  BY <1>0, <1>1, <1>3 DEF Types, Phases, Results, Refusals
<1>5. WorkerBook(w)'
  BY <1>0, <1>1, <1>3 DEF Types, WorkerBook, Unreached, Limit, Tool, Dead
<1>6. WorkerBooks'
  BY <1>0, <1>1, <1>5, OthersBooks DEF Types
<1>7. GateBook'
  BY <1>0, <1>1 DEF GateBook, Settled, Types, WorkerBooks, WorkerBook
<1> QED BY <1>0, <1>4, <1>6, <1>7, TripAlone, CountAlone

(* So is every further one: the pause was entered below the limit.         *)
LEMMA WakesOK ==
  ASSUME IInv, NEW w \in Workers, Wakes(w)
  PROVE  IInv'
<1> USE ToolChainAssumption, FaultsAssumption DEF IInv, vars, state, history, Moved
<1>0. /\ WorkerBook(w) /\ pc[w] = "sleep" /\ run[w] \in Runs /\ call[w] \in Calls
      /\ UNCHANGED <<policy, dead, grants, breaker, counts, run, call, noted, begun,
                     approved, finished, evidence, failed>>
  BY DEF WorkerBooks, WorkerBook, Wakes, At
<1>1. \/ /\ pc' = [pc EXCEPT ![w] = "body"] /\ UNCHANGED result
         /\ attempt' = [attempt EXCEPT ![w] = @ + 1]
         /\ ran' = [ran EXCEPT ![w] = @ + (IF call[w] \in Malformed THEN 0 ELSE 1)]
  BY DEF Wakes, Enters, Goto, Returns
<1>2. Tool(w) \in Tools /\ Limit(w) \in 1..MaxAttempts /\ attempt[w] < Limit(w)
  BY <1>0 DEF WorkerBook, Limit, Tool
<1>3. /\ attempt[w] \in Nat /\ ran[w] \in Nat /\ ran[w] <= attempt[w]
      /\ attempt'[w] \in 0..MaxAttempts /\ attempt'[w] <= Limit(w)
      /\ ran'[w] \in Nat /\ ran'[w] <= attempt'[w]
      /\ pc'[w] = "repeats" => attempt'[w] = 0
  BY <1>0, <1>1, <1>2 DEF Types, WorkerBook
<1>4. Types'
  BY <1>0, <1>1, <1>3 DEF Types, Phases, Results, Refusals
<1>5. WorkerBook(w)'
  BY <1>0, <1>1, <1>3 DEF Types, WorkerBook, Unreached, Limit, Tool, Dead
<1>6. WorkerBooks'
  BY <1>0, <1>1, <1>5, OthersBooks DEF Types
<1>7. GateBook'
  BY <1>0, <1>1 DEF GateBook, Settled, Types, WorkerBooks, WorkerBook
<1> QED BY <1>0, <1>4, <1>6, <1>7, TripAlone, CountAlone

(* An attempt ends in a pause, if another is allowed, or in the tally.     *)
LEMMA AttemptEndsOK ==
  ASSUME IInv, NEW w \in Workers, NEW r \in {"ok", "badCall", "timeout"} \cup Faults, AttemptEnds(w, UnderTimeout(w, r))
  PROVE  IInv'
<1> USE ToolChainAssumption, FaultsAssumption DEF IInv, vars, state, history, Moved
<1> DEFINE s == UnderTimeout(w, r)
<1>0. /\ WorkerBook(w) /\ pc[w] = "body" /\ run[w] \in Runs /\ call[w] \in Calls
      /\ UNCHANGED Moved
  BY DEF WorkerBooks, WorkerBook, AttemptEnds, At
<1>1. /\ result' = [result EXCEPT ![w] = s]
      /\ \/ pc' = [pc EXCEPT ![w] = "tally"]
         \/ /\ pc' = [pc EXCEPT ![w] = "sleep"]
            /\ Tool(w) \in Idempotent /\ attempt[w] < MaxAttempts
  BY DEF AttemptEnds, MayRetry, Goto, Returns
<1>2. s \in {"ok", "badCall"} \cup Own \/ (s = "cause" /\ Dead(w))
  BY DEF UnderTimeout, Own
<1>3. s \in Results /\ s \notin Unreached
  BY <1>2 DEF Results, Messages, Own, Refusals, Unreached
<1> HIDE DEF s
<1>4. Types'
  BY <1>0, <1>1, <1>3 DEF Types, Phases
<1>5. WorkerBook(w)'
  BY <1>0, <1>1, <1>2, <1>3 DEF Types, WorkerBook, Limit, Tool, Dead
<1>6. WorkerBooks'
  BY <1>0, <1>1, <1>5, OthersBooks DEF Types
<1>7. GateBook'
  BY <1>0, <1>1 DEF GateBook, Settled, Types, WorkerBooks, WorkerBook
<1> QED BY <1>0, <1>4, <1>6, <1>7, TripAlone, CountAlone
(* A failure that counts is one of the tool's own: evidence keeps up.      *)
LEMMA TallyOK ==
  ASSUME IInv, NEW w \in Workers, Tally(w)
  PROVE  IInv'
<1> USE ToolChainAssumption, FaultsAssumption DEF IInv, vars, state, history, Moved
<1> DEFINE t == Tool(w)
<1>0. /\ WorkerBook(w) /\ pc[w] = "tally" /\ run[w] \in Runs /\ call[w] \in Calls
      /\ pc' = [pc EXCEPT ![w] = "repeats"]
      /\ UNCHANGED <<policy, dead, grants, counts, run, call, attempt, result, noted, begun,
                     ran, approved, finished, failed>>
  BY DEF WorkerBooks, WorkerBook, Tally, At, Goto
<1>1. t \in Tools /\ Threshold \in Nat \ {0}
  BY <1>0 DEF Tool
<1>2. result[w] \in {"ok", "badCall"} \cup Own \/ (result[w] = "cause" /\ Dead(w))
  BY <1>0 DEF WorkerBook
<1> DEFINE b == breaker[t]
           e == evidence[t]
<1>3. /\ b \in [failures : 0..Threshold, open : BOOLEAN] /\ e \in Nat
      /\ b.failures \in Nat /\ b.failures <= e /\ (b.open => e >= Threshold)
  BY <1>1 DEF Types, TripNeedsEvidence
<1>4. \E y \in [failures : 0..Threshold, open : BOOLEAN], f \in Nat :
        /\ breaker' = [breaker EXCEPT ![t] = y] /\ evidence' = [evidence EXCEPT ![t] = f]
        /\ y.failures <= f /\ (y.open => f >= Threshold)
  <2> DEFINE f == CASE result[w] = "ok" -> 0
                    [] result[w] \in Own /\ e < 2 * Threshold -> e + 1
                    [] OTHER -> e
  <2>1. evidence' = [evidence EXCEPT ![t] = f]
    BY DEF Tally
  <2>2. CASE NoEvidence(w)
    <3>1. breaker' = [breaker EXCEPT ![t] = b]
      BY <2>2 DEF Tally, NoEvidence
    <3>2. f \in Nat /\ f >= e
      BY <1>3, <2>2 DEF NoEvidence
    <3>3. b.failures <= f /\ (b.open => f >= Threshold)
      BY <1>1, <1>3, <3>2
    <3> HIDE DEF f, b, t
    <3> QED BY <1>3, <2>1, <3>1, <3>2, <3>3
  <2>3. CASE ~NoEvidence(w) /\ result[w] = "ok"
    <3> DEFINE y == [failures |-> 0, open |-> FALSE]
    <3>1. breaker' = [breaker EXCEPT ![t] = y]
      BY <2>3 DEF Tally, NoEvidence
    <3>2. f = 0
      BY <2>3 DEF Own
    <3>3. /\ y \in [failures : 0..Threshold, open : BOOLEAN]
          /\ y.failures <= f /\ (y.open => f >= Threshold)
      BY <1>1, <3>2
    <3> HIDE DEF f, y, t
    <3> QED BY <2>1, <3>1, <3>2, <3>3
  <2>4. CASE ~NoEvidence(w) /\ result[w] # "ok"
    <3> DEFINE y == Counted(b)
    <3>1. breaker' = [breaker EXCEPT ![t] = y]
      BY <2>4 DEF Tally
    <3>2. f = (IF e < 2 * Threshold THEN e + 1 ELSE e)
      BY <1>2, <2>4 DEF NoEvidence
    <3>3. f \in Nat /\ (f = e + 1 \/ (f = e /\ e >= 2 * Threshold))
      BY <1>1, <1>3, <3>2
    <3>4. CASE b.failures + 1 >= Threshold
      <4>1. y = [failures |-> 0, open |-> TRUE] /\ f >= Threshold
        BY <1>1, <1>3, <3>3, <3>4 DEF Counted
      <4>2. y \in [failures : 0..Threshold, open : BOOLEAN] /\ y.failures <= f
        BY <1>1, <3>3, <4>1
      <4> HIDE DEF f, y, t
      <4> QED BY <2>1, <3>1, <3>3, <4>1, <4>2
    <3>5. CASE ~(b.failures + 1 >= Threshold)
      <4>1. y = [b EXCEPT !.failures = b.failures + 1]
        BY <3>5 DEF Counted
      <4>2. /\ y \in [failures : 0..Threshold, open : BOOLEAN]
            /\ y.failures = b.failures + 1 /\ y.open = b.open
        <5> HIDE DEF b, y
        <5> QED BY <1>1, <1>3, <3>5, <4>1
      <4>3. y.failures <= f /\ (y.open => f >= Threshold)
        <5> HIDE DEF f, b, y, e
        <5> QED BY <1>1, <1>3, <3>3, <3>5, <4>2
      <4> HIDE DEF f, y, t
      <4> QED BY <2>1, <3>1, <3>3, <4>2, <4>3
    <3> QED BY <3>4, <3>5
  <2> QED BY <2>2, <2>3, <2>4
<1> HIDE DEF t, b, e
<1>5. PICK y \in [failures : 0..Threshold, open : BOOLEAN], f \in Nat :
        /\ breaker' = [breaker EXCEPT ![t] = y] /\ evidence' = [evidence EXCEPT ![t] = f]
        /\ y.failures <= f /\ (y.open => f >= Threshold)
  BY <1>4
<1>6. TripNeedsEvidence'
  <2> SUFFICES ASSUME NEW u \in Tools
               PROVE  /\ breaker'[u].failures <= evidence'[u]
                      /\ breaker'[u].open => evidence'[u] >= Threshold
    BY DEF TripNeedsEvidence
  <2>1. CASE u = t
    <3>1. breaker'[u] = y /\ evidence'[u] = f
      BY <1>5, <2>1 DEF Types
    <3> QED BY <1>5, <3>1
  <2>2. CASE u # t
    <3>1. breaker'[u] = breaker[u] /\ evidence'[u] = evidence[u]
      BY <1>5, <2>2 DEF Types
    <3> QED BY <3>1 DEF TripNeedsEvidence
  <2> QED BY <2>1, <2>2
<1>7. Types'
  BY <1>0, <1>1, <1>5 DEF Types, Phases
<1>8. WorkerBook(w)'
  BY <1>0 DEF Types, WorkerBook, Unreached, Limit, Tool, Dead
<1>9. WorkerBooks'
  BY <1>0, <1>8, OthersBooks DEF Types
<1>10. GateBook'
  BY <1>0 DEF GateBook, Settled, Types, WorkerBooks, WorkerBook
<1> QED BY <1>0, <1>6, <1>7, <1>9, <1>10, CountAlone

(* The end of a cooldown shuts the circuit and forgives nothing.           *)
LEMMA CooldownEndsOK ==
  ASSUME IInv, NEW t \in Tools, CooldownEnds(t)
  PROVE  IInv'
<1> USE ToolChainAssumption, FaultsAssumption DEF IInv, vars, state, history, Moved
<1>0. UNCHANGED <<policy, dead, grants, counts, pc, run, call, attempt, result, noted, begun, history>>
  BY DEF CooldownEnds
<1> DEFINE y == [breaker[t] EXCEPT !.open = FALSE]
<1>1. breaker' = [breaker EXCEPT ![t] = y]
  BY DEF CooldownEnds
<1>2. /\ y \in [failures : 0..Threshold, open : BOOLEAN]
      /\ y.failures = breaker[t].failures /\ y.open = FALSE
  <2>1. PICK x \in [failures : 0..Threshold, open : BOOLEAN] : x = breaker[t]
    BY DEF Types
  <2> QED BY <2>1
<1> HIDE DEF y
<1>3. Types'
  BY <1>0, <1>1, <1>2 DEF Types
<1>4. TripNeedsEvidence'
  BY <1>0, <1>1, <1>2 DEF Types, TripNeedsEvidence
<1>5. WorkerBooks'
  BY <1>0 DEF WorkerBooks, WorkerBook, Limit, Tool, Dead
<1>6. GateBook'
  BY <1>0 DEF GateBook, Settled
<1> QED BY <1>0, <1>3, <1>4, <1>5, <1>6, CountAlone
(* CallStats.fail adds one to the counter of this call and this message,   *)
(* whatever it keeps of the others, even when it starts over.              *)
LEMMA FailCounts ==
  ASSUME NEW s, NEW c \in Calls, NEW m, NEW f \in [Calls -> [Messages -> Nat]],
         DOMAIN s \subseteq Calls,
         \A d \in DOMAIN s :
           s[d] \in [Messages -> Nat] /\ \A n \in Messages : s[d][n] <= f[d][n]
  PROVE  /\ DOMAIN Fail(s, c, m) \subseteq Calls
         /\ c \in DOMAIN Fail(s, c, m)
         /\ \A d \in DOMAIN Fail(s, c, m) :
              /\ Fail(s, c, m)[d] \in [Messages -> Nat]
              /\ \A n \in Messages :
                   Fail(s, c, m)[d][n] <= f[d][n] + (IF d = c /\ n = m THEN 1 ELSE 0)
<1> DEFINE kept == IF Cardinality(DOMAIN s) >= MaxKeys THEN <<>> ELSE s
           old == IF c \in DOMAIN kept THEN kept[c] ELSE Never
           new == [n \in Messages |-> IF n = m THEN old[n] + 1 ELSE old[n]]
<1>1. Fail(s, c, m) = [d \in DOMAIN kept \cup {c} |-> IF d = c THEN new ELSE kept[d]]
  BY DEF Fail
<1>2. kept = s \/ DOMAIN kept = {}
  OBVIOUS
<1> HIDE DEF kept
<1>3. /\ DOMAIN kept \subseteq Calls
      /\ \A d \in DOMAIN kept :
           kept[d] \in [Messages -> Nat] /\ \A n \in Messages : kept[d][n] <= f[d][n]
  BY <1>2
<1>4. \A n \in Messages : old[n] \in Nat /\ old[n] <= f[c][n]
  <2>1. CASE c \in DOMAIN kept
    BY <1>3, <2>1
  <2>2. CASE c \notin DOMAIN kept
    BY <2>2 DEF Never
  <2> QED BY <2>1, <2>2
<1>5. /\ new \in [Messages -> Nat]
      /\ \A n \in Messages : new[n] <= f[c][n] + (IF n = m THEN 1 ELSE 0)
  <2> HIDE DEF old
  <2> QED BY <1>4
<1> HIDE DEF new
<1> QED BY <1>1, <1>3, <1>5

(* A run's counters follow its failures, and forget them on a success.     *)
LEMMA CountRepeatsOK ==
  ASSUME IInv, NEW w \in Workers, CountRepeats(w)
  PROVE  IInv'
<1> USE ToolChainAssumption, FaultsAssumption DEF IInv, vars, state, history, Moved
<1> DEFINE r == run[w]
           c == call[w]
           m == result[w]
<1>0. /\ WorkerBook(w) /\ pc[w] = "repeats" /\ r \in Runs /\ c \in Calls
      /\ pc' = [pc EXCEPT ![w] = "done"]
      /\ UNCHANGED <<policy, dead, grants, breaker, run, call, attempt, result, begun,
                     ran, approved, finished, evidence>>
  BY DEF WorkerBooks, WorkerBook, CountRepeats, At, Goto
<1>1. noted' \in [Workers -> BOOLEAN]
  BY DEF Types, CountRepeats
<1> DEFINE f == CASE m = "ok" -> Never
                  [] m \in Messages ->
                       [n \in Messages |-> IF n = m THEN failed[r][c][n] + 1 ELSE failed[r][c][n]]
                  [] OTHER -> failed[r][c]
<1>2. failed' = [failed EXCEPT ![r][c] = f]
  <2> HIDE DEF IInv
  <2> QED BY DEF CountRepeats
<1>3. /\ f \in [Messages -> Nat]
      /\ m = "ok" \/ \A n \in Messages : f[n] = failed[r][c][n] + (IF n = m THEN 1 ELSE 0)
  <2>1. CASE m = "ok"
    <3>1. f = Never
      BY <2>1 DEF Messages, Own
    <3>2. Never \in [Messages -> Nat]
      BY DEF Never
    <3> HIDE DEF f
    <3> QED BY <2>1, <3>1, <3>2
  <2>2. CASE m # "ok" /\ m \in Messages
    <3>1. f = [n \in Messages |-> IF n = m THEN failed[r][c][n] + 1 ELSE failed[r][c][n]]
      BY <2>2
    <3>2. failed[r][c] \in [Messages -> Nat]
      BY <1>0 DEF Types
    <3> QED BY <2>2, <3>1, <3>2
  <2>3. CASE m # "ok" /\ m \notin Messages
    <3>1. f = failed[r][c]
      BY <2>3
    <3>2. failed[r][c] \in [Messages -> Nat]
      BY <1>0 DEF Types
    <3> QED BY <2>3, <3>1, <3>2
  <2> QED BY <2>1, <2>2, <2>3
<1>4. /\ DOMAIN counts' = Runs
      /\ \A q \in Runs : q # r => counts'[q] = counts[q]
      /\ \/ counts'[r] = counts[r] /\ m # "ok"
         \/ counts'[r] = Succeed(counts[r], c) /\ m = "ok"
         \/ counts'[r] = Fail(counts[r], c, m) /\ m # "ok"
  BY <1>0 DEF CountRepeats, Types
<1> HIDE DEF r, c, m, f
<1>5. failed' \in [Runs -> [Calls -> [Messages -> Nat]]]
  BY <1>0, <1>2, <1>3 DEF Types
<1>6. Types'
  BY <1>0, <1>1, <1>4, <1>5 DEF Types, Phases
<1>7. \A q \in Runs, d \in Calls :
        failed'[q][d] = (IF q = r /\ d = c THEN f ELSE failed[q][d])
  BY <1>0, <1>2 DEF Types
<1>8. CountBook'
  <2> SUFFICES ASSUME NEW q \in Runs
               PROVE  /\ DOMAIN counts'[q] \subseteq Calls
                      /\ \A d \in DOMAIN counts'[q] :
                           /\ counts'[q][d] \in [Messages -> Nat]
                           /\ \A n \in Messages : counts'[q][d][n] <= failed'[q][d][n]
    BY DEF CountBook
  <2>0. /\ DOMAIN counts[q] \subseteq Calls
        /\ \A d \in DOMAIN counts[q] :
             /\ counts[q][d] \in [Messages -> Nat]
             /\ \A n \in Messages : counts[q][d][n] <= failed[q][d][n]
    BY DEF CountBook
  <2>1. CASE q # r
    BY <1>4, <1>7, <2>0, <2>1
  <2>2. CASE q = r /\ counts'[r] = counts[r] /\ m # "ok"
    <3> SUFFICES ASSUME NEW d \in DOMAIN counts[q], NEW n \in Messages
                 PROVE  counts[q][d][n] <= failed'[q][d][n]
      BY <2>0, <2>2
    <3>1. failed[q][d][n] \in Nat /\ failed'[q][d][n] >= failed[q][d][n]
      <4>1. d \in Calls /\ failed[q][d][n] \in Nat
        BY <2>0 DEF Types
      <4>2. failed'[q][d][n] = (IF q = r /\ d = c THEN f ELSE failed[q][d])[n]
        BY <1>7, <4>1
      <4>3. CASE d = c
        BY <1>3, <2>2, <4>1, <4>2, <4>3
      <4>4. CASE d # c
        BY <4>1, <4>2, <4>4
      <4> QED BY <4>3, <4>4
    <3>2. failed'[q][d][n] \in Nat
      BY <1>5, <2>0
    <3> QED BY <2>0, <3>1, <3>2
  <2>3. CASE q = r /\ counts'[r] = Succeed(counts[r], c) /\ m = "ok"
    BY <1>7, <2>0, <2>3 DEF Succeed
  <2>4. CASE q = r /\ counts'[r] = Fail(counts[r], c, m) /\ m # "ok"
    <3>1. failed[q] \in [Calls -> [Messages -> Nat]]
      BY DEF Types
    <3>2. /\ DOMAIN Fail(counts[q], c, m) \subseteq Calls
          /\ \A d \in DOMAIN Fail(counts[q], c, m) :
               /\ Fail(counts[q], c, m)[d] \in [Messages -> Nat]
               /\ \A n \in Messages :
                    Fail(counts[q], c, m)[d][n] <= failed[q][d][n] + (IF d = c /\ n = m THEN 1 ELSE 0)
      BY <1>0, <2>0, <3>1, FailCounts DEF r, c
    <3>3. \A d \in Calls, n \in Messages :
            failed'[q][d][n] = failed[q][d][n] + (IF d = c /\ n = m THEN 1 ELSE 0)
      BY <1>3, <1>7, <2>4, <3>1
    <3> QED BY <2>4, <3>2, <3>3
  <2> QED BY <1>4, <2>1, <2>2, <2>3, <2>4
<1>9. WorkerBook(w)'
  BY <1>0 DEF Types, WorkerBook, Unreached, Limit, Tool, Dead
<1>10. WorkerBooks'
  BY <1>0, <1>9, OthersBooks DEF Types
<1>11. GateBook'
  BY <1>0 DEF GateBook, Settled, Types, WorkerBooks, WorkerBook
<1> QED BY <1>0, <1>6, <1>8, <1>10, <1>11, TripAlone
LEMMA NextOK == IInv /\ [Next]_vars => IInv'
<1> SUFFICES ASSUME IInv, [Next]_vars PROVE IInv'
  OBVIOUS
<1>1. ASSUME NEW w \in Workers, CallStep(w) PROVE IInv'
  <2>1. CASE BodyReturns(w)
    <3>1. \E r \in {"ok", "badCall", "timeout"} \cup Faults : AttemptEnds(w, UnderTimeout(w, r))
      BY <2>1 DEF BodyReturns
    <3> QED BY <3>1, AttemptEndsOK
  <2>2. CASE TimesOut(w)
    <3>1. AttemptEnds(w, UnderTimeout(w, "timeout"))
      BY <2>2 DEF TimesOut
    <3> QED BY <3>1, AttemptEndsOK
  <2> QED BY <1>1, <2>1, <2>2, DispatchOK, FinishOK, GateOK, SaysYesOK, SaysNoOK, AbandonsWaitOK,
             RememberOK, LookOK, WakesOK, SleepCutOK, TallyOK, CountRepeatsOK DEF CallStep
<1>2. ASSUME NEW r \in Runs, Cancel(r) PROVE IInv'
  BY <1>2, CancelOK
<1>3. ASSUME NEW t \in Tools, CooldownEnds(t) PROVE IInv'
  BY <1>3, CooldownEndsOK
<1>4. CASE UNCHANGED vars
  <2> USE <1>4 DEF IInv, vars, state, history
  <2>1. Types'
    BY DEF Types
  <2>2. WorkerBooks'
    BY DEF WorkerBooks, WorkerBook, Limit, Tool, Dead
  <2>3. GateBook'
    BY DEF GateBook, Settled
  <2> QED BY <2>1, <2>2, <2>3, TripAlone, CountAlone
<1> QED BY <1>1, <1>2, <1>3, <1>4 DEF Next

THEOREM Invariance == Spec => []IInv
BY InitOK, NextOK, PTL DEF Spec

-----------------------------------------------------------------------------
(* The theorems. *)

(* What a layer keeps stays of its kind: the breaker's count never passes  *)
(* its threshold, a run's counters only name calls, no worker makes more   *)
(* attempts than it may.                                                   *)
THEOREM TypeCorrect == Spec => []TypeOK
<1>1. ASSUME IInv PROVE TypeOK
  <2>1. \A r \in Runs : /\ DOMAIN counts[r] \subseteq Calls
                        /\ \A c \in DOMAIN counts[r] : counts[r][c] \in [Messages -> Nat]
    BY <1>1 DEF IInv, CountBook
  <2> QED BY <1>1, <2>1 DEF IInv, Types, TypeOK
<1> QED BY <1>1, Invariance, PTL
(* Past the gate, in any run: the policy said yes by itself, or a person   *)
(* said yes to these arguments in this run, which is what Gate.invoke      *)
(* looks at before it dispatches (permission/gate.go).                     *)
THEOREM NothingRunsUnsettled ==
  Spec => [](\A w \in Workers : InBody(w) =>
               \/ Verdict(policy, RequestOf[call[w]]) = "allow"
               \/ call[w] \in approved[run[w]])
<1>1. ASSUME IInv
      PROVE  \A w \in Workers : InBody(w) =>
               \/ Verdict(policy, RequestOf[call[w]]) = "allow"
               \/ call[w] \in approved[run[w]]
  <2>1. ASSUME NEW w \in Workers, InBody(w)
        PROVE  run[w] \in Runs /\ Settled(run[w], call[w])
    BY <1>1, <2>1 DEF IInv, WorkerBooks, WorkerBook, GateBook, InBody
  <2> QED BY <1>1, <2>1 DEF IInv, GateBook, Settled
<1> QED BY <1>1, Invariance, PTL

(* Whatever the agent's policy lets through unasked is harmless by the     *)
(* policy's documentation, for every allow list and every command: no      *)
(* second command rides on a known first one (permission/policy.go,        *)
(* rules.go, safe.go).                                                     *)
THEOREM AllowedIsAlwaysHarmless == Spec => []PoliciesAreConservative
<1>1. ASSUME IInv, NEW q \in Requests, Verdict(policy, q) = "allow"
      PROVE  Harmless(policy, q)
  <2>1. policy \in {"off", "readonly", "workspace", "ask"}
    BY <1>1, ToolChainAssumption DEF IInv, Types
  <2>2. q.paths \subseteq {"inside", "outside"} /\ q.command \in Seq(STRING)
    BY <1>1, RequestsAssumption
  <2> QED BY <1>1, <2>1, <2>2, AllowedIsHarmless
<1>2. IInv => PoliciesAreConservative
  BY <1>1 DEF PoliciesAreConservative
<1> QED BY <1>2, Invariance, PTL

(* A call past the gate is harmless by the policy's documentation or       *)
(* approved in this run; a tool that may not be replayed is entered at     *)
(* most once per call, any other at most MaxAttempts times, a refused call *)
(* not at all.                                                             *)
THEOREM GateHoldsAlways == Spec => []GateHolds
<1>1. ASSUME IInv, NEW w \in Workers, pc[w] # "idle"
      PROVE  /\ InBody(w) => Harmless(policy, RequestOf[call[w]]) \/ call[w] \in approved[run[w]]
             /\ ran[w] <= Limit(w)
             /\ result[w] \in Unreached => ran[w] = 0
  <2>0. /\ WorkerBook(w) /\ run[w] \in Runs /\ call[w] \in Calls
        /\ ran[w] \in Nat /\ attempt[w] \in Nat /\ Limit(w) \in Nat
    BY <1>1, ToolChainAssumption DEF IInv, Types, WorkerBooks, WorkerBook, Limit
  <2>1. ASSUME InBody(w), Verdict(policy, RequestOf[call[w]]) = "allow"
        PROVE  Harmless(policy, RequestOf[call[w]])
    <3>1. policy \in {"off", "readonly", "workspace", "ask"}
      BY <1>1, ToolChainAssumption DEF IInv, Types
    <3>2. RequestOf[call[w]] \in Requests
      BY <2>0, RequestsAssumption
    <3>3. /\ RequestOf[call[w]].paths \subseteq {"inside", "outside"}
          /\ RequestOf[call[w]].command \in Seq(STRING)
      BY <3>2, RequestsAssumption
    <3> QED BY <2>1, <3>1, <3>3, AllowedIsHarmless
  <2>2. InBody(w) => Settled(run[w], call[w])
    BY <1>1 DEF IInv, GateBook, InBody
  <2>3. InBody(w) => Harmless(policy, RequestOf[call[w]]) \/ call[w] \in approved[run[w]]
    BY <1>1, <2>0, <2>1, <2>2 DEF IInv, GateBook, Settled
  <2>4. ran[w] <= Limit(w)
    BY <1>1, <2>0 DEF WorkerBook
  <2>5. result[w] \in Unreached => ran[w] = 0
    BY <2>0 DEF WorkerBook
  <2> QED BY <2>3, <2>4, <2>5
<1>2. IInv => GateHolds
  BY <1>1 DEF GateHolds, Limit, Unreached
<1> QED BY <1>2, Invariance, PTL

(* The circuit of a tool opens, and counts toward opening, only on calls   *)
(* that the tool itself failed since one succeeded (Breaker.Wrap in        *)
(* middleware/breaker.go).                                                 *)
THEOREM TripsAreEarned == Spec => []TripNeedsEvidence
BY Invariance, PTL DEF IInv

(* A call is asked about only by the gate, and only if its run remembers   *)
(* no yes to it.                                                           *)
LEMMA AskedByTheGate ==
  ASSUME IInv, Next, NEW w \in Workers, pc[w] # "asking", pc'[w] = "asking"
  PROVE  Gate(w)
<1> USE DEF IInv, Types, Goto, At, vars, state, history, Moved
<1>1. ASSUME NEW v \in Workers, CallStep(v) PROVE Gate(w)
  <2>1. CASE Dispatch(v)
    BY <2>1 DEF Dispatch
  <2>2. CASE Finish(v)
    BY <2>2 DEF Finish
  <2>3. CASE Gate(v)
    BY <2>3 DEF Gate
  <2>4. CASE SaysYes(v) \/ SaysNo(v) \/ AbandonsWait(v) \/ Remember(v)
    BY <2>4 DEF SaysYes, SaysNo, AbandonsWait, Remember
  <2>5. CASE Look(v) \/ Wakes(v) \/ SleepCut(v)
    BY <2>5 DEF Look, Wakes, SleepCut, Enters
  <2>6. CASE BodyReturns(v) \/ TimesOut(v)
    BY <2>6 DEF BodyReturns, TimesOut, AttemptEnds
  <2>7. CASE Tally(v) \/ CountRepeats(v)
    BY <2>7 DEF Tally, CountRepeats
  <2> QED BY <1>1, <2>1, <2>2, <2>3, <2>4, <2>5, <2>6, <2>7 DEF CallStep
<1>2. ASSUME NEW r \in Runs, Cancel(r) PROVE Gate(w)
  BY <1>2 DEF Cancel
<1>3. ASSUME NEW t \in Tools, CooldownEnds(t) PROVE Gate(w)
  BY <1>3 DEF CooldownEnds
<1> QED BY <1>1, <1>2, <1>3 DEF Next

(* A call that got past the gate once in a run and has returned is never   *)
(* asked about again in that run: Gate's grants keep the yes, and a policy *)
(* does not change its mind.                                               *)
THEOREM AskedOnce == Spec => NoSecondQuestion
<1>1. ASSUME IInv, [Next]_vars, NEW w \in Workers, pc[w] # "asking", pc'[w] = "asking"
      PROVE  call[w] \notin finished[run[w]]
  <2>1. Next
    BY <1>1 DEF vars, state
  <2>2. Gate(w)
    BY <1>1, <2>1, AskedByTheGate
  <2>3. run[w] \in Runs /\ pc[w] = "gate"
    BY <1>1, <2>2 DEF IInv, WorkerBooks, WorkerBook, Gate, At
  <2>4. Verdict(policy, RequestOf[call[w]]) = "ask" /\ call[w] \notin grants[run[w]]
    BY <1>1, <2>2 DEF Gate, Goto, Granted, IInv, Types
  <2>5. ~Settled(run[w], call[w])
    BY <2>4 DEF Settled
  <2> QED BY <1>1, <2>3, <2>5 DEF IInv, GateBook
<1>2. IInv /\ [Next]_vars =>
        [\A w \in Workers : pc[w] # "asking" /\ pc'[w] = "asking" => call[w] \notin finished[run[w]]]_vars
  BY <1>1
<1> QED BY <1>2, Invariance, PTL DEF Spec, NoSecondQuestion

(* The note that a call repeats itself is put on a result only by the      *)
(* layer that counts (middleware/dedup.go).                                *)
LEMMA NotedByTheCounter ==
  ASSUME IInv, Next, NEW w \in Workers, ~noted[w], noted'[w]
  PROVE  CountRepeats(w)
<1> USE DEF IInv, Types, vars, state, history, Moved
<1>1. ASSUME NEW v \in Workers, CallStep(v) PROVE CountRepeats(w)
  <2>1. CASE Dispatch(v) \/ Gate(v) \/ SaysYes(v) \/ SaysNo(v) \/ AbandonsWait(v) \/ Remember(v)
    BY <2>1 DEF Dispatch, Gate, SaysYes, SaysNo, AbandonsWait, Remember
  <2>2. CASE Finish(v)
    BY <2>2 DEF Finish
  <2>3. CASE Look(v) \/ Wakes(v) \/ SleepCut(v) \/ BodyReturns(v) \/ TimesOut(v) \/ Tally(v)
    BY <2>3 DEF Look, Wakes, SleepCut, BodyReturns, TimesOut, AttemptEnds, Tally
  <2>4. CASE CountRepeats(v)
    <3>1. \A u \in Workers : u # v => noted'[u] = noted[u]
      BY <2>4 DEF CountRepeats
    <3> QED BY <2>4, <3>1
  <2> QED BY <1>1, <2>1, <2>2, <2>3, <2>4 DEF CallStep
<1>2. ASSUME NEW r \in Runs, Cancel(r) PROVE CountRepeats(w)
  BY <1>2 DEF Cancel
<1>3. ASSUME NEW t \in Tools, CooldownEnds(t) PROVE CountRepeats(w)
  BY <1>3 DEF CooldownEnds
<1> QED BY <1>1, <1>2, <1>3 DEF Next

(* The model is told that it repeats itself only after this call failed    *)
(* Repeats times with this message in this run since it last succeeded.    *)
THEOREM NotesAreDeserved == Spec => NoteIsDeserved
<1>1. ASSUME IInv, [Next]_vars, NEW w \in Workers, ~noted[w], noted'[w]
      PROVE  failed'[run[w]][call[w]][result[w]] >= Repeats
  <2> DEFINE r == run[w]
             c == call[w]
             m == result[w]
  <2>1. Next
    BY <1>1 DEF vars, state
  <2>2. CountRepeats(w)
    BY <1>1, <2>1, NotedByTheCounter
  <2>3. r \in Runs /\ c \in Calls
    BY <1>1, <2>2 DEF IInv, WorkerBooks, WorkerBook, CountRepeats, At
  <2>4. /\ m \in Messages /\ ~(m # "ok" /\ Dead(w))
        /\ counts'[r][c][m] >= Repeats
    <3>1. noted'[w] = (/\ ~(m # "ok" /\ Dead(w)) /\ m \in Messages /\ counts'[r][c][m] >= Repeats)
      BY <1>1, <2>2 DEF IInv, Types, CountRepeats
    <3> QED BY <1>1, <3>1
  <2>5. m # "ok"
    BY <2>4, FaultsAssumption DEF Messages, Own
  <2>6. DOMAIN counts = Runs
    BY <1>1 DEF IInv, Types
  <2>7. counts' = [counts EXCEPT ![r] = Fail(@, c, m)]
    BY <2>2, <2>4, <2>5 DEF CountRepeats
  <2>8. c \in DOMAIN counts'[r]
    BY <2>3, <2>6, <2>7 DEF Fail
  <2>9. IInv'
    BY <1>1, NextOK
  <2>10. counts'[r][c][m] \in Nat /\ counts'[r][c][m] <= failed'[r][c][m]
    BY <2>3, <2>4, <2>8, <2>9 DEF IInv, CountBook
  <2>11. failed'[r][c][m] \in Nat
    BY <2>3, <2>4, <2>9 DEF IInv, Types
  <2>12. Repeats \in Nat
    BY ToolChainAssumption
  <2> QED BY <2>4, <2>10, <2>11, <2>12
<1>2. IInv /\ [Next]_vars =>
        [\A w \in Workers : ~noted[w] /\ noted'[w] => failed'[run[w]][call[w]][result[w]] >= Repeats]_vars
  BY <1>1
<1> QED BY <1>2, Invariance, PTL DEF Spec, NoteIsDeserved
=============================================================================
