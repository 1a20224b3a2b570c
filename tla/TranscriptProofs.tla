--------------------------- MODULE TranscriptProofs ---------------------------
(***************************************************************************)
(* Theorems about ReActRun and Context, the two modules that carry on a    *)
(* transcript of Convo: for transcripts of any length, runs of any number, *)
(* any limits, and any strategies and ladders put together of the steps.   *)
(***************************************************************************)
EXTENDS ReActRun, Context, SequenceTheorems, FiniteSetTheorems, WellFoundedInduction, TLAPS

-----------------------------------------------------------------------------
(* The inductive invariant of ReActRun. *)

Hows == {"ran", "answer", "notrun", "cancelled"} \cup Fates

ToolNames == ToolKinds \cup Tools

Block == [kind : {"text"}] \cup [kind : {"use"}, id : Nat \ {NoId}, tool : ToolNames]
           \cup [kind : {"result"}, id : Nat, how : Hows]

Turn == [role : {"user", "assistant"}, content : Seq(Block)]

(* No result comes after anything else. *)
ResultsFirst(b) == \A i, j \in 1..Len(b) : i < j /\ b[j].kind = "result" => b[i].kind = "result"

Tidy(c) == \A i \in 1..Len(c) : ResultsFirst(c[i].content)

(* What Validate asks of a transcript except that its last calls have been *)
(* answered; its calls are numbered, whoever chose the numbers; and no     *)
(* text stands between calls and results, which Validate would let pass.   *)
Sound(c) ==
  /\ c \in Seq(Turn) /\ Alternates(c) /\ RightRoles(c) /\ AnsweredNext(c) /\ Tidy(c)
  /\ Once(Blocks(c), "use") /\ \E n \in Nat : UseIds(Blocks(c)) = 1..n

Settled(c) == UseIds(Last(c).content) = {}

(* The calls being dispatched are the last turn's, all of them.            *)
InDispatch ==
  /\ reply.content \in Seq(Block) /\ Once(reply.content, "use")
  /\ Last(convo).role = "assistant"
  /\ UseIds(Last(convo).content) = UseIds(reply.content)

(* The transcript ends on the call the run paused for.                     *)
PausedOn(id) ==
  /\ Last(convo).role = "assistant" /\ FindPause(Last(convo).content) = id
  /\ id \in UseIds(Last(convo).content)

Outcomes ==
  CASE phase \notin {"deferred", "closed"} -> outcome = None
    [] OTHER -> \/ outcome \in {None, Answered, Submitted}
                \/ \E id \in Nat \ {NoId} : outcome = Paused(id) /\ PausedOn(id)

Replying ==
  /\ phase \in {"llmDone", "act"} => reply \in Replies
  /\ phase = "dispatch" => InDispatch
  /\ phase \in {"top", "iterStart", "llmStart", "call", "llmDone", "act"} => Settled(convo)
  /\ phase = "closed" => pauseID = IF outcome.kind = "paused" THEN outcome.id ELSE NoId

Filed ==
  /\ file # <<>> => Sound(file)
  /\ file \in Seq(Turn) /\ IsPrefix(Blocks(file), Blocks(convo))

(* A call is made with a free choice at most once an iteration, and never  *)
(* near the cap.                                                           *)
Forcing ==
  /\ unforced <= (IF phase \in {"validate", "top", "iterStart", "llmStart"} THEN iter - 1 ELSE iter)
  /\ Terminal /\ ForceLastN > 0 => unforced < Threshold

Counters ==
  /\ phase \in {"iterStart", "llmStart", "call", "llmDone", "act", "dispatch"} => iter <= MaxIters
  /\ phase \notin {"deferred", "closed"} => empties <= MaxEmptyTurns

IInv ==
  /\ TypeOK /\ Sound(convo) /\ Replying /\ Outcomes /\ Filed /\ Forcing /\ Counters

-----------------------------------------------------------------------------
(* Induction over numbers, for a statement given as the set of those it    *)
(* holds of.                                                               *)
LEMMA LeastNumber ==
  ASSUME NEW S \in SUBSET Nat, S # {}
  PROVE  \E n \in S : \A m \in S : n <= m
<1> DEFINE R == {p \in Nat \X Nat : p[1] < p[2]}
<1>1. IsWellFoundedOn(R, Nat)
  BY NatLessThanWellFounded DEF OpToRel
<1> HIDE DEF R
<1>2. PICK n \in S : \A m \in S : ~(<<m, n>> \in R)
  BY <1>1, WFMin
<1>3. \A m \in S : ~(m < n)
  BY <1>2 DEF R
<1> QED BY <1>3

LEMMA Inductively ==
  ASSUME NEW S, 0 \in S, \A n \in Nat : n \in S => n + 1 \in S
  PROVE  \A n \in Nat : n \in S
<1> SUFFICES ASSUME Nat \ S # {} PROVE FALSE
  OBVIOUS
<1>1. PICK n \in Nat \ S : \A m \in Nat \ S : n <= m
  <2>1. Nat \ S \in SUBSET Nat
    OBVIOUS
  <2> QED BY <2>1, LeastNumber
<1>2. n # 0 /\ n - 1 \in Nat /\ n - 1 \in S
  BY <1>1
<1> QED BY <1>1, <1>2

-----------------------------------------------------------------------------
(* Only, one element at a time. *)

Kept(v, x, T) == IF x \in T THEN Append(v, x) ELSE v

Keeps(s, T, n, f) == f = [i \in 0..n |-> IF i = 0 THEN <<>> ELSE Kept(f[i - 1], s[i], T)]

LEMMA KeepsAt ==
  ASSUME NEW s, NEW T, NEW n \in Nat, NEW f, Keeps(s, T, n, f)
  PROVE  f[0] = <<>> /\ \A i \in 1..n : f[i] = Kept(f[i - 1], s[i], T)
BY DEF Keeps

LEMMA KeepsExists ==
  ASSUME NEW s, NEW T
  PROVE  \A n \in Nat : \E f : Keeps(s, T, n, f)
<1> DEFINE N == {n \in Nat : \E f : Keeps(s, T, n, f)}
<1>1. 0 \in N
  <2>1. Keeps(s, T, 0, [i \in 0..0 |-> <<>>])
    BY DEF Keeps
  <2> QED BY <2>1
<1>2. ASSUME NEW n \in Nat, n \in N PROVE n + 1 \in N
  <2>1. PICK f : Keeps(s, T, n, f)
    BY <1>2
  <2> DEFINE g == [i \in 0..(n + 1) |-> IF i = 0 THEN <<>> ELSE Kept(f[i - 1], s[i], T)]
  <2>0. g = [i \in 0..(n + 1) |-> IF i = 0 THEN <<>> ELSE Kept(f[i - 1], s[i], T)]
    OBVIOUS
  <2> HIDE DEF g
  <2>2. \A i \in 0..n : f[i] = g[i]
    <3>1. f[0] = <<>> /\ \A i \in 1..n : f[i] = Kept(f[i - 1], s[i], T)
      BY <2>1, KeepsAt
    <3>2. g[0] = <<>> /\ \A i \in 1..n : g[i] = Kept(f[i - 1], s[i], T)
      BY <2>0
    <3>3. \A i \in 0..n : i = 0 \/ i \in 1..n
      OBVIOUS
    <3> QED BY <3>1, <3>2, <3>3
  <2>3. g = [i \in 0..(n + 1) |-> IF i = 0 THEN <<>> ELSE Kept(g[i - 1], s[i], T)]
    <3>1. \A i \in 0..(n + 1) : i # 0 => g[i - 1] = f[i - 1]
      BY <2>2
    <3> QED BY <2>0, <3>1
  <2>4. Keeps(s, T, n + 1, g)
    BY <2>3 DEF Keeps
  <2> QED BY <2>4
<1> HIDE DEF N
<1>3. \A n \in Nat : n \in N
  BY <1>1, <1>2, Inductively
<1> QED BY <1>3 DEF N

LEMMA KeepsAgree ==
  ASSUME NEW s, NEW t, NEW T, NEW n \in Nat, NEW m \in Nat, n <= m,
         \A i \in 1..n : s[i] = t[i],
         NEW f, Keeps(s, T, n, f), NEW g, Keeps(t, T, m, g)
  PROVE  f[n] = g[n]
<1> DEFINE N == {k \in Nat : k <= n => f[k] = g[k]}
<1>0. /\ f[0] = <<>> /\ \A i \in 1..n : f[i] = Kept(f[i - 1], s[i], T)
      /\ g[0] = <<>> /\ \A i \in 1..m : g[i] = Kept(g[i - 1], t[i], T)
  <2>1. f[0] = <<>> /\ \A i \in 1..n : f[i] = Kept(f[i - 1], s[i], T)
    BY ONLY KeepsAt, n \in Nat, Keeps(s, T, n, f)
  <2>2. g[0] = <<>> /\ \A i \in 1..m : g[i] = Kept(g[i - 1], t[i], T)
    BY ONLY KeepsAt, m \in Nat, Keeps(t, T, m, g)
  <2> QED BY <2>1, <2>2
<1>1. 0 \in N
  BY <1>0
<1>2. ASSUME NEW k \in Nat, k \in N PROVE k + 1 \in N
  <2> SUFFICES ASSUME k + 1 <= n PROVE f[k + 1] = g[k + 1]
    OBVIOUS
  <2>1. f[k] = g[k] /\ k + 1 \in 1..n /\ k + 1 \in 1..m /\ (k + 1) - 1 = k
    BY <1>2
  <2>2. f[k + 1] = Kept(f[(k + 1) - 1], s[k + 1], T) /\ g[k + 1] = Kept(g[(k + 1) - 1], t[k + 1], T)
    BY <1>0, <2>1
  <2> QED BY <2>1, <2>2
<1> HIDE DEF N
<1>3. n \in N
  BY <1>1, <1>2, Inductively
<1> QED BY <1>3 DEF N

LEMMA OnlyIsKept ==
  ASSUME NEW s, NEW T, Len(s) \in Nat
  PROVE  \E f : Keeps(s, T, Len(s), f) /\ Only(s, T) = f[Len(s)]
<1> DEFINE f == CHOOSE f : Keeps(s, T, Len(s), f)
<1>1. Keeps(s, T, Len(s), f)
  BY KeepsExists
<1>2. Only(s, T) = f[Len(s)]
  BY DEF Only, Keeps, Kept
<1> QED BY <1>1, <1>2

LEMMA OnlyNothing == ASSUME NEW T PROVE Only(<<>>, T) = <<>>
<1>1. Len(<<>>) = 0
  OBVIOUS
<1>2. PICK f : Keeps(<<>>, T, 0, f) /\ Only(<<>>, T) = f[0]
  BY <1>1, OnlyIsKept
<1> QED BY <1>2, KeepsAt

LEMMA OnlyOneMore ==
  ASSUME NEW S, NEW s \in Seq(S), NEW x \in S, NEW T
  PROVE  Only(Append(s, x), T) = IF x \in T THEN Append(Only(s, T), x) ELSE Only(s, T)
<1> DEFINE t == Append(s, x)
           n == Len(s)
<1>1. /\ n \in Nat /\ Len(t) = n + 1 /\ t[n + 1] = x /\ \A i \in 1..n : s[i] = t[i]
      /\ n <= n + 1 /\ n + 1 \in 1..(n + 1) /\ (n + 1) - 1 = n /\ n + 1 \in Nat
  OBVIOUS
<1> HIDE DEF t, n
<1>2. PICK f : Keeps(s, T, n, f) /\ Only(s, T) = f[n]
  BY <1>1, OnlyIsKept DEF n
<1>3. PICK g : Keeps(t, T, n + 1, g) /\ Only(t, T) = g[n + 1]
  BY <1>1, OnlyIsKept
<1>4. f[n] = g[n]
  BY <1>1, <1>2, <1>3, KeepsAgree
<1>5. g[n + 1] = Kept(g[(n + 1) - 1], t[n + 1], T)
  BY <1>1, <1>3, KeepsAt
<1> QED BY <1>1, <1>2, <1>3, <1>4, <1>5 DEF t, Kept

SplitLast(S, s, n) == \E t \in Seq(S), x \in S : Len(t) = n /\ s = Append(t, x) /\ x = s[n + 1]

LEMMA LastOff ==
  ASSUME NEW S, NEW s \in Seq(S), NEW n \in Nat, Len(s) = n + 1
  PROVE  SplitLast(S, s, n)
<1> DEFINE t == SubSeq(s, 1, n)
           x == s[n + 1]
<1>1. t \in Seq(S) /\ x \in S /\ Len(t) = n /\ \A i \in 1..n : t[i] = s[i]
  OBVIOUS
<1> HIDE DEF t
<1>2. s = Append(t, x)
  <2>1. /\ Append(t, x) \in Seq(S) /\ Len(Append(t, x)) = n + 1
        /\ \A i \in 1..(n + 1) : Append(t, x)[i] = s[i]
    BY <1>1
  <2> QED BY <2>1, SeqEqual
<1> QED BY <1>1, <1>2 DEF SplitLast

(* What is kept is the elements of s in T, each from a place of its own.   *)
KeptFrom(u, v, T) ==
  /\ ToSet(v) = ToSet(u) \cap T
  /\ \E h \in [1..Len(v) -> 1..Len(u)] :
       /\ \A i, j \in 1..Len(v) : h[i] = h[j] => i = j
       /\ \A i \in 1..Len(v) : v[i] = u[h[i]]

LEMMA ToSetAppend ==
  ASSUME NEW S, NEW s \in Seq(S), NEW x \in S
  PROVE  ToSet(Append(s, x)) = ToSet(s) \cup {x}
<1>1. /\ DOMAIN s = 1..Len(s) /\ DOMAIN Append(s, x) = 1..(Len(s) + 1) /\ Len(s) \in Nat
      /\ Append(s, x)[Len(s) + 1] = x /\ \A i \in 1..Len(s) : Append(s, x)[i] = s[i]
  OBVIOUS
<1>2. \A i \in 1..(Len(s) + 1) : i = Len(s) + 1 \/ i \in 1..Len(s)
  BY <1>1
<1>3. \A y : y \in ToSet(Append(s, x)) <=> (y \in ToSet(s) \/ y = x)
  <2> SUFFICES ASSUME NEW y PROVE y \in ToSet(Append(s, x)) <=> (y \in ToSet(s) \/ y = x)
    OBVIOUS
  <2>1. ASSUME y \in ToSet(Append(s, x)) PROVE y \in ToSet(s) \/ y = x
    BY <1>1, <1>2, <2>1 DEF ToSet
  <2>2. ASSUME y \in ToSet(s) PROVE y \in ToSet(Append(s, x))
    BY <1>1, <2>2 DEF ToSet
  <2>3. x \in ToSet(Append(s, x))
    BY <1>1 DEF ToSet
  <2> QED BY <2>1, <2>2, <2>3
<1> QED BY <1>3

LEMMA KeptFromMore ==
  ASSUME NEW S, NEW T, NEW t \in Seq(S), NEW x \in S, NEW v \in Seq(S), KeptFrom(t, v, T)
  PROVE  KeptFrom(Append(t, x), Kept(v, x, T), T)
<1> DEFINE u == Append(t, x)
           n == Len(t)
           m == Len(v)
<1>1. PICK h \in [1..m -> 1..n] :
        /\ \A i, j \in 1..m : h[i] = h[j] => i = j
        /\ \A i \in 1..m : v[i] = t[h[i]]
  BY DEF KeptFrom
<1>2. ToSet(v) = ToSet(t) \cap T /\ ToSet(u) = ToSet(t) \cup {x}
  BY ToSetAppend DEF KeptFrom
<1>3. /\ n \in Nat /\ m \in Nat /\ Len(u) = n + 1 /\ u[n + 1] = x /\ \A i \in 1..n : u[i] = t[i]
  OBVIOUS
<1>4. CASE x \notin T
  <2>1. h \in [1..m -> 1..(n + 1)]
    BY <1>3
  <2>2. \A i \in 1..m : v[i] = u[h[i]]
    BY <1>1, <1>3
  <2>3. ToSet(v) = ToSet(u) \cap T
    BY <1>2, <1>4
  <2>4. Kept(v, x, T) = v
    BY <1>4 DEF Kept
  <2>5. Len(v) = m /\ Len(u) = n + 1
    OBVIOUS
  <2> HIDE DEF u, n, m
  <2>6. KeptFrom(u, v, T)
    BY <1>1, <2>1, <2>2, <2>3, <2>5 DEF KeptFrom
  <2> QED BY <2>4, <2>6 DEF u
<1>5. CASE x \in T
  <2> DEFINE w == Append(v, x)
             g == [i \in 1..(m + 1) |-> IF i = m + 1 THEN n + 1 ELSE h[i]]
  <2>1. Len(w) = m + 1 /\ w[m + 1] = x /\ (\A i \in 1..m : w[i] = v[i]) /\ ToSet(w) = ToSet(v) \cup {x}
    BY ToSetAppend
  <2>2. ToSet(w) = ToSet(u) \cap T
    BY <1>2, <1>5, <2>1
  <2>0. Kept(v, x, T) = w
    BY <1>5 DEF Kept
  <2> HIDE DEF u, n, m, w
  <2>3. \A i \in 1..(m + 1) : i # m + 1 => i \in 1..m /\ h[i] \in 1..n
    BY <1>3
  <2>4. g \in [1..(m + 1) -> 1..(n + 1)]
    BY <1>3, <2>3
  <2>5. \A i, j \in 1..(m + 1) : g[i] = g[j] => i = j
    BY <1>1, <1>3, <2>3
  <2>6. \A i \in 1..(m + 1) : w[i] = u[g[i]]
    BY <1>1, <1>3, <2>1, <2>3
  <2> HIDE DEF g
  <2>7. KeptFrom(u, w, T)
    <3>1. g \in [1..Len(w) -> 1..Len(u)] /\ Len(w) = m + 1
      BY <1>3, <2>1, <2>4
    <3> QED BY <2>2, <2>5, <2>6, <3>1 DEF KeptFrom
  <2> QED BY <2>0, <2>7 DEF u
<1> QED BY <1>4, <1>5

LEMMA OnlyMembers ==
  ASSUME NEW S, NEW T, NEW s \in Seq(S)
  PROVE  Only(s, T) \in Seq(S) /\ KeptFrom(s, Only(s, T), T)
<1> DEFINE Good(u) == Only(u, T) \in Seq(S) /\ KeptFrom(u, Only(u, T), T)
           N == {n \in Nat : \A u \in Seq(S) : Len(u) = n => Good(u)}
<1>1. 0 \in N
  <2>1. Good(<<>>)
    <3>1. Only(<<>>, T) = <<>> /\ ToSet(<<>>) = {} /\ <<>> \in Seq(S) /\ Len(<<>>) = 0
      BY OnlyNothing DEF ToSet
    <3>2. [i \in 1..0 |-> 1] \in [1..0 -> 1..0] /\ 1..0 = {}
      OBVIOUS
    <3> QED BY <3>1, <3>2 DEF KeptFrom
  <2>2. \A u \in Seq(S) : Len(u) = 0 => u = <<>>
    OBVIOUS
  <2> HIDE DEF Good
  <2> QED BY <2>1, <2>2
<1>2. ASSUME NEW n \in Nat, n \in N PROVE n + 1 \in N
  <2>0. ASSUME NEW u \in Seq(S), Len(u) = n + 1 PROVE Good(u)
    <3>1. PICK t \in Seq(S), x \in S : Len(t) = n /\ u = Append(t, x)
      <4>1. \E t \in Seq(S), x \in S : Len(t) = n /\ u = Append(t, x) /\ x = u[n + 1]
        <5>1. SplitLast(S, u, n)
          BY <2>0, LastOff
        <5> QED BY <5>1 DEF SplitLast
      <4> QED BY <4>1
    <3>2. Good(t)
      BY <1>2, <3>1
    <3>3. Only(u, T) = Kept(Only(t, T), x, T)
      BY <3>1, OnlyOneMore DEF Kept
    <3>4. KeptFrom(u, Only(u, T), T)
      BY <3>1, <3>2, <3>3, KeptFromMore
    <3>5. Only(u, T) \in Seq(S)
      BY <3>2, <3>3 DEF Kept
    <3> QED BY <3>4, <3>5
  <2> HIDE DEF Good
  <2>1. n + 1 \in Nat
    OBVIOUS
  <2> QED BY <2>0, <2>1
<1> HIDE DEF N
<1>3. Len(s) \in N
  <2>1. Len(s) \in Nat
    OBVIOUS
  <2> QED BY <1>1, <1>2, <2>1, Inductively
<1> QED BY <1>3 DEF N
-----------------------------------------------------------------------------
(* FlattenSeq and Scan, one element at a time, in the same way.            *)

Joined(v, x, i) == IF i = 1 THEN x ELSE v \o x

Joins(s, n, f) == f = [i \in 1..n |-> Joined(f[i - 1], s[i], i)]

LEMMA JoinsExists ==
  ASSUME NEW s
  PROVE  \A n \in Nat : \E f : Joins(s, n, f)
<1> DEFINE N == {n \in Nat : \E f : Joins(s, n, f)}
<1>1. 0 \in N
  <2>1. Joins(s, 0, [i \in 1..0 |-> 0])
    BY DEF Joins
  <2> QED BY <2>1
<1>2. ASSUME NEW n \in Nat, n \in N PROVE n + 1 \in N
  <2>1. PICK f : Joins(s, n, f)
    BY <1>2
  <2> DEFINE g == [i \in 1..(n + 1) |-> Joined(f[i - 1], s[i], i)]
  <2>0. g = [i \in 1..(n + 1) |-> Joined(f[i - 1], s[i], i)]
    OBVIOUS
  <2> HIDE DEF g
  <2>2. \A i \in 1..n : f[i] = Joined(f[i - 1], s[i], i)
    BY <2>1 DEF Joins
  <2>3. \A i \in 1..n : g[i] = f[i]
    BY <2>0, <2>2
  <2>4. g = [i \in 1..(n + 1) |-> Joined(g[i - 1], s[i], i)]
    <3>1. \A i \in 1..(n + 1) : i # 1 => g[i - 1] = f[i - 1]
      BY <2>3
    <3>2. \A i \in 1..(n + 1) : Joined(g[i - 1], s[i], i) = Joined(f[i - 1], s[i], i)
      BY <3>1 DEF Joined
    <3> QED BY <2>0, <3>2
  <2>5. Joins(s, n + 1, g)
    BY <2>4 DEF Joins
  <2> QED BY <2>5
<1> HIDE DEF N
<1>3. \A n \in Nat : n \in N
  BY <1>1, <1>2, Inductively
<1> QED BY <1>3 DEF N

LEMMA JoinsAgree ==
  ASSUME NEW s, NEW t, NEW n \in Nat, NEW m \in Nat, n <= m, n >= 1,
         \A i \in 1..n : s[i] = t[i],
         NEW f, Joins(s, n, f), NEW g, Joins(t, m, g)
  PROVE  f[n] = g[n]
<1> DEFINE N == {k \in Nat : k + 1 <= n => f[k + 1] = g[k + 1]}
<1>0. /\ \A i \in 1..n : f[i] = Joined(f[i - 1], s[i], i)
      /\ \A i \in 1..m : g[i] = Joined(g[i - 1], t[i], i)
  <2>1. \A i \in 1..n : f[i] = Joined(f[i - 1], s[i], i)
    BY DEF Joins
  <2>2. \A i \in 1..m : g[i] = Joined(g[i - 1], t[i], i)
    BY DEF Joins
  <2> QED BY <2>1, <2>2
<1>1. 0 \in N
  <2>1. 1 \in 1..n /\ 1 \in 1..m
    OBVIOUS
  <2>2. f[1] = s[1] /\ g[1] = t[1]
    BY <1>0, <2>1 DEF Joined
  <2> QED BY <2>1, <2>2
<1>2. ASSUME NEW k \in Nat, k \in N PROVE k + 1 \in N
  <2> SUFFICES ASSUME (k + 1) + 1 <= n PROVE f[(k + 1) + 1] = g[(k + 1) + 1]
    OBVIOUS
  <2> DEFINE p == (k + 1) + 1
  <2>1. f[k + 1] = g[k + 1] /\ p \in 1..n /\ p \in 1..m /\ p - 1 = k + 1 /\ p # 1
    BY <1>2
  <2> HIDE DEF p
  <2>2. f[p] = Joined(f[p - 1], s[p], p) /\ g[p] = Joined(g[p - 1], t[p], p) /\ s[p] = t[p]
    BY <1>0, <2>1
  <2> QED BY <2>1, <2>2 DEF p
<1> HIDE DEF N
<1>3. n - 1 \in N
  <2>1. n - 1 \in Nat
    OBVIOUS
  <2> QED BY <1>1, <1>2, <2>1, Inductively
<1> QED BY <1>3 DEF N

LEMMA FlattenIsJoined ==
  ASSUME NEW s, Len(s) \in Nat, Len(s) >= 1
  PROVE  \E f : Joins(s, Len(s), f) /\ FlattenSeq(s) = f[Len(s)]
<1> DEFINE f == CHOOSE f : Joins(s, Len(s), f)
<1>1. Joins(s, Len(s), f)
  BY JoinsExists
<1>2. FlattenSeq(s) = f[Len(s)]
  BY DEF FlattenSeq, Joins, Joined
<1> QED BY <1>1, <1>2

LEMMA FlattenLonger ==
  ASSUME NEW s, NEW t, NEW n \in Nat, n >= 1, Len(s) = n, Len(t) = n + 1,
         \A i \in 1..n : s[i] = t[i]
  PROVE  FlattenSeq(t) = FlattenSeq(s) \o t[n + 1]
<1>1. PICK f : Joins(s, n, f) /\ FlattenSeq(s) = f[n]
  BY FlattenIsJoined
<1>2. n + 1 \in Nat /\ n + 1 >= 1 /\ n <= n + 1
  OBVIOUS
<1>3. PICK g : Joins(t, n + 1, g) /\ FlattenSeq(t) = g[n + 1]
  BY <1>2, FlattenIsJoined
<1>4. f[n] = g[n]
  <2> DEFINE m == n + 1
  <2>1. m \in Nat /\ n <= m /\ Joins(t, m, g) /\ Joins(s, n, f)
    BY <1>1, <1>2, <1>3
  <2> HIDE DEF m
  <2> QED BY <2>1, JoinsAgree
<1>5. g[n + 1] = g[n] \o t[n + 1]
  <2>1. \A i \in 1..(n + 1) : g[i] = Joined(g[i - 1], t[i], i)
    BY <1>3 DEF Joins
  <2>2. n + 1 \in 1..(n + 1) /\ (n + 1) - 1 = n /\ n + 1 # 1
    OBVIOUS
  <2>3. g[n + 1] = Joined(g[(n + 1) - 1], t[n + 1], n + 1)
    BY <2>1, <2>2
  <2> QED BY <2>2, <2>3 DEF Joined
<1> QED BY <1>1, <1>3, <1>4, <1>5

LEMMA FlattenOne ==
  ASSUME NEW t, Len(t) = 1
  PROVE  FlattenSeq(t) = t[1]
<1>1. PICK g : Joins(t, 1, g) /\ FlattenSeq(t) = g[1]
  <2>1. Len(t) \in Nat /\ Len(t) >= 1
    OBVIOUS
  <2>2. \E g : Joins(t, Len(t), g) /\ FlattenSeq(t) = g[Len(t)]
    BY <2>1, FlattenIsJoined
  <2> QED BY <2>2
<1>2. \A i \in 1..1 : g[i] = Joined(g[i - 1], t[i], i)
  BY <1>1 DEF Joins
<1> QED BY <1>1, <1>2 DEF Joined

LEMMA FlattenOneMore ==
  ASSUME NEW S, NEW s \in Seq(Seq(S)), NEW x \in Seq(S)
  PROVE  FlattenSeq(Append(s, x)) = FlattenSeq(s) \o x
<1>1. /\ Len(s) \in Nat /\ Len(Append(s, x)) = Len(s) + 1 /\ Append(s, x)[Len(s) + 1] = x
      /\ \A i \in 1..Len(s) : s[i] = Append(s, x)[i]
  OBVIOUS
<1>2. CASE Len(s) = 0
  <2>1. s = <<>> /\ <<>> \o x = x
    BY <1>2, ConcatEmptySeq
  <2>2. FlattenSeq(s) = <<>>
    BY <2>1 DEF FlattenSeq
  <2>3. FlattenSeq(Append(s, x)) = Append(s, x)[1]
    BY <1>1, <1>2, FlattenOne
  <2> QED BY <1>1, <1>2, <2>1, <2>2, <2>3
<1>3. CASE Len(s) # 0
  <2>1. Len(s) >= 1
    BY <1>1, <1>3
  <2>2. FlattenSeq(Append(s, x)) = FlattenSeq(s) \o Append(s, x)[Len(s) + 1]
    BY <1>1, <2>1, FlattenLonger
  <2> QED BY <1>1, <2>2
<1> QED BY <1>2, <1>3

Unasked == [open |-> {}, order |-> <<>>]

Scans(s, n, f) == f = [i \in 0..n |-> IF i = 0 THEN Unasked ELSE Scanned(f[i - 1], s[i])]

LEMMA ScansAt ==
  ASSUME NEW s, NEW n \in Nat, NEW f, Scans(s, n, f)
  PROVE  f[0] = Unasked /\ \A i \in 1..n : f[i] = Scanned(f[i - 1], s[i])
<1>1. f[0] = Unasked
  BY DEF Scans
<1>2. \A i \in 1..n : f[i] = Scanned(f[i - 1], s[i])
  BY DEF Scans
<1> QED BY <1>1, <1>2

LEMMA ScansExists ==
  ASSUME NEW s
  PROVE  \A n \in Nat : \E f : Scans(s, n, f)
<1> DEFINE N == {n \in Nat : \E f : Scans(s, n, f)}
<1>1. 0 \in N
  <2>1. Scans(s, 0, [i \in 0..0 |-> Unasked])
    BY DEF Scans
  <2> QED BY <2>1
<1>2. ASSUME NEW n \in Nat, n \in N PROVE n + 1 \in N
  <2>1. PICK f : Scans(s, n, f)
    BY <1>2
  <2> DEFINE g == [i \in 0..(n + 1) |-> IF i = 0 THEN Unasked ELSE Scanned(f[i - 1], s[i])]
  <2>0. g = [i \in 0..(n + 1) |-> IF i = 0 THEN Unasked ELSE Scanned(f[i - 1], s[i])]
    OBVIOUS
  <2> HIDE DEF g
  <2>2. \A i \in 0..n : f[i] = g[i]
    <3>1. f[0] = Unasked /\ \A i \in 1..n : f[i] = Scanned(f[i - 1], s[i])
      BY <2>1, ScansAt
    <3>2. g[0] = Unasked
      BY <2>0
    <3>3. \A i \in 1..n : g[i] = Scanned(f[i - 1], s[i])
      BY <2>0
    <3>4. \A i \in 0..n : i = 0 \/ i \in 1..n
      OBVIOUS
    <3> QED BY <3>1, <3>2, <3>3, <3>4
  <2>3. g = [i \in 0..(n + 1) |-> IF i = 0 THEN Unasked ELSE Scanned(g[i - 1], s[i])]
    <3>1. \A i \in 0..(n + 1) : i # 0 => g[i - 1] = f[i - 1]
      BY <2>2
    <3> QED BY <2>0, <3>1
  <2>4. Scans(s, n + 1, g)
    BY <2>3 DEF Scans
  <2> QED BY <2>4
<1> HIDE DEF N
<1>3. \A n \in Nat : n \in N
  BY <1>1, <1>2, Inductively
<1> QED BY <1>3 DEF N

LEMMA ScansAgree ==
  ASSUME NEW s, NEW t, NEW n \in Nat, NEW m \in Nat, n <= m,
         \A i \in 1..n : s[i] = t[i],
         NEW f, Scans(s, n, f), NEW g, Scans(t, m, g)
  PROVE  f[n] = g[n]
<1> DEFINE N == {k \in Nat : k <= n => f[k] = g[k]}
<1>0. /\ f[0] = Unasked /\ \A i \in 1..n : f[i] = Scanned(f[i - 1], s[i])
      /\ g[0] = Unasked /\ \A i \in 1..m : g[i] = Scanned(g[i - 1], t[i])
  BY ScansAt
<1>1. 0 \in N
  BY <1>0
<1>2. ASSUME NEW k \in Nat, k \in N PROVE k + 1 \in N
  <2> SUFFICES ASSUME k + 1 <= n PROVE f[k + 1] = g[k + 1]
    OBVIOUS
  <2>1. f[k] = g[k] /\ k + 1 \in 1..n /\ k + 1 \in 1..m /\ (k + 1) - 1 = k
    BY <1>2
  <2>2. f[k + 1] = Scanned(f[(k + 1) - 1], s[k + 1]) /\ g[k + 1] = Scanned(g[(k + 1) - 1], t[k + 1])
    BY <1>0, <2>1
  <2> QED BY <2>1, <2>2
<1> HIDE DEF N
<1>3. n \in N
  BY <1>1, <1>2, Inductively
<1> QED BY <1>3 DEF N

LEMMA ScanIsScanned ==
  ASSUME NEW s, Len(s) \in Nat
  PROVE  \E f : Scans(s, Len(s), f) /\ Scan(s) = f[Len(s)]
<1> DEFINE f == CHOOSE f : Scans(s, Len(s), f)
<1>1. Scans(s, Len(s), f)
  BY ScansExists
<1>2. Scan(s) = f[Len(s)]
  BY DEF Scan, Scans, Unasked
<1> QED BY <1>1, <1>2

LEMMA ScanNothing == Scan(<<>>) = Unasked
<1>1. Len(<<>>) = 0
  OBVIOUS
<1>2. PICK f : Scans(<<>>, 0, f) /\ Scan(<<>>) = f[0]
  BY <1>1, ScanIsScanned
<1> QED BY <1>2, ScansAt

LEMMA ScanOneMore ==
  ASSUME NEW S, NEW s \in Seq(S), NEW x \in S
  PROVE  Scan(Append(s, x)) = Scanned(Scan(s), x)
<1> DEFINE t == Append(s, x)
           n == Len(s)
<1>1. /\ n \in Nat /\ Len(t) = n + 1 /\ t[n + 1] = x /\ \A i \in 1..n : s[i] = t[i]
      /\ n <= n + 1 /\ n + 1 \in 1..(n + 1) /\ (n + 1) - 1 = n /\ n + 1 \in Nat
  OBVIOUS
<1> HIDE DEF t, n
<1>2. PICK f : Scans(s, n, f) /\ Scan(s) = f[n]
  BY <1>1, ScanIsScanned DEF n
<1>3. PICK g : Scans(t, n + 1, g) /\ Scan(t) = g[n + 1]
  BY <1>1, ScanIsScanned
<1>4. f[n] = g[n]
  BY <1>1, <1>2, <1>3, ScansAgree
<1>5. g[n + 1] = Scanned(g[(n + 1) - 1], t[n + 1])
  BY <1>1, <1>3, ScansAt
<1> QED BY <1>1, <1>2, <1>3, <1>4, <1>5 DEF t
-----------------------------------------------------------------------------
(* The blocks of a transcript, and what a push adds to them.               *)

LEMMA BlocksNothing == Blocks(<<>>) = <<>>
<1>1. [i \in DOMAIN <<>> |-> <<>>[i].content] = <<>>
  OBVIOUS
<1> QED BY <1>1 DEF Blocks, FlattenSeq

LEMMA BlocksOneMore ==
  ASSUME NEW c \in Seq(Turn), NEW m \in Turn
  PROVE  Blocks(Append(c, m)) = Blocks(c) \o m.content
<1> DEFINE d == Append(c, m)
           cs == [i \in DOMAIN c |-> c[i].content]
           ds == [i \in DOMAIN d |-> d[i].content]
<1>1. /\ DOMAIN c = 1..Len(c) /\ DOMAIN d = 1..(Len(c) + 1) /\ Len(c) \in Nat
      /\ d[Len(c) + 1] = m /\ \A i \in 1..Len(c) : d[i] = c[i] /\ c[i] \in Turn
  OBVIOUS
<1>2. m.content \in Seq(Block) /\ \A i \in 1..Len(c) : c[i].content \in Seq(Block)
  BY <1>1 DEF Turn
<1> HIDE DEF d
<1>3. cs \in Seq(Seq(Block)) /\ Len(cs) = Len(c)
  BY <1>1, <1>2
<1>4. ds \in Seq(Seq(Block)) /\ Len(ds) = Len(c) + 1
  BY <1>1, <1>2
<1>5. \A i \in 1..Len(c) : ds[i] = cs[i]
  BY <1>1
<1>6. ds[Len(c) + 1] = m.content
  BY <1>1
<1> HIDE DEF cs, ds
<1>7. ds = Append(cs, m.content)
  <2>1. Append(cs, m.content) \in Seq(Seq(Block)) /\ Len(Append(cs, m.content)) = Len(c) + 1
    BY <1>2, <1>3
  <2>2. \A i \in 1..(Len(c) + 1) : Append(cs, m.content)[i] = ds[i]
    BY <1>1, <1>2, <1>3, <1>5, <1>6
  <2> QED BY <1>4, <2>1, <2>2, SeqEqual
<1>8. FlattenSeq(ds) = FlattenSeq(cs) \o m.content
  BY <1>2, <1>3, <1>7, FlattenOneMore
<1> QED BY <1>8 DEF Blocks, d, cs, ds

LEMMA BlocksTyped ==
  ASSUME NEW c \in Seq(Turn)
  PROVE  Blocks(c) \in Seq(Block)
<1> DEFINE N == {n \in Nat : \A u \in Seq(Turn) : Len(u) = n => Blocks(u) \in Seq(Block)}
<1>1. 0 \in N
  <2>1. \A u \in Seq(Turn) : Len(u) = 0 => u = <<>>
    OBVIOUS
  <2> QED BY <2>1, BlocksNothing
<1>2. ASSUME NEW n \in Nat, n \in N PROVE n + 1 \in N
  <2>1. ASSUME NEW u \in Seq(Turn), Len(u) = n + 1 PROVE Blocks(u) \in Seq(Block)
    <3>1. \E t \in Seq(Turn), x \in Turn : Len(t) = n /\ u = Append(t, x) /\ x = u[n + 1]
      <4>1. SplitLast(Turn, u, n)
        BY <2>1, LastOff
      <4> QED BY <4>1 DEF SplitLast
    <3>2. PICK t \in Seq(Turn), x \in Turn : Len(t) = n /\ u = Append(t, x)
      BY <3>1
    <3>3. Blocks(t) \in Seq(Block) /\ x.content \in Seq(Block)
      BY <1>2, <3>2 DEF Turn
    <3>4. Blocks(u) = Blocks(t) \o x.content
      BY <3>2, BlocksOneMore
    <3> QED BY <3>3, <3>4
  <2> QED BY <2>1
<1> HIDE DEF N
<1>3. Len(c) \in N
  <2>1. Len(c) \in Nat
    OBVIOUS
  <2> QED BY <1>1, <1>2, <2>1, Inductively
<1> QED BY <1>3 DEF N

(* A message is dropped, merged into the last turn, or a turn of its own.  *)
LEMMA PushOne ==
  ASSUME NEW c \in Seq(Turn), NEW l \in Turn, NEW m \in Turn, m.content # <<>>
  PROVE  Push(Append(c, l), m) =
           IF l.role = m.role
           THEN Append(c, [role |-> l.role, content |-> l.content \o m.content])
           ELSE Append(Append(c, l), m)
<1> DEFINE d == Append(c, l)
           e == [role |-> l.role, content |-> l.content \o m.content]
<1>1. Len(d) = Len(c) + 1 /\ d # <<>> /\ d[Len(c) + 1] = l /\ Last(d) = l /\ Len(c) \in Nat /\ d \in Seq(Turn)
  BY DEF Last
<1>2. [l EXCEPT !.content = @ \o m.content] = e
  <2>1. PICK r \in {"user", "assistant"}, k \in Seq(Block) : l = [role |-> r, content |-> k]
    BY DEF Turn
  <2>2. ASSUME NEW z PROVE [l EXCEPT !.content = z] = [role |-> l.role, content |-> z]
    BY <2>1
  <2> QED BY <2>2
<1>3. e \in Turn
  <2>1. l.content \o m.content \in Seq(Block) /\ l.role \in {"user", "assistant"}
    BY DEF Turn
  <2> QED BY <2>1 DEF Turn
<1>4. Append(c, e) = [d EXCEPT ![Len(c) + 1] = e]
  <2>1. Append(c, e) \in Seq(Turn) /\ Len(Append(c, e)) = Len(c) + 1
    BY <1>3
  <2>2. [d EXCEPT ![Len(c) + 1] = e] \in Seq(Turn) /\ Len([d EXCEPT ![Len(c) + 1] = e]) = Len(c) + 1
    BY <1>1, <1>3
  <2>3. \A i \in 1..(Len(c) + 1) : Append(c, e)[i] = [d EXCEPT ![Len(c) + 1] = e][i]
    <3>1. \A i \in 1..Len(c) : d[i] = c[i]
      OBVIOUS
    <3> HIDE DEF d, e
    <3>2. \A i \in 1..Len(c) : Append(c, e)[i] = c[i] /\ [d EXCEPT ![Len(c) + 1] = e][i] = d[i]
      BY <1>1, <1>3
    <3>3. Append(c, e)[Len(c) + 1] = e /\ [d EXCEPT ![Len(c) + 1] = e][Len(c) + 1] = e
      BY <1>1, <1>3
    <3> QED BY <1>1, <3>1, <3>2, <3>3
  <2> QED BY <2>1, <2>2, <2>3, SeqEqual
<1>5. [d EXCEPT ![Len(d)].content = @ \o m.content] = [d EXCEPT ![Len(c) + 1] = e]
  BY <1>1, <1>2
<1> HIDE DEF d, e
<1> QED BY <1>1, <1>4, <1>5 DEF Push, d, e
LEMMA PushJoins ==
  ASSUME NEW c \in Seq(Turn), NEW l \in Turn, NEW m \in Turn, m.content # <<>>, l.role = m.role
  PROVE  Push(Append(c, l), m) = Append(c, [role |-> l.role, content |-> l.content \o m.content])
<1> DEFINE e == [role |-> l.role, content |-> l.content \o m.content]
<1>1. Push(Append(c, l), m) = IF l.role = m.role THEN Append(c, e) ELSE Append(Append(c, l), m)
  BY PushOne
<1> HIDE DEF e
<1>2. Push(Append(c, l), m) = Append(c, e)
  BY <1>1
<1> QED BY <1>2 DEF e

LEMMA PushNothing ==
  ASSUME NEW c, NEW m, m.content = <<>>
  PROVE  Push(c, m) = c
BY DEF Push

LEMMA Associative == \A s, t, u \in Seq(Block) : s \o (t \o u) = (s \o t) \o u
BY ConcatAssociative

LEMMA PushBlocks ==
  ASSUME NEW c \in Seq(Turn), c # <<>>, NEW m \in Turn
  PROVE  Push(c, m) \in Seq(Turn) /\ Blocks(Push(c, m)) = Blocks(c) \o m.content
<1>1. CASE m.content = <<>>
  <2>1. Blocks(c) \o <<>> = Blocks(c)
    BY BlocksTyped, ConcatEmptySeq
  <2> QED BY <1>1, <2>1, PushNothing
<1>2. CASE m.content # <<>>
  <2>1. PICK d \in Seq(Turn), l \in Turn : c = Append(d, l)
    BY SequenceEmptyOrAppend
  <2> DEFINE e == [role |-> l.role, content |-> l.content \o m.content]
  <2>2. /\ l.content \in Seq(Block) /\ m.content \in Seq(Block) /\ Blocks(d) \in Seq(Block)
        /\ Blocks(c) = Blocks(d) \o l.content
    <3>1. Blocks(d) \in Seq(Block)
      BY BlocksTyped
    <3>2. Blocks(c) = Blocks(d) \o l.content
      BY <2>1, BlocksOneMore
    <3> QED BY <3>1, <3>2 DEF Turn
  <2>3. e \in Turn
    <3>1. l.content \o m.content \in Seq(Block) /\ l.role \in {"user", "assistant"}
      BY <2>2 DEF Turn
    <3> QED BY <3>1 DEF Turn
  <2>4. CASE l.role = m.role
    <3>1. Push(c, m) = Append(d, e)
      <4>1. Push(Append(d, l), m) = Append(d, e)
        BY <1>2, <2>4, PushJoins
      <4> HIDE DEF e
      <4> QED BY <2>1, <4>1
    <3>2. e.content = l.content \o m.content
      OBVIOUS
    <3> HIDE DEF e
    <3>3. Blocks(Append(d, e)) = Blocks(d) \o (l.content \o m.content)
      BY <2>3, <3>2, BlocksOneMore
    <3>4. Blocks(d) \o (l.content \o m.content) = (Blocks(d) \o l.content) \o m.content
      BY <2>2, Associative
    <3>5. Append(d, e) \in Seq(Turn)
      BY <2>3
    <3> QED BY <2>2, <3>1, <3>3, <3>4, <3>5
  <2>5. CASE l.role # m.role
    <3>1. Push(c, m) = Append(c, m)
      BY <1>2, <2>1, <2>5, PushOne
    <3>2. Blocks(Append(c, m)) = Blocks(c) \o m.content
      BY BlocksOneMore
    <3> QED BY <3>1, <3>2
  <2> QED BY <2>4, <2>5
<1> QED BY <1>1, <1>2

-----------------------------------------------------------------------------
(* The ids of calls and of answers, in a turn and in the blocks of several. *)

LEMMA ListOf ==
  ASSUME NEW S, NEW n \in Nat, NEW a \in [1..n -> S]
  PROVE  a \in Seq(S) /\ Len(a) = n
OBVIOUS

LEMMA InSet ==
  ASSUME NEW S, NEW s \in Seq(S)
  PROVE  \A x : x \in ToSet(s) <=> \E i \in 1..Len(s) : s[i] = x
BY DEF ToSet

LEMMA ConcatAt ==
  ASSUME NEW S, NEW s \in Seq(S), NEW t \in Seq(S)
  PROVE  /\ s \o t \in Seq(S) /\ Len(s) \in Nat /\ Len(t) \in Nat /\ Len(s \o t) = Len(s) + Len(t)
         /\ \A i \in 1..Len(s) : i \in 1..Len(s \o t) /\ (s \o t)[i] = s[i]
         /\ \A i \in 1..Len(t) : Len(s) + i \in 1..Len(s \o t) /\ (s \o t)[Len(s) + i] = t[i]
         /\ \A i \in 1..Len(s \o t) : i \in 1..Len(s) \/ \E j \in 1..Len(t) : i = Len(s) + j
<1>1. /\ Len(s) \in Nat /\ Len(t) \in Nat /\ s \o t \in Seq(S) /\ Len(s \o t) = Len(s) + Len(t)
      /\ \A i \in 1..(Len(s) + Len(t)) : (s \o t)[i] = IF i <= Len(s) THEN s[i] ELSE t[i - Len(s)]
  BY ConcatProperties
<1>2. \A i \in 1..Len(t) : /\ Len(s) + i \in 1..(Len(s) + Len(t)) /\ ~(Len(s) + i <= Len(s))
                           /\ (Len(s) + i) - Len(s) = i
  BY <1>1
<1>3. \A i \in 1..Len(t) : (s \o t)[Len(s) + i] = t[i]
  BY <1>1, <1>2
<1>4. \A i \in 1..Len(s) : i \in 1..(Len(s) + Len(t)) /\ (s \o t)[i] = s[i]
  BY <1>1
<1>5. ASSUME NEW i \in 1..(Len(s) + Len(t)) PROVE i \in 1..Len(s) \/ \E j \in 1..Len(t) : i = Len(s) + j
  <2>1. CASE i <= Len(s)
    BY <1>1, <2>1
  <2>2. CASE ~(i <= Len(s))
    <3>1. i - Len(s) \in 1..Len(t) /\ i = Len(s) + (i - Len(s))
      BY <1>1, <2>2
    <3> QED BY <3>1
  <2> QED BY <2>1, <2>2
<1> QED BY <1>1, <1>2, <1>3, <1>4, <1>5

LEMMA ToSetConcat ==
  ASSUME NEW S, NEW s \in Seq(S), NEW t \in Seq(S)
  PROVE  ToSet(s \o t) = ToSet(s) \cup ToSet(t)
<1>1. s \o t \in Seq(S)
  BY ConcatAt
<1>2. ASSUME NEW x PROVE x \in ToSet(s \o t) <=> (x \in ToSet(s) \/ x \in ToSet(t))
  <2>1. /\ x \in ToSet(s \o t) <=> \E i \in 1..Len(s \o t) : (s \o t)[i] = x
        /\ x \in ToSet(s) <=> \E i \in 1..Len(s) : s[i] = x
        /\ x \in ToSet(t) <=> \E i \in 1..Len(t) : t[i] = x
    BY <1>1, InSet
  <2>2. /\ \A i \in 1..Len(s) : i \in 1..Len(s \o t) /\ (s \o t)[i] = s[i]
        /\ \A i \in 1..Len(t) : Len(s) + i \in 1..Len(s \o t) /\ (s \o t)[Len(s) + i] = t[i]
        /\ \A i \in 1..Len(s \o t) : i \in 1..Len(s) \/ \E j \in 1..Len(t) : i = Len(s) + j
    BY ConcatAt
  <2> QED BY <2>1, <2>2
<1> QED BY <1>2

LEMMA IdsConcat ==
  ASSUME NEW s \in Seq(Block), NEW t \in Seq(Block)
  PROVE  /\ UseIds(s \o t) = UseIds(s) \cup UseIds(t)
         /\ ResultIds(s \o t) = ResultIds(s) \cup ResultIds(t)
<1>1. ToSet(s \o t) = ToSet(s) \cup ToSet(t)
  BY ToSetConcat
<1> QED BY <1>1 DEF UseIds, ResultIds, OfKind

LEMMA IdsAt ==
  ASSUME NEW s \in Seq(Block)
  PROVE  /\ \A id : id \in UseIds(s) <=> \E i \in 1..Len(s) : s[i].kind = "use" /\ s[i].id = id
         /\ \A id : id \in ResultIds(s) <=> \E i \in 1..Len(s) : s[i].kind = "result" /\ s[i].id = id
<1>1. \A b : b \in ToSet(s) <=> \E i \in 1..Len(s) : s[i] = b
  BY InSet
<1> QED BY <1>1 DEF UseIds, ResultIds, OfKind

LEMMA NoneAt ==
  ASSUME NEW s \in Seq(Block)
  PROVE  /\ UseIds(s) = {} => \A i \in 1..Len(s) : s[i].kind # "use"
         /\ ResultIds(s) = {} => \A i \in 1..Len(s) : s[i].kind # "result"
<1>1. ASSUME UseIds(s) = {}, NEW i \in 1..Len(s), s[i].kind = "use" PROVE FALSE
  <2>1. \E j \in 1..Len(s) : s[j].kind = "use" /\ s[j].id = s[i].id
    BY <1>1
  <2>2. s[i].id \in UseIds(s)
    BY <2>1, IdsAt, Zenon
  <2> QED BY <1>1, <2>2
<1>2. ASSUME ResultIds(s) = {}, NEW i \in 1..Len(s), s[i].kind = "result" PROVE FALSE
  <2>1. \E j \in 1..Len(s) : s[j].kind = "result" /\ s[j].id = s[i].id
    BY <1>2
  <2>2. s[i].id \in ResultIds(s)
    BY <2>1, IdsAt, Zenon
  <2> QED BY <1>2, <2>2
<1> QED BY <1>1, <1>2

LEMMA OnceAt ==
  ASSUME NEW s \in Seq(Block), NEW kind
  PROVE  Once(s, kind) <=>
           \A i, j \in 1..Len(s) :
             s[i].kind = kind /\ s[j].kind = kind /\ s[i].id = s[j].id => i = j
<1>1. DOMAIN s = 1..Len(s)
  OBVIOUS
<1> QED BY <1>1 DEF Once
IdsOf(s, kind) == {s[i].id : i \in {j \in 1..Len(s) : s[j].kind = kind}}

LEMMA IdsOfKinds ==
  ASSUME NEW s \in Seq(Block)
  PROVE  UseIds(s) = IdsOf(s, "use") /\ ResultIds(s) = IdsOf(s, "result")
BY IdsAt DEF IdsOf

LEMMA OnceConcat ==
  ASSUME NEW s \in Seq(Block), NEW t \in Seq(Block), NEW kind
  PROVE  Once(s \o t, kind) <=>
           Once(s, kind) /\ Once(t, kind) /\ IdsOf(s, kind) \cap IdsOf(t, kind) = {}
<1> DEFINE u == s \o t
<1>1. /\ u \in Seq(Block) /\ Len(s) \in Nat /\ Len(t) \in Nat
      /\ \A i \in 1..Len(s) : i \in 1..Len(u) /\ u[i] = s[i]
      /\ \A i \in 1..Len(t) : Len(s) + i \in 1..Len(u) /\ u[Len(s) + i] = t[i]
      /\ \A i \in 1..Len(u) : i \in 1..Len(s) \/ \E j \in 1..Len(t) : i = Len(s) + j
  BY ConcatAt
<1> HIDE DEF u
<1>2. /\ Once(u, kind) <=> \A i, j \in 1..Len(u) :
           u[i].kind = kind /\ u[j].kind = kind /\ u[i].id = u[j].id => i = j
      /\ Once(s, kind) <=> \A i, j \in 1..Len(s) :
           s[i].kind = kind /\ s[j].kind = kind /\ s[i].id = s[j].id => i = j
      /\ Once(t, kind) <=> \A i, j \in 1..Len(t) :
           t[i].kind = kind /\ t[j].kind = kind /\ t[i].id = t[j].id => i = j
  BY <1>1, OnceAt
<1>3. ASSUME Once(u, kind) PROVE Once(s, kind)
  BY <1>1, <1>2, <1>3
<1>4. ASSUME Once(u, kind) PROVE Once(t, kind)
  <2> SUFFICES ASSUME NEW i \in 1..Len(t), NEW j \in 1..Len(t),
                      t[i].kind = kind, t[j].kind = kind, t[i].id = t[j].id
               PROVE  i = j
    BY <1>2
  <2> DEFINE p == Len(s) + i
             q == Len(s) + j
  <2>1. p \in 1..Len(u) /\ q \in 1..Len(u) /\ u[p] = t[i] /\ u[q] = t[j]
    BY <1>1
  <2> HIDE DEF p, q
  <2>2. p = q
    BY <1>2, <1>4, <2>1
  <2> QED BY <1>1, <2>2 DEF p, q
<1>5. ASSUME Once(u, kind), NEW id \in IdsOf(s, kind) \cap IdsOf(t, kind) PROVE FALSE
  <2>1. PICK i \in 1..Len(s) : s[i].kind = kind /\ s[i].id = id
    BY DEF IdsOf
  <2>2. PICK j \in 1..Len(t) : t[j].kind = kind /\ t[j].id = id
    BY DEF IdsOf
  <2> DEFINE q == Len(s) + j
  <2>3. i \in 1..Len(u) /\ q \in 1..Len(u) /\ u[i] = s[i] /\ u[q] = t[j]
    BY <1>1
  <2> HIDE DEF q
  <2>4. i = q
    BY <1>2, <1>5, <2>1, <2>2, <2>3
  <2> QED BY <1>1, <2>4 DEF q
<1>6. ASSUME Once(s, kind), Once(t, kind), IdsOf(s, kind) \cap IdsOf(t, kind) = {}
      PROVE  Once(u, kind)
  <2> SUFFICES ASSUME NEW i \in 1..Len(u), NEW j \in 1..Len(u),
                      u[i].kind = kind, u[j].kind = kind, u[i].id = u[j].id
               PROVE  i = j
    BY <1>2
  <2>1. ASSUME NEW k \in 1..Len(s), NEW l \in 1..Len(t),
               s[k].kind = kind, t[l].kind = kind, s[k].id = t[l].id
        PROVE  FALSE
    <3>1. s[k].id \in IdsOf(s, kind) /\ t[l].id \in IdsOf(t, kind)
      BY <2>1 DEF IdsOf
    <3> QED BY <1>6, <2>1, <3>1
  <2>2. CASE i \in 1..Len(s) /\ j \in 1..Len(s)
    <3>1. u[i] = s[i] /\ u[j] = s[j]
      BY <1>1, <2>2
    <3>2. s[i].kind = kind /\ s[j].kind = kind /\ s[i].id = s[j].id
      BY <3>1
    <3> QED BY <1>2, <1>6, <2>2, <3>2
  <2>3. CASE i \in 1..Len(s) /\ j \notin 1..Len(s)
    <3>1. PICK l \in 1..Len(t) : j = Len(s) + l
      BY <1>1, <2>3
    <3>2. u[i] = s[i] /\ u[j] = t[l]
      BY <1>1, <2>3, <3>1
    <3> QED BY <2>1, <2>3, <3>1, <3>2
  <2>4. CASE i \notin 1..Len(s) /\ j \in 1..Len(s)
    <3>1. PICK k \in 1..Len(t) : i = Len(s) + k
      BY <1>1, <2>4
    <3>2. u[i] = t[k] /\ u[j] = s[j]
      BY <1>1, <2>4, <3>1
    <3> QED BY <2>1, <2>4, <3>1, <3>2
  <2>5. CASE i \notin 1..Len(s) /\ j \notin 1..Len(s)
    <3>1. PICK k \in 1..Len(t) : i = Len(s) + k
      BY <1>1, <2>5
    <3>2. PICK l \in 1..Len(t) : j = Len(s) + l
      BY <1>1, <2>5
    <3>3. u[i] = t[k] /\ u[j] = t[l]
      BY <1>1, <3>1, <3>2
    <3>4. k = l
      BY <1>2, <1>6, <3>3
    <3> QED BY <3>1, <3>2, <3>4
  <2> QED BY <2>2, <2>3, <2>4, <2>5
<1> QED BY <1>3, <1>4, <1>5, <1>6 DEF u
LEMMA BlockFields ==
  ASSUME NEW b \in Block
  PROVE  /\ b.kind \in {"text", "use", "result"}
         /\ b.kind = "use" => b.id \in Nat \ {NoId} /\ b.tool \in ToolNames
         /\ b.kind = "result" => b.id \in Nat
BY DEF Block

LEMMA IdsAppend ==
  ASSUME NEW s \in Seq(Block), NEW x \in Block
  PROVE  /\ UseIds(Append(s, x)) = UseIds(s) \cup (IF x.kind = "use" THEN {x.id} ELSE {})
         /\ ResultIds(Append(s, x)) = ResultIds(s) \cup (IF x.kind = "result" THEN {x.id} ELSE {})
         /\ Once(Append(s, x), "use") => Once(s, "use") /\ (x.kind = "use" => x.id \notin UseIds(s))
<1>1. ToSet(Append(s, x)) = ToSet(s) \cup {x}
  BY ToSetAppend
<1>2. UseIds(Append(s, x)) = UseIds(s) \cup (IF x.kind = "use" THEN {x.id} ELSE {})
  <2>1. CASE x.kind = "use"
    BY <1>1, <2>1 DEF UseIds, OfKind
  <2>2. CASE x.kind # "use"
    BY <1>1, <2>2 DEF UseIds, OfKind
  <2> QED BY <2>1, <2>2
<1>3. ResultIds(Append(s, x)) = ResultIds(s) \cup (IF x.kind = "result" THEN {x.id} ELSE {})
  <2>1. CASE x.kind = "result"
    BY <1>1, <2>1 DEF ResultIds, OfKind
  <2>2. CASE x.kind # "result"
    BY <1>1, <2>2 DEF ResultIds, OfKind
  <2> QED BY <2>1, <2>2
<1>4. ASSUME Once(Append(s, x), "use") PROVE Once(s, "use") /\ (x.kind = "use" => x.id \notin UseIds(s))
  <2>1. Append(s, x) = s \o <<x>> /\ <<x>> \in Seq(Block)
    BY AppendIsConcat
  <2>2. Once(s, "use") /\ IdsOf(s, "use") \cap IdsOf(<<x>>, "use") = {}
    BY <1>4, <2>1, OnceConcat
  <2>3. x.kind = "use" => x.id \in IdsOf(<<x>>, "use")
    BY DEF IdsOf
  <2> QED BY <2>2, <2>3, IdsOfKinds
<1> QED BY <1>2, <1>3, <1>4

State == [open : SUBSET Nat, order : Seq(Nat)]

LEMMA IsState ==
  ASSUME NEW o \in SUBSET Nat, NEW r \in Seq(Nat)
  PROVE  [open |-> o, order |-> r] \in State
BY DEF State

LEMMA ScannedTyped ==
  ASSUME NEW st \in State, NEW b \in Block
  PROVE  Scanned(st, b) \in State
<1>1. PICK o \in SUBSET Nat, r \in Seq(Nat) : st = [open |-> o, order |-> r]
  BY DEF State
<1>2. CASE b.kind = "use" /\ b.id \notin st.open
  <2>1. b.id \in Nat
    BY <1>2, BlockFields
  <2>2. Scanned(st, b) = [open |-> o \cup {b.id}, order |-> Append(r, b.id)]
    BY <1>1, <1>2 DEF Scanned
  <2>3. o \cup {b.id} \in SUBSET Nat /\ Append(r, b.id) \in Seq(Nat)
    <3> DEFINE k == b.id
    <3>1. k \in Nat
      BY <2>1
    <3> HIDE DEF k
    <3>2. o \cup {k} \in SUBSET Nat
      BY <3>1
    <3>3. Append(r, k) \in Seq(Nat)
      BY <3>1
    <3> QED BY <3>2, <3>3 DEF k
  <2>4. [open |-> o \cup {b.id}, order |-> Append(r, b.id)] \in State
    BY <2>3, IsState
  <2> QED BY <2>2, <2>4
<1>3. CASE b.kind = "result"
  <2>1. Scanned(st, b) = [open |-> o \ {b.id}, order |-> r]
    BY <1>1, <1>3 DEF Scanned
  <2>2. o \ {b.id} \in SUBSET Nat
    OBVIOUS
  <2> QED BY <2>1, <2>2 DEF State
<1>4. CASE ~(b.kind = "use" /\ b.id \notin st.open) /\ b.kind # "result"
  BY <1>4 DEF Scanned
<1> QED BY <1>2, <1>3, <1>4

(* The calls that are open have been asked for, each once.                 *)
Distinct(s) == \A i, j \in 1..Len(s) : s[i] = s[j] => i = j

Orderly(b) ==
  /\ Scan(b) \in State
  /\ Once(b, "use") => /\ Distinct(Scan(b).order) /\ Scan(b).open \subseteq ToSet(Scan(b).order)
                       /\ ToSet(Scan(b).order) \subseteq UseIds(b)

LEMMA DistinctAppend ==
  ASSUME NEW S, NEW s \in Seq(S), NEW x \in S, Distinct(s), x \notin ToSet(s)
  PROVE  Distinct(Append(s, x))
<1>1. /\ Len(s) \in Nat /\ Len(Append(s, x)) = Len(s) + 1 /\ Append(s, x)[Len(s) + 1] = x
      /\ \A i \in 1..Len(s) : Append(s, x)[i] = s[i]
  OBVIOUS
<1>2. \A i \in 1..Len(s) : s[i] # x
  BY InSet
<1>3. \A i \in 1..(Len(s) + 1) : i = Len(s) + 1 \/ i \in 1..Len(s)
  BY <1>1
<1> QED BY <1>1, <1>2, <1>3 DEF Distinct

LEMMA OrderlyMore ==
  ASSUME NEW s \in Seq(Block), NEW x \in Block, Orderly(s)
  PROVE  Orderly(Append(s, x))
<1> DEFINE u == Append(s, x)
           st == Scan(s)
<1>1. Scan(u) = Scanned(st, x)
  BY ScanOneMore
<1>2. st \in State
  BY DEF Orderly
<1>3. Scan(u) \in State
  BY <1>1, <1>2, ScannedTyped
<1>4. ASSUME Once(u, "use")
      PROVE  /\ Distinct(Scan(u).order) /\ Scan(u).open \subseteq ToSet(Scan(u).order)
             /\ ToSet(Scan(u).order) \subseteq UseIds(u)
  <2>1. Once(s, "use") /\ (x.kind = "use" => x.id \notin UseIds(s))
    BY <1>4, IdsAppend
  <2>2. UseIds(u) = UseIds(s) \cup (IF x.kind = "use" THEN {x.id} ELSE {})
    BY IdsAppend
  <2>3. Distinct(st.order) /\ st.open \subseteq ToSet(st.order) /\ ToSet(st.order) \subseteq UseIds(s)
    BY <2>1 DEF Orderly
  <2>4. PICK o \in SUBSET Nat, r \in Seq(Nat) : st = [open |-> o, order |-> r]
    BY <1>2 DEF State
  <2> HIDE DEF st, u
  <2>5. CASE x.kind = "use"
    <3>1. x.id \in Nat /\ x.id \notin ToSet(r) /\ x.id \notin o
      BY <2>1, <2>3, <2>4, <2>5, BlockFields
    <3>2. Scan(u) = [open |-> o \cup {x.id}, order |-> Append(r, x.id)]
      BY <1>1, <2>4, <2>5, <3>1 DEF Scanned
    <3>3. Distinct(Append(r, x.id))
      BY <2>3, <2>4, <3>1, DistinctAppend
    <3>4. ToSet(Append(r, x.id)) = ToSet(r) \cup {x.id}
      BY <3>1, ToSetAppend
    <3>5. Scan(u).open = o \cup {x.id} /\ Scan(u).order = Append(r, x.id)
      BY <3>2
    <3> QED BY <2>2, <2>3, <2>4, <2>5, <3>3, <3>4, <3>5
  <2>6. CASE x.kind = "result"
    <3>1. Scan(u) = [open |-> o \ {x.id}, order |-> r]
      BY <1>1, <2>4, <2>6 DEF Scanned
    <3>2. Scan(u).open = o \ {x.id} /\ Scan(u).order = r
      BY <3>1
    <3> QED BY <2>2, <2>3, <2>4, <2>6, <3>2
  <2>7. CASE x.kind \notin {"use", "result"}
    <3>1. Scan(u) = st
      BY <1>1, <2>7 DEF Scanned
    <3> QED BY <2>2, <2>3, <2>7, <3>1
  <2> QED BY <2>5, <2>6, <2>7
<1> QED BY <1>3, <1>4 DEF Orderly

LEMMA AllOrderly ==
  ASSUME NEW s \in Seq(Block)
  PROVE  Orderly(s)
<1> DEFINE N == {n \in Nat : \A u \in Seq(Block) : Len(u) = n => Orderly(u)}
<1>1. 0 \in N
  <2>1. \A u \in Seq(Block) : Len(u) = 0 => u = <<>>
    OBVIOUS
  <2>2. Orderly(<<>>)
    <3>1. Scan(<<>>).open = {} /\ Scan(<<>>).order = <<>> /\ Scan(<<>>) \in State
      <4>1. {} \in SUBSET Nat /\ <<>> \in Seq(Nat)
        OBVIOUS
      <4>2. Scan(<<>>) = [open |-> {}, order |-> <<>>]
        BY ScanNothing DEF Unasked
      <4>3. [open |-> {}, order |-> <<>>] \in State
        BY <4>1, IsState
      <4>4. Scan(<<>>).open = {} /\ Scan(<<>>).order = <<>>
        BY <4>2
      <4>5. Scan(<<>>) \in State
        BY <4>2, <4>3, Zenon
      <4> QED BY <4>4, <4>5
    <3>2. Distinct(<<>>) /\ ToSet(<<>>) = {}
      BY DEF Distinct, ToSet
    <3> QED BY <3>1, <3>2 DEF Orderly
  <2> QED BY <2>1, <2>2
<1>2. ASSUME NEW n \in Nat, n \in N PROVE n + 1 \in N
  <2>1. ASSUME NEW u \in Seq(Block), Len(u) = n + 1 PROVE Orderly(u)
    <3>1. \E t \in Seq(Block), x \in Block : Len(t) = n /\ u = Append(t, x) /\ x = u[n + 1]
      <4>1. SplitLast(Block, u, n)
        BY <2>1, LastOff
      <4> QED BY <4>1 DEF SplitLast
    <3>2. PICK t \in Seq(Block), x \in Block : Len(t) = n /\ u = Append(t, x)
      BY <3>1
    <3>3. Orderly(t)
      BY <1>2, <3>2
    <3> QED BY <3>2, <3>3, OrderlyMore
  <2> QED BY <2>1
<1> HIDE DEF N
<1>3. Len(s) \in N
  <2>1. Len(s) \in Nat
    OBVIOUS
  <2> QED BY <1>1, <1>2, <2>1, Inductively
<1> QED BY <1>3 DEF N

LEMMA ScanTyped ==
  ASSUME NEW s \in Seq(Block)
  PROVE  Scan(s) \in State
BY AllOrderly DEF Orderly

(* A turn that only asks opens its calls; one that only answers closes     *)
(* those it answers.                                                       *)
LEMMA ScanTurn ==
  ASSUME NEW s \in Seq(Block), NEW t \in Seq(Block)
  PROVE  /\ ResultIds(t) = {} => Scan(s \o t).open = Scan(s).open \cup UseIds(t)
         /\ UseIds(t) = {} => Scan(s \o t).open = Scan(s).open \ ResultIds(t)
<1> DEFINE Opens(u) == ResultIds(u) = {} => Scan(s \o u).open = Scan(s).open \cup UseIds(u)
           Closes(u) == UseIds(u) = {} => Scan(s \o u).open = Scan(s).open \ ResultIds(u)
           N == {n \in Nat : \A u \in Seq(Block) : Len(u) = n => Opens(u) /\ Closes(u)}
<1>1. 0 \in N
  <2>1. \A u \in Seq(Block) : Len(u) = 0 => u = <<>>
    OBVIOUS
  <2>2. s \o <<>> = s
    BY ConcatEmptySeq
  <2>3. UseIds(<<>>) = {} /\ ResultIds(<<>>) = {}
    BY DEF UseIds, ResultIds, OfKind, ToSet
  <2>4. Opens(<<>>) /\ Closes(<<>>)
    BY <2>2, <2>3
  <2> HIDE DEF Opens, Closes
  <2> QED BY <2>1, <2>4
<1>2. ASSUME NEW n \in Nat, n \in N PROVE n + 1 \in N
  <2>1. ASSUME NEW u \in Seq(Block), Len(u) = n + 1 PROVE Opens(u) /\ Closes(u)
    <3>1. \E v \in Seq(Block), x \in Block : Len(v) = n /\ u = Append(v, x) /\ x = u[n + 1]
      <4>1. SplitLast(Block, u, n)
        BY <2>1, LastOff
      <4> QED BY <4>1 DEF SplitLast
    <3>2. PICK v \in Seq(Block), x \in Block : Len(v) = n /\ u = Append(v, x)
      BY <3>1
    <3>3. Opens(v) /\ Closes(v)
      BY <1>2, <3>2
    <3>4. Scan(s \o u) = Scanned(Scan(s \o v), x)
      <4>1. s \o Append(v, x) = Append(s \o v, x)
        <5>1. Append(v, x) = v \o <<x>> /\ s \o v \in Seq(Block) /\ <<x>> \in Seq(Block)
          BY AppendIsConcat
        <5>2. Append(s \o v, x) = (s \o v) \o <<x>>
          BY <5>1, AppendIsConcat
        <5> QED BY <5>1, <5>2, Associative
      <4>2. s \o v \in Seq(Block)
        OBVIOUS
      <4> QED BY <3>2, <4>1, <4>2, ScanOneMore
    <3>5. /\ UseIds(u) = UseIds(v) \cup (IF x.kind = "use" THEN {x.id} ELSE {})
          /\ ResultIds(u) = ResultIds(v) \cup (IF x.kind = "result" THEN {x.id} ELSE {})
      BY <3>2, IdsAppend
    <3>6. x.kind \in {"text", "use", "result"}
      BY BlockFields
    <3> DEFINE st == Scan(s \o v)
    <3>7. Scanned(st, x).open =
            CASE x.kind = "use" -> st.open \cup {x.id}
              [] x.kind = "result" -> st.open \ {x.id}
              [] OTHER -> st.open
      <4>1. PICK o \in SUBSET Nat, r \in Seq(Nat) : st = [open |-> o, order |-> r]
        <5>1. s \o v \in Seq(Block)
          OBVIOUS
        <5> QED BY <5>1, ScanTyped DEF State
      <4> QED BY <3>6, <4>1 DEF Scanned
    <3> HIDE DEF st
    <3> QED BY <3>3, <3>4, <3>5, <3>6, <3>7 DEF st
  <2> HIDE DEF Opens, Closes
  <2> QED BY <2>1
<1> HIDE DEF N
<1>3. Len(t) \in N
  <2>1. Len(t) \in Nat
    OBVIOUS
  <2> QED BY <1>1, <1>2, <2>1, Inductively
<1> QED BY <1>3 DEF N
-----------------------------------------------------------------------------
(* What a transcript leaves open is the calls of its last turn.            *)

LEMMA AllButLast ==
  ASSUME NEW v \in Seq(Turn), NEW x \in Turn,
         RightRoles(Append(v, x)), AnsweredNext(Append(v, x))
  PROVE  /\ RightRoles(v) /\ AnsweredNext(v)
         /\ UseIds(x.content) # {} => x.role = "assistant"
         /\ ResultIds(x.content) # {} => x.role = "user"
         /\ ResultIds(x.content) = IF v = <<>> THEN {} ELSE UseIds(Last(v).content)
<1> DEFINE u == Append(v, x)
           n == Len(v)
<1>1. /\ n \in Nat /\ DOMAIN v = 1..n /\ DOMAIN u = 1..(n + 1) /\ u[n + 1] = x
      /\ \A i \in 1..n : u[i] = v[i]
  OBVIOUS
<1>2. v = <<>> <=> n = 0
  OBVIOUS
<1> HIDE DEF u, n
<1>3. RightRoles(u) /\ AnsweredNext(u)
  BY DEF u
<1>4. RightRoles(v)
  <2>1. ASSUME NEW i \in 1..n
        PROVE  /\ UseIds(v[i].content) # {} => v[i].role = "assistant"
               /\ ResultIds(v[i].content) # {} => v[i].role = "user"
    <3>1. i \in DOMAIN u /\ u[i] = v[i]
      BY <1>1
    <3>2. /\ UseIds(u[i].content) # {} => u[i].role = "assistant"
          /\ ResultIds(u[i].content) # {} => u[i].role = "user"
      BY <1>3, <3>1 DEF RightRoles
    <3> QED BY <3>1, <3>2
  <2> QED BY <1>1, <2>1 DEF RightRoles
<1>5. AnsweredNext(v)
  <2>1. ASSUME NEW i \in 1..n
        PROVE  /\ Once(v[i].content, "result")
               /\ ResultIds(v[i].content) = IF i = 1 THEN {} ELSE UseIds(v[i - 1].content)
    <3>1. i \in DOMAIN u /\ u[i] = v[i] /\ (i # 1 => u[i - 1] = v[i - 1])
      BY <1>1
    <3>2. /\ Once(u[i].content, "result")
          /\ ResultIds(u[i].content) = IF i = 1 THEN {} ELSE UseIds(u[i - 1].content)
      BY <1>3, <3>1 DEF AnsweredNext
    <3> QED BY <3>1, <3>2
  <2> QED BY <1>1, <2>1 DEF AnsweredNext
<1>6. n + 1 \in 1..(n + 1) /\ (n + 1) - 1 = n
  BY <1>1
<1>7. (UseIds(x.content) # {} => x.role = "assistant") /\ (ResultIds(x.content) # {} => x.role = "user")
  BY <1>1, <1>3, <1>6 DEF RightRoles
<1>8. ResultIds(x.content) = IF v = <<>> THEN {} ELSE UseIds(Last(v).content)
  <2>1. ResultIds(x.content) = IF n + 1 = 1 THEN {} ELSE UseIds(u[(n + 1) - 1].content)
    BY <1>1, <1>3, <1>6 DEF AnsweredNext
  <2>2. CASE n = 0
    BY <1>2, <2>1, <2>2
  <2>3. CASE n # 0
    <3>1. n + 1 # 1 /\ n \in 1..n
      BY <1>1, <2>3
    <3> QED BY <1>1, <1>2, <1>6, <2>1, <2>3, <3>1 DEF Last, n
  <2> QED BY <2>2, <2>3
<1> QED BY <1>4, <1>5, <1>7, <1>8

LEMMA OpenCalls ==
  ASSUME NEW c \in Seq(Turn), RightRoles(c), AnsweredNext(c)
  PROVE  Scan(Blocks(c)).open = IF c = <<>> THEN {} ELSE UseIds(Last(c).content)
<1> DEFINE Leaves(u) ==
             RightRoles(u) /\ AnsweredNext(u) =>
               Scan(Blocks(u)).open = IF u = <<>> THEN {} ELSE UseIds(Last(u).content)
           N == {n \in Nat : \A u \in Seq(Turn) : Len(u) = n => Leaves(u)}
<1>1. 0 \in N
  <2>1. \A u \in Seq(Turn) : Len(u) = 0 => u = <<>>
    OBVIOUS
  <2>2. Leaves(<<>>)
    BY BlocksNothing, ScanNothing DEF Unasked
  <2> HIDE DEF Leaves
  <2> QED BY <2>1, <2>2
<1>2. ASSUME NEW n \in Nat, n \in N PROVE n + 1 \in N
  <2>1. ASSUME NEW u \in Seq(Turn), Len(u) = n + 1 PROVE Leaves(u)
    <3> SUFFICES ASSUME RightRoles(u), AnsweredNext(u)
                 PROVE  Scan(Blocks(u)).open = IF u = <<>> THEN {} ELSE UseIds(Last(u).content)
      OBVIOUS
    <3>1. \E v \in Seq(Turn), x \in Turn : Len(v) = n /\ u = Append(v, x) /\ x = u[n + 1]
      <4>1. SplitLast(Turn, u, n)
        BY <2>1, LastOff
      <4> QED BY <4>1 DEF SplitLast
    <3>2. PICK v \in Seq(Turn), x \in Turn : Len(v) = n /\ u = Append(v, x) /\ x = u[n + 1]
      BY <3>1
    <3>3. Leaves(v)
      BY <1>2, <3>2
    <3>4. /\ RightRoles(v) /\ AnsweredNext(v)
          /\ UseIds(x.content) # {} => x.role = "assistant"
          /\ ResultIds(x.content) # {} => x.role = "user"
          /\ ResultIds(x.content) = IF v = <<>> THEN {} ELSE UseIds(Last(v).content)
      BY <3>2, AllButLast
    <3>5. Scan(Blocks(v)).open = ResultIds(x.content)
      BY <3>3, <3>4
    <3>6. Blocks(u) = Blocks(v) \o x.content /\ Blocks(v) \in Seq(Block) /\ x.content \in Seq(Block)
      <4>1. x.content \in Seq(Block)
        BY DEF Turn
      <4> QED BY <3>2, <4>1, BlocksOneMore, BlocksTyped
    <3>7. /\ ResultIds(x.content) = {} => Scan(Blocks(u)).open = Scan(Blocks(v)).open \cup UseIds(x.content)
          /\ UseIds(x.content) = {} => Scan(Blocks(u)).open = Scan(Blocks(v)).open \ ResultIds(x.content)
      BY <3>6, ScanTurn
    <3>8. u # <<>> /\ Last(u) = x
      BY <2>1, <3>2 DEF Last
    <3> HIDE DEF Leaves
    <3> QED BY <3>4, <3>5, <3>7, <3>8
  <2> HIDE DEF Leaves
  <2> QED BY <2>1
<1> HIDE DEF N
<1>3. Len(c) \in N
  <2>1. Len(c) \in Nat
    OBVIOUS
  <2> QED BY <1>1, <1>2, <2>1, Inductively
<1> QED BY <1>3 DEF N

LEMMA KeptDistinct ==
  ASSUME NEW u, NEW v, NEW T, KeptFrom(u, v, T), Distinct(u)
  PROVE  Distinct(v)
BY DEF KeptFrom, Distinct

LEMMA DanglingCalls ==
  ASSUME NEW c, Sound(c)
  PROVE  /\ Dangling(c) \in Seq(Nat) /\ Distinct(Dangling(c))
         /\ ToSet(Dangling(c)) = UseIds(Last(c).content)
<1> DEFINE st == Scan(Blocks(c))
<1>1. c \in Seq(Turn) /\ c # <<>> /\ RightRoles(c) /\ AnsweredNext(c) /\ Once(Blocks(c), "use")
  BY DEF Sound, Alternates
<1>2. st \in State /\ Distinct(st.order) /\ st.open \subseteq ToSet(st.order)
  <2>1. Blocks(c) \in Seq(Block)
    BY <1>1, BlocksTyped
  <2> QED BY <1>1, <2>1, AllOrderly DEF Orderly
<1>3. st.open = UseIds(Last(c).content)
  BY <1>1, OpenCalls
<1>4. Dangling(c) = Only(st.order, st.open) /\ st.order \in Seq(Nat)
  BY <1>2 DEF Dangling, State
<1> HIDE DEF st
<1>5. Only(st.order, st.open) \in Seq(Nat) /\ KeptFrom(st.order, Only(st.order, st.open), st.open)
  BY <1>4, OnlyMembers
<1>6. Distinct(Only(st.order, st.open))
  BY <1>2, <1>5, KeptDistinct
<1>7. ToSet(Only(st.order, st.open)) = st.open
  BY <1>2, <1>5 DEF KeptFrom
<1> QED BY <1>3, <1>4, <1>5, <1>6, <1>7

LEMMA UsesInOrder ==
  ASSUME NEW s \in Seq(Block), Once(s, "use")
  PROVE  /\ Ids(Uses(s)) \in Seq(Nat) /\ Distinct(Ids(Uses(s)))
         /\ ToSet(Ids(Uses(s))) = UseIds(s)
<1> DEFINE T == OfKind(s, "use")
           v == Only(s, T)
           d == Ids(v)
<1>1. v \in Seq(Block) /\ KeptFrom(s, v, T)
  BY OnlyMembers
<1>2. ToSet(v) = T
  BY <1>1 DEF KeptFrom, OfKind
<1>3. Uses(s) = v
  BY DEF Uses
<1>4. UseIds(s) = {b.id : b \in T}
  BY DEF UseIds
<1>5. \A b \in T : b.kind = "use"
  BY DEF OfKind
<1> HIDE DEF T, v
<1>6. DOMAIN v = 1..Len(v) /\ Len(v) \in Nat /\ (\A i \in 1..Len(v) : v[i] \in Block /\ v[i] \in T)
  <2>1. \A i \in 1..Len(v) : v[i] \in ToSet(v)
    BY <1>1, InSet
  <2> QED BY <1>1, <1>2, <2>1
<1>7. \A i \in 1..Len(v) : v[i].kind = "use" /\ v[i].id \in Nat
  <2>1. \A i \in 1..Len(v) : v[i].kind = "use"
    BY <1>5, <1>6
  <2> QED BY <1>6, <2>1, BlockFields
<1>8. d \in Seq(Nat) /\ Len(d) = Len(v) /\ \A i \in 1..Len(v) : d[i] = v[i].id
  BY <1>6, <1>7 DEF Ids
<1> HIDE DEF d
<1>9. Distinct(d)
  <2>1. PICK h \in [1..Len(v) -> 1..Len(s)] :
          /\ \A i, j \in 1..Len(v) : h[i] = h[j] => i = j
          /\ \A i \in 1..Len(v) : v[i] = s[h[i]]
    BY <1>1 DEF KeptFrom
  <2>2. \A i, j \in 1..Len(s) :
          s[i].kind = "use" /\ s[j].kind = "use" /\ s[i].id = s[j].id => i = j
    BY OnceAt
  <2> SUFFICES ASSUME NEW i \in 1..Len(v), NEW j \in 1..Len(v), d[i] = d[j] PROVE i = j
    BY <1>8 DEF Distinct
  <2>3. h[i] \in 1..Len(s) /\ h[j] \in 1..Len(s) /\ s[h[i]] = v[i] /\ s[h[j]] = v[j]
    BY <2>1
  <2>4. h[i] = h[j]
    <3>1. v[i].kind = "use" /\ v[j].kind = "use" /\ v[i].id = v[j].id
      BY <1>7, <1>8
    <3>2. s[h[i]].kind = "use" /\ s[h[j]].kind = "use" /\ s[h[i]].id = s[h[j]].id
      BY <2>3, <3>1
    <3> QED BY <2>2, <2>3, <3>2
  <2> QED BY <2>1, <2>4
<1>10. ToSet(d) = UseIds(s)
  <2>1. \A x : x \in ToSet(d) <=> \E i \in 1..Len(v) : d[i] = x
    <3>1. \A x : x \in ToSet(d) <=> \E i \in 1..Len(d) : d[i] = x
      BY <1>8, InSet
    <3> QED BY <1>8, <3>1
  <2>2. \A b : b \in T <=> \E i \in 1..Len(v) : v[i] = b
    BY <1>1, <1>2, InSet
  <2> QED BY <1>4, <1>8, <2>1, <2>2
<1> QED BY <1>3, <1>8, <1>9, <1>10 DEF d

(* Answers to a list of ids, however each came about.                      *)
LEMMA ResultsFor ==
  ASSUME NEW ids \in Seq(Nat), NEW a \in Seq(Block), Len(a) = Len(ids),
         \A i \in 1..Len(ids) : a[i].kind = "result" /\ a[i].id = ids[i]
  PROVE  /\ UseIds(a) = {} /\ ResultIds(a) = ToSet(ids) /\ ResultsFirst(a)
         /\ Distinct(ids) => Once(a, "result")
<1>1. UseIds(a) = {}
  BY IdsAt
<1>2. ResultIds(a) = ToSet(ids)
  <2>1. \A id : id \in ResultIds(a) <=> \E i \in 1..Len(a) : a[i].kind = "result" /\ a[i].id = id
    BY IdsAt
  <2>2. \A id : id \in ToSet(ids) <=> \E i \in 1..Len(ids) : ids[i] = id
    BY InSet
  <2> QED BY <2>1, <2>2
<1>3. ASSUME Distinct(ids) PROVE Once(a, "result")
  BY <1>3, OnceAt DEF Distinct
<1>4. ResultsFirst(a)
  BY DEF ResultsFirst
<1> QED BY <1>1, <1>2, <1>3, <1>4

AnswerList(ids, f) == [i \in 1..Len(ids) |-> Res(ids[i], f[i])]

LEMMA AnswersTo ==
  ASSUME NEW ids \in Seq(Nat), NEW f \in [1..Len(ids) -> Hows], NEW a, a = AnswerList(ids, f)
  PROVE  /\ a \in Seq(Block) /\ Len(a) = Len(ids)
         /\ UseIds(a) = {} /\ ResultIds(a) = ToSet(ids) /\ ResultsFirst(a)
         /\ Distinct(ids) => Once(a, "result")
<1>1. \A i \in 1..Len(ids) :
        Res(ids[i], f[i]) \in Block /\ Res(ids[i], f[i]).kind = "result" /\ Res(ids[i], f[i]).id = ids[i]
  <2>1. \A i \in 1..Len(ids) : ids[i] \in Nat /\ f[i] \in Hows
    OBVIOUS
  <2> QED BY <2>1 DEF Res, Block
<1>2. /\ a \in Seq(Block) /\ Len(a) = Len(ids)
      /\ \A i \in 1..Len(ids) : a[i].kind = "result" /\ a[i].id = ids[i]
  <2>1. Len(ids) \in Nat
    OBVIOUS
  <2>2. a \in [1..Len(ids) -> Block] /\ \A i \in 1..Len(ids) : a[i] = Res(ids[i], f[i])
    BY <1>1 DEF AnswerList
  <2>3. a \in Seq(Block) /\ Len(a) = Len(ids)
    BY <2>1, <2>2, ListOf
  <2> QED BY <1>1, <2>2, <2>3
<1> QED BY <1>2, ResultsFor

-----------------------------------------------------------------------------
(* A sound transcript stays so when the next turn answers its last.        *)

Turns(c) == c # <<>> => Alternates(c) /\ RightRoles(c) /\ AnsweredNext(c)

Asked(d) == IF d = <<>> THEN {} ELSE UseIds(Last(d).content)

Fits(d, x) ==
  /\ IF d = <<>> THEN x.role = "user" ELSE x.role # Last(d).role
  /\ UseIds(x.content) # {} => x.role = "assistant"
  /\ ResultIds(x.content) # {} => x.role = "user"
  /\ Once(x.content, "result") /\ ResultIds(x.content) = Asked(d)

LEMMA TurnsAppend ==
  ASSUME NEW d \in Seq(Turn), NEW x \in Turn
  PROVE  Turns(Append(d, x)) <=> Turns(d) /\ Fits(d, x)
<1> DEFINE u == Append(d, x)
           n == Len(d)
<1>1. /\ n \in Nat /\ DOMAIN d = 1..n /\ DOMAIN u = 1..(n + 1) /\ u[n + 1] = x
      /\ (\A i \in 1..n : u[i] = d[i]) /\ u # <<>> /\ Len(u) = n + 1
  OBVIOUS
<1>2. d = <<>> <=> n = 0
  OBVIOUS
<1>3. /\ n + 1 \in 1..(n + 1) /\ (n + 1) - 1 = n
      /\ \A i \in 1..(n + 1) : i = n + 1 \/ i \in 1..n
      /\ \A i \in 1..n : i \in 1..(n + 1)
      /\ \A i \in 1..(n + 1) : i # 1 => i - 1 \in 1..n
      /\ n # 0 => n \in 1..n /\ 1 \in 1..n /\ n + 1 # 1
  BY <1>1
<1>4. n # 0 => Last(d) = u[n]
  BY <1>1, <1>3 DEF Last
<1>5. ASSUME Turns(u) PROVE Turns(d) /\ Fits(d, x)
  <2>1. Alternates(u) /\ RightRoles(u) /\ AnsweredNext(u)
    BY <1>1, <1>5 DEF Turns
  <2>2. /\ RightRoles(d) /\ AnsweredNext(d)
        /\ UseIds(x.content) # {} => x.role = "assistant"
        /\ ResultIds(x.content) # {} => x.role = "user"
        /\ ResultIds(x.content) = IF d = <<>> THEN {} ELSE UseIds(Last(d).content)
    BY <2>1, AllButLast
  <2> HIDE DEF u, n
  <2>3. Once(x.content, "result")
    BY <1>1, <1>3, <2>1 DEF AnsweredNext
  <2>4. d # <<>> => Alternates(d)
    <3> SUFFICES ASSUME d # <<>> PROVE Alternates(d)
      OBVIOUS
    <3>1. d[1].role = "user"
      BY <1>1, <1>2, <1>3, <2>1 DEF Alternates
    <3>2. ASSUME NEW i \in 2..Len(d) PROVE d[i].role # d[i - 1].role
      <4>1. i \in 2..Len(u) /\ i \in 1..n /\ i - 1 \in 1..n
        BY <1>1 DEF n
      <4>2. u[i].role # u[i - 1].role
        BY <2>1, <4>1 DEF Alternates
      <4> QED BY <1>1, <4>1, <4>2
    <3> QED BY <3>1, <3>2 DEF Alternates
  <2>5. IF d = <<>> THEN x.role = "user" ELSE x.role # Last(d).role
    <3>1. CASE n = 0
      BY <1>1, <1>2, <2>1, <3>1 DEF Alternates
    <3>2. CASE n # 0
      <4>1. n + 1 \in 2..Len(u)
        BY <1>1, <3>2
      <4>2. u[n + 1].role # u[(n + 1) - 1].role
        BY <2>1, <4>1 DEF Alternates
      <4> QED BY <1>1, <1>2, <1>3, <1>4, <3>2, <4>2
    <3> QED BY <3>1, <3>2
  <2> QED BY <2>2, <2>3, <2>4, <2>5 DEF Turns, Fits, Asked
<1>6. ASSUME Turns(d), Fits(d, x) PROVE Turns(u)
  <2> HIDE DEF u, n
  <2>1. d # <<>> => Alternates(d) /\ RightRoles(d) /\ AnsweredNext(d)
    BY <1>6 DEF Turns
  <2>2. Alternates(u)
    <3>1. u[1].role = "user"
      <4>1. CASE n = 0
        BY <1>1, <1>2, <1>6, <4>1 DEF Fits
      <4>2. CASE n # 0
        BY <1>1, <1>2, <1>3, <2>1, <4>2 DEF Alternates
      <4> QED BY <4>1, <4>2
    <3>2. ASSUME NEW i \in 2..Len(u) PROVE u[i].role # u[i - 1].role
      <4>1. CASE i = n + 1
        <5>1. n # 0 /\ i - 1 = n
          BY <1>1, <4>1
        <5> QED BY <1>1, <1>2, <1>4, <1>6, <4>1, <5>1 DEF Fits
      <4>2. CASE i # n + 1
        <5>1. i \in 2..n /\ i \in 1..n /\ i - 1 \in 1..n /\ n # 0
          BY <1>1, <4>2
        <5>2. d[i].role # d[i - 1].role
          BY <1>2, <2>1, <5>1 DEF Alternates, n
        <5> QED BY <1>1, <5>1, <5>2
      <4> QED BY <4>1, <4>2
    <3> QED BY <1>1, <3>1, <3>2 DEF Alternates
  <2>3. RightRoles(u)
    <3> SUFFICES ASSUME NEW i \in 1..(n + 1)
                 PROVE  /\ UseIds(u[i].content) # {} => u[i].role = "assistant"
                        /\ ResultIds(u[i].content) # {} => u[i].role = "user"
      BY <1>1 DEF RightRoles
    <3>1. CASE i = n + 1
      BY <1>1, <1>6, <3>1 DEF Fits
    <3>2. CASE i # n + 1
      <4>1. i \in 1..n /\ n # 0
        BY <1>1, <3>2
      <4>2. RightRoles(d)
        BY <1>2, <2>1, <4>1
      <4>3. /\ UseIds(d[i].content) # {} => d[i].role = "assistant"
            /\ ResultIds(d[i].content) # {} => d[i].role = "user"
        BY <1>1, <4>1, <4>2 DEF RightRoles
      <4> QED BY <1>1, <4>1, <4>3
    <3> QED BY <3>1, <3>2
  <2>4. AnsweredNext(u)
    <3> SUFFICES ASSUME NEW i \in 1..(n + 1)
                 PROVE  /\ Once(u[i].content, "result")
                        /\ ResultIds(u[i].content) = IF i = 1 THEN {} ELSE UseIds(u[i - 1].content)
      BY <1>1 DEF AnsweredNext
    <3>1. CASE i = n + 1
      <4>1. CASE n = 0
        BY <1>1, <1>2, <1>6, <3>1, <4>1 DEF Fits, Asked
      <4>2. CASE n # 0
        <5>1. i # 1 /\ i - 1 = n
          BY <1>1, <3>1, <4>2
        <5> QED BY <1>1, <1>2, <1>4, <1>6, <3>1, <4>2, <5>1 DEF Fits, Asked
      <4> QED BY <4>1, <4>2
    <3>2. CASE i # n + 1
      <4>1. i \in 1..n /\ n # 0 /\ (i # 1 => i - 1 \in 1..n)
        BY <1>1, <3>2
      <4>2. AnsweredNext(d)
        BY <1>2, <2>1, <4>1
      <4>3. /\ Once(d[i].content, "result")
            /\ ResultIds(d[i].content) = IF i = 1 THEN {} ELSE UseIds(d[i - 1].content)
        BY <1>1, <4>1, <4>2 DEF AnsweredNext
      <4> QED BY <1>1, <4>1, <4>3
    <3> QED BY <3>1, <3>2
  <2> QED BY <2>2, <2>3, <2>4 DEF Turns
<1> QED BY <1>5, <1>6
Named(s, t) == {i \in 1..Len(s) : s[i].kind = "use" /\ s[i].tool = t}

LEMMA FirstUseIs ==
  ASSUME NEW s \in Seq(Block), NEW t
  PROVE  /\ Named(s, t) = {} => FirstUse(s, t) = NoId
         /\ \A i \in Named(s, t) : (\A j \in Named(s, t) : i <= j) => FirstUse(s, t) = s[i].id
         /\ Named(s, t) # {} => \E i \in Named(s, t) : \A j \in Named(s, t) : i <= j
<1>1. DOMAIN s = 1..Len(s) /\ Len(s) \in Nat
  OBVIOUS
<1>2. FirstUse(s, t) = IF Named(s, t) = {} THEN NoId
                       ELSE s[CHOOSE i \in Named(s, t) : \A j \in Named(s, t) : i <= j].id
  BY <1>1 DEF FirstUse, Named
<1>3. Named(s, t) \in SUBSET Nat
  BY DEF Named
<1>4. ASSUME NEW i \in Named(s, t), \A j \in Named(s, t) : i <= j
      PROVE  FirstUse(s, t) = s[i].id
  <2> DEFINE k == CHOOSE k \in Named(s, t) : \A j \in Named(s, t) : k <= j
  <2>1. k \in Named(s, t) /\ \A j \in Named(s, t) : k <= j
    BY <1>4
  <2>2. FirstUse(s, t) = s[k].id
    BY <1>2
  <2> HIDE DEF k
  <2>3. i <= k /\ k <= i /\ i \in Nat /\ k \in Nat
    BY <1>3, <1>4, <2>1
  <2>4. i = k
    BY <2>3
  <2> QED BY <2>2, <2>4
<1>5. Named(s, t) # {} => \E i \in Named(s, t) : \A j \in Named(s, t) : i <= j
  BY <1>3, LeastNumber
<1> QED BY <1>2, <1>4, <1>5

LEMMA FirstUseFound ==
  ASSUME NEW s \in Seq(Block), NEW t
  PROVE  /\ FirstUse(s, t) \in Nat
         /\ FirstUse(s, t) # NoId => FirstUse(s, t) \in UseIds(s)
<1>1. CASE Named(s, t) = {}
  BY <1>1, FirstUseIs DEF NoId
<1>2. CASE Named(s, t) # {}
  <2>1. PICK i \in Named(s, t) : \A j \in Named(s, t) : i <= j
    BY <1>2, FirstUseIs
  <2>2. FirstUse(s, t) = s[i].id
    BY <2>1, FirstUseIs
  <2>3. i \in 1..Len(s) /\ s[i].kind = "use" /\ s[i] \in Block
    BY DEF Named
  <2>4. s[i].id \in UseIds(s)
    BY <2>3, IdsAt
  <2>5. s[i].id \in Nat
    BY <2>3, BlockFields
  <2> QED BY <2>2, <2>4, <2>5
<1> QED BY <1>1, <1>2

LEMMA FirstUseAfter ==
  ASSUME NEW s \in Seq(Block), NEW u \in Seq(Block), NEW t, UseIds(s) = {}
  PROVE  FirstUse(s \o u, t) = FirstUse(u, t)
<1> DEFINE w == s \o u
           n == Len(s)
<1>1. /\ w \in Seq(Block) /\ n \in Nat /\ Len(u) \in Nat
      /\ \A i \in 1..n : i \in 1..Len(w) /\ w[i] = s[i]
      /\ \A i \in 1..Len(u) : n + i \in 1..Len(w) /\ w[n + i] = u[i]
      /\ \A i \in 1..Len(w) : i \in 1..n \/ \E j \in 1..Len(u) : i = n + j
  BY ConcatAt
<1>2. \A i \in 1..n : s[i].kind # "use"
  BY NoneAt
<1> HIDE DEF w, n
<1>3. ASSUME NEW i \in Named(w, t) PROVE \E j \in Named(u, t) : i = n + j
  <2>1. i \in 1..Len(w) /\ w[i].kind = "use" /\ w[i].tool = t
    BY DEF Named
  <2>2. i \notin 1..n
    BY <1>1, <1>2, <2>1
  <2>3. PICK j \in 1..Len(u) : i = n + j
    BY <1>1, <2>1, <2>2
  <2>4. u[j].kind = "use" /\ u[j].tool = t
    BY <1>1, <2>1, <2>3
  <2> QED BY <2>3, <2>4 DEF Named
<1>4. ASSUME NEW j \in Named(u, t) PROVE n + j \in Named(w, t) /\ w[n + j] = u[j]
  <2>1. j \in 1..Len(u) /\ u[j].kind = "use" /\ u[j].tool = t
    BY DEF Named
  <2>2. n + j \in 1..Len(w) /\ w[n + j] = u[j]
    BY <1>1, <2>1
  <2> QED BY <2>1, <2>2 DEF Named
<1>5. CASE Named(u, t) = {}
  <2>1. Named(w, t) = {}
    BY <1>3, <1>5
  <2>2. FirstUse(w, t) = NoId /\ FirstUse(u, t) = NoId
    BY <1>1, <1>5, <2>1, FirstUseIs
  <2> QED BY <2>2 DEF w
<1>6. CASE Named(u, t) # {}
  <2>1. PICK j \in Named(u, t) : \A k \in Named(u, t) : j <= k
    BY <1>6, FirstUseIs
  <2>2. FirstUse(u, t) = u[j].id
    BY <2>1, FirstUseIs
  <2>3. Named(u, t) \subseteq Nat
    BY DEF Named
  <2>4. \A i \in Named(w, t) : n + j <= i
    BY <1>1, <1>3, <2>1, <2>3
  <2>5. n + j \in Named(w, t) /\ w[n + j] = u[j]
    BY <1>4
  <2>6. FirstUse(w, t) = w[n + j].id
    BY <1>1, <2>4, <2>5, FirstUseIs
  <2> QED BY <2>2, <2>5, <2>6 DEF w
<1> QED BY <1>5, <1>6

(* Results come first in every turn of a transcript, and in turns joined.  *)
LEMMA TidyAppend ==
  ASSUME NEW d \in Seq(Turn), NEW x \in Turn
  PROVE  Tidy(Append(d, x)) <=> Tidy(d) /\ ResultsFirst(x.content)
<1> DEFINE u == Append(d, x)
           n == Len(d)
<1>1. /\ n \in Nat /\ Len(u) = n + 1 /\ u[n + 1] = x /\ n + 1 \in 1..(n + 1)
      /\ \A i \in 1..n : i \in 1..(n + 1) /\ u[i] = d[i]
      /\ \A i \in 1..(n + 1) : i = n + 1 \/ i \in 1..n
  OBVIOUS
<1> HIDE DEF u, n
<1>2. Tidy(d) <=> \A i \in 1..n : ResultsFirst(d[i].content)
  BY DEF Tidy, n
<1>3. Tidy(u) <=> \A i \in 1..(n + 1) : ResultsFirst(u[i].content)
  BY <1>1 DEF Tidy
<1> QED BY <1>1, <1>2, <1>3 DEF u

LEMMA ResultsFirstConcat ==
  ASSUME NEW s \in Seq(Block), NEW t \in Seq(Block), ResultsFirst(s), ResultIds(t) = {}
  PROVE  ResultsFirst(s \o t)
<1> DEFINE u == s \o t
<1>1. /\ u \in Seq(Block) /\ Len(s) \in Nat /\ Len(t) \in Nat
      /\ \A i \in 1..Len(s) : i \in 1..Len(u) /\ u[i] = s[i]
      /\ \A i \in 1..Len(t) : Len(s) + i \in 1..Len(u) /\ u[Len(s) + i] = t[i]
      /\ \A i \in 1..Len(u) : i \in 1..Len(s) \/ \E j \in 1..Len(t) : i = Len(s) + j
  BY ONLY ConcatAt, s \in Seq(Block), t \in Seq(Block)
<1>2. \A i \in 1..Len(t) : t[i].kind # "result"
  <2>1. (ResultIds(t) = {}) => \A i \in 1..Len(t) : t[i].kind # "result"
    BY NoneAt, Zenon
  <2> QED BY <2>1
<1> HIDE DEF u
<1>3. ASSUME NEW i \in 1..Len(u), NEW j \in 1..Len(u), i < j, u[j].kind = "result"
      PROVE  u[i].kind = "result"
  <2>1. j \in 1..Len(s)
    <3>1. ASSUME NEW k \in 1..Len(t), j = Len(s) + k PROVE FALSE
      <4>1. u[j] = t[k]
        BY <1>1, <3>1
      <4> QED BY <1>2, <1>3, <4>1
    <3> QED BY <1>1, <3>1
  <2>2. i \in 1..Len(s) /\ u[i] = s[i] /\ u[j] = s[j]
    BY <1>1, <1>3, <2>1
  <2> QED BY <1>3, <2>1, <2>2 DEF ResultsFirst
<1> QED BY <1>3 DEF ResultsFirst, u

LEMMA NoResultsFirst ==
  ASSUME NEW b \in Seq(Block), ResultIds(b) = {}
  PROVE  ResultsFirst(b)
BY NoneAt DEF ResultsFirst

(* The one fact every seed and every step of the loop rests on: pushed     *)
(* onto a sound transcript, a message that answers exactly the calls of    *)
(* the last turn, or asks with new ids when there are none, leaves it      *)
(* sound, merged or not.                                                   *)
LEMMA Pushed ==
  ASSUME NEW c, Sound(c), NEW m \in Turn, m.content # <<>>,
         UseIds(m.content) # {} => m.role = "assistant",
         ResultIds(m.content) # {} => m.role = "user",
         Once(m.content, "result"), ResultIds(m.content) = UseIds(Last(c).content),
         ResultsFirst(m.content), Once(Blocks(c) \o m.content, "use"),
         \E n \in Nat : UseIds(Blocks(c) \o m.content) = 1..n
  PROVE  /\ Sound(Push(c, m))
         /\ Last(Push(c, m)).role = m.role
         /\ UseIds(Last(Push(c, m)).content) = UseIds(m.content)
         /\ \A t : FirstUse(Last(Push(c, m)).content, t) = FirstUse(m.content, t)
<1>1. c \in Seq(Turn) /\ c # <<>> /\ Turns(c)
  BY DEF Sound, Alternates, Turns
<1>2. PICK d \in Seq(Turn), l \in Turn : c = Append(d, l)
  BY <1>1, SequenceEmptyOrAppend
<1>3. Turns(d) /\ Fits(d, l)
  BY <1>1, <1>2, TurnsAppend
<1>4. l.content \in Seq(Block) /\ m.content \in Seq(Block) /\ l.role \in {"user", "assistant"}
  BY DEF Turn
<1>5. Last(c) = l /\ Tidy(c) /\ Tidy(d) /\ ResultsFirst(l.content)
  BY <1>2, TidyAppend DEF Last, Sound
<1>6. Push(c, m) \in Seq(Turn) /\ Blocks(Push(c, m)) = Blocks(c) \o m.content
  BY <1>1, PushBlocks
<1>7. ASSUME NEW p, p = Push(c, m), p # <<>>, Turns(p), Tidy(p) PROVE Sound(p)
  BY <1>6, <1>7 DEF Sound, Turns
<1>8. CASE l.role # m.role
  <2>1. Push(c, m) = Append(c, m)
    BY <1>2, <1>8, PushOne
  <2>2. Fits(c, m)
    BY <1>1, <1>5, <1>8 DEF Fits, Asked
  <2>3. Turns(Append(c, m)) /\ Append(c, m) # <<>> /\ Last(Append(c, m)) = m
    <3>1. Append(c, m) # <<>> /\ Last(Append(c, m)) = m
      BY <1>1 DEF Last
    <3> QED BY <1>1, <2>2, <3>1, TurnsAppend
  <2>4. Tidy(Append(c, m))
    BY <1>1, <1>5, TidyAppend
  <2> QED BY <1>7, <2>1, <2>3, <2>4
<1>9. CASE l.role = m.role
  <2> DEFINE e == [role |-> l.role, content |-> l.content \o m.content]
  <2>1. UseIds(l.content) = {}
    BY <1>3, <1>5, <1>9 DEF Fits
  <2>2. ResultIds(m.content) = {}
    BY <1>5, <2>1
  <2>3. l.content \o m.content \in Seq(Block)
    BY <1>4
  <2>4. UseIds(e.content) = UseIds(m.content) /\ ResultIds(e.content) = ResultIds(l.content)
    <3>1. /\ UseIds(l.content \o m.content) = UseIds(l.content) \cup UseIds(m.content)
          /\ ResultIds(l.content \o m.content) = ResultIds(l.content) \cup ResultIds(m.content)
      BY <1>4, IdsConcat
    <3>2. e.content = l.content \o m.content
      OBVIOUS
    <3> HIDE DEF e
    <3> QED BY <2>1, <2>2, <3>1, <3>2
  <2>5. Once(e.content, "result")
    <3>1. Once(l.content, "result") /\ IdsOf(m.content, "result") = {}
      BY <1>3, <1>4, <2>2, IdsOfKinds DEF Fits
    <3> QED BY <1>4, <3>1, OnceConcat
  <2>6. \A t : FirstUse(e.content, t) = FirstUse(m.content, t)
    BY <1>4, <2>1, FirstUseAfter
  <2>7. e \in Turn /\ e.role = l.role
    BY <1>4, <2>3 DEF Turn
  <2>8. Push(c, m) = Append(d, e)
    <3>1. Push(Append(d, l), m) = Append(d, e)
      BY <1>9, PushJoins
    <3> HIDE DEF e
    <3> QED BY <1>2, <3>1
  <2> HIDE DEF e
  <2>9. Fits(d, e)
    BY <1>3, <1>9, <2>4, <2>5, <2>7 DEF Fits
  <2>10. Turns(Append(d, e)) /\ Append(d, e) # <<>> /\ Last(Append(d, e)) = e
    <3>1. Append(d, e) # <<>> /\ Last(Append(d, e)) = e
      BY <2>7 DEF Last
    <3> QED BY <1>3, <2>7, <2>9, <3>1, TurnsAppend
  <2>11. Tidy(Append(d, e))
    <3>1. ResultsFirst(l.content \o m.content)
      BY <1>4, <1>5, <2>2, ResultsFirstConcat
    <3> QED BY <1>5, <2>7, <3>1, TidyAppend DEF e
  <2> QED BY <1>7, <1>9, <2>4, <2>6, <2>7, <2>8, <2>10, <2>11
<1> QED BY <1>8, <1>9
-----------------------------------------------------------------------------
(* Prefixes. *)

LEMMA PrefixAt ==
  ASSUME NEW S, NEW s \in Seq(S), NEW t \in Seq(S)
  PROVE  IsPrefix(s, t) <=> Len(s) <= Len(t) /\ \A i \in 1..Len(s) : s[i] = t[i]
<1>1. Len(s) \in Nat /\ Len(t) \in Nat
  OBVIOUS
<1>2. SubSeq(s, 1, Len(s)) = s
  BY SubSeqFull
<1>3. CASE Len(s) <= Len(t)
  <2>1. \A i \in 1..Len(s) : t[i] \in S
    BY <1>1, <1>3
  <2>2. /\ SubSeq(t, 1, Len(s)) \in Seq(S) /\ Len(SubSeq(t, 1, Len(s))) = Len(s)
        /\ \A i \in 1..Len(s) : SubSeq(t, 1, Len(s))[i] = t[i]
    BY <1>1, <2>1
  <2>3. s = SubSeq(t, 1, Len(s)) <=> \A i \in 1..Len(s) : s[i] = t[i]
    <3>1. ASSUME \A i \in 1..Len(s) : s[i] = t[i] PROVE s = SubSeq(t, 1, Len(s))
      <4>1. \A i \in 1..Len(s) : s[i] = SubSeq(t, 1, Len(s))[i]
        BY <2>2, <3>1
      <4> QED BY <2>2, <4>1, SeqEqual
    <3>2. ASSUME s = SubSeq(t, 1, Len(s)) PROVE \A i \in 1..Len(s) : s[i] = t[i]
      BY <2>2, <3>2
    <3> QED BY <3>1, <3>2
  <2> QED BY <1>2, <1>3, <2>3 DEF IsPrefix
<1>4. CASE ~(Len(s) <= Len(t))
  BY <1>4 DEF IsPrefix
<1> QED BY <1>3, <1>4

LEMMA PrefixSelf ==
  ASSUME NEW S, NEW s \in Seq(S)
  PROVE  IsPrefix(s, s)
BY PrefixAt

LEMMA PrefixLonger ==
  ASSUME NEW S, NEW s \in Seq(S), NEW t \in Seq(S)
  PROVE  IsPrefix(s, s \o t)
<1>1. /\ s \o t \in Seq(S) /\ Len(s) \in Nat /\ Len(t) \in Nat /\ Len(s \o t) = Len(s) + Len(t)
      /\ \A i \in 1..Len(s) : (s \o t)[i] = s[i]
  BY ConcatAt
<1>2. Len(s) <= Len(s \o t)
  BY <1>1
<1> QED BY <1>1, <1>2, PrefixAt

LEMMA PrefixFurther ==
  ASSUME NEW S, NEW s \in Seq(S), NEW t \in Seq(S), NEW u \in Seq(S),
         IsPrefix(s, t), IsPrefix(t, u)
  PROVE  IsPrefix(s, u)
<1>1. /\ Len(s) <= Len(t) /\ \A i \in 1..Len(s) : s[i] = t[i]
      /\ Len(t) <= Len(u) /\ \A i \in 1..Len(t) : t[i] = u[i]
  BY PrefixAt
<1>2. Len(s) <= Len(u) /\ \A i \in 1..Len(s) : i \in 1..Len(t) /\ s[i] = u[i]
  <2>1. Len(s) \in Nat /\ Len(t) \in Nat /\ Len(u) \in Nat
    OBVIOUS
  <2>2. \A i \in 1..Len(s) : i \in 1..Len(t)
    BY <1>1, <2>1
  <2> QED BY <1>1, <2>1, <2>2
<1> QED BY <1>2, PrefixAt

-----------------------------------------------------------------------------
(* The seeds of a run. *)

LEMMA ValidWhenSettled ==
  ASSUME NEW c, Sound(c)
  PROVE  Validate(c) <=> Settled(c)
BY DEF Sound, Settled, Validate

LEMMA SoundTyped ==
  ASSUME NEW c, Sound(c)
  PROVE  c \in Seq(Turn) /\ c # <<>> /\ Last(c) \in Turn /\ Last(c).content \in Seq(Block)
         /\ Blocks(c) \in Seq(Block)
<1>1. c \in Seq(Turn) /\ c # <<>>
  BY DEF Sound, Alternates
<1>2. Last(c) \in Turn
  BY <1>1 DEF Last
<1> QED BY <1>1, <1>2, BlocksTyped DEF Turn

(* A user's message that answers what is open.                             *)
Answering(c, b) ==
  /\ b \in Seq(Block) /\ b # <<>> /\ UseIds(b) = {}
  /\ Once(b, "result") /\ ResultIds(b) = UseIds(Last(c).content) /\ ResultsFirst(b)

LEMMA AnsweredCarriesOn ==
  ASSUME NEW c, Sound(c), NEW b, Answering(c, b)
  PROVE  /\ Sound(Push(c, User(b))) /\ Settled(Push(c, User(b)))
         /\ IsPrefix(Blocks(c), Blocks(Push(c, User(b))))
<1> DEFINE m == User(b)
<1>1. m.role = "user" /\ m.content = b /\ m \in Turn /\ b # <<>>
  BY DEF User, Turn, Answering
<1>2. Blocks(c) \in Seq(Block) /\ b \in Seq(Block) /\ c \in Seq(Turn) /\ c # <<>>
  BY SoundTyped DEF Answering
<1>3. Once(Blocks(c) \o b, "use")
  <2>1. IdsOf(b, "use") = {} /\ Once(b, "use")
    <3>1. IdsOf(b, "use") = {}
      BY <1>2, IdsOfKinds DEF Answering
    <3>2. \A i \in 1..Len(b) : b[i].kind # "use"
      BY <3>1 DEF IdsOf
    <3> QED BY <1>2, <3>1, <3>2, OnceAt
  <2>2. Once(Blocks(c), "use")
    BY DEF Sound
  <2> QED BY <1>2, <2>1, <2>2, OnceConcat
<1>4. \E n \in Nat : UseIds(Blocks(c) \o b) = 1..n
  <2>1. UseIds(Blocks(c) \o b) = UseIds(Blocks(c))
    <3>1. UseIds(Blocks(c) \o b) = UseIds(Blocks(c)) \cup UseIds(b)
      BY <1>2, IdsConcat
    <3> QED BY <3>1 DEF Answering
  <2>2. PICK n \in Nat : UseIds(Blocks(c)) = 1..n
    BY DEF Sound
  <2> QED BY <2>1, <2>2
<1> HIDE DEF m
<1>5. Sound(Push(c, m)) /\ UseIds(Last(Push(c, m)).content) = UseIds(m.content)
  BY <1>1, <1>3, <1>4, Pushed DEF Answering
<1>6. Blocks(Push(c, m)) = Blocks(c) \o b
  BY <1>1, <1>2, PushBlocks
<1>7. IsPrefix(Blocks(c), Blocks(c) \o b)
  BY <1>2, PrefixLonger
<1>8. Settled(Push(c, m))
  BY <1>1, <1>5 DEF Settled, Answering
<1> QED BY <1>5, <1>6, <1>7, <1>8 DEF m

LEMMA TextOnly ==
  /\ <<Text>> \in Seq(Block) /\ <<Text>> # <<>>
  /\ UseIds(<<Text>>) = {} /\ ResultIds(<<Text>>) = {} /\ Once(<<Text>>, "result") /\ Once(<<Text>>, "use")
<1>1. Text \in Block /\ Text.kind = "text"
  BY DEF Text, Block
<1>2. <<Text>> \in Seq(Block) /\ Len(<<Text>>) = 1 /\ <<Text>>[1] = Text /\ <<Text>> # <<>>
  BY <1>1
<1>3. \A i \in 1..Len(<<Text>>) : <<Text>>[i].kind = "text"
  BY <1>1, <1>2
<1> HIDE DEF Text
<1>4. UseIds(<<Text>>) = {} /\ ResultIds(<<Text>>) = {}
  BY <1>2, <1>3, IdsAt
<1>5. Once(<<Text>>, "result") /\ Once(<<Text>>, "use")
  BY <1>2, <1>3, OnceAt
<1> QED BY <1>2, <1>4, <1>5

LEMMA ThenAnswers ==
  ASSUME NEW c, Sound(c)
  PROVE  \E b : Answering(c, b) /\ Then(c) = Push(c, User(b))
<1> DEFINE ids == Dangling(c)
           a == Answers(ids, LAMBDA id : "cancelled")
<1>1. ids \in Seq(Nat) /\ Distinct(ids) /\ ToSet(ids) = UseIds(Last(c).content)
  BY DanglingCalls
<1>2. CASE ids = <<>>
  <2>1. Then(c) = Push(c, User(<<Text>>))
    BY <1>2 DEF Then
  <2>2. UseIds(Last(c).content) = {}
    BY <1>1, <1>2 DEF ToSet
  <2>3. Answering(c, <<Text>>)
    BY <2>2, TextOnly, NoResultsFirst DEF Answering
  <2> QED BY <2>1, <2>3
<1>3. CASE ids # <<>>
  <2>1. Then(c) = Push(c, User(a \o <<Text>>))
    BY <1>3 DEF Then, CloseDangling
  <2>2. a = [i \in 1..Len(ids) |-> Res(ids[i], [j \in 1..Len(ids) |-> "cancelled"][i])]
    BY <1>1 DEF Answers
  <2>3. /\ a \in Seq(Block) /\ Len(a) = Len(ids)
        /\ UseIds(a) = {} /\ ResultIds(a) = ToSet(ids) /\ Once(a, "result") /\ ResultsFirst(a)
    <3> DEFINE f == [j \in 1..Len(ids) |-> "cancelled"]
    <3>1. f \in [1..Len(ids) -> Hows]
      BY DEF Hows
    <3> HIDE DEF a, ids
    <3>2. a = AnswerList(ids, f)
      BY <2>2 DEF AnswerList
    <3> HIDE DEF f
    <3> QED BY <1>1, <3>1, <3>2, AnswersTo
  <2> HIDE DEF a, ids
  <2>4. Answering(c, a \o <<Text>>)
    <3>1. UseIds(a \o <<Text>>) = {} /\ ResultIds(a \o <<Text>>) = ToSet(ids)
      <4>1. /\ UseIds(a \o <<Text>>) = UseIds(a) \cup UseIds(<<Text>>)
            /\ ResultIds(a \o <<Text>>) = ResultIds(a) \cup ResultIds(<<Text>>)
        BY <2>3, TextOnly, IdsConcat
      <4> QED BY <2>3, <4>1, TextOnly
    <3>2. Once(a \o <<Text>>, "result")
      <4>1. IdsOf(<<Text>>, "result") = {}
        BY TextOnly, IdsOfKinds
      <4>2. a \in Seq(Block) /\ Once(a, "result")
        BY <2>3
      <4> DEFINE w == <<Text>>
      <4>3. w \in Seq(Block) /\ Once(w, "result") /\ IdsOf(w, "result") = {}
        BY <4>1, TextOnly
      <4> HIDE DEF w
      <4>4. Once(a \o w, "result")
        BY <4>2, <4>3, OnceConcat
      <4> QED BY <4>4 DEF w
    <3>3. a \o <<Text>> \in Seq(Block) /\ a \o <<Text>> # <<>>
      <4>1. <<Text>> \in Seq(Block) /\ <<Text>> # <<>>
        BY TextOnly
      <4> HIDE DEF Text
      <4> QED BY <2>3, <4>1
    <3>4. ResultsFirst(a \o <<Text>>)
      BY <2>3, TextOnly, ResultsFirstConcat
    <3> QED BY <1>1, <3>1, <3>2, <3>3, <3>4 DEF Answering
  <2> QED BY <2>1, <2>4
<1> QED BY <1>2, <1>3

LEMMA ThenCarriesOn ==
  ASSUME NEW c, Sound(c)
  PROVE  Sound(Then(c)) /\ Settled(Then(c)) /\ IsPrefix(Blocks(c), Blocks(Then(c)))
<1>1. PICK b : Answering(c, b) /\ Then(c) = Push(c, User(b))
  BY ThenAnswers
<1> QED BY <1>1, AnsweredCarriesOn

LEMMA AnswerCarriesOn ==
  ASSUME NEW c, Sound(c), NEW id \in UseIds(Last(c).content)
  PROVE  /\ Sound(AnswerPause(c, id)) /\ Settled(AnswerPause(c, id))
         /\ IsPrefix(Blocks(c), Blocks(AnswerPause(c, id)))
<1> DEFINE ids == Dangling(c)
           f == [i \in 1..Len(ids) |-> IF ids[i] = id THEN "answer" ELSE "notrun"]
           a == [i \in 1..Len(ids) |-> Res(ids[i], f[i])]
<1>1. ids \in Seq(Nat) /\ Distinct(ids) /\ ToSet(ids) = UseIds(Last(c).content)
  BY DanglingCalls
<1>2. f \in [1..Len(ids) -> Hows]
  BY DEF Hows
<1>3. AnswerPause(c, id) = Push(c, User(a \o <<>>))
  <2>1. Contains(ids, id)
    BY <1>1, InSet DEF Contains
  <2>2. DOMAIN ids = 1..Len(ids)
    BY <1>1
  <2>3. a = [i \in DOMAIN ids |-> Res(ids[i], IF ids[i] = id THEN "answer" ELSE "notrun")]
    BY <2>2
  <2> HIDE DEF ids, a
  <2> QED BY <2>1, <2>3 DEF AnswerPause, Answers, ids
<1> HIDE DEF ids, f
<1>4. /\ a \in Seq(Block) /\ Len(a) = Len(ids)
      /\ UseIds(a) = {} /\ ResultIds(a) = ToSet(ids) /\ Once(a, "result") /\ ResultsFirst(a)
  <2> HIDE DEF a
  <2>1. a = AnswerList(ids, f)
    BY DEF a, AnswerList
  <2> HIDE DEF ids, f
  <2> QED BY <1>1, <1>2, <2>1, AnswersTo
<1> HIDE DEF a
<1>5. a \o <<>> = a
  BY <1>4, ConcatEmptySeq
<1>6. a # <<>>
  <2>1. Len(ids) # 0
    BY <1>1, InSet
  <2> QED BY <1>4, <2>1
<1>7. Answering(c, a)
  BY <1>1, <1>4, <1>6 DEF Answering
<1> QED BY <1>3, <1>5, <1>7, AnsweredCarriesOn

LEMMA PendingPauseIsOpen ==
  ASSUME NEW c, Sound(c), PendingPause(c) # NoId
  PROVE  PendingPause(c) \in UseIds(Last(c).content)
<1>1. Last(c).content \in Seq(Block)
  BY SoundTyped
<1>2. PendingPause(c) = FirstUse(Last(c).content, "pause")
  BY DEF PendingPause, FindPause
<1> QED BY <1>1, <1>2, FirstUseFound

LEMMA ResumeCarriesOn ==
  ASSUME NEW c, Sound(c)
  PROVE  Sound(Resume(c)) /\ Settled(Resume(c)) /\ IsPrefix(Blocks(c), Blocks(Resume(c)))
<1>1. CASE PendingPause(c) # NoId
  <2>1. Resume(c) = AnswerPause(c, PendingPause(c))
    BY <1>1 DEF Resume
  <2> QED BY <1>1, <2>1, PendingPauseIsOpen, AnswerCarriesOn
<1>2. CASE PendingPause(c) = NoId
  <2>1. Resume(c) = Then(c)
    BY <1>2 DEF Resume
  <2> QED BY <2>1, ThenCarriesOn
<1> QED BY <1>1, <1>2

(* What the model says: text and calls with ids of their own.              *)
Saying(c, b) ==
  /\ b \in Seq(Block) /\ ResultIds(b) = {} /\ Once(b, "use")
  /\ UseIds(Blocks(c)) \cap UseIds(b) = {}
  /\ \E n \in Nat : UseIds(Blocks(c)) \cup UseIds(b) = 1..n

LEMMA SaidCarriesOn ==
  ASSUME NEW c, Sound(c), Settled(c), NEW b, Saying(c, b)
  PROVE  /\ Sound(Push(c, Assistant(b)))
         /\ IsPrefix(Blocks(c), Blocks(Push(c, Assistant(b))))
         /\ b # <<>> => /\ Last(Push(c, Assistant(b))).role = "assistant"
                        /\ UseIds(Last(Push(c, Assistant(b))).content) = UseIds(b)
                        /\ \A t : FirstUse(Last(Push(c, Assistant(b))).content, t) = FirstUse(b, t)
         /\ b = <<>> => Push(c, Assistant(b)) = c
<1> DEFINE m == Assistant(b)
<1>1. m.role = "assistant" /\ m.content = b /\ m \in Turn
  BY DEF Assistant, Turn, Saying
<1>2. Blocks(c) \in Seq(Block) /\ b \in Seq(Block) /\ c \in Seq(Turn) /\ c # <<>>
  BY SoundTyped DEF Saying
<1> HIDE DEF m
<1>3. CASE b = <<>>
  <2>1. Push(c, m) = c
    BY <1>1, <1>3, PushNothing
  <2>2. IsPrefix(Blocks(c), Blocks(c))
    BY <1>2, PrefixSelf
  <2> QED BY <1>3, <2>1, <2>2 DEF m
<1>4. CASE b # <<>>
  <2>1. Once(Blocks(c) \o b, "use")
    BY <1>2, IdsOfKinds, OnceConcat DEF Sound, Saying
  <2>2. UseIds(Blocks(c) \o b) = UseIds(Blocks(c)) \cup UseIds(b)
    BY <1>2, IdsConcat
  <2>3. \E n \in Nat : UseIds(Blocks(c) \o b) = 1..n
    BY <2>2 DEF Saying
  <2>4. Once(b, "result")
    <3>1. \A i \in 1..Len(b) : b[i].kind # "result"
      <4>1. ResultIds(b) = {}
        BY DEF Saying
      <4> QED BY <1>2, <4>1, NoneAt
    <3> QED BY <1>2, <3>1, OnceAt
  <2>5. /\ ResultIds(m.content) = UseIds(Last(c).content) /\ ResultIds(m.content) = {}
        /\ ResultsFirst(m.content)
    BY <1>1, <1>2, NoResultsFirst DEF Settled, Saying
  <2>6. /\ Sound(Push(c, m)) /\ Last(Push(c, m)).role = m.role
        /\ UseIds(Last(Push(c, m)).content) = UseIds(m.content)
        /\ \A t : FirstUse(Last(Push(c, m)).content, t) = FirstUse(m.content, t)
    BY <1>1, <1>4, <2>1, <2>3, <2>4, <2>5, Pushed
  <2>7. Blocks(Push(c, m)) = Blocks(c) \o b
    BY <1>1, <1>2, PushBlocks
  <2>8. IsPrefix(Blocks(c), Blocks(c) \o b)
    BY <1>2, PrefixLonger
  <2> QED BY <1>1, <1>4, <2>6, <2>7, <2>8 DEF m
<1> QED BY <1>3, <1>4

LEMMA TextIsSaid ==
  ASSUME NEW c, Sound(c)
  PROVE  Saying(c, <<Text>>)
<1>1. PICK n \in Nat : UseIds(Blocks(c)) = 1..n
  BY DEF Sound
<1> QED BY <1>1, TextOnly DEF Saying

(* One call, or two, with the numbers that come next.                      *)
LEMMA UseIsBlock ==
  ASSUME NEW id \in Nat \ {NoId}, NEW t \in ToolNames
  PROVE  Use(id, t) \in Block /\ Use(id, t).kind = "use" /\ Use(id, t).id = id
BY DEF Use, Block

LEMMA ContentsAreSaid ==
  ASSUME Sound(convo), NEW b \in Contents
  PROVE  Saying(convo, b)
<1>1. PICK n \in Nat : UseIds(Blocks(convo)) = 1..n
  BY DEF Sound
<1>2. NextId(1) = n + 1 /\ NextId(2) = n + 2
  <2>1. Cardinality(1..n) = n
    BY FS_Interval
  <2> QED BY <1>1, <2>1 DEF NextId, UsedIds
<1>3. n + 1 \in Nat \ {NoId} /\ n + 2 \in Nat \ {NoId} /\ n + 1 # n + 2
  BY DEF NoId
<1>4. CASE b = <<>>
  <2>1. b \in Seq(Block) /\ UseIds(b) = {} /\ ResultIds(b) = {} /\ Once(b, "use")
    BY <1>4 DEF UseIds, ResultIds, OfKind, ToSet, Once
  <2> QED BY <1>1, <2>1 DEF Saying
<1>5. CASE b = <<Text>>
  BY <1>5, TextIsSaid
<1>6. ASSUME NEW t \in ToolKinds, b = <<Text, Use(NextId(1), t)>> PROVE Saying(convo, b)
  <2> DEFINE u == Use(n + 1, t)
  <2>1. Text \in Block /\ Text.kind = "text"
    BY DEF Text, Block
  <2>2. u \in Block /\ u.kind = "use" /\ u.id = n + 1
    BY <1>3, UseIsBlock DEF ToolNames
  <2>3. b = <<Text, u>>
    BY <1>2, <1>6
  <2> HIDE DEF u, Text
  <2>4. b \in Seq(Block) /\ Len(b) = 2 /\ b[1] = Text /\ b[2] = u
    BY <2>1, <2>2, <2>3
  <2>5. \A i \in 1..2 : i = 1 \/ i = 2
    OBVIOUS
  <2> HIDE <2>3
  <2>6. UseIds(b) = {n + 1}
    BY <2>1, <2>2, <2>4, <2>5, IdsAt
  <2>7. ResultIds(b) = {}
    BY <2>1, <2>2, <2>4, <2>5, IdsAt
  <2>8. Once(b, "use")
    BY <2>1, <2>2, <2>4, <2>5, OnceAt
  <2>9. 1..n \cup {n + 1} = 1..(n + 1) /\ n + 1 \in Nat /\ n + 1 \notin 1..n
    OBVIOUS
  <2> QED BY <1>1, <2>4, <2>6, <2>7, <2>8, <2>9 DEF Saying
<1>7. ASSUME NEW t \in ToolKinds, NEW r \in ToolKinds, b = <<Use(NextId(1), t), Use(NextId(2), r)>>
      PROVE  Saying(convo, b)
  <2> DEFINE u == Use(n + 1, t)
             v == Use(n + 2, r)
  <2>1. v \in Block /\ v.kind = "use" /\ v.id = n + 2
    BY <1>3, UseIsBlock DEF ToolNames
  <2>2. u \in Block /\ u.kind = "use" /\ u.id = n + 1
    BY <1>3, UseIsBlock DEF ToolNames
  <2>3. b = <<u, v>>
    BY <1>2, <1>7
  <2> HIDE DEF u, v
  <2>4. b \in Seq(Block) /\ Len(b) = 2 /\ b[1] = u /\ b[2] = v
    BY <2>1, <2>2, <2>3
  <2>5. \A i \in 1..2 : i = 1 \/ i = 2
    OBVIOUS
  <2> HIDE <2>3
  <2>6. UseIds(b) = {n + 1, n + 2}
    BY <2>1, <2>2, <2>4, <2>5, IdsAt
  <2>7. ResultIds(b) = {}
    BY <2>1, <2>2, <2>4, <2>5, IdsAt
  <2>8. Once(b, "use")
    BY <1>3, <2>1, <2>2, <2>4, <2>5, OnceAt
  <2>9. 1..n \cup {n + 1, n + 2} = 1..(n + 2) /\ n + 2 \in Nat /\ n + 1 \notin 1..n /\ n + 2 \notin 1..n
    OBVIOUS
  <2> QED BY <1>1, <2>4, <2>6, <2>7, <2>8, <2>9 DEF Saying
<1> QED BY <1>4, <1>5, <1>6, <1>7 DEF Contents
-----------------------------------------------------------------------------
(* What the steps of the loop do to the counters.                          *)

Numbers == TypeOK /\ Forcing /\ Counters

LEMMA ThresholdInRange == Threshold \in Nat /\ Threshold >= 1
BY BoundsAssumption DEF Threshold

LEMMA NumbersStart ==
  ASSUME Init
  PROVE  Numbers
<1> USE BoundsAssumption DEF Init
<1>1. TypeOK
  <2>1. /\ iter \in 1..(MaxIters + 1) /\ empties \in 0..(MaxEmptyTurns + 1)
        /\ runs \in 1..MaxRuns /\ unforced \in 0..MaxIters /\ pauseID \in Nat
    BY DEF NoId
  <2>2. /\ phase = "validate" /\ cause = "none" /\ err = "none" /\ seen \in BOOLEAN
        /\ reader = "reading" /\ front \in {"cli", "host"} /\ file = <<>>
    OBVIOUS
  <2> HIDE DEF Init
  <2> QED BY <2>1, <2>2 DEF TypeOK, Errs
<1>2. Forcing
  BY ThresholdInRange DEF Forcing
<1>3. Counters
  BY DEF Counters
<1> QED BY <1>1, <1>2, <1>3 DEF Numbers

(* A seed restarts the counters. *)
LEMMA NumbersRestart ==
  ASSUME Numbers, NEW c, StartWith(c), runs' \in 1..MaxRuns,
         front' = "host" => file' = <<>>
  PROVE  Numbers'
<1> USE BoundsAssumption
<1>1. TypeOK'
  <2>1. /\ iter' \in 1..(MaxIters + 1) /\ empties' \in 0..(MaxEmptyTurns + 1)
        /\ unforced' \in 0..MaxIters /\ pauseID' \in Nat
    BY DEF StartWith, NoId
  <2>2. /\ phase' = "validate" /\ cause' = "none" /\ err' = "none" /\ seen' \in BOOLEAN
        /\ reader' = "reading" /\ front' \in {"cli", "host"}
    BY DEF StartWith, Numbers, TypeOK
  <2> QED BY <2>1, <2>2 DEF TypeOK, Errs
<1>2. Forcing'
  <2>1. Threshold' = Threshold
    BY DEF Threshold
  <2> QED BY <2>1, ThresholdInRange DEF StartWith, Forcing
<1>3. Counters'
  BY DEF StartWith, Counters
<1> QED BY <1>1, <1>2, <1>3 DEF Numbers

LEMMA NumbersKept ==
  ASSUME Numbers, Replying, Outcomes, [Next]_vars
  PROVE  Numbers'
<1> USE BoundsAssumption, ThresholdInRange DEF Numbers, Forcing, Counters
<1>0. Threshold' = Threshold
  BY DEF Threshold
<1> USE <1>0
<1>1. CASE Begin
  BY <1>1 DEF Begin, Ends, Goes, Keep, TypeOK, Errs
<1>2. CASE Top
  <2>1. CauseOr("canceled") \in Errs
    BY DEF CauseOr, Errs
  <2> QED BY <1>2, <2>1 DEF Top, Ends, Goes, Keep, TypeOK, Errs
<1>3. CASE EmitIterStart
  BY <1>3 DEF EmitIterStart, Rest, Goes, Keep, TypeOK
<1>4. CASE EmitLLMStart
  <2>1. /\ phase = "llmStart" /\ phase' = "call" /\ seen' = FALSE
        /\ UNCHANGED <<outcome, err, pauseID, front, file, runs, reader, cause, iter, empties>>
        /\ unforced' = IF Forced THEN unforced ELSE unforced + 1
    BY <1>4 DEF EmitLLMStart, Rest, Goes, Keep
  <2>2. /\ unforced \in Nat /\ iter \in Nat /\ unforced <= iter - 1 /\ iter <= MaxIters
        /\ Terminal /\ ForceLastN > 0 => unforced < Threshold
    BY <2>1 DEF TypeOK
  <2>3. unforced' \in 0..MaxIters /\ unforced' <= iter
    BY <2>1, <2>2
  <2>4. Terminal /\ ForceLastN > 0 => unforced' < Threshold
    BY <2>1, <2>2 DEF Forced
  <2>5. TypeOK'
    BY <2>1, <2>3 DEF TypeOK
  <2>6. Forcing'
    BY <2>1, <2>3, <2>4
  <2>7. Counters'
    BY <2>1
  <2> QED BY <2>5, <2>6, <2>7
<1>5. CASE Delta
  BY <1>5 DEF Delta, Rest, Goes, Keep, TypeOK
<1>6. CASE CallFails
  <2>1. CauseOr("canceled") \in Errs /\ CauseOr("call") \in Errs
    BY DEF CauseOr, Errs
  <2> QED BY <1>6, <2>1 DEF CallFails, Ends, Keep, TypeOK
<1>7. CASE CallReturns
  BY <1>7 DEF CallReturns, Rest, Goes, Keep, TypeOK
<1>8. CASE EmitLLMDone
  BY <1>8 DEF EmitLLMDone, Rest, Goes, Keep, TypeOK
<1>9. CASE ActEmpty
  BY <1>9 DEF ActEmpty, Ends, Goes, Keep, TypeOK, Errs
<1>10. CASE Act
  <2>0. reply.stop \in Stops
    BY <1>10 DEF Act, Replying, Replies
  <2>1. \/ phase' = "deferred" /\ err' \in Errs
        \/ phase' = "dispatch" /\ err' = err
    BY <1>10, <2>0 DEF Act, Ends, Goes, Errs, EmptyTurn, Stops
  <2>2. /\ phase = "act" /\ empties' = 0
        /\ UNCHANGED <<pauseID, front, file, runs, reader, iter, cause, seen, unforced>>
    BY <1>10 DEF Act, Keep
  <2> QED BY <2>1, <2>2 DEF TypeOK
<1>11. CASE Dispatch
  <2>1. /\ phase = "dispatch" /\ phase' = "top" /\ iter' = iter + 1
        /\ UNCHANGED <<outcome, err, pauseID, front, file, runs, reader, cause, empties, seen, unforced>>
    BY <1>11, Zenon DEF Dispatch, Rest, Goes, Keep
  <2> QED BY <2>1 DEF TypeOK
<1>12. CASE CloseEvents
  <2>1. outcome.kind = "paused" => outcome.id \in Nat
    BY <1>12 DEF CloseEvents, Outcomes, None, Answered, Submitted, Paused
  <2> QED BY <1>12, <2>1 DEF CloseEvents, TypeOK, NoId
<1>13. CASE Panic
  BY <1>13 DEF Panic, Ends, Keep, TypeOK, Errs
<1>14. ASSUME NEW c \in {"canceled", "limit"}, Cancel(c) PROVE Numbers'
  BY <1>14 DEF Cancel, TypeOK
<1>15. CASE Abandon
  BY <1>15 DEF Abandon, TypeOK
<1>16. CASE Close
  BY <1>16 DEF Close, TypeOK
<1>17. CASE SessionSend
  <2>1. StartWith(SessionSeed) /\ runs' \in 1..MaxRuns /\ (front' = "host" => file' = <<>>)
    BY <1>17 DEF SessionSend, NextRun, StartWith, TypeOK
  <2> QED BY <2>1, NumbersRestart
<1>18. CASE CliNext
  <2>1. PICK f \in SaveSession : Invoke(f)
    BY <1>18 DEF CliNext
  <2>2. PICK c \in CliInputs(f) : StartWith(c)
    BY <2>1 DEF Invoke
  <2>3. runs' \in 1..MaxRuns /\ (front' = "host" => file' = <<>>)
    BY <1>18, <2>1, <2>2 DEF CliNext, NextRun, Invoke, StartWith, TypeOK
  <2> QED BY <2>2, <2>3, NumbersRestart
<1>19. CASE CliKilled
  <2>1. PICK c \in CliInputs(file) : StartWith(c)
    BY <1>19 DEF CliKilled, Invoke
  <2>2. runs' \in 1..MaxRuns /\ (front' = "host" => file' = <<>>)
    BY <1>19, <2>1 DEF CliKilled, Invoke, StartWith, TypeOK
  <2> QED BY <2>1, <2>2, NumbersRestart
<1>20. CASE UNCHANGED vars
  BY <1>20 DEF vars, TypeOK
<1> QED
  BY <1>1, <1>2, <1>3, <1>4, <1>5, <1>6, <1>7, <1>8, <1>9, <1>10, <1>11, <1>12, <1>13, <1>14,
     <1>15, <1>16, <1>17, <1>18, <1>19, <1>20 DEF Next, Loop
-----------------------------------------------------------------------------
(* What they do to the transcript. *)

Transcript == Sound(convo) /\ Replying /\ Outcomes /\ Filed

Looping == {"top", "iterStart", "llmStart", "call", "llmDone", "act"}
Ended   == {"deferred", "closed"}

LEMMA SameReplies ==
  ASSUME UNCHANGED convo
  PROVE  Replies' = Replies
<1>1. UsedIds' = UsedIds
  BY DEF UsedIds
<1>2. NextId(1)' = NextId(1) /\ NextId(2)' = NextId(2)
  BY <1>1 DEF NextId
<1>3. Contents' = Contents
  BY <1>2 DEF Contents
<1> QED BY <1>3 DEF Replies

(* The steps that leave the transcript alone. *)
LEMMA TranscriptPasses ==
  ASSUME Transcript, UNCHANGED <<convo, outcome, file, pauseID>>,
         phase' \in {"llmDone", "act"} => reply' \in Replies,
         phase' = "dispatch" => phase = "dispatch" /\ reply' = reply,
         phase' \in Looping => phase \in Looping \/ Settled(convo),
         phase' = "closed" => phase = "closed",
         phase \in Ended => phase' \in Ended
  PROVE  Transcript'
<1> USE DEF Transcript, Looping, Ended
<1>1. Sound(convo)' /\ Filed'
  BY DEF Filed
<1>2. Outcomes'
  <2>1. CASE phase' \notin Ended
    BY <2>1 DEF Outcomes
  <2>2. CASE phase' \in Ended
    BY <2>2 DEF Outcomes, PausedOn
  <2> QED BY <2>1, <2>2
<1>3. Replying'
  <2>1. phase' \in {"llmDone", "act"} => (reply \in Replies)'
    BY SameReplies
  <2>2. phase' = "dispatch" => InDispatch'
    BY DEF Replying, InDispatch
  <2>3. phase' \in Looping => Settled(convo')
    BY DEF Replying
  <2>4. phase' = "closed" => pauseID' = IF outcome'.kind = "paused" THEN outcome'.id ELSE NoId
    BY DEF Replying
  <2> QED BY <2>1, <2>2, <2>3, <2>4 DEF Replying
<1> QED BY <1>1, <1>2, <1>3

LEMMA EmptyIsPrefix ==
  ASSUME NEW c \in Seq(Turn)
  PROVE  IsPrefix(Blocks(<<>>), Blocks(c))
<1>1. Blocks(c) \in Seq(Block) /\ <<>> \in Seq(Block) /\ Len(<<>>) = 0
  BY BlocksTyped
<1>2. Len(Blocks(c)) \in Nat
  BY <1>1
<1>3. IsPrefix(<<>>, Blocks(c))
  <2>1. Len(<<>>) <= Len(Blocks(c)) /\ \A i \in 1..Len(<<>>) : <<>>[i] = Blocks(c)[i]
    BY <1>1, <1>2
  <2> QED BY <1>1, <2>1, PrefixAt, Zenon
<1> QED BY <1>3, BlocksNothing

LEMMA AskIsSound == Sound(Ask) /\ Settled(Ask)
<1> DEFINE m == User(<<Text>>)
<1>1. m \in Turn /\ m.role = "user" /\ m.content = <<Text>>
  BY TextOnly DEF User, Turn
<1>2. Ask = Append(<<>>, m) /\ Ask \in Seq(Turn) /\ Ask # <<>> /\ Last(Ask) = m
  <2>1. Ask = <<m>>
    BY DEF Ask
  <2> HIDE DEF m
  <2> QED BY <1>1, <2>1 DEF Last
<1> HIDE DEF m
<1>3. Turns(Ask)
  <2>1. Fits(<<>>, m) /\ Turns(<<>>)
    BY <1>1, TextOnly DEF Fits, Asked, Turns
  <2>2. <<>> \in Seq(Turn)
    OBVIOUS
  <2>3. Turns(Append(<<>>, m))
    BY <1>1, <2>1, <2>2, TurnsAppend, Zenon
  <2> QED BY <1>2, <2>3
<1>4. Blocks(Ask) = <<Text>>
  <2>0. <<>> \in Seq(Turn)
    OBVIOUS
  <2>1. Blocks(Append(<<>>, m)) = Blocks(<<>>) \o m.content
    BY <1>1, <2>0, BlocksOneMore, Zenon
  <2>2. <<>> \o <<Text>> = <<Text>>
    BY TextOnly, ConcatEmptySeq, Zenon
  <2> QED BY <1>1, <1>2, <2>1, <2>2, BlocksNothing
<1>5. {} = 1..0 /\ 0 \in Nat
  OBVIOUS
<1>6. Tidy(Ask)
  <2>0. <<>> \in Seq(Turn) /\ Tidy(<<>>)
    BY DEF Tidy
  <2>1. ResultsFirst(m.content)
    BY <1>1, TextOnly, NoResultsFirst
  <2>2. Tidy(Append(<<>>, m))
    BY <1>1, <2>0, <2>1, TidyAppend, Zenon
  <2> QED BY <1>2, <2>2
<1> QED BY <1>1, <1>2, <1>3, <1>4, <1>5, <1>6, TextOnly DEF Sound, Settled, Turns

LEMMA TranscriptRestarts ==
  ASSUME NEW c, Sound(c), StartWith(c), file' \in Seq(Turn), file' # <<>> => Sound(file'),
         IsPrefix(Blocks(file'), Blocks(c))
  PROVE  Transcript'
<1>1. convo' = c /\ phase' = "validate" /\ outcome' = None
  BY DEF StartWith
<1> QED BY <1>1 DEF Transcript, Replying, Outcomes, Filed

LEMMA TranscriptStarts ==
  ASSUME Init
  PROVE  Transcript
<1>1. convo = Ask /\ phase = "validate" /\ outcome = None /\ file = <<>>
  BY DEF Init
<1>2. Filed
  <2>1. Ask \in Seq(Turn) /\ <<>> \in Seq(Turn)
    BY AskIsSound, SoundTyped
  <2> QED BY <1>1, <2>1, EmptyIsPrefix DEF Filed
<1> QED BY <1>1, <1>2, AskIsSound DEF Transcript, Replying, Outcomes

(* A run of the command line starts from what the file holds.              *)
LEMMA InvokedFrom ==
  ASSUME NEW f, f = <<>> \/ Sound(f), NEW c \in CliInputs(f)
  PROVE  /\ Sound(c) /\ f \in Seq(Turn) /\ IsPrefix(Blocks(f), Blocks(c))
<1>1. CASE f = <<>>
  <2>1. c = Ask /\ <<>> \in Seq(Turn) /\ Ask \in Seq(Turn)
    BY <1>1, AskIsSound, SoundTyped DEF CliInputs
  <2> QED BY <1>1, <2>1, AskIsSound, EmptyIsPrefix
<1>2. CASE Sound(f)
  <2>1. f \in Seq(Turn) /\ f # <<>> /\ Blocks(f) \in Seq(Block)
    BY <1>2, SoundTyped
  <2>2. c = Resume(f) \/ c = f
    BY <2>1 DEF CliInputs
  <2>3. IsPrefix(Blocks(f), Blocks(f))
    BY <2>1, PrefixSelf
  <2> QED BY <1>2, <2>1, <2>2, <2>3, ResumeCarriesOn
<1> QED BY <1>1, <1>2

(* What a session seeds its next turn with carries on too.                 *)
LEMMA SeedCarriesOn ==
  ASSUME Transcript, phase = "closed"
  PROVE  Sound(SessionSeed) /\ Settled(SessionSeed) /\ IsPrefix(Blocks(convo), Blocks(SessionSeed))
<1>1. CASE pauseID # NoId
  <2>1. PausedOn(pauseID)
    BY <1>1 DEF Transcript, Replying, Outcomes, None, Answered, Submitted, Paused
  <2>2. pauseID \in UseIds(Last(convo).content)
    BY <2>1 DEF PausedOn
  <2> QED BY <1>1, <2>2, AnswerCarriesOn DEF SessionSeed, Transcript
<1>2. CASE pauseID = NoId
  BY <1>2, ThenCarriesOn DEF SessionSeed, Transcript
<1> QED BY <1>1, <1>2

LEMMA FiledStays ==
  ASSUME Transcript, Sound(convo'), IsPrefix(Blocks(convo), Blocks(convo')), file' = file
  PROVE  Filed'
<1>1. /\ Blocks(file) \in Seq(Block) /\ Blocks(convo) \in Seq(Block) /\ Blocks(convo') \in Seq(Block)
      /\ IsPrefix(Blocks(file), Blocks(convo))
  BY BlocksTyped, SoundTyped DEF Transcript, Filed
<1>2. IsPrefix(Blocks(file), Blocks(convo'))
  BY <1>1, PrefixFurther
<1> QED BY <1>2 DEF Transcript, Filed
LEMMA TranscriptAfterAct ==
  ASSUME Transcript, Act
  PROVE  Transcript' /\ IsPrefix(Blocks(convo), Blocks(convo'))
<1> DEFINE said == reply.content
           p == Push(convo, Assistant(said))
<1>1. /\ phase = "act" /\ ~EmptyTurn(reply) /\ convo' = p
      /\ UNCHANGED <<pauseID, front, file, runs, reader>>
      /\ reply' = IF phase' = "dispatch" THEN reply ELSE NoReply
  BY DEF Act, Keep
<1>2. reply \in Replies /\ Sound(convo) /\ Settled(convo) /\ outcome = None
  BY <1>1 DEF Transcript, Replying, Outcomes
<1>3. said \in Contents /\ reply.stop \in Stops
  <2>1. <<>> \in Contents
    BY DEF Contents
  <2> QED BY <1>2, <2>1 DEF Replies
<1>4. Saying(convo, said)
  BY <1>2, <1>3, ContentsAreSaid
<1>5. /\ Sound(p) /\ IsPrefix(Blocks(convo), Blocks(p))
      /\ said # <<>> => /\ Last(p).role = "assistant"
                        /\ UseIds(Last(p).content) = UseIds(said)
                        /\ \A t : FirstUse(Last(p).content, t) = FirstUse(said, t)
  BY <1>2, <1>4, SaidCarriesOn
<1>6. \/ phase' = "deferred" /\ outcome' \in {None, Answered, Submitted}
      \/ /\ phase' = "deferred" /\ outcome' = Paused(FindPause(said))
         /\ UseIds(said) # {} /\ FindPause(said) # NoId
      \/ phase' = "dispatch" /\ UNCHANGED outcome /\ UseIds(said) # {}
  <2>1. CASE reply.stop # "tool_use"
    <3>1. reply.stop \in {"end_turn", "max_tokens", "refusal", "other"}
      BY <1>3, <2>1 DEF Stops
    <3>2. CASE reply.stop = "end_turn"
      BY <3>2 DEF Act, Ends
    <3>3. CASE reply.stop = "max_tokens"
      BY <3>3 DEF Act, Ends
    <3>4. CASE reply.stop = "refusal"
      BY <3>4 DEF Act, Ends
    <3>5. CASE reply.stop = "other"
      BY <3>5 DEF Act, Ends
    <3> QED BY <3>1, <3>2, <3>3, <3>4, <3>5
  <2>2. CASE reply.stop = "tool_use"
    <3>1. CASE UseIds(said) = {}
      <4>1. FindTerminal(said) = NoId /\ FindPause(said) = NoId
        BY <1>4, <3>1, FirstUseFound DEF Saying, FindTerminal, FindPause
      <4> QED BY <2>2, <3>1, <4>1 DEF Act, Ends
    <3>2. CASE UseIds(said) # {} /\ FindTerminal(said) # NoId
      BY <2>2, <3>2 DEF Act, Ends
    <3>3. CASE UseIds(said) # {} /\ FindTerminal(said) = NoId /\ FindPause(said) # NoId
      BY <2>2, <3>3 DEF Act, Ends
    <3>4. CASE UseIds(said) # {} /\ FindTerminal(said) = NoId /\ FindPause(said) = NoId
      BY <2>2, <3>4 DEF Act, Goes
    <3> QED BY <3>1, <3>2, <3>3, <3>4
  <2> QED BY <2>1, <2>2
<1>7. UseIds(said) # {} => said # <<>>
  BY DEF UseIds, OfKind, ToSet
<1> HIDE DEF p
<1>8. Filed'
  BY <1>1, <1>5, FiledStays
<1>9. Outcomes'
  <2>1. CASE phase' = "dispatch"
    BY <1>2, <1>6, <2>1 DEF Outcomes
  <2>2. CASE phase' = "deferred" /\ outcome' \in {None, Answered, Submitted}
    BY <2>2 DEF Outcomes
  <2>3. CASE phase' = "deferred" /\ outcome' = Paused(FindPause(said)) /\ UseIds(said) # {} /\ FindPause(said) # NoId
    <3>0. PICK id : id = FindPause(said)
      OBVIOUS
    <3>1. id \in Nat \ {NoId} /\ id \in UseIds(said)
      BY <1>4, <2>3, <3>0, FirstUseFound DEF FindPause, Saying
    <3>2. Last(convo').role = "assistant" /\ FindPause(Last(convo').content) = id /\ id \in UseIds(Last(convo').content)
      BY <1>1, <1>5, <1>7, <2>3, <3>0, <3>1 DEF FindPause
    <3>3. PausedOn(id)'
      BY <3>2 DEF PausedOn
    <3> QED BY <2>3, <3>0, <3>1, <3>3 DEF Outcomes
  <2> QED BY <1>6, <2>1, <2>2, <2>3
<1>10. Replying'
  <2>1. phase' = "dispatch" => InDispatch'
    <3> SUFFICES ASSUME phase' = "dispatch" PROVE InDispatch'
      OBVIOUS
    <3>1. reply' = reply /\ UseIds(said) # {}
      BY <1>1, <1>6
    <3> QED BY <1>1, <1>4, <1>5, <1>7, <3>1 DEF InDispatch, Saying
  <2> QED BY <1>6, <2>1 DEF Replying
<1>11. IsPrefix(Blocks(convo), Blocks(convo'))
  BY <1>1, <1>5
<1> QED BY <1>1, <1>5, <1>8, <1>9, <1>10, <1>11 DEF Transcript

LEMMA TranscriptAfterDispatch ==
  ASSUME Transcript, Dispatch
  PROVE  Transcript' /\ IsPrefix(Blocks(convo), Blocks(convo'))
<1> DEFINE ids == Ids(Uses(reply.content))
           f == [i \in 1..Len(ids) |-> "ran"]
           a == [i \in 1..Len(ids) |-> Res(ids[i], f[i])]
<1>1. /\ phase = "dispatch" /\ phase' = "top"
      /\ UNCHANGED <<outcome, err, pauseID, front, file, runs, reader>>
  BY Zenon DEF Dispatch, Rest, Goes, Keep
<1>2. Sound(convo) /\ InDispatch /\ outcome = None
  BY <1>1 DEF Transcript, Replying, Outcomes
<1>3. ids \in Seq(Nat) /\ Distinct(ids) /\ ToSet(ids) = UseIds(Last(convo).content)
  BY <1>2, UsesInOrder DEF InDispatch
<1>4. f \in [1..Len(ids) -> Hows]
  BY DEF Hows
<1>5. convo' = Push(convo, User(a))
  <2>1. a = [i \in DOMAIN ids |-> Res(ids[i], "ran")]
    BY <1>3
  <2>2. convo' = Push(convo, User([i \in DOMAIN ids |-> Res(ids[i], "ran")]))
    BY Zenon DEF Dispatch, Answers
  <2> QED BY <2>1, <2>2
<1> HIDE DEF ids, f
<1>6. /\ a \in Seq(Block) /\ Len(a) = Len(ids)
      /\ UseIds(a) = {} /\ ResultIds(a) = ToSet(ids) /\ Once(a, "result") /\ ResultsFirst(a)
  <2> HIDE DEF a
  <2>1. a = AnswerList(ids, f)
    BY DEF a, AnswerList
  <2> QED BY <1>3, <1>4, <2>1, AnswersTo
<1> HIDE DEF a
<1>7. /\ Sound(convo') /\ Settled(convo') /\ IsPrefix(Blocks(convo), Blocks(convo'))
  <2>1. CASE a = <<>>
    <3>1. User(a).content = <<>>
      BY <2>1 DEF User
    <3>2. convo' = convo
      BY <1>5, <3>1, PushNothing
    <3>3. UseIds(Last(convo).content) = {}
      <4>1. Len(ids) = 0
        BY <1>6, <2>1
      <4>2. \A x : x \in ToSet(ids) <=> \E i \in 1..Len(ids) : ids[i] = x
        BY <1>3, InSet
      <4> QED BY <1>3, <4>1, <4>2
    <3>4. IsPrefix(Blocks(convo), Blocks(convo))
      BY <1>2, SoundTyped, PrefixSelf
    <3> QED BY <1>2, <3>2, <3>3, <3>4 DEF Settled
  <2>2. CASE a # <<>>
    <3>1. Answering(convo, a)
      BY <1>3, <1>6, <2>2 DEF Answering
    <3> QED BY <1>2, <1>5, <3>1, AnsweredCarriesOn
  <2> QED BY <2>1, <2>2
<1>8. Filed'
  BY <1>1, <1>7, FiledStays
<1>9. Replying' /\ Outcomes'
  BY <1>1, <1>2, <1>7 DEF Replying, Outcomes
<1> QED BY <1>7, <1>8, <1>9 DEF Transcript

LEMMA TranscriptAfterCallFails ==
  ASSUME Transcript, CallFails
  PROVE  Transcript' /\ IsPrefix(Blocks(convo), Blocks(convo'))
<1>1. /\ phase = "call" /\ phase' = "deferred" /\ outcome' = None
      /\ UNCHANGED <<pauseID, front, file, runs, reader>>
      /\ convo' = IF seen THEN Push(convo, Assistant(<<Text>>)) ELSE convo
  BY DEF CallFails, Ends, Keep
<1>2. Sound(convo) /\ Settled(convo)
  BY <1>1 DEF Transcript, Replying
<1>3. Sound(convo') /\ IsPrefix(Blocks(convo), Blocks(convo'))
  <2>1. IsPrefix(Blocks(convo), Blocks(convo))
    BY <1>2, SoundTyped, PrefixSelf
  <2> QED BY <1>1, <1>2, <2>1, TextIsSaid, SaidCarriesOn
<1>4. Filed'
  BY <1>1, <1>3, FiledStays
<1>5. Replying' /\ Outcomes'
  BY <1>1 DEF Replying, Outcomes
<1> QED BY <1>3, <1>4, <1>5 DEF Transcript

LEMMA TranscriptAfterCloseEvents ==
  ASSUME Transcript, CloseEvents
  PROVE  Transcript'
<1>1. /\ phase = "deferred" /\ phase' = "closed" /\ UNCHANGED <<convo, reply, outcome, file>>
      /\ pauseID' = IF outcome.kind = "paused" THEN outcome.id ELSE NoId
  BY DEF CloseEvents
<1>2. Sound(convo)' /\ Filed'
  BY <1>1 DEF Transcript, Filed
<1>3. Replying'
  BY <1>1 DEF Replying
<1>4. Outcomes'
  BY <1>1 DEF Transcript, Outcomes, PausedOn
<1> QED BY <1>2, <1>3, <1>4 DEF Transcript

(* The next run of the same transcript, or of the file's.                  *)
LEMMA TranscriptAfterInvoke ==
  ASSUME Transcript, NEW f \in SaveSession, Invoke(f)
  PROVE  /\ Transcript' /\ IsPrefix(Blocks(file), Blocks(file'))
         /\ f # file => IsPrefix(Blocks(convo), Blocks(convo'))
<1>1. PICK c \in CliInputs(f) : StartWith(c)
  BY DEF Invoke
<1>2. file' = f /\ (f = convo \/ f = file)
  BY DEF Invoke, SaveSession
<1>3. f = <<>> \/ Sound(f)
  BY <1>2 DEF Transcript, Filed
<1>4. Sound(c) /\ f \in Seq(Turn) /\ IsPrefix(Blocks(f), Blocks(c))
  BY <1>3, InvokedFrom
<1>5. Transcript'
  BY <1>1, <1>2, <1>3, <1>4, TranscriptRestarts
<1>6. IsPrefix(Blocks(file), Blocks(file'))
  <2>1. Blocks(file) \in Seq(Block) /\ IsPrefix(Blocks(file), Blocks(convo))
    BY BlocksTyped DEF Transcript, Filed
  <2>2. IsPrefix(Blocks(file), Blocks(file))
    BY <2>1, PrefixSelf
  <2> QED BY <1>2, <2>1, <2>2
<1>7. f # file => IsPrefix(Blocks(convo), Blocks(convo'))
  BY <1>1, <1>2, <1>4 DEF StartWith
<1> QED BY <1>5, <1>6, <1>7

LEMMA TranscriptAfterSend ==
  ASSUME Transcript, SessionSend
  PROVE  Transcript' /\ IsPrefix(Blocks(convo), Blocks(convo'))
<1>1. phase = "closed" /\ StartWith(SessionSeed) /\ file' = file
  BY DEF SessionSend, NextRun
<1>2. Sound(SessionSeed) /\ IsPrefix(Blocks(convo), Blocks(SessionSeed)) /\ convo' = SessionSeed
  BY <1>1, SeedCarriesOn DEF StartWith
<1>3. file \in Seq(Turn) /\ (file # <<>> => Sound(file))
  BY DEF Transcript, Filed
<1>4. Filed'
  BY <1>1, <1>2, FiledStays
<1>5. IsPrefix(Blocks(file'), Blocks(SessionSeed))
  BY <1>2, <1>4 DEF Filed
<1>6. Transcript'
  BY <1>1, <1>2, <1>3, <1>5, TranscriptRestarts
<1> QED BY <1>2, <1>6

LEMMA TranscriptKept ==
  ASSUME Numbers, Transcript, [Next]_vars
  PROVE  Transcript'
<1> USE DEF Looping, Ended
<1>1. CASE Begin
  <2>1. UNCHANGED <<convo, outcome, file, pauseID, reply>> /\ phase = "validate"
    BY <1>1 DEF Begin, Goes, Ends, Keep, Transcript, Outcomes
  <2>2. \/ phase' = "top" /\ Settled(convo)
        \/ phase' = "deferred"
    BY <1>1, ValidWhenSettled DEF Begin, Goes, Ends, Transcript
  <2> QED BY <2>1, <2>2, TranscriptPasses
<1>2. CASE Top
  <2>1. UNCHANGED <<convo, outcome, file, pauseID, reply>> /\ phase = "top" /\ phase' \in {"deferred", "iterStart"}
    BY <1>2 DEF Top, Goes, Ends, Keep, Transcript, Outcomes
  <2> QED BY <2>1, TranscriptPasses
<1>3. CASE EmitIterStart
  <2>1. UNCHANGED <<convo, outcome, file, pauseID, reply>> /\ phase = "iterStart" /\ phase' = "llmStart"
    BY <1>3 DEF EmitIterStart, Rest, Goes, Keep
  <2> QED BY <2>1, TranscriptPasses
<1>4. CASE EmitLLMStart
  <2>1. UNCHANGED <<convo, outcome, file, pauseID, reply>> /\ phase = "llmStart" /\ phase' = "call"
    BY <1>4 DEF EmitLLMStart, Rest, Goes, Keep
  <2> QED BY <2>1, TranscriptPasses
<1>5. CASE Delta
  <2>1. UNCHANGED <<convo, outcome, file, pauseID, reply>> /\ phase = "call" /\ phase' = "call"
    BY <1>5 DEF Delta, Rest, Goes, Keep
  <2> QED BY <2>1, TranscriptPasses
<1>6. CASE CallFails
  BY <1>6, TranscriptAfterCallFails
<1>7. CASE CallReturns
  <2>1. UNCHANGED <<convo, outcome, file, pauseID>> /\ phase = "call" /\ phase' = "llmDone" /\ reply' \in Replies
    BY <1>7 DEF CallReturns, Rest, Goes, Keep
  <2> QED BY <2>1, TranscriptPasses
<1>8. CASE EmitLLMDone
  <2>1. UNCHANGED <<convo, outcome, file, pauseID, reply>> /\ phase = "llmDone" /\ phase' = "act"
    BY <1>8 DEF EmitLLMDone, Rest, Goes, Keep
  <2>2. reply' \in Replies
    BY <2>1 DEF Transcript, Replying
  <2> QED BY <2>1, <2>2, TranscriptPasses
<1>9. CASE ActEmpty
  <2>1. UNCHANGED <<convo, outcome, file, pauseID>> /\ phase = "act" /\ phase' \in {"deferred", "top"}
    BY <1>9 DEF ActEmpty, Goes, Ends, Keep, Transcript, Outcomes
  <2> QED BY <2>1, TranscriptPasses
<1>10. CASE Act
  BY <1>10, TranscriptAfterAct
<1>11. CASE Dispatch
  BY <1>11, TranscriptAfterDispatch
<1>12. CASE CloseEvents
  BY <1>12, TranscriptAfterCloseEvents
<1>13. CASE Panic
  <2>1. UNCHANGED <<convo, outcome, file, pauseID>> /\ phase \notin Ended /\ phase' = "deferred"
    BY <1>13 DEF Panic, Ends, Keep, Transcript, Outcomes
  <2> QED BY <2>1, TranscriptPasses
<1>14. CASE UNCHANGED <<convo, phase, reply, outcome, pauseID, file>>
  <2>1. phase \in {"llmDone", "act"} => reply \in Replies
    BY DEF Transcript, Replying
  <2> QED BY <1>14, <2>1, TranscriptPasses
<1>15. CASE \/ \E c \in {"canceled", "limit"} : Cancel(c)
            \/ Abandon \/ Close \/ UNCHANGED vars
  BY <1>14, <1>15 DEF Cancel, Abandon, Close, vars
<1>16. CASE SessionSend
  BY <1>16, TranscriptAfterSend
<1>17. CASE CliNext \/ CliKilled
  <2>1. PICK f \in SaveSession : Invoke(f)
    BY <1>17 DEF CliNext, CliKilled, SaveSession
  <2> QED BY <2>1, TranscriptAfterInvoke
<1> QED
  BY <1>1, <1>2, <1>3, <1>4, <1>5, <1>6, <1>7, <1>8, <1>9, <1>10, <1>11, <1>12, <1>13, <1>15,
     <1>16, <1>17 DEF Next, Loop

(* So the invariant holds throughout. *)
LEMMA AlwaysIInv == Spec => []IInv
<1>1. Init => IInv
  BY NumbersStart, TranscriptStarts DEF IInv, Numbers, Transcript
<1>2. IInv /\ [Next]_vars => IInv'
  <2> SUFFICES ASSUME IInv, [Next]_vars PROVE IInv'
    OBVIOUS
  <2>1. Numbers /\ Transcript
    BY DEF IInv, Numbers, Transcript
  <2>2. Numbers' /\ Transcript'
    BY <2>1, NumbersKept, TranscriptKept DEF Transcript
  <2> QED BY <2>2 DEF IInv, Numbers, Transcript
<1> QED BY <1>1, <1>2, PTL DEF Spec

-----------------------------------------------------------------------------
(* Fold, one block at a time, in the way of Scan. *)

Unfolded == [leading |-> 0, tools |-> <<>>]

Folds(s, n, f) == f = [i \in 0..n |-> IF i = 0 THEN Unfolded ELSE Folded(f[i - 1], s[i])]

LEMMA FoldsAt ==
  ASSUME NEW s, NEW n \in Nat, NEW f, Folds(s, n, f)
  PROVE  f[0] = Unfolded /\ \A i \in 1..n : f[i] = Folded(f[i - 1], s[i])
<1>1. f[0] = Unfolded
  BY DEF Folds
<1>2. \A i \in 1..n : f[i] = Folded(f[i - 1], s[i])
  BY DEF Folds
<1> QED BY <1>1, <1>2

LEMMA FoldsExists ==
  ASSUME NEW s
  PROVE  \A n \in Nat : \E f : Folds(s, n, f)
<1> DEFINE N == {n \in Nat : \E f : Folds(s, n, f)}
<1>1. 0 \in N
  <2>1. Folds(s, 0, [i \in 0..0 |-> Unfolded])
    BY DEF Folds
  <2> QED BY <2>1
<1>2. ASSUME NEW n \in Nat, n \in N PROVE n + 1 \in N
  <2>1. PICK f : Folds(s, n, f)
    BY <1>2
  <2> DEFINE g == [i \in 0..(n + 1) |-> IF i = 0 THEN Unfolded ELSE Folded(f[i - 1], s[i])]
  <2>0. g = [i \in 0..(n + 1) |-> IF i = 0 THEN Unfolded ELSE Folded(f[i - 1], s[i])]
    OBVIOUS
  <2> HIDE DEF g
  <2>2. \A i \in 0..n : f[i] = g[i]
    <3>1. f[0] = Unfolded /\ \A i \in 1..n : f[i] = Folded(f[i - 1], s[i])
      BY <2>1, FoldsAt
    <3>2. g[0] = Unfolded
      BY <2>0
    <3>3. \A i \in 1..n : g[i] = Folded(f[i - 1], s[i])
      BY <2>0
    <3>4. \A i \in 0..n : i = 0 \/ i \in 1..n
      OBVIOUS
    <3> QED BY <3>1, <3>2, <3>3, <3>4
  <2>3. g = [i \in 0..(n + 1) |-> IF i = 0 THEN Unfolded ELSE Folded(g[i - 1], s[i])]
    <3>1. \A i \in 0..(n + 1) : i # 0 => g[i - 1] = f[i - 1]
      BY <2>2
    <3> QED BY <2>0, <3>1
  <2>4. Folds(s, n + 1, g)
    BY <2>3 DEF Folds
  <2> QED BY <2>4
<1> HIDE DEF N
<1>3. \A n \in Nat : n \in N
  BY <1>1, <1>2, Inductively
<1> QED BY <1>3 DEF N

LEMMA FoldsAgree ==
  ASSUME NEW s, NEW t, NEW n \in Nat, NEW m \in Nat, n <= m,
         \A i \in 1..n : s[i] = t[i],
         NEW f, Folds(s, n, f), NEW g, Folds(t, m, g)
  PROVE  f[n] = g[n]
<1> DEFINE N == {k \in Nat : k <= n => f[k] = g[k]}
<1>0. /\ f[0] = Unfolded /\ \A i \in 1..n : f[i] = Folded(f[i - 1], s[i])
      /\ g[0] = Unfolded /\ \A i \in 1..m : g[i] = Folded(g[i - 1], t[i])
  BY FoldsAt
<1>1. 0 \in N
  BY <1>0
<1>2. ASSUME NEW k \in Nat, k \in N PROVE k + 1 \in N
  <2> SUFFICES ASSUME k + 1 <= n PROVE f[k + 1] = g[k + 1]
    OBVIOUS
  <2>1. f[k] = g[k] /\ k + 1 \in 1..n /\ k + 1 \in 1..m /\ (k + 1) - 1 = k
    BY <1>2
  <2>2. f[k + 1] = Folded(f[(k + 1) - 1], s[k + 1]) /\ g[k + 1] = Folded(g[(k + 1) - 1], t[k + 1])
    BY <1>0, <2>1
  <2> QED BY <2>1, <2>2
<1> HIDE DEF N
<1>3. n \in N
  BY <1>1, <1>2, Inductively
<1> QED BY <1>3 DEF N

LEMMA FoldIsFolded ==
  ASSUME NEW s, Len(s) \in Nat
  PROVE  \E f : Folds(s, Len(s), f) /\ Fold(s) = f[Len(s)]
<1> DEFINE f == CHOOSE f : Folds(s, Len(s), f)
<1>1. Folds(s, Len(s), f)
  BY FoldsExists
<1>2. Fold(s) = f[Len(s)]
  BY DEF Fold, Folds, Unfolded
<1> QED BY <1>1, <1>2

LEMMA FoldNothing == Fold(<<>>) = Unfolded
<1>1. Len(<<>>) = 0
  OBVIOUS
<1>2. PICK f : Folds(<<>>, 0, f) /\ Fold(<<>>) = f[0]
  BY <1>1, FoldIsFolded
<1> QED BY <1>2, FoldsAt

LEMMA FoldOneMore ==
  ASSUME NEW S, NEW s \in Seq(S), NEW x \in S
  PROVE  Fold(Append(s, x)) = Folded(Fold(s), x)
<1> DEFINE t == Append(s, x)
           n == Len(s)
<1>1. /\ n \in Nat /\ Len(t) = n + 1 /\ t[n + 1] = x /\ \A i \in 1..n : s[i] = t[i]
      /\ n <= n + 1 /\ n + 1 \in 1..(n + 1) /\ (n + 1) - 1 = n /\ n + 1 \in Nat
  OBVIOUS
<1> HIDE DEF t, n
<1>2. PICK f : Folds(s, n, f) /\ Fold(s) = f[n]
  BY <1>1, FoldIsFolded DEF n
<1>3. PICK g : Folds(t, n + 1, g) /\ Fold(t) = g[n + 1]
  BY <1>1, FoldIsFolded
<1>4. f[n] = g[n]
  BY <1>1, <1>2, <1>3, FoldsAgree
<1>5. g[n + 1] = Folded(g[(n + 1) - 1], t[n + 1])
  BY <1>1, <1>3, FoldsAt
<1> QED BY <1>1, <1>2, <1>3, <1>4, <1>5 DEF t

-----------------------------------------------------------------------------
(* A user's turn as messages. *)

Message == [role : {"user", "assistant", "tool"}, text : Nat, calls : Seq(Nat), answers : Nat]

OnlyResults(b) == \A i \in 1..Len(b) : b[i].kind = "result"

AnswersIn(w) == {w[k].answers : k \in 1..Len(w)}

Tool == {m \in Message : m.role = "tool" /\ m.calls = <<>>}

WellFolded(b, l, t) ==
  /\ Fold(b) = [leading |-> l, tools |-> t]
  /\ AnswersIn(t) = ResultIds(b)
  /\ Once(b, "result") => Len(t) = Cardinality(ResultIds(b)) /\ IsFiniteSet(ResultIds(b))
  /\ OnlyResults(b) => l = 0
  /\ ResultsFirst(b) => l = 0 \/ t = <<>>

LEMMA ToolIsTool ==
  ASSUME NEW id \in Nat, NEW n \in Nat
  PROVE  ToolMessage(id, n) \in Tool /\ ToolMessage(id, n).answers = id
<1>1. <<>> \in Seq(Nat)
  OBVIOUS
<1> QED BY <1>1 DEF ToolMessage, Tool, Message

LEMMA LongerTool ==
  ASSUME NEW m \in Tool
  PROVE  [m EXCEPT !.text = @ + 1] \in Tool /\ [m EXCEPT !.text = @ + 1].answers = m.answers
<1>1. PICK r \in {"user", "assistant", "tool"}, n \in Nat, s \in Seq(Nat), a \in Nat :
        m = [role |-> r, text |-> n, calls |-> s, answers |-> a]
  BY DEF Tool, Message
<1>2. r = "tool" /\ s = <<>>
  BY <1>1 DEF Tool
<1>3. [m EXCEPT !.text = @ + 1] = [role |-> r, text |-> n + 1, calls |-> s, answers |-> a]
  BY <1>1
<1>4. n + 1 \in Nat /\ m.answers = a
  BY <1>1
<1> QED BY <1>2, <1>3, <1>4 DEF Tool, Message

LEMMA OneMoreResult ==
  ASSUME NEW s \in Seq(Block), NEW x \in Block
  PROVE  /\ Once(Append(s, x), "result") =>
              Once(s, "result") /\ (x.kind = "result" => x.id \notin ResultIds(s))
         /\ OnlyResults(Append(s, x)) => OnlyResults(s) /\ x.kind = "result"
         /\ ResultsFirst(Append(s, x)) => ResultsFirst(s) /\ (x.kind = "result" => OnlyResults(s))
<1> DEFINE u == Append(s, x)
           n == Len(s)
<1>1. /\ n \in Nat /\ Len(u) = n + 1 /\ u[n + 1] = x
      /\ \A i \in 1..n : i \in 1..(n + 1) /\ u[i] = s[i] /\ i < n + 1
      /\ n + 1 \in 1..(n + 1)
  OBVIOUS
<1>2. ASSUME Once(Append(s, x), "result")
      PROVE  Once(s, "result") /\ (x.kind = "result" => x.id \notin ResultIds(s))
  <2>1. Append(s, x) = s \o <<x>> /\ <<x>> \in Seq(Block)
    BY AppendIsConcat
  <2> DEFINE v == <<x>>
  <2>4. v \in Seq(Block) /\ Once(s \o v, "result")
    BY <1>2, <2>1
  <2> HIDE DEF v
  <2>2. Once(s, "result") /\ IdsOf(s, "result") \cap IdsOf(v, "result") = {}
    BY <2>4, OnceConcat
  <2>3. x.kind = "result" => x.id \in IdsOf(v, "result")
    BY DEF IdsOf, v
  <2> QED BY <2>2, <2>3, IdsOfKinds
<1> HIDE DEF u, n
<1>3. OnlyResults(u) => OnlyResults(s) /\ x.kind = "result"
  BY <1>1 DEF OnlyResults, n
<1>4. ResultsFirst(u) => ResultsFirst(s) /\ (x.kind = "result" => OnlyResults(s))
  BY <1>1 DEF ResultsFirst, OnlyResults, n
<1> QED BY <1>2, <1>3, <1>4 DEF u

LEMMA WellFoldedMore ==
  ASSUME NEW s \in Seq(Block), NEW x \in Block, NEW l \in Nat, NEW t \in Seq(Tool), WellFolded(s, l, t)
  PROVE  \E m \in Nat, v \in Seq(Tool) : WellFolded(Append(s, x), m, v)
<1> DEFINE u == Append(s, x)
<1>1. Fold(u) = Folded([leading |-> l, tools |-> t], x)
  BY FoldOneMore DEF WellFolded
<1>2. x.kind \in {"text", "use", "result"} /\ (x.kind = "result" => x.id \in Nat)
  BY BlockFields
<1>3. ResultIds(u) = ResultIds(s) \cup (IF x.kind = "result" THEN {x.id} ELSE {})
  BY IdsAppend
<1>4. /\ Once(u, "result") => Once(s, "result") /\ (x.kind = "result" => x.id \notin ResultIds(s))
      /\ OnlyResults(u) => OnlyResults(s) /\ x.kind = "result"
      /\ ResultsFirst(u) => ResultsFirst(s) /\ (x.kind = "result" => OnlyResults(s))
  BY OneMoreResult
<1> HIDE DEF u
<1>5. CASE x.kind = "text" /\ t = <<>>
  <2>1. Fold(u) = [leading |-> l + 1, tools |-> t]
    BY <1>1, <1>5 DEF Folded
  <2>2. l + 1 \in Nat
    OBVIOUS
  <2>3. WellFolded(u, l + 1, t)
    BY <1>3, <1>4, <1>5, <2>1 DEF WellFolded
  <2> QED BY <2>2, <2>3 DEF u
<1>6. CASE x.kind = "text" /\ t # <<>>
  <2> DEFINE n == Len(t)
             y == [t[n] EXCEPT !.text = @ + 1]
             v == [t EXCEPT ![n] = y]
  <2>1. n \in 1..n /\ t[n] \in Tool
    BY <1>6
  <2>2. y \in Tool /\ y.answers = t[n].answers
    BY <2>1, LongerTool
  <2>3. Fold(u) = [leading |-> l, tools |-> v]
    BY <1>1, <1>6 DEF Folded
  <2> HIDE DEF y
  <2>4. v \in Seq(Tool) /\ Len(v) = n /\ \A i \in 1..n : v[i].answers = t[i].answers
    <3>1. v \in Seq(Tool) /\ Len(v) = n
      BY <2>1, <2>2
    <3>2. \A i \in 1..n : v[i] = IF i = n THEN y ELSE t[i]
      BY <2>1
    <3> QED BY <2>2, <3>1, <3>2
  <2> HIDE DEF v
  <2>5. AnswersIn(v) = AnswersIn(t)
    BY <2>4 DEF AnswersIn
  <2>6. WellFolded(u, l, v)
    BY <1>3, <1>4, <1>6, <2>3, <2>4, <2>5 DEF WellFolded
  <2> QED BY <2>4, <2>6 DEF u
<1>7. CASE x.kind = "result"
  <2> DEFINE y == ToolMessage(x.id, 1)
             v == Append(t, y)
  <2>1. y \in Tool /\ y.answers = x.id
    BY <1>2, <1>7, ToolIsTool
  <2>2. Fold(u) = [leading |-> l, tools |-> v]
    BY <1>1, <1>7 DEF Folded
  <2> HIDE DEF y
  <2>3. v \in Seq(Tool) /\ Len(v) = Len(t) + 1 /\ v[Len(t) + 1] = y /\ \A i \in 1..Len(t) : v[i] = t[i]
    BY <2>1
  <2>4. AnswersIn(v) = AnswersIn(t) \cup {x.id}
    <3>1. Len(t) \in Nat /\ \A i \in 1..(Len(t) + 1) : i = Len(t) + 1 \/ i \in 1..Len(t)
      OBVIOUS
    <3> HIDE DEF v
    <3> QED BY <2>1, <2>3, <3>1 DEF AnswersIn
  <2> HIDE DEF v
  <2>5. Once(u, "result") => Len(v) = Cardinality(ResultIds(u)) /\ IsFiniteSet(ResultIds(u))
    <3> SUFFICES ASSUME Once(u, "result")
                 PROVE  Len(v) = Cardinality(ResultIds(u)) /\ IsFiniteSet(ResultIds(u))
      OBVIOUS
    <3>1. Len(t) = Cardinality(ResultIds(s)) /\ IsFiniteSet(ResultIds(s)) /\ x.id \notin ResultIds(s)
      BY <1>4, <1>7 DEF WellFolded
    <3>2. ResultIds(u) = ResultIds(s) \cup {x.id}
      BY <1>3, <1>7
    <3> QED BY <2>3, <3>1, <3>2, FS_AddElement
  <2>6. WellFolded(u, l, v)
    BY <1>3, <1>4, <1>7, <2>2, <2>4, <2>5 DEF WellFolded
  <2> QED BY <2>3, <2>6 DEF u
<1>8. CASE x.kind = "use"
  <2>1. Fold(u) = [leading |-> l, tools |-> t]
    BY <1>1, <1>8 DEF Folded
  <2>2. WellFolded(u, l, t)
    BY <1>3, <1>4, <1>8, <2>1 DEF WellFolded
  <2> QED BY <2>2 DEF u
<1> QED BY <1>2, <1>5, <1>6, <1>7, <1>8

LEMMA AllWellFolded ==
  ASSUME NEW s \in Seq(Block)
  PROVE  \E l \in Nat, t \in Seq(Tool) : WellFolded(s, l, t)
<1> DEFINE N == {n \in Nat : \A u \in Seq(Block) : Len(u) = n =>
                               \E l \in Nat, t \in Seq(Tool) : WellFolded(u, l, t)}
<1>1. 0 \in N
  <2>1. \A u \in Seq(Block) : Len(u) = 0 => u = <<>>
    OBVIOUS
  <2>2. WellFolded(<<>>, 0, <<>>)
    <3>1. Fold(<<>>) = [leading |-> 0, tools |-> <<>>]
      BY FoldNothing DEF Unfolded
    <3>2. ResultIds(<<>>) = {} /\ AnswersIn(<<>>) = {} /\ Len(<<>>) = 0
      BY DEF ResultIds, OfKind, ToSet, AnswersIn
    <3> QED BY <3>1, <3>2, FS_EmptySet DEF WellFolded
  <2>3. <<>> \in Seq(Tool) /\ 0 \in Nat
    OBVIOUS
  <2> QED BY <2>1, <2>2, <2>3
<1>2. ASSUME NEW n \in Nat, n \in N PROVE n + 1 \in N
  <2>1. ASSUME NEW u \in Seq(Block), Len(u) = n + 1
        PROVE  \E l \in Nat, t \in Seq(Tool) : WellFolded(u, l, t)
    <3>1. \E v \in Seq(Block), x \in Block : Len(v) = n /\ u = Append(v, x) /\ x = u[n + 1]
      <4>1. SplitLast(Block, u, n)
        BY <2>1, LastOff
      <4> QED BY <4>1 DEF SplitLast
    <3>2. PICK v \in Seq(Block), x \in Block : Len(v) = n /\ u = Append(v, x)
      BY <3>1
    <3>3. PICK l \in Nat, t \in Seq(Tool) : WellFolded(v, l, t)
      BY <1>2, <3>2
    <3> QED BY <3>2, <3>3, WellFoldedMore
  <2> QED BY <2>1
<1> HIDE DEF N
<1>3. Len(s) \in N
  <2>1. Len(s) \in Nat
    OBVIOUS
  <2> QED BY <1>1, <1>2, <2>1, Inductively
<1> QED BY <1>3 DEF N

-----------------------------------------------------------------------------
(* The messages of a turn, and of a transcript. *)

LEMMA DistinctCount ==
  ASSUME NEW S, NEW s \in Seq(S), Distinct(s)
  PROVE  IsFiniteSet(ToSet(s)) /\ Cardinality(ToSet(s)) = Len(s)
<1> DEFINE Counted(u) == IsFiniteSet(ToSet(u)) /\ Cardinality(ToSet(u)) = Len(u)
           N == {n \in Nat : \A u \in Seq(S) : Len(u) = n /\ Distinct(u) => Counted(u)}
<1>1. 0 \in N
  <2>1. \A u \in Seq(S) : Len(u) = 0 => u = <<>>
    OBVIOUS
  <2>2. Counted(<<>>)
    <3>1. ToSet(<<>>) = {} /\ Len(<<>>) = 0
      BY DEF ToSet
    <3> QED BY <3>1, FS_EmptySet
  <2> HIDE DEF Counted
  <2> QED BY <2>1, <2>2
<1>2. ASSUME NEW n \in Nat, n \in N PROVE n + 1 \in N
  <2>1. ASSUME NEW u \in Seq(S), Len(u) = n + 1, Distinct(u) PROVE Counted(u)
    <3>1. \E t \in Seq(S), x \in S : Len(t) = n /\ u = Append(t, x) /\ x = u[n + 1]
      <4>1. SplitLast(S, u, n)
        BY <2>1, LastOff
      <4> QED BY <4>1 DEF SplitLast
    <3>2. PICK t \in Seq(S), x \in S : Len(t) = n /\ u = Append(t, x) /\ x = u[n + 1]
      BY <3>1
    <3>3. (\A i \in 1..n : u[i] = t[i] /\ i \in 1..(n + 1) /\ i # n + 1) /\ n + 1 \in 1..(n + 1)
      BY <3>2
    <3>4. Distinct(t)
      BY <2>1, <3>2, <3>3 DEF Distinct
    <3>5. x \notin ToSet(t)
      <4>1. \A i \in 1..n : t[i] # x
        BY <2>1, <3>2, <3>3 DEF Distinct
      <4> QED BY <3>2, <4>1, InSet
    <3>6. Counted(t)
      BY <1>2, <3>2, <3>4
    <3>7. ToSet(u) = ToSet(t) \cup {x}
      BY <3>2, ToSetAppend
    <3> QED BY <2>1, <3>2, <3>5, <3>6, <3>7, FS_AddElement
  <2> HIDE DEF Counted
  <2> QED BY <2>1
<1> HIDE DEF N
<1>3. Len(s) \in N
  <2>1. Len(s) \in Nat
    OBVIOUS
  <2> QED BY <1>1, <1>2, <2>1, Inductively
<1> QED BY <1>3 DEF N

(* A user's turn asks nothing; it has one message per result, each         *)
(* answering what its result does, and nothing else if there are any.      *)
UserTurn(e, U) ==
  /\ e \in Seq(Message)
  /\ \A k \in 1..Len(e) : e[k].calls = <<>> /\ (e[k].role = "tool" => e[k].answers \in U)
  /\ U # {} => IsFiniteSet(U) /\ Len(e) = Cardinality(U) /\ AnswersIn(e) = U

LEMMA UserEncoded ==
  ASSUME NEW b \in Seq(Block), Once(b, "result"), ResultsFirst(b)
  PROVE  UserTurn(EncodeUser(b), ResultIds(b))
<1>1. PICK l \in Nat, t \in Seq(Tool) : WellFolded(b, l, t)
  BY AllWellFolded
<1>2. /\ Fold(b) = [leading |-> l, tools |-> t] /\ AnswersIn(t) = ResultIds(b)
      /\ Len(t) = Cardinality(ResultIds(b)) /\ IsFiniteSet(ResultIds(b))
      /\ l = 0 \/ t = <<>>
  BY <1>1 DEF WellFolded
<1>3. t \in Seq(Message) /\ \A k \in 1..Len(t) : t[k].calls = <<>>
  <2>1. Tool \subseteq Message
    BY DEF Tool
  <2>2. t \in Seq(Message)
    BY <2>1, SeqMonotonic
  <2>3. \A k \in 1..Len(t) : t[k] \in Tool
    OBVIOUS
  <2> QED BY <2>2, <2>3 DEF Tool
<1>4. CASE l = 0
  <2>1. EncodeUser(b) = t
    BY <1>2, <1>4 DEF EncodeUser
  <2>2. \A k \in 1..Len(t) : t[k].answers \in ResultIds(b)
    BY <1>2 DEF AnswersIn
  <2> QED BY <1>2, <1>3, <2>1, <2>2 DEF UserTurn
<1>5. CASE l # 0
  <2> DEFINE m == Said("user", l)
  <2>0. t = <<>>
    BY <1>2, <1>5
  <2>1. m \in Message /\ m.role = "user" /\ m.calls = <<>>
    <3>1. <<>> \in Seq(Nat)
      OBVIOUS
    <3> QED BY <3>1 DEF Said, Message, NoId
  <2>2. EncodeUser(b) = <<m>> \o t
    BY <1>2, <1>5 DEF EncodeUser
  <2> HIDE DEF m
  <2>3. <<m>> \in Seq(Message) /\ Len(<<m>>) = 1 /\ <<m>>[1] = m
    BY <2>1
  <2>4. EncodeUser(b) = <<m>>
    BY <2>0, <2>2, <2>3, ConcatEmptySeq
  <2>5. ResultIds(b) = {}
    BY <1>2, <2>0 DEF AnswersIn
  <2> QED BY <2>1, <2>3, <2>4, <2>5 DEF UserTurn
<1> QED BY <1>4, <1>5

(* An assistant's turn is one message with its calls. *)
LEMMA AssistantEncoded ==
  ASSUME NEW b \in Seq(Block), Once(b, "use")
  PROVE  /\ EncodeAssistant(b) \in Message /\ EncodeAssistant(b).role = "assistant"
         /\ Distinct(EncodeAssistant(b).calls) /\ ToSet(EncodeAssistant(b).calls) = UseIds(b)
<1> DEFINE ids == Ids(Uses(b))
           n == Texts(b)
<1>1. ids \in Seq(Nat) /\ Distinct(ids) /\ ToSet(ids) = UseIds(b)
  BY UsesInOrder
<1>2. n \in Nat
  <2>1. Only(b, OfKind(b, "text")) \in Seq(Block)
    BY OnlyMembers
  <2> QED BY <2>1 DEF Texts
<1>3. EncodeAssistant(b) = [role |-> "assistant", text |-> n, calls |-> ids, answers |-> NoId]
  BY DEF EncodeAssistant, Calls
<1> HIDE DEF ids, n
<1> QED BY <1>1, <1>2, <1>3 DEF Message, NoId

TidyTurn(x) == Once(x.content, "result") /\ Once(x.content, "use") /\ ResultsFirst(x.content)

LEMMA EncodeTyped ==
  ASSUME NEW x \in Turn, TidyTurn(x)
  PROVE  Encode(x) \in Seq(Message)
<1>1. x.content \in Seq(Block)
  BY DEF Turn
<1>2. CASE x.role = "assistant"
  BY <1>1, <1>2, AssistantEncoded DEF Encode, TidyTurn
<1>3. CASE x.role # "assistant"
  BY <1>1, <1>3, UserEncoded DEF Encode, TidyTurn, UserTurn
<1> QED BY <1>2, <1>3

LEMMA EncodedOneMore ==
  ASSUME NEW c \in Seq(Turn), NEW x \in Turn,
         \A i \in 1..Len(c) : TidyTurn(c[i]), TidyTurn(x)
  PROVE  EncodeMessages(Append(c, x)) = EncodeMessages(c) \o Encode(x)
<1> DEFINE d == Append(c, x)
           cs == [i \in DOMAIN c |-> Encode(c[i])]
           ds == [i \in DOMAIN d |-> Encode(d[i])]
           y == Encode(x)
<1>1. /\ DOMAIN c = 1..Len(c) /\ DOMAIN d = 1..(Len(c) + 1) /\ Len(c) \in Nat
      /\ d[Len(c) + 1] = x /\ \A i \in 1..Len(c) : d[i] = c[i] /\ c[i] \in Turn
  OBVIOUS
<1>2. y \in Seq(Message) /\ \A i \in 1..Len(c) : Encode(c[i]) \in Seq(Message)
  BY <1>1, EncodeTyped
<1>3. EncodeMessages(d) = FlattenSeq(ds) /\ EncodeMessages(c) = FlattenSeq(cs)
  BY DEF EncodeMessages
<1>4. cs \in Seq(Seq(Message)) /\ Len(cs) = Len(c)
  BY <1>1, <1>2
<1>5. ds \in [1..(Len(c) + 1) -> Seq(Message)]
  <2>1. \A i \in 1..(Len(c) + 1) : i = Len(c) + 1 \/ i \in 1..Len(c)
    BY <1>1
  <2>2. \A i \in 1..(Len(c) + 1) : Encode(d[i]) \in Seq(Message)
    BY <1>1, <1>2, <2>1
  <2> HIDE DEF d
  <2> QED BY <1>1, <2>2
<1>6. ds \in Seq(Seq(Message)) /\ Len(ds) = Len(c) + 1
  BY <1>1, <1>5
<1>7. \A i \in 1..Len(c) : ds[i] = cs[i]
  <2> HIDE DEF d
  <2>1. \A i \in 1..Len(c) : i \in DOMAIN d /\ i \in DOMAIN c
    BY <1>1
  <2> QED BY <1>1, <2>1
<1>8. ds[Len(c) + 1] = y
  <2> HIDE DEF d
  <2> QED BY <1>1
<1> HIDE DEF cs, ds, d, y
<1>9. ds = Append(cs, y)
  <2>1. Append(cs, y) \in Seq(Seq(Message)) /\ Len(Append(cs, y)) = Len(c) + 1
    BY <1>2, <1>4
  <2>2. \A i \in 1..(Len(c) + 1) : Append(cs, y)[i] = ds[i]
    BY <1>1, <1>2, <1>4, <1>7, <1>8
  <2> QED BY <1>6, <2>1, <2>2, SeqEqual
<1>10. FlattenSeq(ds) = FlattenSeq(cs) \o y
  BY <1>2, <1>4, <1>9, FlattenOneMore
<1> QED BY <1>3, <1>10 DEF d, y

-----------------------------------------------------------------------------
(* Calls and answers among the messages. *)

(* Every call is answered right behind the message that made it, but those *)
(* of the last message, which are U.                                       *)
Open(w, U) ==
  /\ w \in Seq(Message)
  /\ \A i \in 1..Len(w) : w[i].role = "tool" => AskedBefore(w, i)
  /\ \A i \in 1..Len(w) : \/ AnsweredAt(w, i)
                          \/ i = Len(w) /\ Distinct(w[i].calls) /\ ToSet(w[i].calls) = U
  /\ U # {} => Len(w) >= 1 /\ Distinct(w[Len(w)].calls) /\ ToSet(w[Len(w)].calls) = U

LEMMA CallsTyped ==
  ASSUME NEW w \in Seq(Message), NEW i \in 1..Len(w)
  PROVE  w[i].calls \in Seq(Nat) /\ Len(w[i].calls) \in Nat
<1> DEFINE k == w[i].calls
<1>1. k \in Seq(Nat)
  <2>1. w[i] \in Message
    BY ElementOfSeq
  <2> QED BY <2>1 DEF Message
<1> HIDE DEF k
<1>2. Len(k) \in Nat
  BY <1>1
<1> QED BY <1>1, <1>2 DEF k

LEMMA NoCalls ==
  ASSUME NEW w \in Seq(Message), NEW i \in 1..Len(w), ToSet(w[i].calls) = {}
  PROVE  AnsweredAt(w, i)
<1>1. w[i].calls \in Seq(Nat)
  BY CallsTyped
<1> DEFINE k == w[i].calls
<1>2. Len(k) = 0
  <2> HIDE DEF k
  <2>1. k \in Seq(Nat)
    BY <1>1 DEF k
  <2>2. \A j \in 1..Len(k) : FALSE
    <3>1. ToSet(k) = {}
      BY DEF k
    <3> QED BY <2>1, <3>1, InSet
  <2>3. Len(k) \in Nat
    BY <2>1
  <2> QED BY <2>2, <2>3
<1>3. i + 0 <= Len(w) /\ i + 1 .. i + 0 = {}
  OBVIOUS
<1> QED BY <1>2, <1>3 DEF AnsweredAt

LEMMA StillAnswered ==
  ASSUME NEW w \in Seq(Message), NEW e \in Seq(Message), NEW i \in 1..Len(w), AnsweredAt(w, i)
  PROVE  AnsweredAt(w \o e, i)
<1> DEFINE u == w \o e
           n == Len(w[i].calls)
<1>1. /\ u \in Seq(Message) /\ Len(w) \in Nat /\ Len(e) \in Nat /\ Len(u) = Len(w) + Len(e)
      /\ \A j \in 1..Len(w) : u[j] = w[j]
  BY ConcatAt
<1>2. n \in Nat
  BY CallsTyped
<1> HIDE DEF u
<1>3. i + n <= Len(w) /\ ToSet(w[i].calls) = {w[j].answers : j \in i + 1 .. i + n} /\ u[i] = w[i]
  BY <1>1 DEF AnsweredAt
<1>4. \A j \in i + 1 .. i + n : u[j] = w[j]
  <2>1. \A j \in i + 1 .. i + n : j \in 1..Len(w)
    <3> HIDE DEF n
    <3> QED BY <1>1, <1>2, <1>3
  <2> QED BY <1>1, <2>1
<1>5. {w[j].answers : j \in i + 1 .. i + n} = {u[j].answers : j \in i + 1 .. i + n}
  BY <1>4
<1>6. i + n <= Len(u)
  BY <1>1, <1>2, <1>3
<1> QED BY <1>3, <1>5, <1>6 DEF AnsweredAt, u

LEMMA StillAsked ==
  ASSUME NEW w \in Seq(Message), NEW e \in Seq(Message), NEW i \in 1..Len(w), AskedBefore(w, i)
  PROVE  AskedBefore(w \o e, i)
<1>1. Len(w) \in Nat /\ \A j \in 1..Len(w) : (w \o e)[j] = w[j]
  BY ConcatAt
<1>2. \A j \in 1 .. i - 1 : j \in 1..Len(w)
  BY <1>1
<1> QED BY <1>1, <1>2 DEF AskedBefore

(* A user's turn that answers what is open closes it. *)
LEMMA OpenAnswered ==
  ASSUME NEW w, NEW U, Open(w, U), NEW e, UserTurn(e, U)
  PROVE  Open(w \o e, {})
<1> DEFINE u == w \o e
           n == Len(w)
<1>1. w \in Seq(Message) /\ e \in Seq(Message)
  BY DEF Open, UserTurn
<1>2. /\ u \in Seq(Message) /\ n \in Nat /\ Len(e) \in Nat /\ Len(u) = n + Len(e)
      /\ \A i \in 1..n : i \in 1..Len(u) /\ u[i] = w[i]
      /\ \A i \in 1..Len(e) : n + i \in 1..Len(u) /\ u[n + i] = e[i]
      /\ \A i \in 1..Len(u) : i \in 1..n \/ \E j \in 1..Len(e) : i = n + j
  BY <1>1, ConcatAt
<1>3. ASSUME NEW i \in 1..n PROVE AnsweredAt(u, i)
  <2>1. CASE AnsweredAt(w, i)
    BY <1>1, <2>1, StillAnswered
  <2>2. CASE i = n /\ Distinct(w[i].calls) /\ ToSet(w[i].calls) = U
    <3>0. w[i].calls \in Seq(Nat)
      BY <1>1, CallsTyped
    <3> HIDE DEF u, n
    <3>1. CASE U = {}
      <4>1. ToSet(u[i].calls) = {}
        BY <1>2, <2>2, <3>1
      <4> QED BY <1>2, <4>1, NoCalls
    <3>2. CASE U # {}
      <4>1. Len(w[i].calls) = Cardinality(U) /\ Len(e) = Cardinality(U) /\ AnswersIn(e) = U
        BY <2>2, <3>0, <3>2, DistinctCount DEF UserTurn
      <4>2. i + Len(e) <= Len(u) /\ Len(u[i].calls) = Len(e)
        BY <1>2, <2>2, <4>1
      <4>3. {u[j].answers : j \in i + 1 .. i + Len(e)} = AnswersIn(e)
        <5>1. ASSUME NEW j \in i + 1 .. i + Len(e) PROVE u[j].answers \in AnswersIn(e)
          <6>1. j - n \in 1..Len(e) /\ n + (j - n) = j
            BY <1>2, <2>2
          <6>2. u[j] = e[j - n]
            BY <1>2, <6>1
          <6> QED BY <6>1, <6>2 DEF AnswersIn
        <5>2. ASSUME NEW k \in 1..Len(e) PROVE \E j \in i + 1 .. i + Len(e) : u[j].answers = e[k].answers
          <6>1. n + k \in i + 1 .. i + Len(e) /\ u[n + k] = e[k]
            BY <1>2, <2>2
          <6> QED BY <6>1
        <5> QED BY <5>1, <5>2 DEF AnswersIn
      <4> QED BY <1>2, <2>2, <4>1, <4>2, <4>3 DEF AnsweredAt
    <3> QED BY <3>1, <3>2
  <2> QED BY <2>1, <2>2 DEF Open
<1>4. ASSUME NEW i \in 1..n, u[i].role = "tool" PROVE AskedBefore(u, i)
  <2>1. AskedBefore(w, i)
    BY <1>2, <1>4 DEF Open
  <2> QED BY <1>1, <2>1, StillAsked
<1> HIDE DEF u
<1>5. ASSUME NEW k \in 1..Len(e) PROVE AnsweredAt(u, n + k)
  <2>1. n + k \in 1..Len(u) /\ u[n + k].calls = <<>>
    BY <1>2 DEF UserTurn
  <2>2. ToSet(u[n + k].calls) = {}
    BY <2>1 DEF ToSet
  <2> QED BY <1>2, <2>1, <2>2, NoCalls
<1>6. ASSUME NEW k \in 1..Len(e), u[n + k].role = "tool" PROVE AskedBefore(u, n + k)
  <2>1. u[n + k] = e[k] /\ e[k].answers \in U
    BY <1>2, <1>6 DEF UserTurn
  <2>2. n >= 1 /\ Distinct(w[n].calls) /\ ToSet(w[n].calls) = U
    BY <2>1 DEF Open
  <2>3. w[n].calls \in Seq(Nat)
    BY <1>1, <1>2, <2>2, CallsTyped
  <2>4. Len(w[n].calls) = Len(e)
    BY <2>1, <2>2, <2>3, DistinctCount DEF UserTurn
  <2>5. n \in 1 .. (n + k) - 1 /\ n + k <= n + Len(u[n].calls) /\ u[n] = w[n]
    BY <1>2, <2>2, <2>4
  <2> QED BY <2>1, <2>2, <2>5 DEF AskedBefore
<1>7. \A i \in 1..Len(u) : AnsweredAt(u, i) /\ (u[i].role = "tool" => AskedBefore(u, i))
  BY <1>2, <1>3, <1>4, <1>5, <1>6
<1> QED BY <1>2, <1>7 DEF Open, u

(* An assistant's turn behind closed ones opens its own. *)
LEMMA OpenAsks ==
  ASSUME NEW w, Open(w, {}), NEW m \in Message, NEW U,
         m.role = "assistant", Distinct(m.calls), ToSet(m.calls) = U
  PROVE  Open(w \o <<m>>, U)
<1> DEFINE e == <<m>>
           u == w \o e
           n == Len(w)
<1>1. w \in Seq(Message) /\ e \in Seq(Message) /\ Len(e) = 1 /\ e[1] = m
  BY DEF Open
<1> HIDE DEF e
<1>2. /\ u \in Seq(Message) /\ n \in Nat /\ Len(u) = n + 1
      /\ \A i \in 1..n : u[i] = w[i]
      /\ n + 1 \in 1..Len(u) /\ u[n + 1] = m
      /\ \A i \in 1..Len(u) : i \in 1..n \/ i = n + 1
  <2>1. /\ u \in Seq(Message) /\ n \in Nat /\ Len(e) \in Nat /\ Len(u) = n + Len(e)
        /\ \A i \in 1..n : i \in 1..Len(u) /\ u[i] = w[i]
        /\ \A i \in 1..Len(e) : n + i \in 1..Len(u) /\ u[n + i] = e[i]
        /\ \A i \in 1..Len(u) : i \in 1..n \/ \E j \in 1..Len(e) : i = n + j
    <3>1. /\ w \o e \in Seq(Message) /\ Len(w) \in Nat /\ Len(e) \in Nat
          /\ Len(w \o e) = Len(w) + Len(e)
          /\ \A i \in 1..Len(w) : i \in 1..Len(w \o e) /\ (w \o e)[i] = w[i]
          /\ \A i \in 1..Len(e) : Len(w) + i \in 1..Len(w \o e) /\ (w \o e)[Len(w) + i] = e[i]
          /\ \A i \in 1..Len(w \o e) : i \in 1..Len(w) \/ \E j \in 1..Len(e) : i = Len(w) + j
      <4> HIDE DEF u, n
      <4>1. w \in Seq(Message) /\ e \in Seq(Message)
        BY <1>1
      <4> QED BY ONLY <4>1, ConcatAt
    <3> QED BY <3>1
  <2> HIDE DEF u, n
  <2> QED BY <1>1, <2>1
<1>3. ASSUME NEW i \in 1..n PROVE AnsweredAt(u, i)
  <2>1. AnsweredAt(w, i)
    BY <1>1, NoCalls DEF Open
  <2> QED BY <1>1, <2>1, StillAnswered
<1>4. ASSUME NEW i \in 1..n, u[i].role = "tool" PROVE AskedBefore(u, i)
  <2>1. AskedBefore(w, i)
    BY <1>2, <1>4 DEF Open
  <2> QED BY <1>1, <2>1, StillAsked
<1>5. n + 1 >= 1
  BY <1>2
<1> HIDE DEF u, n
<1>6. Open(u, U)
  BY <1>2, <1>3, <1>4, <1>5 DEF Open
<1> QED BY <1>6 DEF u, e

(* What a transcript leaves open on the wire is the calls of its last turn. *)
OnTheWire(c) ==
  (\A i \in 1..Len(c) : TidyTurn(c[i])) /\ Open(EncodeMessages(c), Asked(c))

LEMMA OneTurnMore ==
  ASSUME NEW d \in Seq(Turn), NEW x \in Turn, OnTheWire(d), Fits(d, x), TidyTurn(x)
  PROVE  OnTheWire(Append(d, x))
<1> DEFINE u == Append(d, x)
           w == EncodeMessages(d)
<1>1. EncodeMessages(u) = w \o Encode(x)
  BY EncodedOneMore DEF OnTheWire
<1>2. Open(w, Asked(d))
  BY DEF OnTheWire
<1>3. Asked(u) = UseIds(x.content)
  <2>1. Last(u) = x /\ u # <<>>
    BY DEF Last
  <2> QED BY <2>1 DEF Asked
<1>4. x.content \in Seq(Block) /\ x.role \in {"user", "assistant"}
  BY DEF Turn
<1> HIDE DEF w
<1>5. ASSUME x.role = "assistant" PROVE Open(EncodeMessages(u), Asked(u))
  <2> DEFINE m == EncodeAssistant(x.content)
  <2>1. Asked(d) = {}
    BY <1>5 DEF Fits
  <2>2. /\ m \in Message /\ m.role = "assistant"
        /\ Distinct(m.calls) /\ ToSet(m.calls) = UseIds(x.content)
    BY <1>4, AssistantEncoded DEF TidyTurn
  <2>3. Encode(x) = <<m>>
    BY <1>5 DEF Encode
  <2> HIDE DEF m, u
  <2>4. Open(w \o <<m>>, UseIds(x.content))
    BY <1>2, <2>1, <2>2, OpenAsks
  <2>5. Open(EncodeMessages(u), Asked(u))
    BY <1>1, <1>3, <2>3, <2>4
  <2> QED BY <2>5 DEF u
<1>6. ASSUME x.role = "user" PROVE Open(EncodeMessages(u), Asked(u))
  <2>1. UserTurn(EncodeUser(x.content), ResultIds(x.content))
    BY <1>4, UserEncoded DEF TidyTurn
  <2>2. UserTurn(Encode(x), Asked(d)) /\ UseIds(x.content) = {}
    BY <1>6, <2>1 DEF Encode, Fits
  <2> HIDE DEF u
  <2>3. Open(w \o Encode(x), {})
    BY <1>2, <2>2, OpenAnswered
  <2>4. Open(EncodeMessages(u), Asked(u))
    BY <1>1, <1>3, <2>2, <2>3
  <2> QED BY <2>4 DEF u
<1>7. \A i \in 1..Len(u) : TidyTurn(u[i])
  <2>1. /\ Len(d) \in Nat /\ Len(u) = Len(d) + 1 /\ u[Len(d) + 1] = x
        /\ \A i \in 1..Len(d) : u[i] = d[i]
    OBVIOUS
  <2>2. \A i \in 1..(Len(d) + 1) : i = Len(d) + 1 \/ i \in 1..Len(d)
    BY <2>1
  <2> HIDE DEF u
  <2> QED BY <2>1, <2>2 DEF OnTheWire
<1>8. Open(EncodeMessages(u), Asked(u))
  BY <1>4, <1>5, <1>6
<1> QED BY <1>7, <1>8 DEF OnTheWire

LEMMA TurnsOnTheWire ==
  ASSUME NEW c \in Seq(Turn), Turns(c), Tidy(c), Once(Blocks(c), "use")
  PROVE  OnTheWire(c)
<1> DEFINE Fine(u) == Turns(u) /\ Tidy(u) /\ Once(Blocks(u), "use") => OnTheWire(u)
           N == {n \in Nat : \A u \in Seq(Turn) : Len(u) = n => Fine(u)}
<1>1. 0 \in N
  <2>1. \A u \in Seq(Turn) : Len(u) = 0 => u = <<>>
    OBVIOUS
  <2>2. OnTheWire(<<>>)
    <3>1. EncodeMessages(<<>>) = <<>>
      <4>1. [i \in DOMAIN <<>> |-> Encode(<<>>[i])] = <<>>
        OBVIOUS
      <4> QED BY <4>1 DEF EncodeMessages, FlattenSeq
    <3>2. Asked(<<>>) = {}
      BY DEF Asked
    <3>3. <<>> \in Seq(Message) /\ Len(<<>>) = 0 /\ 1..0 = {}
      OBVIOUS
    <3>4. Open(<<>>, {})
      BY <3>3 DEF Open
    <3> QED BY <3>1, <3>2, <3>3, <3>4 DEF OnTheWire
  <2> HIDE DEF Fine
  <2>3. Fine(<<>>)
    BY <2>2 DEF Fine
  <2> QED BY <2>1, <2>3
<1>2. ASSUME NEW n \in Nat, n \in N PROVE n + 1 \in N
  <2>1. ASSUME NEW u \in Seq(Turn), Len(u) = n + 1 PROVE Fine(u)
    <3> SUFFICES ASSUME Turns(u), Tidy(u), Once(Blocks(u), "use") PROVE OnTheWire(u)
      OBVIOUS
    <3>1. \E v \in Seq(Turn), x \in Turn : Len(v) = n /\ u = Append(v, x) /\ x = u[n + 1]
      <4>1. SplitLast(Turn, u, n)
        BY <2>1, LastOff
      <4> QED BY <4>1 DEF SplitLast
    <3>2. PICK v \in Seq(Turn), x \in Turn : Len(v) = n /\ u = Append(v, x)
      BY <3>1
    <3>3. Turns(v) /\ Fits(v, x)
      BY <3>2, TurnsAppend
    <3>4. Tidy(v) /\ ResultsFirst(x.content)
      BY <3>2, TidyAppend
    <3>5. Once(Blocks(v), "use") /\ Once(x.content, "use")
      <4>1. Blocks(u) = Blocks(v) \o x.content
        BY <3>2, BlocksOneMore
      <4>2. Blocks(v) \in Seq(Block) /\ x.content \in Seq(Block)
        BY BlocksTyped DEF Turn
      <4> QED BY <4>1, <4>2, OnceConcat
    <3>6. OnTheWire(v)
      BY <1>2, <3>2, <3>3, <3>4, <3>5
    <3>7. TidyTurn(x)
      BY <3>3, <3>4, <3>5 DEF TidyTurn, Fits
    <3> QED BY <3>2, <3>3, <3>6, <3>7, OneTurnMore
  <2> HIDE DEF Fine
  <2> QED BY <2>1
<1> HIDE DEF N
<1>3. Len(c) \in N
  <2>1. Len(c) \in Nat
    OBVIOUS
  <2> QED BY <1>1, <1>2, <2>1, Inductively
<1> QED BY <1>3 DEF N

LEMMA AcceptedWhenSettled ==
  ASSUME NEW c, Sound(c), Settled(c)
  PROVE  WireAccepts(c)
<1> DEFINE w == EncodeMessages(c)
<1>1. c \in Seq(Turn) /\ c # <<>> /\ Turns(c) /\ Tidy(c) /\ Once(Blocks(c), "use")
  BY DEF Sound, Turns, Alternates
<1>2. Open(w, {})
  <2>1. OnTheWire(c)
    BY <1>1, TurnsOnTheWire
  <2>2. Asked(c) = {}
    BY <1>1 DEF Asked, Settled
  <2> QED BY <2>1, <2>2 DEF OnTheWire
<1>3. w \in Seq(Message)
  BY <1>2 DEF Open
<1> HIDE DEF w
<1>4. DOMAIN w = 1..Len(w)
  BY <1>3
<1>5. \A i \in 1..Len(w) : AnsweredAt(w, i) /\ (w[i].role = "tool" => AskedBefore(w, i))
  BY <1>2, <1>3, NoCalls DEF Open
<1> QED BY <1>4, <1>5 DEF WireAccepts, w

-----------------------------------------------------------------------------
(* The state is of its type: no counter of the loop passes its limit.      *)
THEOREM TypeCorrect == Spec => []TypeOK
<1>1. IInv => TypeOK
  BY DEF IInv
<1> QED BY <1>1, AlwaysIInv, PTL

(* Every transcript the loop sends, however it was seeded and whatever     *)
(* became of the calls before, passes Convo.Validate, which it runs on it  *)
(* only at the start of a run; and its chat-completions form has behind    *)
(* each message with calls exactly their answers.                          *)
THEOREM RequestsAreValid == Spec => []RequestsValid
<1>1. IInv => RequestsValid
  BY ValidWhenSettled, AcceptedWhenSettled DEF IInv, Replying, RequestsValid
<1> QED BY <1>1, AlwaysIInv, PTL

(* Whatever ended a run, in any number of runs and of turns, the next one  *)
(* can be seeded from what it left, by a session and by a command line,    *)
(* and both answer the question a paused one asked.                        *)
THEOREM CarriesOn == Spec => []AlwaysResumable
<1>1. ASSUME IInv PROVE AlwaysResumable
  <2>1. Transcript
    BY <1>1 DEF IInv, Transcript
  <2>2. phase = "closed" => Validate(SessionSeed) /\ Validate(Resume(convo))
    BY <2>1, SeedCarriesOn, ResumeCarriesOn, ValidWhenSettled DEF Transcript
  <2>3. file # <<>> => Validate(Resume(file))
    BY <2>1, ResumeCarriesOn, ValidWhenSettled DEF Transcript, Filed
  <2>4. ASSUME phase = "closed", outcome.kind = "paused"
        PROVE  /\ PendingPause(convo) = outcome.id
               /\ Contains(Dangling(convo), outcome.id)
               /\ Resume(convo) = SessionSeed
    <3>1. PICK id \in Nat \ {NoId} : outcome = Paused(id) /\ PausedOn(id)
      BY <2>1, <2>4 DEF Transcript, Outcomes, None, Answered, Submitted
    <3>2. outcome.id = id /\ pauseID = id
      BY <2>1, <2>4, <3>1 DEF Transcript, Replying, Paused
    <3>3. Dangling(convo) \in Seq(Nat) /\ id \in ToSet(Dangling(convo)) /\ convo # <<>>
      BY <2>1, <3>1, DanglingCalls, SoundTyped DEF Transcript, PausedOn
    <3>4. Contains(Dangling(convo), id) /\ Dangling(convo) # <<>>
      BY <3>3, InSet DEF Contains
    <3>5. PendingPause(convo) = id
      BY <3>1, <3>3, <3>4 DEF PendingPause, PausedOn
    <3>6. Resume(convo) = AnswerPause(convo, id) /\ SessionSeed = AnswerPause(convo, id)
      BY <3>2, <3>5 DEF Resume, SessionSeed
    <3> QED BY <3>2, <3>4, <3>5, <3>6
  <2> QED BY <2>2, <2>3, <2>4 DEF AlwaysResumable, PauseIsPending
<1> QED BY <1>1, AlwaysIInv, PTL

(* A run with a terminal tool that the cap ended was made to submit in its *)
(* last ForceLastN iterations, whatever the two numbers are.               *)
THEOREM CapIsForced == Spec => []CapWasForced
<1>1. IInv => CapWasForced
  BY DEF IInv, Forcing, CapWasForced
<1> QED BY <1>1, AlwaysIInv, PTL
(* Nothing said is edited or dropped: every step, of any run of any number *)
(* of them, leaves what the transcript and the file held as the beginning  *)
(* of what they hold, but for a process that starts from the file again.   *)
THEOREM OnlyGrows == Spec => TranscriptOnlyGrows
<1> DEFINE Grown ==
             /\ IsPrefix(Blocks(file), Blocks(file')) /\ IsPrefix(Blocks(file'), Blocks(convo'))
             /\ \/ IsPrefix(Blocks(convo), Blocks(convo'))
                \/ front = "cli" /\ phase' = "validate" /\ file' = file
<1>1. ASSUME IInv, IInv', Next PROVE Grown
  <2>1. Transcript /\ IsPrefix(Blocks(file'), Blocks(convo'))
    BY <1>1 DEF IInv, Transcript, Filed
  <2>2. IsPrefix(Blocks(file), Blocks(file)) /\ IsPrefix(Blocks(convo), Blocks(convo))
    BY <2>1, BlocksTyped, SoundTyped, PrefixSelf DEF Transcript, Filed
  <2>3. CASE UNCHANGED <<convo, file>>
    BY <2>1, <2>2, <2>3
  <2>4. CASE CallFails \/ Act \/ Dispatch \/ SessionSend
    <3>1. IsPrefix(Blocks(convo), Blocks(convo'))
      BY <2>1, <2>4, TranscriptAfterCallFails, TranscriptAfterAct, TranscriptAfterDispatch,
         TranscriptAfterSend
    <3>2. file' = file
      <4>1. ASSUME Dispatch PROVE file' = file
        BY <4>1, Zenon DEF Dispatch, Rest, Keep
      <4> QED BY <2>4, <4>1 DEF CallFails, Act, SessionSend, Keep
    <3> QED BY <2>1, <2>2, <3>1, <3>2
  <2>5. CASE CliNext \/ CliKilled
    <3>1. PICK f \in SaveSession : Invoke(f)
      BY <2>5 DEF CliNext, CliKilled, SaveSession
    <3>2. front = "cli" /\ phase' = "validate" /\ file' = f
      BY <3>1 DEF Invoke, StartWith
    <3> QED BY <2>1, <3>1, <3>2, TranscriptAfterInvoke
  <2> QED
    BY <1>1, <2>3, <2>4, <2>5
    DEF Next, Loop, Begin, Top, EmitIterStart, EmitLLMStart, CallReturns, EmitLLMDone, ActEmpty,
        CloseEvents, Delta, Panic, Cancel, Abandon, Close, Rest, Keep
<1>2. IInv /\ IInv' /\ [Next]_vars => [Grown]_vars
  BY <1>1
<1> QED BY <1>2, AlwaysIInv, PTL DEF Spec, TranscriptOnlyGrows

-----------------------------------------------------------------------------
(* What every strategy makes of a transcript can be sent.                  *)

(* What holds of no sequence and goes on holding as one is appended to.    *)
LEMMA ByAppending ==
  ASSUME NEW S, NEW Q, <<>> \in Q, \A u \in Seq(S), x \in S : u \in Q => Append(u, x) \in Q
  PROVE  \A u \in Seq(S) : u \in Q
<1> DEFINE N == {n \in Nat : \A u \in Seq(S) : Len(u) = n => u \in Q}
<1>1. 0 \in N
  <2>1. \A u \in Seq(S) : Len(u) = 0 => u = <<>>
    OBVIOUS
  <2> QED BY <2>1
<1>2. ASSUME NEW n \in Nat, n \in N PROVE n + 1 \in N
  <2>1. ASSUME NEW u \in Seq(S), Len(u) = n + 1 PROVE u \in Q
    <3>1. SplitLast(S, u, n)
      BY <2>1, LastOff
    <3>2. PICK t \in Seq(S), x \in S : Len(t) = n /\ u = Append(t, x)
      BY <3>1 DEF SplitLast
    <3>3. t \in Q
      BY <1>2, <3>2
    <3> QED BY <3>2, <3>3
  <2> QED BY <2>1
<1> HIDE DEF N
<1>3. \A n \in Nat : n \in N
  BY <1>1, <1>2, Inductively
<1>4. ASSUME NEW u \in Seq(S) PROVE u \in Q
  <2>1. Len(u) \in Nat /\ Len(u) \in N
    BY <1>3
  <2> QED BY <2>1 DEF N
<1> QED BY <1>4

(* The elements of a sequence one longer. *)
LEMMA AppendAt ==
  ASSUME NEW S, NEW u \in Seq(S), NEW x \in S
  PROVE  /\ Append(u, x) \in Seq(S) /\ Len(u) \in Nat /\ Len(Append(u, x)) = Len(u) + 1
         /\ Append(u, x)[Len(u) + 1] = x /\ Len(u) + 1 \in 1..(Len(u) + 1)
         /\ \A i \in 1..Len(u) : i \in 1..(Len(u) + 1) /\ i # Len(u) + 1 /\ Append(u, x)[i] = u[i]
         /\ \A i \in 1..(Len(u) + 1) : i \in 1..Len(u) \/ i = Len(u) + 1
OBVIOUS

LEMMA TurnFields ==
  ASSUME NEW m \in Turn
  PROVE  m.role \in {"user", "assistant"} /\ m.content \in Seq(Block)
BY DEF Turn

(* A block of a transcript is a block of one of its turns. *)
InTurns(b, c) == \E i \in 1..Len(c) : b \in ToSet(c[i].content)

LEMMA BlocksIn ==
  ASSUME NEW c \in Seq(Turn), NEW b
  PROVE  b \in ToSet(Blocks(c)) <=> InTurns(b, c)
<1> DEFINE Q == {u \in Seq(Turn) : b \in ToSet(Blocks(u)) <=> InTurns(b, u)}
<1>1. <<>> \in Q
  <2>1. Blocks(<<>>) = <<>> /\ ToSet(<<>>) = {} /\ <<>> \in Seq(Turn) /\ Len(<<>>) = 0 /\ 1..0 = {}
    BY BlocksNothing DEF ToSet
  <2> QED BY <2>1 DEF InTurns
<1>2. ASSUME NEW u \in Seq(Turn), NEW x \in Turn, u \in Q PROVE Append(u, x) \in Q
  <2> DEFINE v == Append(u, x)
  <2>1. v \in Seq(Turn) /\ Len(v) = Len(u) + 1 /\ v[Len(u) + 1] = x
        /\ Len(u) + 1 \in 1..(Len(u) + 1)
        /\ (\A i \in 1..Len(u) : i \in 1..(Len(u) + 1) /\ v[i] = u[i])
        /\ \A i \in 1..(Len(u) + 1) : i \in 1..Len(u) \/ i = Len(u) + 1
    BY AppendAt
  <2>2. ToSet(Blocks(v)) = ToSet(Blocks(u)) \cup ToSet(x.content)
    <3>1. Blocks(v) = Blocks(u) \o x.content
      BY BlocksOneMore
    <3>2. Blocks(u) \in Seq(Block) /\ x.content \in Seq(Block)
      BY BlocksTyped, TurnFields
    <3> QED BY <3>1, <3>2, ToSetConcat
  <2> HIDE DEF v
  <2>3. InTurns(b, v) <=> InTurns(b, u) \/ b \in ToSet(x.content)
    <3>1. ASSUME InTurns(b, v) PROVE InTurns(b, u) \/ b \in ToSet(x.content)
      <4>1. PICK i \in 1..(Len(u) + 1) : b \in ToSet(v[i].content)
        BY <2>1, <3>1 DEF InTurns
      <4> QED BY <2>1, <4>1 DEF InTurns
    <3>2. ASSUME InTurns(b, u) PROVE InTurns(b, v)
      <4>1. PICK i \in 1..Len(u) : b \in ToSet(u[i].content)
        BY <3>2 DEF InTurns
      <4> QED BY <2>1, <4>1 DEF InTurns
    <3>3. ASSUME b \in ToSet(x.content) PROVE InTurns(b, v)
      BY <2>1, <3>3 DEF InTurns
    <3> QED BY <3>1, <3>2, <3>3
  <2>4. b \in ToSet(Blocks(u)) <=> InTurns(b, u)
    BY <1>2
  <2>5. b \in ToSet(Blocks(v)) <=> InTurns(b, v)
    BY <2>2, <2>3, <2>4
  <2> QED BY <2>1, <2>5 DEF v
<1> HIDE DEF Q
<1>3. c \in Q
  BY <1>1, <1>2, ByAppending
<1> QED BY <1>3 DEF Q

(* The calls of a transcript have ids of their own when those of each turn *)
(* have, and no two turns share one.                                       *)
Apart(c) ==
  /\ \A i \in 1..Len(c) : Once(c[i].content, "use")
  /\ \A i, j \in 1..Len(c) : i # j => UseIds(c[i].content) \cap UseIds(c[j].content) = {}

LEMMA UseIdsIn ==
  ASSUME NEW c \in Seq(Turn), NEW id
  PROVE  id \in UseIds(Blocks(c)) <=> \E i \in 1..Len(c) : id \in UseIds(c[i].content)
<1>1. ASSUME NEW i \in 1..Len(c), id \in UseIds(c[i].content) PROVE id \in UseIds(Blocks(c))
  <2>1. PICK b : b \in ToSet(c[i].content) /\ b.kind = "use" /\ b.id = id
    BY <1>1 DEF UseIds, OfKind
  <2>2. InTurns(b, c)
    BY <2>1 DEF InTurns
  <2>3. b \in ToSet(Blocks(c))
    BY <2>2, BlocksIn
  <2> QED BY <2>1, <2>3 DEF UseIds, OfKind
<1>2. ASSUME id \in UseIds(Blocks(c)) PROVE \E i \in 1..Len(c) : id \in UseIds(c[i].content)
  <2>1. PICK b : b \in ToSet(Blocks(c)) /\ b.kind = "use" /\ b.id = id
    BY <1>2 DEF UseIds, OfKind
  <2>2. PICK i \in 1..Len(c) : b \in ToSet(c[i].content)
    BY <2>1, BlocksIn DEF InTurns
  <2> QED BY <2>1, <2>2 DEF UseIds, OfKind
<1> QED BY <1>1, <1>2

LEMMA ApartAppend ==
  ASSUME NEW u \in Seq(Turn), NEW x \in Turn
  PROVE  Apart(Append(u, x)) <=>
           Apart(u) /\ Once(x.content, "use") /\ UseIds(Blocks(u)) \cap UseIds(x.content) = {}
<1> DEFINE v == Append(u, x)
           n == Len(u)
<1>1. n \in Nat /\ v \in Seq(Turn) /\ Len(v) = n + 1 /\ v[n + 1] = x
      /\ n + 1 \in 1..(n + 1)
      /\ (\A i \in 1..n : i \in 1..(n + 1) /\ i # n + 1 /\ v[i] = u[i])
      /\ \A i \in 1..(n + 1) : i \in 1..n \/ i = n + 1
  BY AppendAt
<1>2. \A id : id \in UseIds(Blocks(u)) <=> \E i \in 1..n : id \in UseIds(u[i].content)
  BY UseIdsIn
<1>3. /\ Apart(u) <=> /\ \A i \in 1..n : Once(u[i].content, "use")
                      /\ \A i, j \in 1..n : i # j => UseIds(u[i].content) \cap UseIds(u[j].content) = {}
      /\ Apart(v) <=> /\ \A i \in 1..(n + 1) : Once(v[i].content, "use")
                      /\ \A i, j \in 1..(n + 1) : i # j => UseIds(v[i].content) \cap UseIds(v[j].content) = {}
  BY <1>1 DEF Apart
<1> HIDE DEF v, n
<1>4. ASSUME Apart(v) PROVE Apart(u) /\ Once(x.content, "use") /\ UseIds(Blocks(u)) \cap UseIds(x.content) = {}
  <2>1. Apart(u)
    BY <1>1, <1>3, <1>4
  <2>2. Once(x.content, "use")
    BY <1>1, <1>3, <1>4
  <2>3. \A i \in 1..n : UseIds(u[i].content) \cap UseIds(x.content) = {}
    BY <1>1, <1>3, <1>4
  <2> QED BY <1>2, <2>1, <2>2, <2>3
<1>5. ASSUME Apart(u), Once(x.content, "use"), UseIds(Blocks(u)) \cap UseIds(x.content) = {}
      PROVE  Apart(v)
  <2>1. \A i \in 1..n : UseIds(u[i].content) \cap UseIds(x.content) = {}
    BY <1>2, <1>5
  <2>2. \A i \in 1..(n + 1) : Once(v[i].content, "use")
    BY <1>1, <1>3, <1>5
  <2>3. ASSUME NEW i \in 1..(n + 1), NEW j \in 1..(n + 1), i # j
        PROVE  UseIds(v[i].content) \cap UseIds(v[j].content) = {}
    BY <1>1, <1>3, <1>5, <2>1, <2>3
  <2> QED BY <1>3, <2>2, <2>3
<1> QED BY <1>4, <1>5 DEF v

LEMMA ApartIsOnce ==
  ASSUME NEW c \in Seq(Turn)
  PROVE  Once(Blocks(c), "use") <=> Apart(c)
<1> DEFINE Q == {u \in Seq(Turn) : Once(Blocks(u), "use") <=> Apart(u)}
<1>1. <<>> \in Q
  <2>1. Blocks(<<>>) = <<>> /\ <<>> \in Seq(Turn) /\ Len(<<>>) = 0 /\ 1..0 = {} /\ DOMAIN <<>> = {}
    BY BlocksNothing
  <2> QED BY <2>1 DEF Once, Apart
<1>2. ASSUME NEW u \in Seq(Turn), NEW x \in Turn, u \in Q PROVE Append(u, x) \in Q
  <2>1. Blocks(u) \in Seq(Block) /\ x.content \in Seq(Block) /\ Blocks(Append(u, x)) = Blocks(u) \o x.content
    BY BlocksTyped, TurnFields, BlocksOneMore
  <2>2. Once(Blocks(u) \o x.content, "use") <=>
          Once(Blocks(u), "use") /\ Once(x.content, "use") /\ UseIds(Blocks(u)) \cap UseIds(x.content) = {}
    BY <2>1, IdsOfKinds, OnceConcat
  <2>3. Once(Blocks(u), "use") <=> Apart(u)
    BY <1>2
  <2>4. Apart(Append(u, x)) <=>
          Apart(u) /\ Once(x.content, "use") /\ UseIds(Blocks(u)) \cap UseIds(x.content) = {}
    BY ApartAppend
  <2>5. Append(u, x) \in Seq(Turn)
    OBVIOUS
  <2> QED BY <2>1, <2>2, <2>3, <2>4, <2>5
<1> HIDE DEF Q
<1>3. c \in Q
  BY <1>1, <1>2, ByAppending
<1> QED BY <1>3 DEF Q

-----------------------------------------------------------------------------
(* What can be sent: what Validate asks for, and no turn is empty.         *)

Nonempty(c) == \A i \in 1..Len(c) : c[i].content # <<>>

Unasking(c) == c # <<>> /\ UseIds(Last(c).content) = {}

(* What a strategy is given and what it gives: a valid transcript, no turn *)
(* of which is empty.                                                      *)
Sendable(c) == c \in Seq(Turn) /\ Turns(c) /\ Apart(c) /\ Nonempty(c) /\ Unasking(c)

LEMMA SendableIsValid ==
  ASSUME NEW c, Sendable(c)
  PROVE  Validate(c)
<1>1. c \in Seq(Turn) /\ c # <<>> /\ Turns(c) /\ Apart(c)
  BY DEF Sendable, Unasking
<1>2. Once(Blocks(c), "use")
  BY <1>1, ApartIsOnce
<1> QED BY <1>1, <1>2 DEF Turns, Validate, Sendable, Unasking

(* A transcript, turn by turn. *)
TurnAt(c, i) ==
  /\ i = 1 => c[i].role = "user"
  /\ i # 1 => c[i].role # c[i - 1].role
  /\ UseIds(c[i].content) # {} => c[i].role = "assistant"
  /\ ResultIds(c[i].content) # {} => c[i].role = "user"
  /\ Once(c[i].content, "result")
  /\ ResultIds(c[i].content) = IF i = 1 THEN {} ELSE UseIds(c[i - 1].content)

LEMMA TurnsAt ==
  ASSUME NEW c \in Seq(Turn), c # <<>>
  PROVE  Turns(c) <=> \A i \in 1..Len(c) : TurnAt(c, i)
<1>1. Len(c) \in Nat /\ Len(c) >= 1 /\ 1 \in 1..Len(c) /\ DOMAIN c = 1..Len(c)
  OBVIOUS
<1>2. /\ \A i \in 2..Len(c) : i \in 1..Len(c) /\ i # 1
      /\ \A i \in 1..Len(c) : i # 1 => i \in 2..Len(c)
  BY <1>1
<1>3. ASSUME Turns(c), NEW i \in 1..Len(c) PROVE TurnAt(c, i)
  <2>1. Alternates(c) /\ RightRoles(c) /\ AnsweredNext(c)
    BY <1>3 DEF Turns
  <2>2. i = 1 => c[i].role = "user"
    BY <2>1 DEF Alternates
  <2>3. i # 1 => c[i].role # c[i - 1].role
    BY <1>2, <2>1 DEF Alternates
  <2>4. /\ UseIds(c[i].content) # {} => c[i].role = "assistant"
        /\ ResultIds(c[i].content) # {} => c[i].role = "user"
    BY <1>1, <2>1 DEF RightRoles
  <2>5. /\ Once(c[i].content, "result")
        /\ ResultIds(c[i].content) = IF i = 1 THEN {} ELSE UseIds(c[i - 1].content)
    BY <1>1, <2>1 DEF AnsweredNext
  <2> QED BY <2>2, <2>3, <2>4, <2>5 DEF TurnAt
<1>4. ASSUME \A i \in 1..Len(c) : TurnAt(c, i) PROVE Turns(c)
  <2>1. Alternates(c)
    <3>1. c[1].role = "user"
      BY <1>1, <1>4 DEF TurnAt
    <3>2. ASSUME NEW i \in 2..Len(c) PROVE c[i].role # c[i - 1].role
      BY <1>2, <1>4 DEF TurnAt
    <3> QED BY <3>1, <3>2 DEF Alternates
  <2>2. RightRoles(c)
    BY <1>1, <1>4 DEF RightRoles, TurnAt
  <2>3. AnsweredNext(c)
    BY <1>1, <1>4 DEF AnsweredNext, TurnAt
  <2> QED BY <2>1, <2>2, <2>3 DEF Turns
<1> QED BY <1>3, <1>4

(* The highest and the lowest of some places. *)
LEMMA HighestIs ==
  ASSUME NEW n \in Nat, NEW places \in SUBSET (1..n)
  PROVE  /\ Highest(places) \in 0..n
         /\ places # {} => Highest(places) \in places /\ \A j \in places : j <= Highest(places)
         /\ places = {} => Highest(places) = 0
<1>1. CASE places = {}
  BY <1>1 DEF Highest
<1>2. CASE places # {}
  <2> DEFINE M == {n - i : i \in places}
  <2>1. M \in SUBSET Nat /\ M # {}
    <3>1. \A i \in places : n - i \in Nat
      <4>1. \A i \in places : i \in Nat /\ i <= n
        OBVIOUS
      <4> QED BY <4>1
    <3> QED BY <1>2, <3>1
  <2>2. PICK m \in M : \A k \in M : m <= k
    BY <2>1, LeastNumber
  <2>3. PICK i \in places : m = n - i
    BY <2>2
  <2>4. \A j \in places : j <= i
    <3>1. ASSUME NEW j \in places PROVE j <= i
      <4>1. n - j \in M
        OBVIOUS
      <4>2. n - i <= n - j
        BY <2>2, <2>3, <4>1
      <4>3. i \in Nat /\ j \in Nat
        OBVIOUS
      <4> QED BY <4>2, <4>3
    <3> QED BY <3>1
  <2>5. Highest(places) = CHOOSE h \in places : \A j \in places : j <= h
    BY <1>2 DEF Highest
  <2>6. Highest(places) \in places /\ \A j \in places : j <= Highest(places)
    BY <2>4, <2>5
  <2>7. \A h \in places : h \in 0..n
    OBVIOUS
  <2> QED BY <1>2, <2>6, <2>7
<1> QED BY <1>1, <1>2

LEMMA LowestIs ==
  ASSUME NEW places \in SUBSET Nat, places # {}
  PROVE  Lowest(places) \in places /\ \A j \in places : Lowest(places) <= j
<1>1. \E i \in places : \A j \in places : i <= j
  BY LeastNumber
<1> QED BY <1>1 DEF Lowest

LEMMA SafeCutIs ==
  ASSUME NEW c \in Seq(Turn), c # <<>>, NEW want
  PROVE  /\ SafeCut(c, want) \in 0..(Len(c) - 1)
         /\ SafeCut(c, want) # 0 => /\ SafeCut(c, want) \in 1..(Len(c) - 1)
                                    /\ SafeCut(c, want) <= want /\ Fresh(c[SafeCut(c, want) + 1])
<1> DEFINE places == {i \in 1..(Len(c) - 1) : i <= want /\ Fresh(c[i + 1])}
<1>1. Len(c) - 1 \in Nat
  OBVIOUS
<1>2. places \in SUBSET (1..(Len(c) - 1)) /\ SafeCut(c, want) = Highest(places)
  BY DEF SafeCut
<1>3. ASSUME NEW i \in places PROVE i \in 1..(Len(c) - 1) /\ i <= want /\ Fresh(c[i + 1])
  OBVIOUS
<1> HIDE DEF places
<1>4. /\ Highest(places) \in 0..(Len(c) - 1)
      /\ places # {} => Highest(places) \in places
      /\ places = {} => Highest(places) = 0
  BY <1>1, <1>2, HighestIs
<1> QED BY <1>2, <1>3, <1>4

(* What is left of a cut. *)
LEMMA FromAt ==
  ASSUME NEW S, NEW c \in Seq(S), NEW cut \in 0..Len(c)
  PROVE  /\ From(c, cut) \in Seq(S) /\ Len(From(c, cut)) = Len(c) - cut
         /\ \A i \in 1..(Len(c) - cut) : cut + i \in 1..Len(c) /\ From(c, cut)[i] = c[cut + i]
         /\ cut = 0 => From(c, cut) = c
<1>0. Len(c) \in Nat /\ cut \in Nat /\ cut <= Len(c)
  OBVIOUS
<1>1. /\ SubSeq(c, cut + 1, Len(c)) \in Seq(S)
      /\ Len(SubSeq(c, cut + 1, Len(c))) = IF cut + 1 <= Len(c) THEN Len(c) - (cut + 1) + 1 ELSE 0
      /\ \A i \in 1..(Len(c) - (cut + 1) + 1) : SubSeq(c, cut + 1, Len(c))[i] = c[cut + 1 + i - 1]
  BY <1>0, SubSeqProperties
<1>2. Len(SubSeq(c, cut + 1, Len(c))) = Len(c) - cut
  BY <1>0, <1>1
<1>3. ASSUME NEW i \in 1..(Len(c) - cut)
      PROVE  cut + i \in 1..Len(c) /\ SubSeq(c, cut + 1, Len(c))[i] = c[cut + i]
  <2>1. cut + 1 + i - 1 = cut + i /\ Len(c) - (cut + 1) + 1 = Len(c) - cut /\ cut + i \in 1..Len(c)
    BY <1>0
  <2> QED BY <1>1, <2>1
<1>4. cut = 0 => SubSeq(c, cut + 1, Len(c)) = c
  <2>1. SubSeq(c, 1, Len(c)) = c
    BY SubSeqFull
  <2> QED BY <2>1
<1> QED BY <1>1, <1>2, <1>3, <1>4 DEF From

LEMMA CutIsSendable ==
  ASSUME NEW c, Sendable(c), NEW cut \in 1..(Len(c) - 1), Fresh(c[cut + 1])
  PROVE  Sendable(From(c, cut))
<1> DEFINE d == From(c, cut)
           n == Len(c) - cut
<1>0. c \in Seq(Turn) /\ c # <<>> /\ Turns(c) /\ Apart(c) /\ Nonempty(c) /\ UseIds(Last(c).content) = {}
  BY DEF Sendable, Unasking
<1>1. Len(c) \in Nat /\ cut \in Nat /\ n \in Nat /\ n >= 1 /\ cut \in 0..Len(c) /\ n \in 1..n
      /\ cut + n = Len(c) /\ 1 \in 1..n /\ cut + 1 \in 1..Len(c)
  BY <1>0
<1>2. d \in Seq(Turn) /\ Len(d) = n /\ \A i \in 1..n : cut + i \in 1..Len(c) /\ d[i] = c[cut + i]
  BY <1>0, <1>1, FromAt
<1> HIDE DEF d, n
<1>3. d # <<>>
  BY <1>1, <1>2
<1>4. \A i \in 1..Len(c) : TurnAt(c, i)
  BY <1>0, TurnsAt
<1>5. ASSUME NEW i \in 1..n PROVE TurnAt(d, i)
  <2>1. TurnAt(c, cut + i) /\ d[i] = c[cut + i]
    BY <1>2, <1>4
  <2>2. CASE i = 1
    <3>1. c[cut + 1].role = "user" /\ ResultIds(c[cut + 1].content) = {}
      BY DEF Fresh
    <3> QED BY <2>1, <2>2, <3>1 DEF TurnAt
  <2>3. CASE i # 1
    <3>1. i - 1 \in 1..n /\ cut + (i - 1) = (cut + i) - 1 /\ cut + i # 1
      BY <1>1, <2>3
    <3>2. d[i - 1] = c[(cut + i) - 1]
      BY <1>2, <3>1
    <3> QED BY <2>1, <2>3, <3>1, <3>2 DEF TurnAt
  <2> QED BY <2>2, <2>3
<1>6. Turns(d)
  BY <1>2, <1>3, <1>5, TurnsAt
<1>7. Nonempty(d)
  BY <1>0, <1>2 DEF Nonempty
<1>8. Apart(d)
  <2>1. \A i \in 1..n : Once(d[i].content, "use")
    BY <1>0, <1>2 DEF Apart
  <2>2. ASSUME NEW i \in 1..n, NEW j \in 1..n, i # j
        PROVE  UseIds(d[i].content) \cap UseIds(d[j].content) = {}
    <3>1. cut + i # cut + j
      BY <1>1, <2>2
    <3> QED BY <1>0, <1>2, <3>1 DEF Apart
  <2> QED BY <1>2, <2>1, <2>2 DEF Apart
<1>9. Last(d) = Last(c)
  BY <1>1, <1>2 DEF Last
<1> QED BY <1>0, <1>2, <1>3, <1>6, <1>7, <1>8, <1>9 DEF Sendable, Unasking, d

(* Text more or less changes nothing. *)
SameCalls(a, b) ==
  /\ UseIds(a) = UseIds(b) /\ ResultIds(a) = ResultIds(b)
  /\ Once(a, "use") <=> Once(b, "use")
  /\ Once(a, "result") <=> Once(b, "result")

LEMMA RetextIsSendable ==
  ASSUME NEW c, Sendable(c), NEW d \in Seq(Turn), Len(d) = Len(c),
         \A i \in 1..Len(c) : d[i].role = c[i].role /\ SameCalls(d[i].content, c[i].content),
         Nonempty(d)
  PROVE  Sendable(d)
<1> DEFINE n == Len(c)
<1>0. c \in Seq(Turn) /\ c # <<>> /\ Turns(c) /\ Apart(c) /\ UseIds(Last(c).content) = {}
  BY DEF Sendable, Unasking
<1>1. n \in Nat /\ n >= 1 /\ n \in 1..n /\ d # <<>>
  BY <1>0
<1> HIDE DEF n
<1>2. \A i \in 1..n : d[i].role = c[i].role /\ SameCalls(d[i].content, c[i].content)
  BY DEF n
<1>3. Turns(d)
  <2>1. ASSUME NEW i \in 1..n PROVE TurnAt(d, i)
    <3>1. TurnAt(c, i) /\ (i # 1 => i - 1 \in 1..n)
      BY <1>0, <1>1, TurnsAt DEF n
    <3> QED BY <1>2, <3>1 DEF TurnAt, SameCalls
  <2> QED BY <1>1, <2>1, TurnsAt DEF n
<1>4. Apart(d)
  BY <1>0, <1>2 DEF Apart, SameCalls, n
<1>5. UseIds(Last(d).content) = {}
  BY <1>0, <1>1, <1>2 DEF Last, n, SameCalls
<1> QED BY <1>1, <1>3, <1>4, <1>5 DEF Sendable, Unasking

-----------------------------------------------------------------------------
(* A strategy serves the transcript if what it returns can be sent and is  *)
(* drawn from the transcript, text aside.                                  *)

(* Text is put before a turn or after it. *)
LEMMA TextAround ==
  ASSUME NEW b \in Seq(Block)
  PROVE  /\ <<Text>> \o b \in Seq(Block) /\ <<Text>> \o b # <<>> /\ SameCalls(<<Text>> \o b, b)
         /\ ToSet(<<Text>> \o b) = {Text} \cup ToSet(b)
         /\ Append(b, Text) \in Seq(Block) /\ Append(b, Text) # <<>> /\ SameCalls(Append(b, Text), b)
         /\ ToSet(Append(b, Text)) = ToSet(b) \cup {Text}
<1> DEFINE w == <<Text>>
<1>1. /\ w \in Seq(Block) /\ w # <<>> /\ UseIds(w) = {} /\ ResultIds(w) = {}
      /\ Once(w, "result") /\ Once(w, "use")
  BY TextOnly
<1>2. ToSet(w) = {Text} /\ Len(w) = 1 /\ Append(b, Text) = b \o w
  <2>1. Text \in Block
    BY DEF Text, Block
  <2>2. ToSet(w) = {Text}
    BY DEF ToSet
  <2>3. Append(b, Text) = b \o w
    BY <2>1, AppendIsConcat
  <2> QED BY <2>2, <2>3
<1> HIDE DEF w
<1>3. IdsOf(w, "use") = {} /\ IdsOf(w, "result") = {}
  BY <1>1, IdsOfKinds
<1>4. w \o b \in Seq(Block) /\ b \o w \in Seq(Block) /\ w \o b # <<>> /\ b \o w # <<>>
  <2>1. Len(b) \in Nat /\ Len(w \o b) = 1 + Len(b) /\ Len(b \o w) = Len(b) + 1
        /\ w \o b \in Seq(Block) /\ b \o w \in Seq(Block)
    BY <1>1, <1>2, ConcatAt
  <2> QED BY <2>1
<1>5. SameCalls(w \o b, b)
  <2>0. UseIds(w \o b) = UseIds(w) \cup UseIds(b) /\ ResultIds(w \o b) = ResultIds(w) \cup ResultIds(b)
    BY <1>1, IdsConcat
  <2>1. UseIds(w \o b) = UseIds(b) /\ ResultIds(w \o b) = ResultIds(b)
    BY <1>1, <2>0
  <2>2. ASSUME NEW kind \in {"use", "result"} PROVE Once(w \o b, kind) <=> Once(b, kind)
    <3>1. Once(w, kind) /\ IdsOf(w, kind) = {}
      BY <1>1, <1>3
    <3>2. Once(w \o b, kind) <=> Once(w, kind) /\ Once(b, kind) /\ IdsOf(w, kind) \cap IdsOf(b, kind) = {}
      BY <1>1, OnceConcat
    <3> QED BY <3>1, <3>2
  <2> QED BY <2>1, <2>2 DEF SameCalls
<1>6. SameCalls(b \o w, b)
  <2>0. UseIds(b \o w) = UseIds(b) \cup UseIds(w) /\ ResultIds(b \o w) = ResultIds(b) \cup ResultIds(w)
    BY <1>1, IdsConcat
  <2>1. UseIds(b \o w) = UseIds(b) /\ ResultIds(b \o w) = ResultIds(b)
    BY <1>1, <2>0
  <2>2. ASSUME NEW kind \in {"use", "result"} PROVE Once(b \o w, kind) <=> Once(b, kind)
    <3>1. Once(w, kind) /\ IdsOf(w, kind) = {}
      BY <1>1, <1>3
    <3>2. Once(b \o w, kind) <=> Once(b, kind) /\ Once(w, kind) /\ IdsOf(b, kind) \cap IdsOf(w, kind) = {}
      BY <1>1, OnceConcat
    <3> QED BY <3>1, <3>2
  <2> QED BY <2>1, <2>2 DEF SameCalls
<1>7. ToSet(w \o b) = {Text} \cup ToSet(b) /\ ToSet(b \o w) = ToSet(b) \cup {Text}
  BY <1>1, <1>2, ToSetConcat
<1> QED BY <1>2, <1>4, <1>5, <1>6, <1>7 DEF w

(* One turn of a transcript with other blocks. *)
Retexted(c, k, b) == [c EXCEPT ![k].content = b]

LEMMA OneRetexted ==
  ASSUME NEW c, Sendable(c), NEW k \in 1..Len(c), NEW b \in Seq(Block), b # <<>>,
         SameCalls(b, c[k].content), NEW d, d = Retexted(c, k, b)
  PROVE  /\ Sendable(d) /\ Len(d) = Len(c)
         /\ \A i \in 1..Len(c) : i # k => d[i] = c[i]
         /\ d[k].content = b /\ d[k].role = c[k].role
<1>1. c \in Seq(Turn) /\ Nonempty(c) /\ Len(c) \in Nat
  BY DEF Sendable
<1>2. PICK r \in {"user", "assistant"}, z \in Seq(Block) : c[k] = [role |-> r, content |-> z]
  <2>1. c[k] \in Turn
    BY <1>1
  <2> QED BY <2>1 DEF Turn
<1> DEFINE e == [role |-> r, content |-> b]
<1>3. d = [c EXCEPT ![k] = e]
  <2>1. [c[k] EXCEPT !.content = b] = e
    BY <1>2
  <2> QED BY <2>1 DEF Retexted
<1>4. e \in Turn /\ e.role = c[k].role /\ e.content = b
  BY <1>2 DEF Turn
<1> HIDE DEF e
<1>5. d \in Seq(Turn) /\ Len(d) = Len(c) /\ d[k] = e /\ \A i \in 1..Len(c) : i # k => d[i] = c[i]
  <2>1. /\ [c EXCEPT ![k] = e] \in Seq(Turn) /\ Len([c EXCEPT ![k] = e]) = Len(c)
        /\ \A i \in 1..Len(c) : [c EXCEPT ![k] = e][i] = IF i = k THEN e ELSE c[i]
    BY <1>1, <1>4, ExceptSeq
  <2> QED BY <1>3, <2>1
<1>6. \A i \in 1..Len(c) : d[i].role = c[i].role /\ SameCalls(d[i].content, c[i].content)
  <2>1. ASSUME NEW i \in 1..Len(c) PROVE d[i].role = c[i].role /\ SameCalls(d[i].content, c[i].content)
    <3>1. CASE i = k
      BY <1>4, <1>5, <3>1
    <3>2. CASE i # k
      BY <1>5, <3>2 DEF SameCalls
    <3> QED BY <3>1, <3>2
  <2> QED BY <2>1
<1>7. Nonempty(d)
  BY <1>1, <1>4, <1>5 DEF Nonempty
<1>8. Sendable(d)
  BY <1>5, <1>6, <1>7, RetextIsSendable
<1> QED BY <1>4, <1>5, <1>8

(* Nothing is made up but text. *)
Drawn(d, c) == \A b : b \in ToSet(Blocks(d)) => b \in ToSet(Blocks(c)) \/ b = Text

LEMMA DrawnByTurn ==
  ASSUME NEW c \in Seq(Turn), NEW d \in Seq(Turn),
         \A i \in 1..Len(d) : \E j \in 1..Len(c) : ToSet(d[i].content) \subseteq ToSet(c[j].content) \cup {Text}
  PROVE  Drawn(d, c)
<1>1. ASSUME NEW b, b \in ToSet(Blocks(d)) PROVE b \in ToSet(Blocks(c)) \/ b = Text
  <2>1. PICK i \in 1..Len(d) : b \in ToSet(d[i].content)
    BY <1>1, BlocksIn DEF InTurns
  <2>2. PICK j \in 1..Len(c) : ToSet(d[i].content) \subseteq ToSet(c[j].content) \cup {Text}
    OBVIOUS
  <2>3. CASE b \in ToSet(c[j].content)
    <3>1. InTurns(b, c)
      BY <2>3 DEF InTurns
    <3> QED BY <3>1, BlocksIn
  <2> QED BY <2>1, <2>2, <2>3
<1> QED BY <1>1 DEF Drawn

LEMMA DrawnOn ==
  ASSUME NEW c, NEW d, NEW e, Drawn(d, c), Drawn(e, d)
  PROVE  Drawn(e, c)
BY DEF Drawn

LEMMA DrawnSelf == \A c : Drawn(c, c)
BY DEF Drawn

(* What a step of a strategy owes. *)
Serves(d, c) == Sendable(d) /\ Drawn(d, c)

LEMMA CutServes ==
  ASSUME NEW c, Sendable(c), NEW want
  PROVE  Serves(From(c, SafeCut(c, want)), c)
<1> DEFINE cut == SafeCut(c, want)
<1>1. c \in Seq(Turn) /\ c # <<>> /\ Len(c) \in Nat
  BY DEF Sendable, Unasking
<1>2. /\ cut \in 0..(Len(c) - 1)
      /\ cut # 0 => cut \in 1..(Len(c) - 1) /\ Fresh(c[cut + 1])
  BY <1>1, SafeCutIs
<1> HIDE DEF cut
<1>3. cut \in 0..Len(c)
  BY <1>1, <1>2
<1>4. /\ From(c, cut) \in Seq(Turn) /\ Len(From(c, cut)) = Len(c) - cut
      /\ \A i \in 1..(Len(c) - cut) : cut + i \in 1..Len(c) /\ From(c, cut)[i] = c[cut + i]
      /\ cut = 0 => From(c, cut) = c
  BY <1>1, <1>3, FromAt
<1>5. Sendable(From(c, cut))
  BY <1>2, <1>4, CutIsSendable
<1>6. Drawn(From(c, cut), c)
  <2> DEFINE d == From(c, cut)
  <2>1. \A i \in 1..Len(d) : cut + i \in 1..Len(c) /\ d[i] = c[cut + i]
    BY <1>4
  <2>2. d \in Seq(Turn)
    BY <1>4
  <2> HIDE DEF d
  <2>3. ASSUME NEW i \in 1..Len(d)
        PROVE  \E j \in 1..Len(c) : ToSet(d[i].content) \subseteq ToSet(c[j].content) \cup {Text}
    BY <2>1
  <2>4. Drawn(d, c)
    BY <1>1, <2>2, <2>3, DrawnByTurn
  <2> QED BY <2>4 DEF d
<1> QED BY <1>5, <1>6 DEF Serves, cut

LEMMA SelfServes ==
  ASSUME NEW c, Sendable(c)
  PROVE  Serves(c, c)
BY DrawnSelf DEF Serves

LEMMA RetextServes ==
  ASSUME NEW c, Sendable(c), NEW k \in 1..Len(c), NEW b \in Seq(Block), b # <<>>,
         SameCalls(b, c[k].content), ToSet(b) \subseteq ToSet(c[k].content) \cup {Text},
         NEW d, d = Retexted(c, k, b)
  PROVE  Serves(d, c)
<1>1. /\ Sendable(d) /\ Len(d) = Len(c)
      /\ \A i \in 1..Len(c) : i # k => d[i] = c[i]
      /\ d[k].content = b
  BY OneRetexted
<1>2. c \in Seq(Turn) /\ d \in Seq(Turn)
  BY <1>1 DEF Sendable
<1>3. ASSUME NEW i \in 1..Len(d)
      PROVE  \E j \in 1..Len(c) : ToSet(d[i].content) \subseteq ToSet(c[j].content) \cup {Text}
  <2>1. i \in 1..Len(c)
    BY <1>1
  <2>2. ToSet(d[i].content) \subseteq ToSet(c[i].content) \cup {Text}
    BY <1>1, <2>1
  <2> QED BY <2>1, <2>2
<1>4. Drawn(d, c)
  BY <1>2, <1>3, DrawnByTurn
<1> QED BY <1>1, <1>4 DEF Serves

LEMMA PrependServes ==
  ASSUME NEW c, Sendable(c)
  PROVE  Serves(Prepend(c, User(<<Text>>)), c)
<1>1. c \in Seq(Turn) /\ c # <<>> /\ Turns(c) /\ 1 \in 1..Len(c)
  BY DEF Sendable, Unasking
<1>2. c[1].role = "user" /\ c[1].content \in Seq(Block)
  BY <1>1, TurnFields DEF Turns, Alternates
<1>3. User(<<Text>>).role = "user" /\ User(<<Text>>).content = <<Text>>
  BY DEF User
<1> DEFINE b == <<Text>> \o c[1].content
<1>4. Prepend(c, User(<<Text>>)) = Retexted(c, 1, b)
  BY <1>1, <1>2, <1>3 DEF Prepend, Retexted
<1>5. /\ b \in Seq(Block) /\ b # <<>> /\ SameCalls(b, c[1].content)
      /\ ToSet(b) \subseteq ToSet(c[1].content) \cup {Text}
  BY <1>2, TextAround
<1> HIDE DEF b
<1> QED BY <1>1, <1>4, <1>5, RetextServes

LEMMA NoticeServes ==
  ASSUME NEW c, Sendable(c)
  PROVE  Serves(WithNotice(c), c)
<1>1. c \in Seq(Turn) /\ c # <<>> /\ Len(c) \in 1..Len(c)
  BY DEF Sendable, Unasking
<1>2. c[Len(c)].content \in Seq(Block)
  BY <1>1, TurnFields
<1> DEFINE b == Append(c[Len(c)].content, Text)
<1>3. /\ b \in Seq(Block) /\ b # <<>> /\ SameCalls(b, c[Len(c)].content)
      /\ ToSet(b) \subseteq ToSet(c[Len(c)].content) \cup {Text}
  BY <1>2, TextAround
<1>4. WithNotice(c) = c \/ WithNotice(c) = Retexted(c, Len(c), b)
  BY DEF WithNotice, Retexted
<1> HIDE DEF b
<1>5. ASSUME WithNotice(c) = Retexted(c, Len(c), b) PROVE Serves(WithNotice(c), c)
  BY <1>1, <1>3, <1>5, RetextServes
<1> QED BY <1>4, <1>5, SelfServes

-----------------------------------------------------------------------------
(* Dropping calls with their results: normalize, and what it leaves.       *)

(* The blocks left when some calls are dropped. *)
LEMMA WithoutIs ==
  ASSUME NEW b \in Seq(Block), NEW ids
  PROVE  /\ Without(b, ids) \in Seq(Block) /\ ToSet(Without(b, ids)) \subseteq ToSet(b)
         /\ UseIds(Without(b, ids)) = UseIds(b) \ ids
         /\ ResultIds(Without(b, ids)) = ResultIds(b) \ ids
         /\ \A kind : Once(b, kind) => Once(Without(b, ids), kind)
         /\ b # <<>> /\ UseIds(b) = {} /\ ResultIds(b) = {} => Without(b, ids) # <<>>
<1> DEFINE T == {x \in ToSet(b) : x.kind = "text" \/ x.id \notin ids}
           v == Without(b, ids)
<1>1. v = Only(b, T)
  BY DEF Without
<1>2. T \subseteq ToSet(b) /\ \A x \in ToSet(b) : x \in T <=> x.kind = "text" \/ x.id \notin ids
  OBVIOUS
<1> HIDE DEF T, v
<1>3. v \in Seq(Block) /\ KeptFrom(b, v, T)
  BY <1>1, OnlyMembers
<1>4. ToSet(v) = T
  BY <1>2, <1>3 DEF KeptFrom
<1>5. UseIds(v) = UseIds(b) \ ids
  BY <1>2, <1>4 DEF UseIds, OfKind
<1>6. ResultIds(v) = ResultIds(b) \ ids
  BY <1>2, <1>4 DEF ResultIds, OfKind
<1>7. ASSUME NEW kind, Once(b, kind) PROVE Once(v, kind)
  <2>1. PICK h \in [1..Len(v) -> 1..Len(b)] :
          /\ \A i, j \in 1..Len(v) : h[i] = h[j] => i = j
          /\ \A i \in 1..Len(v) : v[i] = b[h[i]]
    BY <1>3 DEF KeptFrom
  <2>2. \A i, j \in 1..Len(b) : b[i].kind = kind /\ b[j].kind = kind /\ b[i].id = b[j].id => i = j
    BY <1>7, OnceAt
  <2>3. ASSUME NEW i \in 1..Len(v), NEW j \in 1..Len(v),
               v[i].kind = kind, v[j].kind = kind, v[i].id = v[j].id
        PROVE  i = j
    <3>1. h[i] \in 1..Len(b) /\ h[j] \in 1..Len(b) /\ v[i] = b[h[i]] /\ v[j] = b[h[j]]
      BY <2>1
    <3>2. h[i] = h[j]
      BY <2>2, <2>3, <3>1
    <3> QED BY <2>1, <3>2
  <2> QED BY <1>3, <2>3, OnceAt
<1>8. ASSUME b # <<>>, UseIds(b) = {}, ResultIds(b) = {} PROVE v # <<>>
  <2>1. 1 \in 1..Len(b) /\ b[1] \in Block
    BY <1>8
  <2>2. b[1].kind # "use" /\ b[1].kind # "result"
    BY <1>8, <2>1, NoneAt
  <2>3. b[1].kind = "text"
    BY <2>1, <2>2, BlockFields
  <2>4. b[1] \in ToSet(v)
    <3>1. b[1] \in ToSet(b)
      BY <2>1, InSet
    <3> QED BY <1>2, <1>4, <2>3, <3>1
  <2>5. \E i \in 1..Len(v) : v[i] = b[1]
    BY <1>3, <2>4, InSet
  <2>6. Len(v) # 0
    BY <2>5
  <2> QED BY <2>6
<1> QED BY <1>2, <1>3, <1>4, <1>5, <1>6, <1>7, <1>8 DEF v

-----------------------------------------------------------------------------
(* Merged, one turn at a time. *)

Merges(s, n, f) == f = [i \in 0..n |-> IF i = 0 THEN <<>> ELSE Push(f[i - 1], s[i])]

LEMMA MergesExists ==
  ASSUME NEW s
  PROVE  \A n \in Nat : \E f : Merges(s, n, f)
<1> DEFINE N == {n \in Nat : \E f : Merges(s, n, f)}
<1>1. 0 \in N
  <2>1. Merges(s, 0, [i \in 0..0 |-> <<>>])
    BY DEF Merges
  <2> QED BY <2>1
<1>2. ASSUME NEW n \in Nat, n \in N PROVE n + 1 \in N
  <2>1. PICK f : Merges(s, n, f)
    BY <1>2
  <2> DEFINE g == [i \in 0..(n + 1) |-> IF i = 0 THEN <<>> ELSE Push(f[i - 1], s[i])]
  <2>2. \A i \in 0..n : g[i] = f[i]
    BY <2>1 DEF Merges
  <2>3. g = [i \in 0..(n + 1) |-> IF i = 0 THEN <<>> ELSE Push(g[i - 1], s[i])]
    <3>1. \A i \in 0..(n + 1) : i # 0 => i - 1 \in 0..n
      OBVIOUS
    <3> QED BY <2>2, <3>1
  <2>4. Merges(s, n + 1, g)
    BY <2>3 DEF Merges
  <2> QED BY <2>4
<1> HIDE DEF N
<1>3. \A n \in Nat : n \in N
  BY <1>1, <1>2, Inductively
<1> QED BY <1>3 DEF N

LEMMA MergedSteps ==
  ASSUME NEW s, Len(s) \in Nat
  PROVE  \E f : /\ Merged(s) = f[Len(s)] /\ f[0] = <<>>
                /\ \A i \in 1..Len(s) : f[i] = Push(f[i - 1], s[i])
<1> DEFINE f == CHOOSE f : Merges(s, Len(s), f)
<1>1. Merges(s, Len(s), f)
  BY MergesExists
<1>2. Merged(s) = f[Len(s)]
  BY DEF Merged, Merges
<1> HIDE DEF f
<1>3. f[0] = <<>> /\ \A i \in 1..Len(s) : f[i] = Push(f[i - 1], s[i])
  BY <1>1 DEF Merges
<1> QED BY <1>2, <1>3

(* A turn that answers the calls of the last, and asks with ids of its own,*)
(* merged or not.                                                          *)
Chained(m) == m \in Seq(Turn) /\ m # <<>> /\ Turns(m) /\ Nonempty(m) /\ Apart(m)

LEMMA PushChains ==
  ASSUME NEW m, Chained(m), NEW x \in Turn,
         UseIds(x.content) # {} => x.role = "assistant",
         ResultIds(x.content) # {} => x.role = "user",
         Once(x.content, "result"), Once(x.content, "use"),
         ResultIds(x.content) = UseIds(Last(m).content),
         UseIds(Blocks(m)) \cap UseIds(x.content) = {}
  PROVE  /\ Chained(Push(m, x)) /\ UseIds(Last(Push(m, x)).content) = UseIds(x.content)
         /\ Blocks(Push(m, x)) = Blocks(m) \o x.content
<1> DEFINE p == Push(m, x)
<1>0. m \in Seq(Turn) /\ m # <<>> /\ Turns(m) /\ Nonempty(m) /\ Apart(m)
  BY DEF Chained
<1>1. p \in Seq(Turn) /\ Blocks(p) = Blocks(m) \o x.content
  BY <1>0, PushBlocks
<1>2. Blocks(m) \in Seq(Block) /\ x.content \in Seq(Block)
  BY <1>0, BlocksTyped, TurnFields
<1> HIDE DEF p
<1>3. Apart(p)
  <2>1. Once(Blocks(m), "use")
    BY <1>0, ApartIsOnce
  <2>2. IdsOf(Blocks(m), "use") \cap IdsOf(x.content, "use") = {}
    BY <1>2, IdsOfKinds
  <2>3. Once(Blocks(m) \o x.content, "use")
    BY <1>2, <2>1, <2>2, OnceConcat
  <2> QED BY <1>1, <2>3, ApartIsOnce
<1>4. CASE x.content = <<>>
  <2>1. p = m
    BY <1>4, PushNothing DEF p
  <2>2. UseIds(x.content) = {} /\ ResultIds(x.content) = {}
    BY <1>4 DEF UseIds, ResultIds, OfKind, ToSet
  <2> QED BY <1>0, <1>1, <2>1, <2>2 DEF Chained, p
<1>5. CASE x.content # <<>>
  <2>1. PICK d \in Seq(Turn), l \in Turn : m = Append(d, l)
    BY <1>0, SequenceEmptyOrAppend
  <2>2. Turns(d) /\ Fits(d, l) /\ Last(m) = l
    BY <1>0, <2>1, TurnsAppend DEF Last
  <2>3. l.content \in Seq(Block) /\ l.role \in {"user", "assistant"} /\ x.role \in {"user", "assistant"}
    BY TurnFields
  <2>4. /\ UseIds(l.content) # {} => l.role = "assistant"
        /\ ResultIds(l.content) # {} => l.role = "user"
        /\ Once(l.content, "result") /\ ResultIds(l.content) = Asked(d)
        /\ IF d = <<>> THEN l.role = "user" ELSE l.role # Last(d).role
    BY <2>2 DEF Fits
  <2>5. ASSUME NEW q \in Seq(Turn), NEW y \in Turn, p = Append(q, y), Turns(p),
               y.content # <<>>, Nonempty(q), UseIds(y.content) = UseIds(x.content)
        PROVE  Chained(p) /\ UseIds(Last(p).content) = UseIds(x.content)
    <3>1. /\ Len(p) = Len(q) + 1 /\ p[Len(q) + 1] = y /\ p # <<>> /\ Last(p) = y
          /\ (\A i \in 1..Len(q) : p[i] = q[i]) /\ \A i \in 1..(Len(q) + 1) : i \in 1..Len(q) \/ i = Len(q) + 1
      BY <2>5 DEF Last
    <3>2. Nonempty(p)
      BY <2>5, <3>1 DEF Nonempty
    <3> QED BY <1>1, <1>3, <2>5, <3>1, <3>2 DEF Chained
  <2>6. CASE l.role # x.role
    <3>1. p = Append(m, x)
      BY <1>5, <2>1, <2>6, PushOne DEF p
    <3>2. Fits(m, x)
      <4>1. Asked(m) = UseIds(Last(m).content)
        BY <1>0 DEF Asked
      <4> QED BY <1>0, <2>2, <2>6, <4>1 DEF Fits
    <3>3. Turns(p)
      BY <1>0, <3>1, <3>2, TurnsAppend
    <3> QED BY <1>0, <1>1, <1>5, <2>5, <3>1, <3>3 DEF p
  <2>7. CASE l.role = x.role
    <3> DEFINE e == [role |-> l.role, content |-> l.content \o x.content]
    <3>1. p = Append(d, e)
      BY <1>5, <2>1, <2>7, PushJoins DEF p
    <3>2. UseIds(l.content) = {} /\ ResultIds(x.content) = {}
      BY <2>2, <2>4, <2>7
    <3>3. e.role = l.role /\ e.content = l.content \o x.content
      OBVIOUS
    <3>4. e \in Turn /\ e.content # <<>>
      <4>1. l.content \o x.content \in Seq(Block) /\ l.content \o x.content # <<>>
        <5>1. /\ l.content \o x.content \in Seq(Block) /\ Len(l.content) \in Nat /\ Len(x.content) \in Nat
              /\ Len(l.content \o x.content) = Len(l.content) + Len(x.content)
          BY <1>2, <2>3, ConcatAt
        <5>2. Len(x.content) # 0
          BY <1>2, <1>5
        <5> QED BY <5>1, <5>2
      <4> QED BY <2>3, <4>1 DEF Turn
    <3> HIDE DEF e
    <3>5. /\ UseIds(e.content) = UseIds(l.content) \cup UseIds(x.content)
          /\ ResultIds(e.content) = ResultIds(l.content) \cup ResultIds(x.content)
      BY <1>2, <2>3, <3>3, IdsConcat
    <3>6. Once(e.content, "result")
      <4>1. IdsOf(x.content, "result") = {}
        BY <1>2, <3>2, IdsOfKinds
      <4>2. Once(l.content \o x.content, "result") <=>
              /\ Once(l.content, "result") /\ Once(x.content, "result")
              /\ IdsOf(l.content, "result") \cap IdsOf(x.content, "result") = {}
        BY <1>2, <2>3, OnceConcat
      <4> QED BY <2>4, <3>3, <4>1, <4>2
    <3>7. Fits(d, e)
      BY <2>4, <2>7, <3>2, <3>3, <3>5, <3>6 DEF Fits
    <3>8. Turns(p)
      BY <2>2, <3>1, <3>4, <3>7, TurnsAppend
    <3>9. Nonempty(d)
      <4>1. \A i \in 1..Len(d) : i \in 1..Len(m) /\ m[i] = d[i]
        BY <2>1
      <4> QED BY <1>0, <4>1 DEF Nonempty
    <3> QED BY <1>1, <2>5, <3>1, <3>2, <3>4, <3>5, <3>8, <3>9 DEF p
  <2> QED BY <2>6, <2>7
<1> QED BY <1>4, <1>5

Fewer(c, ids) == [i \in DOMAIN c |-> [c[i] EXCEPT !.content = Without(@, ids)]]

LEMMA FewerAt ==
  ASSUME NEW c, Sendable(c), NEW ids
  PROVE  /\ Fewer(c, ids) \in Seq(Turn) /\ Len(Fewer(c, ids)) = Len(c)
         /\ \A i \in 1..Len(c) : /\ Fewer(c, ids)[i].role = c[i].role
                                 /\ Fewer(c, ids)[i].content = Without(c[i].content, ids)
<1>1. c \in Seq(Turn) /\ DOMAIN c = 1..Len(c) /\ Len(c) \in Nat
  BY DEF Sendable
<1>2. ASSUME NEW i \in 1..Len(c)
      PROVE  LET x == [c[i] EXCEPT !.content = Without(@, ids)]
             IN  x \in Turn /\ x.role = c[i].role /\ x.content = Without(c[i].content, ids)
  <2>1. PICK r \in {"user", "assistant"}, z \in Seq(Block) : c[i] = [role |-> r, content |-> z]
    <3>1. c[i] \in Turn
      BY <1>1
    <3> QED BY <3>1 DEF Turn
  <2>2. Without(z, ids) \in Seq(Block)
    BY WithoutIs
  <2>3. [c[i] EXCEPT !.content = Without(@, ids)] = [role |-> r, content |-> Without(z, ids)]
    BY <2>1
  <2>4. [role |-> r, content |-> Without(z, ids)] \in Turn
    BY <2>2 DEF Turn
  <2> QED BY <2>1, <2>3, <2>4
<1> DEFINE F == [i \in 1..Len(c) |-> [c[i] EXCEPT !.content = Without(@, ids)]]
<1>3. Fewer(c, ids) = F
  BY <1>1 DEF Fewer
<1>4. F \in [1..Len(c) -> Turn]
  BY <1>2
<1>5. \A i \in 1..Len(c) : F[i].role = c[i].role /\ F[i].content = Without(c[i].content, ids)
  BY <1>2
<1> HIDE DEF F
<1>6. F \in Seq(Turn) /\ Len(F) = Len(c)
  BY <1>1, <1>4, ListOf
<1> QED BY <1>3, <1>5, <1>6

(* Merging what is left, as far as turn i of c. *)
MergedTo(c, ids, i, m) ==
  /\ Chained(m) /\ UseIds(Last(m).content) = UseIds(Fewer(c, ids)[i].content)
  /\ \A b : b \in ToSet(Blocks(m)) => \E j \in 1..i : b \in ToSet(c[j].content)

(* What is left of one turn. *)
LeftOf(x, c, ids, i) ==
  /\ x \in Turn /\ x.role = c[i].role /\ ToSet(x.content) \subseteq ToSet(c[i].content)
  /\ UseIds(x.content) # {} => x.role = "assistant"
  /\ ResultIds(x.content) # {} => x.role = "user"
  /\ Once(x.content, "result") /\ Once(x.content, "use")
  /\ UseIds(x.content) = UseIds(c[i].content) \ ids
  /\ ResultIds(x.content) = IF i = 1 THEN {} ELSE UseIds(c[i - 1].content) \ ids
  /\ i = 1 => x.content # <<>>

LEMMA FewerTurn ==
  ASSUME NEW c, Sendable(c), NEW ids, NEW i \in 1..Len(c)
  PROVE  LeftOf(Fewer(c, ids)[i], c, ids, i)
<1> DEFINE x == Fewer(c, ids)[i]
<1>1. c \in Seq(Turn) /\ c # <<>> /\ Turns(c) /\ Apart(c) /\ Nonempty(c)
  BY DEF Sendable, Unasking
<1>2. TurnAt(c, i) /\ c[i].content \in Seq(Block) /\ Once(c[i].content, "use") /\ c[i].content # <<>>
  BY <1>1, TurnsAt, TurnFields DEF Apart, Nonempty
<1>3. x \in Turn /\ x.role = c[i].role /\ x.content = Without(c[i].content, ids)
  <2>1. Fewer(c, ids) \in Seq(Turn) /\ Len(Fewer(c, ids)) = Len(c)
    BY FewerAt
  <2>2. Fewer(c, ids)[i].role = c[i].role /\ Fewer(c, ids)[i].content = Without(c[i].content, ids)
    BY FewerAt
  <2> QED BY <2>1, <2>2
<1> HIDE DEF x
<1>4. /\ ToSet(x.content) \subseteq ToSet(c[i].content)
      /\ UseIds(x.content) = UseIds(c[i].content) \ ids
      /\ ResultIds(x.content) = ResultIds(c[i].content) \ ids
      /\ \A kind : Once(c[i].content, kind) => Once(x.content, kind)
      /\ UseIds(c[i].content) = {} /\ ResultIds(c[i].content) = {} => x.content # <<>>
  BY <1>2, <1>3, WithoutIs
<1>5. i = 1 => UseIds(c[i].content) = {} /\ ResultIds(c[i].content) = {}
  BY <1>2 DEF TurnAt
<1> QED BY <1>2, <1>3, <1>4, <1>5 DEF TurnAt, LeftOf, x

LEMMA MergedStart ==
  ASSUME NEW c, Sendable(c), NEW ids
  PROVE  MergedTo(c, ids, 1, Push(<<>>, Fewer(c, ids)[1]))
<1> DEFINE x == Fewer(c, ids)[1]
<1>1. c \in Seq(Turn) /\ c # <<>> /\ Turns(c) /\ 1 \in 1..Len(c) /\ c[1].role = "user"
  BY DEF Sendable, Unasking, Turns, Alternates
<1>2. /\ x \in Turn /\ x.role = "user" /\ ToSet(x.content) \subseteq ToSet(c[1].content)
      /\ Once(x.content, "result") /\ Once(x.content, "use")
      /\ ResultIds(x.content) = {} /\ x.content # <<>>
      /\ UseIds(x.content) # {} => x.role = "assistant"
  <2>1. LeftOf(x, c, ids, 1)
    BY <1>1, FewerTurn
  <2> HIDE DEF x
  <2> QED BY <1>1, <2>1 DEF LeftOf
<1> HIDE DEF x
<1> DEFINE m == Append(<<>>, x)
<1>3. Push(<<>>, x) = m
  BY <1>2 DEF Push
<1>4. /\ <<>> \in Seq(Turn) /\ m \in Seq(Turn) /\ m # <<>> /\ Len(m) = 1 /\ m[1] = x /\ Last(m) = x
      /\ \A i \in 1..1 : i = 1
  BY <1>2 DEF Last
<1>5. Turns(m)
  <2>1. Turns(<<>>) /\ Fits(<<>>, x)
    BY <1>2 DEF Turns, Fits, Asked
  <2> QED BY <1>2, <1>4, <2>1, TurnsAppend
<1>6. Blocks(m) = x.content
  <2>1. Blocks(m) = Blocks(<<>>) \o x.content
    BY <1>2, <1>4, BlocksOneMore
  <2>2. <<>> \o x.content = x.content
    BY <1>2, TurnFields, ConcatEmptySeq
  <2> QED BY <2>1, <2>2, BlocksNothing
<1>7. Apart(m)
  BY <1>2, <1>4, <1>6, ApartIsOnce
<1>8. Nonempty(m)
  BY <1>2, <1>4 DEF Nonempty
<1> HIDE DEF m
<1>9. \A b : b \in ToSet(Blocks(m)) => \E j \in 1..1 : b \in ToSet(c[j].content)
  BY <1>2, <1>6
<1> QED BY <1>3, <1>4, <1>5, <1>7, <1>8, <1>9 DEF MergedTo, Chained, x

LEMMA MergedOn ==
  ASSUME NEW c, Sendable(c), NEW ids, NEW i \in 1..Len(c), i # 1, NEW m, MergedTo(c, ids, i - 1, m)
  PROVE  MergedTo(c, ids, i, Push(m, Fewer(c, ids)[i]))
<1> DEFINE x == Fewer(c, ids)[i]
           y == Fewer(c, ids)[i - 1]
<1>0. Len(c) \in Nat /\ i - 1 \in 1..Len(c) /\ Apart(c) /\ c \in Seq(Turn)
  BY DEF Sendable
<1>1. /\ x \in Turn /\ ToSet(x.content) \subseteq ToSet(c[i].content)
      /\ UseIds(x.content) # {} => x.role = "assistant"
      /\ ResultIds(x.content) # {} => x.role = "user"
      /\ Once(x.content, "result") /\ Once(x.content, "use")
      /\ UseIds(x.content) = UseIds(c[i].content) \ ids
      /\ ResultIds(x.content) = UseIds(c[i - 1].content) \ ids
  <2>1. LeftOf(x, c, ids, i)
    BY FewerTurn
  <2> HIDE DEF x
  <2> QED BY <2>1 DEF LeftOf
<1>2. UseIds(y.content) = UseIds(c[i - 1].content) \ ids
  <2>1. LeftOf(y, c, ids, i - 1)
    BY <1>0, FewerTurn
  <2> HIDE DEF y
  <2> QED BY <2>1 DEF LeftOf
<1>3. /\ Chained(m) /\ UseIds(Last(m).content) = UseIds(y.content)
      /\ \A b : b \in ToSet(Blocks(m)) => \E j \in 1..(i - 1) : b \in ToSet(c[j].content)
  BY DEF MergedTo
<1> HIDE DEF x, y
<1>4. UseIds(Blocks(m)) \cap UseIds(x.content) = {}
  <2>1. ASSUME NEW id \in UseIds(Blocks(m)), id \in UseIds(x.content) PROVE FALSE
    <3>1. PICK b : b \in ToSet(Blocks(m)) /\ b.kind = "use" /\ b.id = id
      BY DEF UseIds, OfKind
    <3>2. PICK j \in 1..(i - 1) : b \in ToSet(c[j].content)
      BY <1>3, <3>1
    <3>3. id \in UseIds(c[j].content)
      BY <3>1, <3>2 DEF UseIds, OfKind
    <3>4. id \in UseIds(c[i].content)
      BY <1>1, <2>1
    <3>5. j \in 1..Len(c) /\ j # i
      BY <1>0
    <3> QED BY <1>0, <3>3, <3>4, <3>5 DEF Apart
  <2> QED BY <2>1
<1>5. /\ Chained(Push(m, x)) /\ UseIds(Last(Push(m, x)).content) = UseIds(x.content)
      /\ Blocks(Push(m, x)) = Blocks(m) \o x.content
  BY <1>1, <1>2, <1>3, <1>4, PushChains
<1>6. ASSUME NEW b, b \in ToSet(Blocks(Push(m, x))) PROVE \E j \in 1..i : b \in ToSet(c[j].content)
  <2>1. Blocks(m) \in Seq(Block) /\ x.content \in Seq(Block)
    BY <1>1, <1>3, BlocksTyped, TurnFields DEF Chained
  <2>2. b \in ToSet(Blocks(m)) \/ b \in ToSet(x.content)
    BY <1>5, <1>6, <2>1, ToSetConcat
  <2>3. i \in 1..i /\ \A j \in 1..(i - 1) : j \in 1..i
    BY <1>0
  <2> QED BY <1>1, <1>3, <2>2, <2>3
<1> QED BY <1>5, <1>6 DEF MergedTo, x

LEMMA DropServes ==
  ASSUME NEW c, Sendable(c), NEW ids
  PROVE  Serves(DropPairs(c, ids), c)
<1> DEFINE s == Fewer(c, ids)
           n == Len(c)
<1>1. /\ c \in Seq(Turn) /\ c # <<>> /\ n \in Nat /\ n >= 1 /\ n \in 1..n
      /\ UseIds(Last(c).content) = {} /\ Last(c) = c[n]
  BY DEF Sendable, Unasking, Last
<1>2. Len(s) = n
  BY FewerAt
<1>3. CASE ids = {}
  BY <1>3, SelfServes DEF DropPairs
<1>4. CASE ids # {}
  <2>1. DropPairs(c, ids) = Normalize(s)
    BY <1>4 DEF DropPairs, Fewer
  <2> HIDE DEF s, n
  <2>2. PICK f : /\ Merged(s) = f[n] /\ f[0] = <<>>
                 /\ \A i \in 1..n : f[i] = Push(f[i - 1], s[i])
    BY <1>1, <1>2, MergedSteps
  <2> DEFINE N == {k \in Nat : k + 1 <= n => MergedTo(c, ids, k + 1, f[k + 1])}
  <2>3. 0 \in N
    <3>1. f[1] = Push(<<>>, s[1])
      <4>1. 1 \in 1..n /\ 1 - 1 = 0
        BY <1>1
      <4> QED BY <2>2, <4>1
    <3>2. MergedTo(c, ids, 1, f[1])
      BY <3>1, MergedStart DEF s
    <3> QED BY <3>2
  <2>4. ASSUME NEW k \in Nat, k \in N PROVE k + 1 \in N
    <3>1. ASSUME (k + 1) + 1 <= n PROVE MergedTo(c, ids, (k + 1) + 1, f[(k + 1) + 1])
      <4> DEFINE i == (k + 1) + 1
      <4>1. i \in 1..n /\ i # 1 /\ i - 1 = k + 1 /\ k + 1 <= n
        BY <1>1, <3>1
      <4>2. MergedTo(c, ids, i - 1, f[i - 1])
        BY <2>4, <4>1
      <4>3. f[i] = Push(f[i - 1], s[i])
        BY <2>2, <4>1
      <4> HIDE DEF i
      <4>4. MergedTo(c, ids, i, f[i])
        BY <4>1, <4>2, <4>3, MergedOn DEF s, n
      <4> QED BY <4>4 DEF i
    <3> QED BY <3>1
  <2> HIDE DEF N
  <2>5. \A k \in Nat : k \in N
    BY <2>3, <2>4, Inductively
  <2>6. MergedTo(c, ids, n, f[n])
    <3>1. n - 1 \in Nat /\ (n - 1) + 1 = n /\ n <= n
      BY <1>1
    <3> QED BY <2>5, <3>1 DEF N
  <2> DEFINE m == f[n]
  <2>7. Chained(m) /\ UseIds(Last(m).content) = {}
    <3>1. UseIds(s[n].content) = UseIds(c[n].content) \ ids
      <4>1. LeftOf(s[n], c, ids, n)
        BY <1>1, FewerTurn DEF s, n
      <4> QED BY <4>1 DEF LeftOf
    <3> QED BY <1>1, <2>6, <3>1 DEF MergedTo, s
  <2> HIDE DEF m
  <2>8. m \in Seq(Turn) /\ m # <<>> /\ Turns(m) /\ Nonempty(m) /\ Apart(m)
    BY <2>7 DEF Chained
  <2>9. Normalize(s) = m
    <3> DEFINE users == {i \in DOMAIN m : m[i].role = "user"}
    <3>1. users \in SUBSET Nat /\ 1 \in users /\ \A i \in users : i >= 1
      BY <2>8 DEF Turns, Alternates
    <3> HIDE DEF users
    <3>2. Lowest(users) = 1
      <4>1. Lowest(users) \in users /\ Lowest(users) <= 1
        BY <3>1, LowestIs
      <4>2. Lowest(users) \in Nat /\ Lowest(users) >= 1
        BY <3>1, <4>1
      <4> QED BY <4>1, <4>2
    <3>3. From(m, 0) = m
      <4>1. 0 \in 0..Len(m)
        BY <2>8
      <4> QED BY <2>8, <4>1, FromAt
    <3>4. Normalize(s) = IF Lowest(users) = 0 THEN <<>> ELSE From(m, Lowest(users) - 1)
      BY <2>2 DEF Normalize, m, users
    <3> QED BY <3>2, <3>3, <3>4
  <2>10. Drawn(m, c)
    <3>1. ASSUME NEW b, b \in ToSet(Blocks(m)) PROVE b \in ToSet(Blocks(c))
      <4>1. PICK j \in 1..n : b \in ToSet(c[j].content)
        BY <2>6, <3>1 DEF MergedTo, m
      <4>2. InTurns(b, c)
        BY <4>1 DEF InTurns, n
      <4> QED BY <1>1, <4>2, BlocksIn
    <3> QED BY <3>1 DEF Drawn
  <2> QED BY <2>1, <2>7, <2>8, <2>9, <2>10 DEF Serves, Sendable, Unasking
<1> QED BY <1>3, <1>4

-----------------------------------------------------------------------------
(* A strategy of any length, a ladder of any height. *)

LEMMA StepServes ==
  ASSUME NEW s \in Steps, NEW c, Sendable(c), NEW tags
  PROVE  Serves(ApplyStep(s, c, tags), c)
<1>1. s.kind \in {"window", "drop", "compact", "mute"} /\ s.at \in Nat /\ s.keep \in Nat
  BY DEF Steps
<1>2. c \in Seq(Turn) /\ Len(c) \in Nat
  BY DEF Sendable
<1>3. From(c, 0) = c
  <2>1. 0 \in 0..Len(c)
    BY <1>2
  <2> QED BY <1>2, <2>1, FromAt
<1>4. CASE s.kind = "window"
  <2>1. ApplyStep(s, c, tags) = From(c, WindowCut(s, c))
    BY <1>4 DEF ApplyStep
  <2>2. WindowCut(s, c) = 0 \/ \E want : WindowCut(s, c) = SafeCut(c, want)
    <3>1. CASE s.keep <= 0 \/ Len(c) - s.keep <= 0
      BY <3>1 DEF WindowCut
    <3>2. CASE s.keep > 0 /\ Len(c) - s.keep > 0 /\ s.at <= 0
      BY <1>1, <1>2, <3>2 DEF WindowCut
    <3>3. CASE s.keep > 0 /\ Len(c) - s.keep > 0 /\ s.at > 0
      BY <1>1, <1>2, <3>3 DEF WindowCut
    <3> QED BY <1>1, <1>2, <3>1, <3>2, <3>3
  <2> QED BY <1>3, <2>1, <2>2, CutServes, SelfServes
<1>5. CASE s.kind = "drop"
  <2>1. ApplyStep(s, c, tags) = c \/ \E ids : ApplyStep(s, c, tags) = DropPairs(c, ids)
    BY <1>5 DEF ApplyStep
  <2> QED BY <2>1, DropServes, SelfServes
<1>6. CASE s.kind \in {"compact", "mute"}
  <2> DEFINE cut == CompactCut(s, c)
  <2>1. \/ ApplyStep(s, c, tags) = From(c, cut)
        \/ ApplyStep(s, c, tags) = Prepend(From(c, cut), User(<<Text>>))
    BY <1>6 DEF ApplyStep
  <2>2. cut = 0 \/ cut = SafeCut(c, Len(c) - s.keep)
    BY DEF CompactCut
  <2> HIDE DEF cut
  <2>3. Serves(From(c, cut), c)
    BY <1>3, <2>2, CutServes, SelfServes
  <2>4. Serves(Prepend(From(c, cut), User(<<Text>>)), c)
    <3>1. Serves(Prepend(From(c, cut), User(<<Text>>)), From(c, cut))
      BY <2>3, PrependServes DEF Serves
    <3> QED BY <2>3, <3>1, DrawnOn DEF Serves
  <2> QED BY <2>1, <2>3, <2>4
<1> QED BY <1>1, <1>4, <1>5, <1>6

Applies(s, c, tags, n, f) ==
  f = [i \in 0..n |-> IF i = 0 THEN c ELSE ApplyStep(s[i], f[i - 1], tags)]

LEMMA AppliesExists ==
  ASSUME NEW s, NEW c, NEW tags
  PROVE  \A n \in Nat : \E f : Applies(s, c, tags, n, f)
<1> DEFINE N == {n \in Nat : \E f : Applies(s, c, tags, n, f)}
<1>1. 0 \in N
  <2>1. Applies(s, c, tags, 0, [i \in 0..0 |-> c])
    BY DEF Applies
  <2> QED BY <2>1
<1>2. ASSUME NEW n \in Nat, n \in N PROVE n + 1 \in N
  <2>1. PICK f : Applies(s, c, tags, n, f)
    BY <1>2
  <2> DEFINE g == [i \in 0..(n + 1) |-> IF i = 0 THEN c ELSE ApplyStep(s[i], f[i - 1], tags)]
  <2>2. \A i \in 0..n : g[i] = f[i]
    BY <2>1 DEF Applies
  <2>3. g = [i \in 0..(n + 1) |-> IF i = 0 THEN c ELSE ApplyStep(s[i], g[i - 1], tags)]
    <3>1. \A i \in 0..(n + 1) : i # 0 => i - 1 \in 0..n
      OBVIOUS
    <3> QED BY <2>2, <3>1
  <2>4. Applies(s, c, tags, n + 1, g)
    BY <2>3 DEF Applies
  <2> QED BY <2>4
<1> HIDE DEF N
<1>3. \A n \in Nat : n \in N
  BY <1>1, <1>2, Inductively
<1> QED BY <1>3 DEF N

(* strategy.go:71-74, "Every implementation must return a transcript that  *)
(* still passes Convo.Validate": given one that can be sent, any sequence  *)
(* of window, dropTagged and compaction steps, with any numbers and        *)
(* whatever was tagged, returns one that can be sent, and all its calls    *)
(* and results are of the transcript it was given.                         *)
THEOREM StrategyServes ==
  ASSUME NEW s \in Seq(Steps), NEW c, Sendable(c), NEW tags
  PROVE  Serves(Apply(s, c, tags), c)
<1> DEFINE n == Len(s)
           f == CHOOSE f : Applies(s, c, tags, n, f)
<1>0. n \in Nat
  OBVIOUS
<1>1. Applies(s, c, tags, n, f)
  BY <1>0, AppliesExists
<1>2. Apply(s, c, tags) = f[n]
  BY DEF Apply, Applies
<1> HIDE DEF f
<1>3. f[0] = c /\ \A i \in 1..n : f[i] = ApplyStep(s[i], f[i - 1], tags)
  BY <1>0, <1>1 DEF Applies
<1> DEFINE N == {k \in Nat : k <= n => Serves(f[k], c)}
<1>4. 0 \in N
  BY <1>3, SelfServes
<1>5. ASSUME NEW k \in Nat, k \in N PROVE k + 1 \in N
  <2>1. ASSUME k + 1 <= n PROVE Serves(f[k + 1], c)
    <3>1. k + 1 \in 1..n /\ (k + 1) - 1 = k /\ k <= n
      BY <1>0, <2>1
    <3>2. Serves(f[k], c) /\ f[k + 1] = ApplyStep(s[k + 1], f[k], tags) /\ s[k + 1] \in Steps
      BY <1>3, <1>5, <3>1
    <3>3. Serves(f[k + 1], f[k])
      BY <3>2, StepServes DEF Serves
    <3> QED BY <3>2, <3>3, DrawnOn DEF Serves
  <2> QED BY <2>1
<1> HIDE DEF N
<1>6. n \in N
  BY <1>0, <1>4, <1>5, Inductively
<1> QED BY <1>0, <1>2, <1>6 DEF N

-----------------------------------------------------------------------------
(* The rungs of the ladder, the notice, and what a run adds.               *)

LEMMA RungServes ==
  ASSUME setup \in Setups, NEW l, NEW c, Sendable(c)
  PROVE  Serves(ApplyLevel(l, c), c)
<1>1. setup.ladder \in Seq(Seq(Steps))
  BY SetupsAssumption
<1>2. CASE l \in DOMAIN setup.ladder
  <2>1. setup.ladder[l] \in Seq(Steps)
    BY <1>1, <1>2
  <2> QED BY <1>2, <2>1, StrategyServes DEF ApplyLevel
<1>3. CASE l \notin DOMAIN setup.ladder
  BY <1>3, SelfServes DEF ApplyLevel
<1> QED BY <1>2, <1>3

(* The notice is added, nothing goes. *)
LEMMA NoticeKeeps ==
  ASSUME NEW c, Sendable(c), NEW x, x \in ToSet(Blocks(c))
  PROVE  x \in ToSet(Blocks(WithNotice(c)))
<1>1. c \in Seq(Turn) /\ c # <<>> /\ Len(c) \in 1..Len(c)
  BY DEF Sendable, Unasking
<1>2. c[Len(c)].content \in Seq(Block)
  BY <1>1, TurnFields
<1> DEFINE b == Append(c[Len(c)].content, Text)
           d == Retexted(c, Len(c), b)
<1>3. /\ b \in Seq(Block) /\ b # <<>> /\ SameCalls(b, c[Len(c)].content)
      /\ ToSet(b) = ToSet(c[Len(c)].content) \cup {Text}
  BY <1>2, TextAround
<1>4. WithNotice(c) = c \/ WithNotice(c) = d
  BY DEF WithNotice, Retexted
<1> HIDE DEF b
<1>5. /\ Sendable(d) /\ Len(d) = Len(c)
      /\ \A i \in 1..Len(c) : i # Len(c) => d[i] = c[i]
      /\ d[Len(c)].content = b
  BY <1>1, <1>3, OneRetexted
<1> HIDE DEF d
<1>6. x \in ToSet(Blocks(d))
  <2>1. PICK i \in 1..Len(c) : x \in ToSet(c[i].content)
    BY <1>1, BlocksIn DEF InTurns
  <2>2. x \in ToSet(d[i].content)
    BY <1>3, <1>5, <2>1
  <2>3. InTurns(x, d)
    BY <1>5, <2>2 DEF InTurns
  <2>4. d \in Seq(Turn)
    BY <1>5 DEF Sendable
  <2> QED BY <2>3, <2>4, BlocksIn
<1> QED BY <1>4, <1>6

-----------------------------------------------------------------------------
(* The transcript of Context. *)

LEMMA PushNonempty ==
  ASSUME NEW c \in Seq(Turn), c # <<>>, Nonempty(c), NEW m \in Turn
  PROVE  Nonempty(Push(c, m))
<1>1. CASE m.content = <<>>
  BY <1>1, PushNothing
<1>2. CASE m.content # <<>>
  <2>1. PICK d \in Seq(Turn), l \in Turn : c = Append(d, l)
    <3>1. c \in Seq(Turn) /\ c # <<>>
      OBVIOUS
    <3> QED BY ONLY <3>1, SequenceEmptyOrAppend
  <2> DEFINE e == [role |-> l.role, content |-> l.content \o m.content]
  <2>2. Push(c, m) = Append(d, e) \/ Push(c, m) = Append(c, m)
    <3>1. CASE l.role = m.role
      <4>1. Push(c, m) = Append(d, e)
        BY <1>2, <2>1, <3>1, PushJoins
      <4> QED BY <4>1
    <3>2. CASE l.role # m.role
      <4>1. Push(c, m) = Append(c, m)
        BY <1>2, <2>1, <3>2, PushOne
      <4> QED BY <4>1
    <3> QED BY <3>1, <3>2
  <2>3. l.content \in Seq(Block) /\ m.content \in Seq(Block) /\ l.role \in {"user", "assistant"}
    BY TurnFields
  <2>4. /\ l.content \o m.content \in Seq(Block) /\ Len(l.content) \in Nat /\ Len(m.content) \in Nat
        /\ Len(l.content \o m.content) = Len(l.content) + Len(m.content)
    BY <2>3, ConcatAt
  <2>5. Len(m.content) # 0
    BY <1>2, <2>3
  <2>6. l.content \o m.content # <<>>
    BY <2>4, <2>5
  <2>7. e \in Turn /\ e.content # <<>>
    BY <2>3, <2>4, <2>6 DEF Turn
  <2> HIDE DEF e
  <2>8. ASSUME NEW q \in Seq(Turn), NEW y \in Turn, Nonempty(q), y.content # <<>>
        PROVE  Nonempty(Append(q, y))
    <3>1. /\ Len(Append(q, y)) = Len(q) + 1 /\ Append(q, y)[Len(q) + 1] = y
          /\ \A i \in 1..Len(q) : Append(q, y)[i] = q[i]
          /\ \A i \in 1..(Len(q) + 1) : i \in 1..Len(q) \/ i = Len(q) + 1
      BY AppendAt
    <3> QED BY <2>8, <3>1 DEF Nonempty
  <2>9. Nonempty(d)
    <3>1. \A i \in 1..Len(d) : i \in 1..Len(c) /\ c[i] = d[i]
      BY <2>1
    <3> QED BY <3>1 DEF Nonempty
  <2> QED BY <1>2, <2>2, <2>7, <2>8, <2>9
<1> QED BY <1>1, <1>2

(* Results are of calls that were made. *)
LEMMA ResultsHaveUses ==
  ASSUME NEW c, Sound(c)
  PROVE  ResultIds(Blocks(c)) \subseteq UseIds(Blocks(c))
<1>1. c \in Seq(Turn) /\ c # <<>> /\ Turns(c)
  BY DEF Sound, Alternates, Turns
<1>2. ASSUME NEW id \in ResultIds(Blocks(c)) PROVE id \in UseIds(Blocks(c))
  <2>1. PICK b : b \in ToSet(Blocks(c)) /\ b.kind = "result" /\ b.id = id
    BY DEF ResultIds, OfKind
  <2>2. PICK i \in 1..Len(c) : b \in ToSet(c[i].content)
    BY <1>1, <2>1, BlocksIn DEF InTurns
  <2>3. id \in ResultIds(c[i].content)
    BY <2>1, <2>2 DEF ResultIds, OfKind
  <2>4. i # 1 /\ id \in UseIds(c[i - 1].content)
    <3>1. TurnAt(c, i)
      BY <1>1, TurnsAt
    <3> QED BY <2>3, <3>1 DEF TurnAt
  <2>5. i - 1 \in 1..Len(c)
    BY <2>4
  <2> QED BY <1>1, <2>4, <2>5, UseIdsIn
<1> QED BY <1>2

(* How many calls there are is the highest id. *)
LEMMA CallsCounted ==
  ASSUME NEW c, Sound(c), NEW n \in Nat, UseIds(Blocks(c)) = 1..n
  PROVE  Len(Uses(Blocks(c))) = n
<1> DEFINE d == Ids(Uses(Blocks(c)))
<1>1. Blocks(c) \in Seq(Block) /\ Once(Blocks(c), "use")
  BY SoundTyped DEF Sound
<1>2. d \in Seq(Nat) /\ Distinct(d) /\ ToSet(d) = 1..n
  BY <1>1, UsesInOrder
<1>3. Len(d) = Len(Uses(Blocks(c)))
  <2>1. Uses(Blocks(c)) \in Seq(Block)
    BY <1>1, OnlyMembers DEF Uses
  <2>2. d \in [1..Len(Uses(Blocks(c))) -> Nat]
    <3>1. DOMAIN d = 1..Len(Uses(Blocks(c)))
      BY <2>1 DEF Ids
    <3>2. d \in [1..Len(d) -> Nat]
      BY <1>2
    <3> HIDE DEF d
    <3> QED BY <3>1, <3>2
  <2> HIDE DEF d
  <2>3. Len(Uses(Blocks(c))) \in Nat
    BY <2>1
  <2> QED BY <2>2, <2>3, ListOf
<1> HIDE DEF d
<1>4. Cardinality(1..n) = n
  BY FS_Interval
<1>5. Cardinality(ToSet(d)) = Len(d)
  BY <1>2, DistinctCount
<1> QED BY <1>2, <1>3, <1>4, <1>5

-----------------------------------------------------------------------------
(* Context.RequestsStayValid. *)

(* Calls of the agent's tools, each with an id of its own. *)
IsBatch(w) ==
  /\ w \in Seq(Block) /\ w # <<>> /\ Once(w, "use")
  /\ \A i \in 1..Len(w) : w[i].kind = "use" /\ w[i].tool \in Tools

LEMMA ReplyIs ==
  ASSUME Sound(transcript), NEW b \in Batches
  PROVE  /\ IsBatch(Reply(b)) /\ DOMAIN b.tools = 1..Len(Reply(b))
         /\ Saying(transcript, Lead(b) \o Reply(b)) /\ Lead(b) \o Reply(b) # <<>>
         /\ UseIds(Lead(b) \o Reply(b)) = UseIds(Reply(b))
         /\ ToSet(Reply(b)) \subseteq ToSet(Lead(b) \o Reply(b))
<1>1. PICK n \in Nat : UseIds(Blocks(transcript)) = 1..n
  BY DEF Sound
<1>2. Len(Uses(Blocks(transcript))) = n
  BY <1>1, CallsCounted
<1> DEFINE k == Len(b.tools)
           r == [i \in 1..k |-> Use(n + i, b.tools[i])]
           w == Lead(b) \o r
<1>3. b.tools \in Seq(Tools) /\ k \in Nat /\ k >= 1 /\ DOMAIN b.tools = 1..k
  BY BatchesAssumption
<1>4. Reply(b) = r
  BY <1>2, <1>3 DEF Reply
<1>5. ASSUME NEW i \in 1..k
      PROVE  /\ Use(n + i, b.tools[i]) \in Block /\ Use(n + i, b.tools[i]).kind = "use"
             /\ Use(n + i, b.tools[i]).id = n + i /\ Use(n + i, b.tools[i]).tool \in Tools
  <2>1. b.tools[i] \in Tools /\ n + i \in Nat \ {NoId}
    BY <1>3 DEF NoId
  <2>2. b.tools[i] \in ToolNames
    BY <2>1 DEF ToolNames
  <2>3. /\ Use(n + i, b.tools[i]) \in Block /\ Use(n + i, b.tools[i]).kind = "use"
        /\ Use(n + i, b.tools[i]).id = n + i
    BY <2>1, <2>2, UseIsBlock
  <2>4. Use(n + i, b.tools[i]).tool = b.tools[i]
    BY DEF Use
  <2> QED BY <2>1, <2>3, <2>4
<1>6. /\ r \in Seq(Block) /\ Len(r) = k
      /\ \A i \in 1..k : r[i].kind = "use" /\ r[i].id = n + i /\ r[i].tool \in Tools
  <2>1. r \in [1..k -> Block] /\ \A i \in 1..k : r[i].kind = "use" /\ r[i].id = n + i /\ r[i].tool \in Tools
    BY <1>5
  <2> HIDE DEF r
  <2>2. k \in Nat
    BY <1>3
  <2> HIDE DEF k
  <2>3. r \in Seq(Block) /\ Len(r) = k
    BY <2>1, <2>2, ListOf
  <2> QED BY <2>1, <2>3
<1> HIDE DEF r, k
<1>7. Once(r, "use")
  <2>1. ASSUME NEW i \in 1..k, NEW j \in 1..k, r[i].id = r[j].id
        PROVE  i = j
    <3>1. n + i = n + j
      BY <1>6, <2>1
    <3> QED BY <1>1, <1>3, <3>1
  <2>2. \A i, j \in 1..Len(r) :
          r[i].kind = "use" /\ r[j].kind = "use" /\ r[i].id = r[j].id => i = j
    BY <1>6, <2>1
  <2>3. r \in Seq(Block)
    BY <1>6
  <2> QED BY ONLY <2>2, <2>3, OnceAt
<1>8. ResultIds(r) = {}
  BY <1>6, IdsAt
<1>9. UseIds(r) = {n + i : i \in 1..k}
  BY <1>6, IdsAt
<1>10. UseIds(r) \cap 1..n = {} /\ 1..n \cup UseIds(r) = 1..(n + k) /\ n + k \in Nat
  <2>1. \A j \in 1..(n + k) : j \in 1..n \/ j - n \in 1..k
    BY <1>3
  <2>2. \A j \in 1..(n + k) : j - n \in 1..k => j \in {n + i : i \in 1..k}
    <3>1. ASSUME NEW j \in 1..(n + k), j - n \in 1..k PROVE j \in {n + i : i \in 1..k}
      <4>1. j = n + (j - n)
        BY <1>3
      <4> QED BY <3>1, <4>1
    <3> QED BY <3>1
  <2>3. \A j \in {n + i : i \in 1..k} : j \in 1..(n + k) /\ j \notin 1..n
    BY <1>3
  <2>4. \A j \in 1..n : j \in 1..(n + k)
    BY <1>3
  <2>5. UseIds(r) \cap 1..n = {}
    BY <1>9, <2>3
  <2>6. 1..n \cup UseIds(r) \subseteq 1..(n + k)
    BY <1>9, <2>3, <2>4
  <2>7. 1..(n + k) \subseteq 1..n \cup UseIds(r)
    BY <1>9, <2>1, <2>2
  <2>8. n + k \in Nat
    BY <1>3
  <2> QED BY <2>5, <2>6, <2>7, <2>8
<1>11. /\ Lead(b) \in Seq(Block) /\ UseIds(Lead(b)) = {} /\ ResultIds(Lead(b)) = {} /\ Once(Lead(b), "use")
  <2>1. <<>> \in Seq(Block) /\ UseIds(<<>>) = {} /\ ResultIds(<<>>) = {} /\ Once(<<>>, "use")
    BY DEF UseIds, ResultIds, OfKind, ToSet, Once
  <2>2. Lead(b) = <<>> \/ Lead(b) = <<Text>>
    BY DEF Lead
  <2> QED BY <2>1, <2>2, TextOnly
<1>12. /\ w \in Seq(Block) /\ UseIds(w) = UseIds(r) /\ ResultIds(w) = {} /\ w # <<>>
       /\ ToSet(r) \subseteq ToSet(w)
  <2>1. UseIds(w) = UseIds(Lead(b)) \cup UseIds(r) /\ ResultIds(w) = ResultIds(Lead(b)) \cup ResultIds(r)
    BY <1>6, <1>11, IdsConcat
  <2>2. w \in Seq(Block) /\ Len(w) = Len(Lead(b)) + Len(r) /\ Len(Lead(b)) \in Nat
    <3>1. r \in Seq(Block) /\ Lead(b) \in Seq(Block)
      BY <1>6, <1>11
    <3> QED BY ONLY <3>1, ConcatAt
  <2>3. ToSet(w) = ToSet(Lead(b)) \cup ToSet(r)
    BY <1>6, <1>11, ToSetConcat
  <2>4. Len(w) # 0
    BY <1>3, <1>6, <2>2
  <2> QED BY <1>8, <1>11, <2>1, <2>2, <2>3, <2>4
<1>13. Once(w, "use")
  <2>1. IdsOf(Lead(b), "use") = {}
    BY <1>11, IdsOfKinds
  <2> QED BY <1>6, <1>7, <1>11, <2>1, OnceConcat
<1> HIDE DEF w
<1>14. Saying(transcript, w)
  BY <1>1, <1>10, <1>12, <1>13 DEF Saying
<1>15. IsBatch(r)
  <2>1. r # <<>>
    BY <1>3, <1>6
  <2> QED BY <1>6, <1>7, <2>1 DEF IsBatch
<1> QED BY <1>3, <1>4, <1>6, <1>12, <1>14, <1>15 DEF w

-----------------------------------------------------------------------------
(* The transcript is sound, and each request that is made of it valid.     *)

Dispatching ==
  /\ IsBatch(batch) /\ UseIds(batch) = UseIds(Last(transcript).content)
  /\ fate \in [1..Len(batch) -> Fates]

Told(c) == Sound(c) /\ Nonempty(c)

Talking ==
  /\ setup \in Setups /\ pc \in {"idle", "top", "calling", "dispatch"}
  /\ transcript # <<>> => Told(transcript)
  /\ pc # "idle" => transcript # <<>>
  /\ pc \in {"top", "calling"} => Settled(transcript)
  /\ IF pc = "dispatch" THEN Dispatching ELSE batch = <<>> /\ fate = <<>>
  /\ pc = "calling" => Sendable(msgs) /\ Sendable(sent)

LEMMA SettledIsSendable ==
  ASSUME NEW c, Told(c), Settled(c)
  PROVE  Sendable(c)
<1>1. /\ c \in Seq(Turn) /\ c # <<>> /\ Turns(c) /\ Once(Blocks(c), "use")
      /\ Nonempty(c) /\ UseIds(Last(c).content) = {}
  BY DEF Told, Sound, Settled, Alternates, Turns
<1>2. Apart(c)
  BY <1>1, ApartIsOnce
<1> QED BY <1>1, <1>2 DEF Sendable, Unasking

LEMMA SayingIsTold ==
  ASSUME NEW c, Told(c), Settled(c), NEW b, Saying(c, b)
  PROVE  /\ Told(Push(c, Assistant(b))) /\ Push(c, Assistant(b)) # <<>>
         /\ Blocks(Push(c, Assistant(b))) = Blocks(c) \o b
         /\ b # <<>> => UseIds(Last(Push(c, Assistant(b))).content) = UseIds(b)
<1>1. c \in Seq(Turn) /\ c # <<>> /\ Sound(c) /\ Nonempty(c)
  BY DEF Told, Sound, Alternates
<1>2. Assistant(b) \in Turn /\ Assistant(b).content = b
  BY DEF Assistant, Turn, Saying
<1>3. Sound(Push(c, Assistant(b)))
  BY <1>1, SaidCarriesOn
<1>4. b # <<>> => UseIds(Last(Push(c, Assistant(b))).content) = UseIds(b)
  BY <1>1, SaidCarriesOn
<1>5. Nonempty(Push(c, Assistant(b)))
  BY <1>1, <1>2, PushNonempty
<1>6. Blocks(Push(c, Assistant(b))) = Blocks(c) \o b
  BY <1>1, <1>2, PushBlocks
<1> QED BY <1>3, <1>4, <1>5, <1>6, SoundTyped DEF Told

LEMMA AnsweringIsTold ==
  ASSUME NEW c, Told(c), NEW b, Answering(c, b)
  PROVE  /\ Told(Push(c, User(b))) /\ Settled(Push(c, User(b))) /\ Push(c, User(b)) # <<>>
         /\ Blocks(Push(c, User(b))) = Blocks(c) \o b
<1>1. c \in Seq(Turn) /\ c # <<>> /\ Sound(c) /\ Nonempty(c)
  BY DEF Told, Sound, Alternates
<1>2. User(b) \in Turn /\ User(b).content = b
  BY DEF User, Turn, Answering
<1>3. Sound(Push(c, User(b))) /\ Settled(Push(c, User(b)))
  BY <1>1, AnsweredCarriesOn
<1>4. Nonempty(Push(c, User(b)))
  BY <1>1, <1>2, PushNonempty
<1>5. Blocks(Push(c, User(b))) = Blocks(c) \o b
  BY <1>1, <1>2, PushBlocks
<1> QED BY <1>3, <1>4, <1>5, SoundTyped DEF Told

(* What the results of a batch are. *)
Gathered == [i \in DOMAIN batch |-> Res(batch[i].id, fate[i])]

LEMMA GatheredAnswers ==
  ASSUME Told(transcript), Dispatching
  PROVE  /\ Answering(transcript, Gathered) /\ Len(Gathered) = Len(batch)
         /\ \A i \in 1..Len(batch) : Gathered[i] = Res(batch[i].id, fate[i])
<1>1. /\ batch \in Seq(Block) /\ batch # <<>> /\ Once(batch, "use")
      /\ DOMAIN batch = 1..Len(batch) /\ Len(batch) \in Nat
      /\ \A i \in 1..Len(batch) : batch[i].kind = "use"
  BY DEF Dispatching, IsBatch
<1> DEFINE ids == [i \in 1..Len(batch) |-> batch[i].id]
<1>2. ids \in [1..Len(batch) -> Nat]
  <2>1. \A i \in 1..Len(batch) : batch[i] \in Block
    BY <1>1
  <2> QED BY <1>1, <2>1, BlockFields
<1>3. ids \in Seq(Nat) /\ Len(ids) = Len(batch) /\ \A i \in 1..Len(batch) : ids[i] = batch[i].id
  <2>1. \A i \in 1..Len(batch) : ids[i] = batch[i].id
    OBVIOUS
  <2> HIDE DEF ids
  <2> QED BY <1>1, <1>2, <2>1, ListOf
<1> HIDE DEF ids
<1>4. fate \in [1..Len(batch) -> Hows]
  BY DEF Dispatching, Hows
<1>5. Gathered = AnswerList(ids, fate)
  BY <1>1, <1>3 DEF Gathered, AnswerList
<1>6. Distinct(ids)
  <2>1. \A i, j \in 1..Len(batch) : batch[i].id = batch[j].id => i = j
    BY <1>1, OnceAt
  <2> QED BY <1>3, <2>1 DEF Distinct
<1>7. ToSet(ids) = UseIds(batch)
  <2>1. \A id : id \in UseIds(batch) <=> \E i \in 1..Len(batch) : batch[i].id = id
    BY <1>1, IdsAt
  <2>2. \A id : id \in ToSet(ids) <=> \E i \in 1..Len(batch) : ids[i] = id
    BY <1>3, InSet
  <2> QED BY <1>3, <2>1, <2>2
<1>8. /\ Gathered \in Seq(Block) /\ Len(Gathered) = Len(batch)
      /\ UseIds(Gathered) = {} /\ ResultIds(Gathered) = ToSet(ids) /\ ResultsFirst(Gathered)
      /\ Once(Gathered, "result")
  BY <1>3, <1>4, <1>5, <1>6, AnswersTo
<1>9. Gathered # <<>>
  BY <1>1, <1>8
<1>10. \A i \in 1..Len(batch) : Gathered[i] = Res(batch[i].id, fate[i])
  BY <1>1 DEF Gathered
<1> QED BY <1>7, <1>8, <1>9, <1>10 DEF Answering, Dispatching

LEMMA AskIsTold == Told(Ask) /\ Settled(Ask) /\ Ask # <<>>
<1>1. Sound(Ask) /\ Settled(Ask)
  BY AskIsSound
<1>2. Nonempty(Ask) /\ Ask # <<>>
  <2>1. <<Text>> # <<>>
    BY TextOnly
  <2> DEFINE x == <<Text>>
  <2> HIDE DEF x
  <2>2. Nonempty(<<User(x)>>) /\ <<User(x)>> # <<>>
    BY <2>1 DEF Nonempty, User, x
  <2> QED BY <2>2 DEF Ask, x
<1> QED BY <1>1, <1>2 DEF Told

LEMMA TalkingStarts ==
  ASSUME ContextInit
  PROVE  Talking
BY DEF ContextInit, Talking

LEMMA TalkingAfterStart ==
  ASSUME Talking, Start
  PROVE  Talking'
<1>1. Told(transcript') /\ Settled(transcript') /\ transcript' # <<>>
  <2>1. CASE transcript = <<>>
    BY <2>1, AskIsTold DEF Start
  <2>2. CASE transcript # <<>>
    <3>1. Told(transcript) /\ transcript' = Then(transcript)
      BY <2>2 DEF Start, Talking
    <3>2. PICK b : Answering(transcript, b) /\ Then(transcript) = Push(transcript, User(b))
      BY <3>1, ThenAnswers DEF Told
    <3>3. Told(Push(transcript, User(b))) /\ Settled(Push(transcript, User(b))) /\ Push(transcript, User(b)) # <<>>
      BY <3>1, <3>2, AnsweringIsTold
    <3> QED BY <3>1, <3>2, <3>3
  <2> QED BY <2>1, <2>2
<1>2. pc' = "top" /\ batch' = <<>> /\ fate' = <<>> /\ setup' \in Setups
  BY DEF Start, Talking
<1> QED BY <1>1, <1>2 DEF Talking

LEMMA SetupIs ==
  ASSUME setup \in Setups
  PROVE  setup.strategy \in Seq(Steps)
BY SetupsAssumption

(* What the strategy makes of the transcript, before the notice. *)
KeptTurns == Apply(setup.strategy, transcript, tagged)

LEMMA KeptServes ==
  ASSUME Talking, pc = "top"
  PROVE  /\ Told(transcript) /\ Settled(transcript)
         /\ Serves(KeptTurns, transcript) /\ Serves(WithNotice(KeptTurns), KeptTurns)
<1>1. setup \in Setups /\ Told(transcript) /\ Settled(transcript)
  BY DEF Talking
<1>2. Sendable(transcript)
  BY <1>1, SettledIsSendable
<1>3. Serves(KeptTurns, transcript)
  BY <1>1, <1>2, SetupIs, StrategyServes DEF KeptTurns
<1>4. Serves(WithNotice(KeptTurns), KeptTurns)
  BY <1>3, NoticeServes DEF Serves
<1> QED BY <1>1, <1>3, <1>4

LEMMA TalkingAfterMaterialize ==
  ASSUME Talking, Materialize
  PROVE  Talking'
<1>1. /\ pc = "top" /\ msgs' = WithNotice(KeptTurns) /\ sent' = ApplyLevel(level, msgs')
      /\ pc' = "calling" /\ UNCHANGED <<setup, transcript, batch, fate>>
  BY DEF Materialize, KeptTurns
<1>2. setup \in Setups /\ Told(transcript) /\ Settled(transcript) /\ batch = <<>> /\ fate = <<>>
  BY <1>1 DEF Talking
<1>3. PICK w : w = WithNotice(KeptTurns)
  OBVIOUS
<1>4. Sendable(w)
  BY <1>1, <1>3, KeptServes DEF Serves
<1>5. Sendable(ApplyLevel(level, w))
  BY <1>2, <1>4, RungServes DEF Serves
<1>6. Sendable(msgs') /\ Sendable(sent')
  BY <1>1, <1>3, <1>4, <1>5
<1> QED BY <1>1, <1>2, <1>6 DEF Talking, Told, Sound, Alternates

LEMMA TalkingAfterOverflows ==
  ASSUME Talking, Overflows
  PROVE  Talking'
<1>1. /\ pc = "calling" /\ UNCHANGED <<setup, transcript, msgs, batch, fate>>
      /\ \/ pc' = pc /\ \E rung : sent' = ApplyLevel(rung, msgs)
         \/ pc' = "idle"
  BY DEF Overflows, RunEnds, run
<1>2. /\ setup \in Setups /\ Told(transcript) /\ Settled(transcript) /\ transcript # <<>>
      /\ batch = <<>> /\ fate = <<>> /\ Sendable(msgs)
  BY <1>1 DEF Talking
<1>3. CASE pc' = pc /\ \E rung : sent' = ApplyLevel(rung, msgs)
  <2>1. PICK rung : sent' = ApplyLevel(rung, msgs)
    BY <1>3
  <2>2. Sendable(ApplyLevel(rung, msgs))
    BY <1>2, RungServes DEF Serves
  <2> QED BY <1>1, <1>2, <1>3, <2>1, <2>2 DEF Talking
<1>4. CASE pc' = "idle"
  BY <1>1, <1>2, <1>4 DEF Talking
<1> QED BY <1>1, <1>3, <1>4

(* A run that ends in the call leaves a transcript to carry on from. *)
LEMMA TalkingAfterEnd ==
  ASSUME Talking, pc = "calling", pc' = "idle", UNCHANGED <<setup, batch, fate>>,
         NEW b, Saying(transcript, b), transcript' = Push(transcript, Assistant(b))
  PROVE  Talking'
<1>1. /\ setup \in Setups /\ Told(transcript) /\ Settled(transcript)
      /\ batch = <<>> /\ fate = <<>>
  BY DEF Talking
<1>2. Told(Push(transcript, Assistant(b))) /\ Push(transcript, Assistant(b)) # <<>>
  BY <1>1, SayingIsTold
<1> QED BY <1>1, <1>2 DEF Talking

LEMMA NothingIsSaid ==
  ASSUME NEW c, Sound(c)
  PROVE  Saying(c, <<>>)
<1>1. <<>> \in Seq(Block) /\ UseIds(<<>>) = {} /\ ResultIds(<<>>) = {} /\ Once(<<>>, "use")
  BY DEF UseIds, ResultIds, OfKind, ToSet, Once
<1>2. PICK n \in Nat : UseIds(Blocks(c)) = 1..n
  BY DEF Sound
<1> QED BY <1>1, <1>2 DEF Saying

LEMMA TalkingAfterCallsTools ==
  ASSUME Talking, CallsTools
  PROVE  Talking'
<1>1. PICK b \in Batches :
        /\ transcript' = Push(transcript, Assistant(Lead(b) \o Reply(b)))
        /\ batch' = Reply(b) /\ fate' = [i \in DOMAIN b.tools |-> "todo"]
  BY DEF CallsTools
<1>2. pc = "calling" /\ pc' = "dispatch" /\ UNCHANGED setup
  BY DEF CallsTools
<1>3. setup \in Setups /\ Told(transcript) /\ Settled(transcript)
  BY <1>2 DEF Talking
<1>4. /\ IsBatch(Reply(b)) /\ DOMAIN b.tools = 1..Len(Reply(b))
      /\ Saying(transcript, Lead(b) \o Reply(b)) /\ Lead(b) \o Reply(b) # <<>>
      /\ UseIds(Lead(b) \o Reply(b)) = UseIds(Reply(b))
  BY <1>3, ReplyIs DEF Told
<1>5. /\ Told(transcript') /\ transcript' # <<>>
      /\ UseIds(Last(transcript').content) = UseIds(batch')
  BY <1>1, <1>3, <1>4, SayingIsTold
<1>6. fate' \in [1..Len(batch') -> Fates]
  BY <1>1, <1>4 DEF Fates
<1>7. Dispatching'
  BY <1>1, <1>4, <1>5, <1>6 DEF Dispatching
<1> QED BY <1>2, <1>3, <1>5, <1>7 DEF Talking

(* A call of the batch that gets on, whatever it does. *)
GetsOn(i) ==
  /\ pc = "dispatch" /\ i \in DOMAIN batch /\ fate[i] \in {"todo", "loading"}
  /\ \E how \in Fates : Fated(i, how)
  /\ UNCHANGED rest

LEMMA StepGetsOn ==
  ASSUME NEW i \in DOMAIN batch, CallStep(i)
  PROVE  GetsOn(i)
<1>1. {"stub", "loading", "body", "error", "done", "ran", "refused"} \subseteq Fates
  BY DEF Fates
<1>2. CASE LoadLooks(i)
  BY <1>1, <1>2 DEF LoadLooks, Called, GetsOn
<1>3. CASE LoadActivates(i)
  BY <1>1, <1>3 DEF LoadActivates, GetsOn
<1>4. CASE Misload(i)
  BY <1>1, <1>4 DEF Misload, Called, GetsOn
<1>5. CASE UnloadSkill(i)
  BY <1>1, <1>5 DEF UnloadSkill, Called, GetsOn
<1>6. CASE CallGated(i)
  BY <1>1, <1>6 DEF CallGated, Called, GetsOn
<1>7. CASE CallPlain(i)
  BY <1>1, <1>7 DEF CallPlain, Called, GetsOn
<1> QED BY <1>2, <1>3, <1>4, <1>5, <1>6, <1>7 DEF CallStep

LEMMA TalkingAfterCallStep ==
  ASSUME Talking, NEW i \in DOMAIN batch, CallStep(i)
  PROVE  Talking'
<1>1. PICK how \in Fates : Fated(i, how)
  BY StepGetsOn DEF GetsOn
<1>2. pc = "dispatch" /\ UNCHANGED <<setup, transcript, msgs, sent, batch, pc>>
  BY StepGetsOn DEF GetsOn, rest, run
<1>3. fate' \in [1..Len(batch') -> Fates]
  BY <1>1, <1>2 DEF Fated, Talking, Dispatching
<1>4. Dispatching'
  BY <1>2, <1>3 DEF Talking, Dispatching
<1> QED BY <1>2, <1>4 DEF Talking

LEMMA TalkingAfterGather ==
  ASSUME Talking, Gather
  PROVE  Talking'
<1>1. /\ pc = "dispatch" /\ pc' = "top" /\ batch' = <<>> /\ fate' = <<>> /\ UNCHANGED setup
      /\ transcript' = Push(transcript, User(Gathered))
  BY DEF Gather, Gathered
<1>2. setup \in Setups /\ Told(transcript) /\ Dispatching
  BY <1>1 DEF Talking
<1>3. Answering(transcript, Gathered)
  BY <1>2, GatheredAnswers
<1>4. /\ Told(Push(transcript, User(Gathered))) /\ Settled(Push(transcript, User(Gathered)))
      /\ Push(transcript, User(Gathered)) # <<>>
  BY <1>2, <1>3, AnsweringIsTold
<1> QED BY <1>1, <1>2, <1>4 DEF Talking

LEMMA TalkingKept ==
  ASSUME Talking, [ContextNext]_contextVars
  PROVE  Talking'
<1>1. CASE Start
  BY <1>1, TalkingAfterStart
<1>2. CASE Materialize
  BY <1>2, TalkingAfterMaterialize
<1>3. CASE IterationsSpent
  <2>1. pc = "top" /\ pc' = "idle" /\ UNCHANGED <<setup, transcript, batch, fate>>
    BY <1>3 DEF IterationsSpent, RunEnds
  <2> QED BY <2>1 DEF Talking
<1>4. CASE Overflows
  BY <1>4, TalkingAfterOverflows
<1>5. CASE CallBreaks
  <2>1. /\ pc = "calling" /\ pc' = "idle" /\ UNCHANGED <<setup, batch, fate>>
        /\ \E partial \in {<<>>, <<Text>>} : transcript' = Push(transcript, Assistant(partial))
    BY <1>5 DEF CallBreaks, RunEnds
  <2>2. PICK partial : /\ partial = <<>> \/ partial = <<Text>>
                       /\ transcript' = Push(transcript, Assistant(partial))
    BY <2>1
  <2>3. Sound(transcript)
    BY <2>1 DEF Talking, Told
  <2>4. Saying(transcript, partial)
    BY <2>2, <2>3, NothingIsSaid, TextIsSaid
  <2> QED BY <2>1, <2>2, <2>4, TalkingAfterEnd
<1>6. CASE Finishes
  <2>1. /\ pc = "calling" /\ pc' = "idle" /\ UNCHANGED <<setup, batch, fate>>
        /\ transcript' = Push(transcript, Assistant(<<Text>>))
    BY <1>6 DEF Finishes, RunEnds
  <2>2. Saying(transcript, <<Text>>)
    BY <2>1, TextIsSaid DEF Talking, Told
  <2> QED BY <2>1, <2>2, TalkingAfterEnd
<1>7. CASE CallsTools
  BY <1>7, TalkingAfterCallsTools
<1>8. CASE EndsOpen
  <2>1. /\ pc = "calling" /\ pc' = "idle" /\ UNCHANGED <<setup, batch, fate>>
    BY <1>8 DEF EndsOpen, RunEnds
  <2>2. PICK b \in Batches : transcript' = Push(transcript, Assistant(Lead(b) \o Reply(b)))
    BY <1>8 DEF EndsOpen
  <2>3. Sound(transcript)
    BY <2>1 DEF Talking, Told
  <2>4. Saying(transcript, Lead(b) \o Reply(b))
    BY <2>3, ReplyIs
  <2> QED BY <2>1, <2>2, <2>4, TalkingAfterEnd
<1>9. CASE \E i \in DOMAIN batch : CallStep(i)
  BY <1>9, TalkingAfterCallStep
<1>10. CASE Gather
  BY <1>10, TalkingAfterGather
<1>11. CASE UNCHANGED contextVars
  BY <1>11 DEF Talking, Dispatching, contextVars, run
<1> QED BY <1>1, <1>2, <1>3, <1>4, <1>5, <1>6, <1>7, <1>8, <1>9, <1>10, <1>11 DEF ContextNext

LEMMA AlwaysTalking == ContextSpec => []Talking
<1>1. ContextInit => Talking
  BY TalkingStarts
<1>2. Talking /\ [ContextNext]_contextVars => Talking'
  BY TalkingKept
<1> QED BY <1>1, <1>2, PTL DEF ContextSpec

(* strategy.go:71-74: every request passes Validate, whatever strategy     *)
(* made it and on whatever rung of the ladder, over a transcript cut off   *)
(* and carried on in any way.                                              *)
THEOREM RequestsAlwaysStayValid == ContextSpec => []RequestsStayValid
<1>1. Talking => RequestsStayValid
  BY SendableIsValid DEF Talking, RequestsStayValid
<1> QED BY <1>1, AlwaysTalking, PTL

-----------------------------------------------------------------------------
(* Context.KnowsWhatItRuns. *)

(* The call that loaded skill s last is in the transcript, whatever result *)
(* it has there or is about to get is the skill's text, and in the call    *)
(* and the dispatch that text is before the model.                         *)
Loaded(s) ==
  /\ active[s] \in Loads(s)
  /\ \A r \in OfKind(Blocks(transcript), "result") : r.id = active[s] => r.how = "body"
  /\ \A j \in DOMAIN batch : batch[j].id = active[s] => fate[j] = "body"
  /\ pc \in {"calling", "dispatch"} => HasText(s)

(* The batch is in the transcript and unanswered there. *)
Batched ==
  /\ ToSet(batch) \subseteq ToSet(Blocks(transcript))
  /\ ResultIds(Blocks(transcript)) \cap UseIds(batch) = {}
  /\ \A i \in DOMAIN batch :
       /\ fate[i] \in {"loading", "body"} => batch[i].tool.op = "load"
       /\ fate[i] \in {"ran", "stub"} => HasText(batch[i].tool.skill)

Knowing ==
  /\ active \in [Skills -> Nat]
  /\ pc # "idle" => \A s \in Skills : active[s] # NoId => Loaded(s)
  /\ pc = "dispatch" => Batched

LEMMA KnowingStarts ==
  ASSUME ContextInit
  PROVE  Knowing
BY DEF ContextInit, Knowing, NoneActive, NoId

LEMMA KnowingAfterStart ==
  ASSUME Start
  PROVE  Knowing'
<1>1. active' = NoneActive /\ pc' = "top"
  BY DEF Start
<1>2. active' \in [Skills -> Nat] /\ \A s \in Skills : active'[s] = NoId
  BY <1>1 DEF NoneActive, NoId
<1> QED BY <1>1, <1>2 DEF Knowing

(* A run that has ended knows nothing: the next one starts anew. *)
LEMMA KnowingAtRest ==
  ASSUME Knowing, pc' = "idle", UNCHANGED active
  PROVE  Knowing'
BY DEF Knowing

LEMMA KnowingAfterMaterialize ==
  ASSUME Talking, Knowing, Materialize
  PROVE  Knowing'
<1>1. /\ pc = "top" /\ msgs' = WithNotice(KeptTurns) /\ pc' = "calling"
      /\ active' = [s \in Skills |-> IF active[s] \in Observations(KeptTurns) THEN active[s] ELSE NoId]
      /\ UNCHANGED <<transcript, batch, fate>>
  BY DEF Materialize, KeptTurns, Reconcile
<1>2. batch = <<>> /\ active \in [Skills -> Nat] /\ \A s \in Skills : active[s] # NoId => Loaded(s)
  BY <1>1 DEF Talking, Knowing
<1>3. active' \in [Skills -> Nat]
  BY <1>1, <1>2 DEF NoId
<1>4. ASSUME NEW s \in Skills, active'[s] # NoId
      PROVE  Loaded(s)'
  <2>1. active'[s] = active[s] /\ active[s] # NoId /\ active[s] \in ResultIds(Blocks(KeptTurns))
    BY <1>1, <1>4 DEF Observations
  <2>2. /\ active[s] \in Loads(s)
        /\ \A r \in OfKind(Blocks(transcript), "result") : r.id = active[s] => r.how = "body"
    BY <1>2, <2>1 DEF Loaded
  <2>3. PICK r \in ToSet(Blocks(KeptTurns)) : r.kind = "result" /\ r.id = active[s]
    BY <2>1 DEF ResultIds, OfKind
  <2>4. /\ Drawn(KeptTurns, transcript) /\ Sendable(KeptTurns)
    BY <1>1, KeptServes DEF Serves
  <2>5. r \in ToSet(Blocks(transcript))
    BY <2>3, <2>4 DEF Drawn, Text
  <2>6. r.how = "body"
    BY <2>2, <2>3, <2>5 DEF OfKind
  <2>7. r \in ToSet(Blocks(WithNotice(KeptTurns)))
    BY <2>3, <2>4, NoticeKeeps
  <2>8. r \in OfKind(Blocks(msgs'), "result")
    BY <1>1, <2>3, <2>7 DEF OfKind
  <2>9. Loads(s)' = Loads(s)
    BY <1>1 DEF Loads
  <2>10. HasText(s)'
    BY <2>2, <2>3, <2>6, <2>8, <2>9 DEF HasText
  <2>11. /\ active'[s] \in Loads(s)'
         /\ \A x \in OfKind(Blocks(transcript'), "result") : x.id = active'[s] => x.how = "body"
    BY <1>1, <2>1, <2>2, <2>9
  <2>12. \A j \in DOMAIN batch' : batch'[j].id = active'[s] => fate'[j] = "body"
    BY <1>1, <1>2
  <2> QED BY <2>10, <2>11, <2>12 DEF Loaded
<1> QED BY <1>1, <1>3, <1>4 DEF Knowing

LEMMA KnowingAfterOverflows ==
  ASSUME Knowing, Overflows
  PROVE  Knowing'
<1>1. /\ pc = "calling" /\ UNCHANGED <<transcript, active, msgs, batch, fate>>
      /\ pc' = pc \/ pc' = "idle"
  BY DEF Overflows, RunEnds, run
<1>2. CASE pc' = pc
  <2>1. \A s : Loads(s)' = Loads(s)
    BY <1>1 DEF Loads
  <2>2. \A s : HasText(s)' = HasText(s)
    BY <1>1, <2>1 DEF HasText
  <2>3. \A s : Loaded(s) => Loaded(s)'
    BY <1>1, <1>2, <2>1, <2>2 DEF Loaded
  <2> QED BY <1>1, <1>2, <2>3 DEF Knowing
<1>3. CASE pc' = "idle"
  BY <1>1, <1>3, KnowingAtRest
<1> QED BY <1>1, <1>2, <1>3

(* What was loaded stays loaded when blocks are added to the transcript. *)
LEMMA LoadsMore ==
  ASSUME NEW b \in Seq(Block), Blocks(transcript) \in Seq(Block),
         Blocks(transcript') = Blocks(transcript) \o b, NEW s
  PROVE  Loads(s) \subseteq Loads(s)'
<1>1. ToSet(Blocks(transcript')) = ToSet(Blocks(transcript)) \cup ToSet(b)
  BY ToSetConcat
<1>2. OfKind(Blocks(transcript), "use") \subseteq OfKind(Blocks(transcript'), "use")
  BY <1>1 DEF OfKind
<1> QED BY <1>2 DEF Loads

LEMMA KnowingAfterCallsTools ==
  ASSUME Talking, Knowing, CallsTools
  PROVE  Knowing'
<1>1. PICK b \in Batches :
        /\ transcript' = Push(transcript, Assistant(Lead(b) \o Reply(b)))
        /\ batch' = Reply(b) /\ fate' = [i \in DOMAIN b.tools |-> "todo"]
  BY DEF CallsTools
<1>2. pc = "calling" /\ pc' = "dispatch" /\ UNCHANGED <<active, msgs>>
  BY DEF CallsTools
<1>3. Told(transcript) /\ Settled(transcript) /\ Sound(transcript) /\ batch = <<>>
  BY <1>2 DEF Talking, Told
<1> DEFINE w == Lead(b) \o Reply(b)
<1>4. /\ IsBatch(Reply(b)) /\ DOMAIN b.tools = 1..Len(Reply(b))
      /\ Saying(transcript, w) /\ UseIds(w) = UseIds(Reply(b)) /\ ToSet(Reply(b)) \subseteq ToSet(w)
  BY <1>3, ReplyIs
<1> HIDE DEF w
<1>5. Blocks(transcript') = Blocks(transcript) \o w /\ w \in Seq(Block) /\ ResultIds(w) = {}
  BY <1>1, <1>3, <1>4, SayingIsTold DEF Saying, w
<1>6. Blocks(transcript) \in Seq(Block)
  BY <1>3, SoundTyped
<1>7. /\ ToSet(Blocks(transcript')) = ToSet(Blocks(transcript)) \cup ToSet(w)
      /\ ResultIds(Blocks(transcript')) = ResultIds(Blocks(transcript))
  <2>1. ToSet(Blocks(transcript) \o w) = ToSet(Blocks(transcript)) \cup ToSet(w)
    BY <1>5, <1>6, ToSetConcat
  <2>2. ResultIds(Blocks(transcript) \o w) = ResultIds(Blocks(transcript)) \cup ResultIds(w)
    BY <1>5, <1>6, IdsConcat
  <2> QED BY <1>5, <2>1, <2>2
<1>8. UseIds(Blocks(transcript)) \cap UseIds(Reply(b)) = {}
  BY <1>4 DEF Saying
<1>9. ASSUME NEW s \in Skills, active[s] # NoId
      PROVE  Loaded(s)'
  <2>1. Loaded(s) /\ HasText(s)
    BY <1>2, <1>9 DEF Knowing, Loaded
  <2>2. Loads(s) \subseteq Loads(s)'
    BY <1>5, <1>6, LoadsMore
  <2>3. active'[s] \in Loads(s)'
    BY <1>2, <2>1, <2>2 DEF Loaded
  <2>4. \A r \in OfKind(Blocks(transcript'), "result") : r.id = active'[s] => r.how = "body"
    <3>1. ASSUME NEW r \in OfKind(Blocks(transcript'), "result"), r.id = active'[s]
          PROVE  r.how = "body"
      <4>1. r \in ToSet(Blocks(transcript)) \cup ToSet(w) /\ r.kind = "result"
        BY <1>7, <3>1 DEF OfKind
      <4>2. r \notin ToSet(w)
        BY <1>5, <4>1 DEF ResultIds, OfKind
      <4> QED BY <1>2, <2>1, <3>1, <4>1, <4>2 DEF Loaded, OfKind
    <3> QED BY <3>1
  <2>5. active[s] \in UseIds(Blocks(transcript))
    BY <2>1 DEF Loaded, Loads, UseIds
  <2>6. \A j \in DOMAIN batch' : batch'[j].id # active'[s]
    <3>1. \A j \in 1..Len(Reply(b)) : Reply(b)[j].id \in UseIds(Reply(b))
      BY <1>4, IdsAt DEF IsBatch
    <3>2. DOMAIN Reply(b) = 1..Len(Reply(b))
      BY <1>4 DEF IsBatch
    <3> QED BY <1>1, <1>2, <1>8, <2>5, <3>1, <3>2
  <2>7. HasText(s)'
    <3>1. \E r \in OfKind(Blocks(msgs), "result") : r.how = "body" /\ r.id \in Loads(s)
      BY <1>3, <2>1 DEF HasText
    <3> QED BY <1>2, <2>2, <3>1 DEF HasText
  <2> QED BY <2>3, <2>4, <2>6, <2>7 DEF Loaded
<1>10. Batched'
  <2>1. ToSet(batch') \subseteq ToSet(Blocks(transcript'))
    BY <1>1, <1>4, <1>7
  <2>2. ResultIds(Blocks(transcript')) \cap UseIds(batch') = {}
    BY <1>1, <1>3, <1>7, <1>8, ResultsHaveUses
  <2>3. \A i \in DOMAIN batch' : fate'[i] = "todo"
    <3>1. DOMAIN Reply(b) = 1..Len(Reply(b))
      BY <1>4 DEF IsBatch
    <3> QED BY <1>1, <1>4, <3>1
  <2> QED BY <2>1, <2>2, <2>3 DEF Batched
<1>11. active' \in [Skills -> Nat]
  BY <1>2 DEF Knowing
<1> QED BY <1>2, <1>9, <1>10, <1>11 DEF Knowing

-----------------------------------------------------------------------------
(* One call of the batch gets on. *)

LEMMA CallIs ==
  ASSUME Talking, Knowing, pc = "dispatch", NEW i \in DOMAIN batch
  PROVE  /\ i \in DOMAIN fate /\ fate[i] \in Fates
         /\ batch[i] \in ToSet(Blocks(transcript)) /\ batch[i].kind = "use"
         /\ batch[i].id \in UseIds(Blocks(transcript)) /\ batch[i].id \in Nat \ {NoId}
         /\ batch[i].id \notin ResultIds(Blocks(transcript))
         /\ batch[i].tool \in Tools
         /\ \A j \in DOMAIN batch : batch[j].id = batch[i].id => j = i
<1>1. Dispatching /\ Batched /\ Told(transcript)
  BY DEF Talking, Knowing
<1>2. /\ batch \in Seq(Block) /\ Once(batch, "use") /\ DOMAIN batch = 1..Len(batch)
      /\ \A j \in 1..Len(batch) : batch[j].kind = "use" /\ batch[j].tool \in Tools
      /\ fate \in [1..Len(batch) -> Fates]
  BY <1>1 DEF Dispatching, IsBatch
<1>3. batch[i] \in ToSet(batch) /\ batch[i] \in Block
  BY <1>2, InSet
<1>4. batch[i] \in ToSet(Blocks(transcript))
  BY <1>1, <1>3 DEF Batched
<1>5. batch[i].id \in UseIds(Blocks(transcript))
  BY <1>2, <1>4 DEF UseIds, OfKind
<1>6. batch[i].id \in UseIds(batch)
  BY <1>2, <1>3 DEF UseIds, OfKind
<1>7. batch[i].id \notin ResultIds(Blocks(transcript))
  BY <1>1, <1>6 DEF Batched
<1>8. \A j \in DOMAIN batch : batch[j].id = batch[i].id => j = i
  BY <1>2, OnceAt
<1>9. batch[i].id \in Nat \ {NoId}
  BY <1>2, <1>3, BlockFields
<1> QED BY <1>2, <1>4, <1>5, <1>7, <1>8, <1>9

LEMMA TextStays ==
  ASSUME NEW i \in DOMAIN batch, fate[i] \in {"todo", "loading"}, NEW how, Fated(i, how),
         UNCHANGED <<transcript, msgs, batch>>, NEW s
  PROVE  /\ Loads(s)' = Loads(s)
         /\ HasText(s) => HasText(s)'
<1>1. Loads(s)' = Loads(s)
  BY DEF Loads
<1>2. CASE \E r \in OfKind(Blocks(msgs), "result") : r.how = "body" /\ r.id \in Loads(s)
  BY <1>1, <1>2 DEF HasText
<1>3. ASSUME NEW j \in DOMAIN batch, batch[j].id \in Loads(s), fate[j] = "body"
      PROVE  HasText(s)'
  <2>1. j # i
    BY <1>3
  <2>2. fate'[j] = "body"
    BY <1>3, <2>1 DEF Fated
  <2> QED BY <1>1, <1>3, <2>2 DEF HasText
<1> QED BY <1>1, <1>2, <1>3 DEF HasText

LEMMA LoadedStays ==
  ASSUME NEW i \in DOMAIN batch, fate[i] \in {"todo", "loading"}, NEW how, Fated(i, how),
         UNCHANGED <<transcript, msgs, batch, pc>>, NEW s, active'[s] = active[s], Loaded(s)
  PROVE  Loaded(s)'
<1>1. Loads(s)' = Loads(s) /\ (HasText(s) => HasText(s)')
  BY TextStays
<1>2. ASSUME NEW j \in DOMAIN batch, batch[j].id = active[s] PROVE fate'[j] = "body"
  <2>1. fate[j] = "body"
    BY <1>2 DEF Loaded
  <2>2. j # i
    BY <2>1
  <2> QED BY <2>1, <2>2 DEF Fated
<1> QED BY <1>1, <1>2 DEF Loaded

(* The batch after one call got on: what that call came to is as it was    *)
(* for the others.                                                         *)
LEMMA BatchedStays ==
  ASSUME Talking, Knowing, pc = "dispatch",
         NEW i \in DOMAIN batch, fate[i] \in {"todo", "loading"}, NEW how, Fated(i, how),
         UNCHANGED <<transcript, msgs, batch, pc>>,
         how \in {"loading", "body"} => batch[i].tool.op = "load",
         how \in {"ran", "stub"} => HasText(batch[i].tool.skill)
  PROVE  Batched'
<1>1. Batched
  BY DEF Knowing
<1>2. \A s : HasText(s) => HasText(s)'
  BY TextStays
<1>3. i \in DOMAIN fate
  BY CallIs
<1>4. fate'[i] = how /\ \A j \in DOMAIN batch : j # i => fate'[j] = fate[j]
  <2>1. \A j \in DOMAIN batch : j \in DOMAIN fate
    BY CallIs
  <2> QED BY <1>3, <2>1 DEF Fated
<1>5. ASSUME NEW j \in DOMAIN batch'
      PROVE  /\ fate'[j] \in {"loading", "body"} => batch'[j].tool.op = "load"
             /\ fate'[j] \in {"ran", "stub"} => HasText(batch[j].tool.skill)'
  <2>1. CASE j = i
    BY <1>2, <1>4, <2>1
  <2>2. CASE j # i
    <3>1. fate'[j] = fate[j] /\ j \in DOMAIN batch
      BY <1>4, <2>2
    <3>2. fate[j] \in {"ran", "stub"} => HasText(batch[j].tool.skill)
      BY <1>1, <3>1 DEF Batched
    <3> QED BY <1>1, <1>2, <3>1, <3>2 DEF Batched
  <2> QED BY <2>1, <2>2
<1>6. ToSet(batch') \subseteq ToSet(Blocks(transcript')) /\ ResultIds(Blocks(transcript')) \cap UseIds(batch') = {}
  BY <1>1 DEF Batched
<1> QED BY <1>5, <1>6 DEF Batched

(* A call that leaves the active skills alone, or retires one. *)
LEMMA KnowingAfterOther ==
  ASSUME Talking, Knowing, pc = "dispatch",
         NEW i \in DOMAIN batch, fate[i] \in {"todo", "loading"}, NEW how, Fated(i, how),
         UNCHANGED <<transcript, msgs, batch, pc>>,
         how \in {"loading", "body"} => batch[i].tool.op = "load",
         how \in {"ran", "stub"} => HasText(batch[i].tool.skill),
         active' \in [Skills -> Nat], \A s \in Skills : active'[s] \in {active[s], NoId}
  PROVE  Knowing'
<1>1. Batched'
  BY BatchedStays
<1>2. ASSUME NEW s \in Skills, active'[s] # NoId
      PROVE  Loaded(s)'
  <2>1. active'[s] = active[s]
    BY <1>2
  <2>2. Loaded(s)
    BY <1>2, <2>1 DEF Knowing
  <2> QED BY <2>1, <2>2, LoadedStays
<1> QED BY <1>1, <1>2 DEF Knowing

LEMMA ToolIs ==
  ASSUME NEW t \in Tools
  PROVE  /\ t.op \in {"load", "unload", "gated"} => t.skill \in Skills
         /\ t.op = "load" => t = Load(t.skill)
BY DEF Tools, Load, Unload, Gated, LoadUnknown, Plain

LEMMA KnowingAfterLoadActivates ==
  ASSUME Talking, Knowing, NEW i \in DOMAIN batch, LoadActivates(i)
  PROVE  Knowing'
<1>1. /\ pc = "dispatch" /\ fate[i] = "loading" /\ Fated(i, "body")
      /\ UNCHANGED <<transcript, msgs, batch, pc>>
      /\ active' = [active EXCEPT ![batch[i].tool.skill] = batch[i].id]
  BY DEF LoadActivates, rest, run
<1>t. PICK t : t = batch[i].tool.skill
  OBVIOUS
<1>2. batch[i].tool.op = "load"
  BY <1>1 DEF Knowing, Batched
<1>3. /\ batch[i] \in ToSet(Blocks(transcript)) /\ batch[i].kind = "use"
      /\ batch[i].id \notin ResultIds(Blocks(transcript)) /\ batch[i].id \in Nat
      /\ \A j \in DOMAIN batch : batch[j].id = batch[i].id => j = i
      /\ i \in DOMAIN fate /\ batch[i].tool \in Tools
  BY <1>1, CallIs
<1>4. t \in Skills /\ batch[i].tool = Load(t)
  BY <1>t, <1>2, <1>3, ToolIs
<1>5. /\ active \in [Skills -> Nat] /\ active' \in [Skills -> Nat]
      /\ active'[t] = batch[i].id /\ \A s \in Skills : s # t => active'[s] = active[s]
  BY <1>t, <1>1, <1>3, <1>4 DEF Knowing
<1>6. Batched'
  <2>1. fate[i] \in {"todo", "loading"}
    BY <1>1
  <2> QED BY <1>1, <1>2, <2>1, BatchedStays
<1>7. Loaded(t)'
  <2>1. fate'[i] = "body"
    BY <1>1, <1>3 DEF Fated
  <2>2. batch[i].id \in Loads(t)
    BY <1>3, <1>4 DEF Loads, OfKind
  <2>3. Loads(t)' = Loads(t)
    BY <1>1 DEF Loads
  <2>4. HasText(t)'
    BY <1>1, <2>1, <2>2, <2>3 DEF HasText
  <2>5. \A r \in OfKind(Blocks(transcript), "result") : r.id # batch[i].id
    BY <1>3 DEF ResultIds
  <2>6. \A j \in DOMAIN batch : batch[j].id = batch[i].id => fate'[j] = "body"
    BY <1>3, <2>1
  <2> QED BY <1>1, <1>5, <2>2, <2>3, <2>4, <2>5, <2>6 DEF Loaded
<1>8. ASSUME NEW s \in Skills, active'[s] # NoId
      PROVE  Loaded(s)'
  <2>1. CASE s = t
    BY <1>7, <2>1
  <2>2. CASE s # t
    <3>1. active'[s] = active[s]
      BY <1>5, <2>2
    <3>2. Loaded(s)
      BY <1>1, <1>8, <3>1 DEF Knowing
    <3>3. fate[i] \in {"todo", "loading"}
      BY <1>1
    <3> QED BY <1>1, <3>1, <3>2, <3>3, LoadedStays
  <2> QED BY <2>1, <2>2
<1> QED BY <1>1, <1>5, <1>6, <1>8 DEF Knowing

LEMMA KnowingAfterCallStep ==
  ASSUME Talking, Knowing, NEW i \in DOMAIN batch, CallStep(i)
  PROVE  Knowing'
<1>1. /\ pc = "dispatch" /\ fate[i] \in {"todo", "loading"}
      /\ UNCHANGED <<transcript, msgs, batch, pc>>
  BY StepGetsOn DEF GetsOn, rest, run
<1>2. batch[i].tool \in Tools
  BY <1>1, CallIs
<1>3. active \in [Skills -> Nat]
  BY DEF Knowing
<1>4. ASSUME NEW s \in Skills, active[s] # NoId PROVE HasText(s)
  BY <1>1, <1>4 DEF Knowing, Loaded
<1>5. CASE LoadLooks(i)
  <2>1. /\ batch[i].tool.op = "load" /\ UNCHANGED active
        /\ Fated(i, IF active[batch[i].tool.skill] # NoId THEN "stub" ELSE "loading")
    BY <1>5 DEF LoadLooks, Called
  <2>2. batch[i].tool.skill \in Skills
    BY <1>2, <2>1, ToolIs
  <2>3. CASE active[batch[i].tool.skill] # NoId
    <3>1. Fated(i, "stub") /\ HasText(batch[i].tool.skill)
      BY <1>4, <2>1, <2>2, <2>3
    <3> QED BY <1>1, <1>3, <2>1, <3>1, KnowingAfterOther
  <2>4. CASE active[batch[i].tool.skill] = NoId
    <3>1. Fated(i, "loading")
      BY <2>1, <2>4
    <3> QED BY <1>1, <1>3, <2>1, <3>1, KnowingAfterOther
  <2> QED BY <2>3, <2>4
<1>6. CASE LoadActivates(i)
  BY <1>6, KnowingAfterLoadActivates
<1>7. CASE Misload(i)
  <2>1. Fated(i, "error") /\ UNCHANGED active
    BY <1>7 DEF Misload
  <2> QED BY <1>1, <1>3, <2>1, KnowingAfterOther
<1>8. CASE UnloadSkill(i)
  <2>1. Fated(i, "done") /\ active' = [active EXCEPT ![batch[i].tool.skill] = NoId]
    BY <1>8 DEF UnloadSkill
  <2>2. active' \in [Skills -> Nat] /\ \A s \in Skills : active'[s] \in {active[s], NoId}
    BY <1>3, <2>1 DEF NoId
  <2> QED BY <1>1, <2>1, <2>2, KnowingAfterOther
<1>9. CASE CallGated(i)
  <2>1. /\ batch[i].tool.op = "gated" /\ UNCHANGED active
        /\ Fated(i, IF active[batch[i].tool.skill] # NoId THEN "ran" ELSE "refused")
    BY <1>9 DEF CallGated, Called
  <2>2. batch[i].tool.skill \in Skills
    BY <1>2, <2>1, ToolIs
  <2>3. CASE active[batch[i].tool.skill] # NoId
    <3>1. Fated(i, "ran") /\ HasText(batch[i].tool.skill)
      BY <1>4, <2>1, <2>2, <2>3
    <3> QED BY <1>1, <1>3, <2>1, <3>1, KnowingAfterOther
  <2>4. CASE active[batch[i].tool.skill] = NoId
    <3>1. Fated(i, "refused")
      BY <2>1, <2>4
    <3> QED BY <1>1, <1>3, <2>1, <3>1, KnowingAfterOther
  <2> QED BY <2>3, <2>4
<1>10. CASE CallPlain(i)
  <2>1. Fated(i, "done") /\ UNCHANGED active
    BY <1>10 DEF CallPlain
  <2> QED BY <1>1, <1>3, <2>1, KnowingAfterOther
<1> QED BY <1>5, <1>6, <1>7, <1>8, <1>9, <1>10 DEF CallStep

LEMMA KnowingAfterGather ==
  ASSUME Talking, Knowing, Gather
  PROVE  Knowing'
<1>1. /\ pc = "dispatch" /\ pc' = "top" /\ batch' = <<>> /\ UNCHANGED active
      /\ transcript' = Push(transcript, User(Gathered))
  BY DEF Gather, Gathered
<1>2. Told(transcript) /\ Sound(transcript) /\ Dispatching
  BY <1>1 DEF Talking, Told
<1>3. /\ Answering(transcript, Gathered) /\ Len(Gathered) = Len(batch)
      /\ \A i \in 1..Len(batch) : Gathered[i] = Res(batch[i].id, fate[i])
  BY <1>2, GatheredAnswers
<1>4. Gathered \in Seq(Block) /\ Blocks(transcript) \in Seq(Block)
  BY <1>2, <1>3, SoundTyped DEF Answering
<1>5. Blocks(transcript') = Blocks(transcript) \o Gathered
  BY <1>1, <1>2, <1>3, AnsweringIsTold
<1>6. ASSUME NEW s \in Skills, active[s] # NoId
      PROVE  Loaded(s)'
  <2>1. Loaded(s)
    BY <1>1, <1>6 DEF Knowing
  <2>2. active'[s] \in Loads(s)'
    BY <1>1, <1>4, <1>5, <2>1, LoadsMore DEF Loaded
  <2>3. ASSUME NEW r \in OfKind(Blocks(transcript'), "result"), r.id = active[s]
        PROVE  r.how = "body"
    <3>1. ToSet(Blocks(transcript')) = ToSet(Blocks(transcript)) \cup ToSet(Gathered)
      BY <1>4, <1>5, ToSetConcat
    <3>2. CASE r \in ToSet(Blocks(transcript))
      BY <2>1, <2>3, <3>2 DEF Loaded, OfKind
    <3>3. CASE r \in ToSet(Gathered)
      <4>1. PICK i \in 1..Len(Gathered) : Gathered[i] = r
        BY <1>4, <3>3, InSet
      <4>2. r = Res(batch[i].id, fate[i]) /\ i \in DOMAIN batch
        BY <1>2, <1>3, <4>1 DEF Dispatching, IsBatch
      <4>3. r.id = batch[i].id /\ r.how = fate[i]
        BY <4>2 DEF Res
      <4> QED BY <2>1, <2>3, <4>2, <4>3 DEF Loaded
    <3> QED BY <2>3, <3>1, <3>2, <3>3 DEF OfKind
  <2> QED BY <1>1, <2>2, <2>3 DEF Loaded
<1> QED BY <1>1, <1>6 DEF Knowing

LEMMA KnowingKept ==
  ASSUME Talking, Knowing, [ContextNext]_contextVars
  PROVE  Knowing'
<1>1. CASE Start
  BY <1>1, KnowingAfterStart
<1>2. CASE Materialize
  BY <1>2, KnowingAfterMaterialize
<1>3. CASE Overflows
  BY <1>3, KnowingAfterOverflows
<1>4. CASE CallsTools
  BY <1>4, KnowingAfterCallsTools
<1>5. CASE IterationsSpent \/ CallBreaks \/ Finishes \/ EndsOpen
  <2>1. pc' = "idle" /\ UNCHANGED active
    BY <1>5 DEF IterationsSpent, CallBreaks, Finishes, EndsOpen, RunEnds
  <2> QED BY <2>1, KnowingAtRest
<1>6. CASE \E i \in DOMAIN batch : CallStep(i)
  BY <1>6, KnowingAfterCallStep
<1>7. CASE Gather
  BY <1>7, KnowingAfterGather
<1>8. CASE UNCHANGED contextVars
  <2>1. UNCHANGED <<transcript, active, msgs, batch, fate, pc>>
    BY <1>8 DEF contextVars, run
  <2>2. \A s : Loads(s)' = Loads(s)
    BY <2>1 DEF Loads
  <2>3. \A s : HasText(s)' = HasText(s)
    BY <2>1, <2>2 DEF HasText
  <2>4. \A s : Loaded(s) => Loaded(s)'
    BY <2>1, <2>2, <2>3 DEF Loaded
  <2>5. Batched => Batched'
    BY <2>1, <2>3 DEF Batched
  <2> QED BY <2>1, <2>4, <2>5 DEF Knowing
<1> QED BY <1>1, <1>2, <1>3, <1>4, <1>5, <1>6, <1>7, <1>8 DEF ContextNext

LEMMA AlwaysKnowing == ContextSpec => []Knowing
<1>1. ContextInit => Knowing
  BY KnowingStarts
<1>2. Talking /\ Knowing /\ [ContextNext]_contextVars => Knowing'
  BY KnowingKept
<1> QED BY <1>1, <1>2, AlwaysTalking, PTL DEF ContextSpec

(* bind.go:106-118: a gated tool is offered, and runs, and a load answers  *)
(* with a stub, only while the text of the skill is before the model or    *)
(* comes with the results of the batch.                                    *)
THEOREM AlwaysKnowsWhatItRuns == ContextSpec => []KnowsWhatItRuns
<1>1. Knowing => KnowsWhatItRuns
  BY DEF Knowing, Loaded, Batched, KnowsWhatItRuns
<1> QED BY <1>1, AlwaysKnowing, PTL

-----------------------------------------------------------------------------
(* Context.WindowHoldsStill. *)

(* Turns added leave it as it was where a cut may go.                      *)
Lengthened(c, d) ==
  /\ d \in Seq(Turn) /\ Len(c) <= Len(d)
  /\ \A i \in 1..Len(c) : Fresh(d[i]) <=> Fresh(c[i])

LEMMA GrownSelf ==
  ASSUME NEW c \in Seq(Turn)
  PROVE  Lengthened(c, c)
BY DEF Lengthened

LEMMA PushGrows ==
  ASSUME NEW c \in Seq(Turn), c # <<>>, NEW m \in Turn,
         m.role = "user" /\ Last(c).role = "user" => ResultIds(m.content) = {}
  PROVE  Lengthened(c, Push(c, m))
<1>1. CASE m.content = <<>>
  BY <1>1, PushNothing, GrownSelf
<1>2. CASE m.content # <<>>
  <2>1. PICK d \in Seq(Turn), l \in Turn : c = Append(d, l)
    <3>1. c \in Seq(Turn) /\ c # <<>>
      OBVIOUS
    <3> QED BY ONLY <3>1, SequenceEmptyOrAppend
  <2> DEFINE e == [role |-> l.role, content |-> l.content \o m.content]
  <2>2. Last(c) = l
    BY <2>1 DEF Last
  <2>3. l.content \in Seq(Block) /\ m.content \in Seq(Block) /\ l.role \in {"user", "assistant"}
    BY TurnFields
  <2>4. l.content \o m.content \in Seq(Block)
    BY <2>3, ConcatAt
  <2>5. e \in Turn
    BY <2>3, <2>4 DEF Turn
  <2>6. CASE l.role = m.role
    <3>1. Push(c, m) = Append(d, e)
      BY <1>2, <2>1, <2>6, PushJoins
    <3>2. Fresh(e) <=> Fresh(l)
      <4>1. ResultIds(l.content \o m.content) = ResultIds(l.content) \cup ResultIds(m.content)
        BY <2>3, IdsConcat
      <4>2. e.role = l.role /\ e.content = l.content \o m.content
        OBVIOUS
      <4> QED BY <2>2, <2>6, <4>1, <4>2 DEF Fresh
    <3> HIDE DEF e
    <3>3. /\ Append(d, e) \in Seq(Turn) /\ Len(Append(d, e)) = Len(d) + 1
          /\ Append(d, e)[Len(d) + 1] = e
          /\ \A i \in 1..Len(d) : Append(d, e)[i] = d[i]
      BY <2>5, AppendAt
    <3>4. /\ Len(c) = Len(d) + 1 /\ c[Len(d) + 1] = l /\ Len(d) \in Nat
          /\ \A i \in 1..Len(d) : c[i] = d[i]
          /\ \A i \in 1..(Len(d) + 1) : i \in 1..Len(d) \/ i = Len(d) + 1
      BY <2>1, AppendAt
    <3> QED BY <3>1, <3>2, <3>3, <3>4 DEF Lengthened
  <2>7. CASE l.role # m.role
    <3>1. Push(c, m) = Append(c, m)
      BY <1>2, <2>1, <2>7, PushOne
    <3>2. /\ Append(c, m) \in Seq(Turn) /\ Len(c) \in Nat /\ Len(Append(c, m)) = Len(c) + 1
          /\ \A i \in 1..Len(c) : Append(c, m)[i] = c[i]
      BY AppendAt
    <3>3. Len(c) <= Len(c) + 1
      BY <3>2
    <3> QED BY <3>1, <3>2, <3>3 DEF Lengthened
  <2> QED BY <2>6, <2>7
<1> QED BY <1>1, <1>2

LEMMA SayingGrows ==
  ASSUME NEW c, Told(c), NEW b, Saying(c, b)
  PROVE  Lengthened(c, Push(c, Assistant(b)))
<1>1. c \in Seq(Turn) /\ c # <<>>
  BY DEF Told, Sound, Alternates
<1>2. Assistant(b) \in Turn /\ Assistant(b).role = "assistant"
  BY DEF Assistant, Turn, Saying
<1> QED BY <1>1, <1>2, PushGrows

LEMMA AnsweringGrows ==
  ASSUME NEW c, Told(c), NEW b, Answering(c, b)
  PROVE  Lengthened(c, Push(c, User(b)))
<1>1. c \in Seq(Turn) /\ c # <<>> /\ RightRoles(c)
  BY DEF Told, Sound, Alternates
<1>2. User(b) \in Turn /\ User(b).content = b
  BY DEF User, Turn, Answering
<1>3. ASSUME Last(c).role = "user" PROVE ResultIds(b) = {}
  <2>1. Len(c) \in DOMAIN c /\ Last(c) = c[Len(c)]
    BY <1>1 DEF Last
  <2>2. UseIds(Last(c).content) = {}
    BY <1>1, <1>3, <2>1 DEF RightRoles
  <2> QED BY <2>2 DEF Answering
<1> QED BY <1>1, <1>2, <1>3, PushGrows

(* strategy.go:163-198: turns added to a transcript never move a cut that  *)
(* aims at the same number of messages.                                    *)
THEOREM CutStays ==
  ASSUME NEW c \in Seq(Turn), NEW d, Lengthened(c, d), NEW want \in Nat, want < Len(c)
  PROVE  SafeCut(d, want) = SafeCut(c, want)
<1> DEFINE p == {i \in 1..(Len(c) - 1) : i <= want /\ Fresh(c[i + 1])}
           q == {i \in 1..(Len(d) - 1) : i <= want /\ Fresh(d[i + 1])}
<1>1. Len(c) \in Nat /\ Len(d) \in Nat /\ Len(c) <= Len(d)
  BY DEF Lengthened
<1>2. \A i \in 1..(Len(c) - 1) : i \in 1..(Len(d) - 1) /\ i + 1 \in 1..Len(c)
  BY <1>1
<1>3. p \subseteq q
  BY <1>2 DEF Lengthened
<1>4. ASSUME NEW i \in q PROVE i \in p
  <2>1. i \in 1..(Len(d) - 1) /\ i <= want /\ Fresh(d[i + 1])
    BY <1>4
  <2>2. i \in 1..(Len(c) - 1)
    <3>1. i < Len(c)
      BY <1>1, <2>1
    <3> QED BY <1>1, <2>1, <3>1
  <2> QED BY <1>2, <2>1, <2>2 DEF Lengthened
<1>5. p = q
  BY <1>3, <1>4
<1> QED BY <1>5 DEF SafeCut

Windowed == Len(setup.strategy) = 1 /\ setup.strategy[1].kind = "window"

(* Where a window of this keep and delta has cut or may cut a transcript. *)
CutAt(x, c, keep, delta) ==
  \E k \in Nat : k >= 1 /\ k * delta \in Nat /\ k * delta <= Len(c) - keep /\ x = SafeCut(c, k * delta)

(* Every cut seen is one that would still be made for some multiple of     *)
(* delta; and what was materialized keeps keepRecent messages.             *)
Cutting ==
  Windowed =>
    LET w == setup.strategy[1]
    IN  /\ w.at > w.keep => \A x \in cuts : x = 0 \/ (w.keep > 0 /\ CutAt(x, transcript, w.keep, w.at - w.keep))
        /\ pc = "calling" => Len(msgs) >= w.keep \/ msgs = WithNotice(transcript)

LEMMA CutAtStays ==
  ASSUME NEW c \in Seq(Turn), NEW d, Lengthened(c, d), NEW keep \in Nat, keep > 0, NEW delta, NEW x,
         CutAt(x, c, keep, delta)
  PROVE  CutAt(x, d, keep, delta)
<1>1. PICK k \in Nat : k >= 1 /\ k * delta \in Nat /\ k * delta <= Len(c) - keep /\ x = SafeCut(c, k * delta)
  BY DEF CutAt
<1>2. PICK want \in Nat : want = k * delta
  BY <1>1
<1>3. Len(c) \in Nat /\ Len(d) \in Nat /\ Len(c) <= Len(d)
  BY DEF Lengthened
<1>4. want < Len(c) /\ want <= Len(d) - keep
  BY <1>1, <1>2, <1>3
<1>5. SafeCut(d, want) = SafeCut(c, want)
  BY <1>4, CutStays
<1> QED BY <1>1, <1>2, <1>4, <1>5 DEF CutAt

(* A multiple of delta that does not exceed spare.                         *)
LEMMA Quantized ==
  ASSUME NEW spare \in Nat, NEW delta \in Nat \ {0}
  PROVE  /\ spare \div delta \in Nat /\ (spare \div delta) * delta \in Nat
         /\ (spare \div delta) * delta <= spare
<1>1. spare \div delta \in Nat
  OBVIOUS
<1>2. spare = delta * (spare \div delta) + (spare % delta) /\ spare % delta \in 0..(delta - 1)
  OBVIOUS
<1>3. delta * (spare \div delta) = (spare \div delta) * delta
  BY <1>1
<1>4. (spare \div delta) * delta \in Nat
  BY <1>1
<1> QED BY <1>1, <1>2, <1>3, <1>4

LEMMA WindowCutIs ==
  ASSUME NEW w \in Steps, w.kind = "window", NEW c \in Seq(Turn), c # <<>>
  PROVE  /\ WindowCut(w, c) \in 0..Len(c)
         /\ WindowCut(w, c) = 0 \/ w.keep <= Len(c) - WindowCut(w, c)
         /\ w.at > w.keep => WindowCut(w, c) = 0 \/ (w.keep > 0 /\ CutAt(WindowCut(w, c), c, w.keep, w.at - w.keep))
<1>1. w.at \in Nat /\ w.keep \in Nat
  BY DEF Steps
<1>2. Len(c) \in Nat /\ Len(c) >= 1
  OBVIOUS
<1>3. \A want : /\ SafeCut(c, want) \in 0..(Len(c) - 1)
                /\ SafeCut(c, want) # 0 => SafeCut(c, want) <= want
  BY SafeCutIs
<1>4. ASSUME NEW want \in Nat, want <= Len(c) - w.keep
      PROVE  /\ SafeCut(c, want) \in 0..Len(c)
             /\ SafeCut(c, want) = 0 \/ w.keep <= Len(c) - SafeCut(c, want)
  <2>1. SafeCut(c, want) \in 0..(Len(c) - 1) /\ (SafeCut(c, want) # 0 => SafeCut(c, want) <= want)
    BY <1>3
  <2>2. PICK x : x = SafeCut(c, want)
    OBVIOUS
  <2>3. x \in 0..(Len(c) - 1) /\ (x # 0 => x <= want)
    BY <2>1, <2>2
  <2>4. x \in 0..Len(c) /\ (x = 0 \/ w.keep <= Len(c) - x)
    BY <1>1, <1>2, <1>4, <2>3
  <2> QED BY <2>2, <2>4
<1>5. CASE w.keep <= 0 \/ Len(c) - w.keep <= 0
  BY <1>1, <1>2, <1>5 DEF WindowCut
<1>6. CASE w.keep > 0 /\ Len(c) - w.keep > 0 /\ w.at <= 0
  <2>1. WindowCut(w, c) = SafeCut(c, Len(c) - w.keep)
    BY <1>1, <1>2, <1>6 DEF WindowCut
  <2>2. Len(c) - w.keep \in Nat /\ ~ w.at > w.keep
    BY <1>1, <1>2, <1>6
  <2> QED BY <1>4, <2>1, <2>2
<1>7. CASE w.keep > 0 /\ Len(c) - w.keep > 0 /\ w.at > 0
  <2> DEFINE delta == w.at - w.keep
             spare == Len(c) - w.keep
             k     == spare \div delta
             want  == k * delta
  <2>1. \/ WindowCut(w, c) = 0
        \/ delta > 0 /\ WindowCut(w, c) = SafeCut(c, want)
    BY <1>1, <1>2, <1>7 DEF WindowCut
  <2>2. spare \in Nat /\ (delta > 0 => delta \in Nat \ {0})
    BY <1>1, <1>2, <1>7
  <2>3. CASE WindowCut(w, c) = 0
    BY <1>2, <2>3
  <2>4. CASE delta > 0 /\ WindowCut(w, c) = SafeCut(c, want)
    <3>1. k \in Nat /\ want \in Nat /\ want <= spare
      BY <2>2, <2>4, Quantized
    <3>2. /\ SafeCut(c, want) \in 0..Len(c)
          /\ SafeCut(c, want) = 0 \/ w.keep <= Len(c) - SafeCut(c, want)
      BY <1>4, <3>1
    <3>3. ASSUME SafeCut(c, want) # 0 PROVE CutAt(SafeCut(c, want), c, w.keep, delta)
      <4>1. SafeCut(c, want) \in 0..(Len(c) - 1) /\ SafeCut(c, want) <= want
        BY <1>3, <3>3
      <4>2. want # 0
        BY <3>1, <3>3, <4>1
      <4>3. k >= 1
        <5>1. k = 0 => want = 0
          BY <2>2, <2>4
        <5> QED BY <3>1, <4>2, <5>1
      <4> QED BY <3>1, <4>3 DEF CutAt
    <3> QED BY <1>7, <2>4, <3>2, <3>3
  <2> QED BY <2>1, <2>3, <2>4
<1> QED BY <1>1, <1>2, <1>5, <1>6, <1>7

LEMMA NoticeLength ==
  ASSUME NEW c \in Seq(Turn), c # <<>>
  PROVE  Len(WithNotice(c)) = Len(c)
<1>1. ASSUME NEW b PROVE Len([c EXCEPT ![Len(c)].content = b]) = Len(c)
  OBVIOUS
<1>2. WithNotice(c) = c \/ \E b : WithNotice(c) = [c EXCEPT ![Len(c)].content = b]
  BY DEF WithNotice
<1> QED BY <1>1, <1>2

LEMMA WindowedIs ==
  ASSUME setup \in Setups, Windowed
  PROVE  /\ setup.strategy[1] \in Steps /\ setup.strategy[1].kind = "window"
         /\ setup.strategy[1].at \in Nat /\ setup.strategy[1].keep \in Nat
         /\ \A c, tags : Apply(setup.strategy, c, tags) = From(c, WindowCut(setup.strategy[1], c))
<1>1. setup.strategy \in Seq(Steps) /\ Len(setup.strategy) = 1 /\ setup.strategy[1].kind = "window"
  BY SetupIs DEF Windowed
<1>2. setup.strategy[1] \in Steps
  BY <1>1
<1>3. ASSUME NEW c, NEW tags
      PROVE  Apply(setup.strategy, c, tags) = ApplyStep(setup.strategy[1], c, tags)
  <2> DEFINE s == setup.strategy
             n == Len(s)
             f == CHOOSE f : Applies(s, c, tags, n, f)
  <2>1. n = 1 /\ n \in Nat
    BY <1>1
  <2>2. Applies(s, c, tags, n, f)
    BY <2>1, AppliesExists
  <2>3. Apply(s, c, tags) = f[n]
    BY DEF Apply, Applies
  <2> HIDE DEF f
  <2>4. f[0] = c /\ f[1] = ApplyStep(s[1], f[0], tags)
    BY <2>1, <2>2 DEF Applies
  <2> QED BY <2>1, <2>3, <2>4
<1>4. \A c, tags : ApplyStep(setup.strategy[1], c, tags) = From(c, WindowCut(setup.strategy[1], c))
  BY <1>1 DEF ApplyStep
<1> QED BY <1>1, <1>2, <1>3, <1>4 DEF Steps

LEMMA CuttingStarts ==
  ASSUME ContextInit
  PROVE  Cutting
BY DEF ContextInit, Cutting

(* A step that makes no request, and only adds to the transcript.          *)
LEMMA CuttingStays ==
  ASSUME Talking, Cutting, UNCHANGED <<setup, cuts>>, pc' # "calling",
         transcript = <<>> \/ Lengthened(transcript, transcript')
  PROVE  Cutting'
<1>1. ASSUME Windowed, setup.strategy[1].at > setup.strategy[1].keep, NEW x \in cuts, x # 0
      PROVE  /\ setup.strategy[1].keep > 0
             /\ CutAt(x, transcript', setup.strategy[1].keep, setup.strategy[1].at - setup.strategy[1].keep)
  <2>0. PICK w : w = setup.strategy[1]
    OBVIOUS
  <2>1. w.at \in Nat /\ w.keep \in Nat
    BY <1>1, <2>0, WindowedIs DEF Talking
  <2>2. w.keep > 0 /\ CutAt(x, transcript, w.keep, w.at - w.keep)
    BY <1>1, <2>0 DEF Cutting
  <2>3. transcript # <<>>
    <3>1. ASSUME transcript = <<>> PROVE FALSE
      <4>1. PICK k \in Nat : k * (w.at - w.keep) \in Nat /\ k * (w.at - w.keep) <= Len(<<>>) - w.keep
        BY <2>2, <3>1 DEF CutAt
      <4>2. Len(<<>>) = 0
        OBVIOUS
      <4> QED BY <2>1, <2>2, <4>1, <4>2
    <3> QED BY <3>1
  <2>4. transcript \in Seq(Turn) /\ Lengthened(transcript, transcript')
    BY <2>3 DEF Talking, Told, Sound
  <2>5. CutAt(x, transcript', w.keep, w.at - w.keep)
    BY <2>1, <2>2, <2>4, CutAtStays
  <2> QED BY <2>0, <2>2, <2>5
<1>2. Windowed' = Windowed
  BY DEF Windowed
<1> QED BY <1>1, <1>2 DEF Cutting

LEMMA CuttingAfterMaterialize ==
  ASSUME Talking, Cutting, Materialize
  PROVE  Cutting'
<1>1. /\ pc = "top" /\ msgs' = WithNotice(KeptTurns) /\ UNCHANGED <<setup, transcript>>
      /\ Windowed => cuts' = cuts \cup {Len(transcript) - Len(KeptTurns)}
  BY DEF Materialize, KeptTurns, Windowed
<1>2. setup \in Setups /\ transcript \in Seq(Turn) /\ transcript # <<>> /\ Len(transcript) \in Nat
  BY <1>1 DEF Talking, Told, Sound
<1>3. CASE Windowed
  <2>0. PICK w : w = setup.strategy[1]
    OBVIOUS
  <2> DEFINE cut == WindowCut(w, transcript)
  <2>1. w \in Steps /\ w.kind = "window" /\ w.at \in Nat /\ w.keep \in Nat /\ KeptTurns = From(transcript, cut)
    BY <1>2, <1>3, <2>0, WindowedIs DEF KeptTurns
  <2>2. /\ cut \in 0..Len(transcript)
        /\ cut = 0 \/ w.keep <= Len(transcript) - cut
        /\ w.at > w.keep => cut = 0 \/ (w.keep > 0 /\ CutAt(cut, transcript, w.keep, w.at - w.keep))
    BY <1>2, <2>1, WindowCutIs
  <2> HIDE DEF cut
  <2>3. /\ Len(KeptTurns) = Len(transcript) - cut
        /\ cut = 0 => KeptTurns = transcript
    BY <1>2, <2>1, <2>2, FromAt
  <2>4. Len(msgs') = Len(KeptTurns)
    <3>1. KeptTurns \in Seq(Turn) /\ KeptTurns # <<>>
      BY <1>1, KeptServes DEF Serves, Sendable, Unasking
    <3> QED BY <1>1, <3>1, NoticeLength
  <2>5. Len(msgs') >= w.keep \/ msgs' = WithNotice(transcript)
    <3>1. CASE cut = 0
      BY <1>1, <2>3, <3>1
    <3>2. CASE w.keep <= Len(transcript) - cut
      BY <1>2, <2>1, <2>2, <2>3, <2>4, <3>2
    <3> QED BY <2>2, <3>1, <3>2
  <2>6. WithNotice(transcript)' = WithNotice(transcript)
    BY <1>1 DEF WithNotice
  <2>7. cuts' = cuts \cup {cut}
    <3>1. Len(transcript) - Len(KeptTurns) = cut
      BY <1>2, <2>2, <2>3
    <3> QED BY <1>1, <1>3, <3>1
  <2>8. w.at > w.keep =>
          \A x \in cuts' : x = 0 \/ (w.keep > 0 /\ CutAt(x, transcript', w.keep, w.at - w.keep))
    BY <1>1, <1>3, <2>0, <2>2, <2>7 DEF Cutting
  <2>9. setup'.strategy[1] = w
    BY <1>1, <2>0
  <2> QED BY <2>5, <2>6, <2>8, <2>9 DEF Cutting
<1>4. CASE ~ Windowed
  BY <1>1, <1>4 DEF Cutting, Windowed
<1> QED BY <1>3, <1>4

LEMMA CuttingKept ==
  ASSUME Talking, Cutting, [ContextNext]_contextVars
  PROVE  Cutting'
<1>1. CASE Start
  <2>1. UNCHANGED <<setup, cuts>> /\ pc' = "top"
    BY <1>1 DEF Start
  <2>2. CASE transcript = <<>>
    BY <2>1, <2>2, CuttingStays
  <2>3. CASE transcript # <<>>
    <3>1. Told(transcript) /\ transcript' = Then(transcript)
      BY <1>1, <2>3 DEF Start, Talking
    <3>2. PICK b : Answering(transcript, b) /\ Then(transcript) = Push(transcript, User(b))
      BY <3>1, ThenAnswers DEF Told
    <3>3. Lengthened(transcript, Push(transcript, User(b)))
      BY <3>1, <3>2, AnsweringGrows
    <3> QED BY <2>1, <3>1, <3>2, <3>3, CuttingStays
  <2> QED BY <2>2, <2>3
<1>2. CASE Materialize
  BY <1>2, CuttingAfterMaterialize
<1>3. ASSUME UNCHANGED <<setup, transcript, cuts>>, pc' # "calling"
      PROVE  Cutting'
  <2>1. transcript = <<>> \/ Lengthened(transcript, transcript')
    BY <1>3, GrownSelf DEF Talking, Told, Sound
  <2> QED BY <1>3, <2>1, CuttingStays
<1>4. ASSUME UNCHANGED <<setup, transcript, cuts, msgs>>, pc' = pc
      PROVE  Cutting'
  <2>1. WithNotice(transcript)' = WithNotice(transcript) /\ Windowed' = Windowed
    BY <1>4 DEF WithNotice, Windowed
  <2> QED BY <1>4, <2>1 DEF Cutting
<1>5. CASE IterationsSpent
  <2>1. UNCHANGED <<setup, transcript, cuts>> /\ pc' # "calling"
    BY <1>5 DEF IterationsSpent, RunEnds
  <2> QED BY <1>3, <2>1
<1>6. CASE Overflows
  <2>1. UNCHANGED <<setup, transcript, cuts, msgs>> /\ (pc' = pc \/ pc' = "idle")
    BY <1>6 DEF Overflows, RunEnds, run
  <2> QED BY <1>3, <1>4, <2>1
<1>7. ASSUME pc = "calling", pc' # "calling", UNCHANGED <<setup, cuts>>,
             NEW b, Saying(transcript, b), transcript' = Push(transcript, Assistant(b))
      PROVE  Cutting'
  <2>1. Lengthened(transcript, transcript')
    BY <1>7, SayingGrows DEF Talking
  <2> QED BY <1>7, <2>1, CuttingStays
<1>8. pc = "calling" => Sound(transcript)
  BY DEF Talking, Told
<1>9. CASE CallBreaks
  <2>1. /\ pc = "calling" /\ pc' # "calling" /\ UNCHANGED <<setup, cuts>>
        /\ \E partial \in {<<>>, <<Text>>} : transcript' = Push(transcript, Assistant(partial))
    BY <1>9 DEF CallBreaks, RunEnds
  <2>2. PICK partial : /\ partial = <<>> \/ partial = <<Text>>
                       /\ transcript' = Push(transcript, Assistant(partial))
    BY <2>1
  <2>3. Saying(transcript, partial)
    BY <1>8, <2>1, <2>2, NothingIsSaid, TextIsSaid
  <2> QED BY <1>7, <2>1, <2>2, <2>3
<1>10. CASE Finishes
  <2>1. /\ pc = "calling" /\ pc' # "calling" /\ UNCHANGED <<setup, cuts>>
        /\ transcript' = Push(transcript, Assistant(<<Text>>))
    BY <1>10 DEF Finishes, RunEnds
  <2>2. Saying(transcript, <<Text>>)
    BY <1>8, <2>1, TextIsSaid
  <2> QED BY <1>7, <2>1, <2>2
<1>11. CASE CallsTools \/ EndsOpen
  <2>1. pc = "calling" /\ pc' # "calling" /\ UNCHANGED <<setup, cuts>>
    BY <1>11 DEF CallsTools, EndsOpen, RunEnds
  <2>2. PICK b \in Batches : transcript' = Push(transcript, Assistant(Lead(b) \o Reply(b)))
    BY <1>11 DEF CallsTools, EndsOpen
  <2>3. Saying(transcript, Lead(b) \o Reply(b))
    BY <1>8, <2>1, ReplyIs
  <2> QED BY <1>7, <2>1, <2>2, <2>3
<1>12. CASE \E i \in DOMAIN batch : CallStep(i)
  <2>1. UNCHANGED <<setup, transcript, cuts, msgs>> /\ pc' = pc
    BY <1>12, StepGetsOn DEF GetsOn, rest, run
  <2> QED BY <1>4, <2>1
<1>13. CASE Gather
  <2>1. /\ pc = "dispatch" /\ pc' # "calling" /\ UNCHANGED <<setup, cuts>>
        /\ transcript' = Push(transcript, User(Gathered))
    BY <1>13 DEF Gather, Gathered
  <2>2. Told(transcript) /\ Dispatching
    BY <2>1 DEF Talking
  <2>3. Lengthened(transcript, Push(transcript, User(Gathered)))
    BY <2>2, GatheredAnswers, AnsweringGrows
  <2> QED BY <2>1, <2>3, CuttingStays
<1>14. CASE UNCHANGED contextVars
  <2>1. UNCHANGED <<setup, transcript, cuts, msgs>> /\ pc' = pc
    BY <1>14 DEF contextVars, run
  <2> QED BY <1>4, <2>1
<1> QED
  BY <1>1, <1>2, <1>5, <1>6, <1>9, <1>10, <1>11, <1>12, <1>13, <1>14 DEF ContextNext

LEMMA AlwaysCutting == ContextSpec => []Cutting
<1>1. ContextInit => Cutting
  BY CuttingStarts
<1>2. Talking /\ Cutting /\ [ContextNext]_contextVars => Cutting'
  BY CuttingKept
<1> QED BY <1>1, <1>2, AlwaysTalking, PTL DEF ContextSpec

(* So many cuts need so many times delta messages.                         *)
LEMMA CutsCounted ==
  ASSUME NEW c \in Seq(Turn), NEW keep \in Nat, NEW delta \in Nat \ {0}, NEW X,
         \A x \in X : CutAt(x, c, keep, delta)
  PROVE  Cardinality(X) > 0 => Cardinality(X) * delta <= Len(c) - keep
<1> DEFINE K == {k \in 1..Len(c) : k * delta <= Len(c) - keep}
           n == Highest(K)
<1>1. Len(c) \in Nat
  OBVIOUS
<1>2. /\ n \in 0..Len(c) /\ (K # {} => n \in K /\ \A k \in K : k <= n)
      /\ K = {} => n = 0
  <2>1. K \in SUBSET (1..Len(c))
    OBVIOUS
  <2> HIDE DEF K
  <2> QED BY <1>1, <2>1, HighestIs
<1>3. n # 0 => n * delta <= Len(c) - keep
  BY <1>2
<1> HIDE DEF K, n
<1>4. ASSUME NEW x \in X PROVE \E k \in 1..n : x = SafeCut(c, k * delta)
  <2>1. PICK k \in Nat : k >= 1 /\ k * delta <= Len(c) - keep /\ x = SafeCut(c, k * delta)
    BY DEF CutAt
  <2>2. k <= k * delta
    <3>1. k * delta = k + k * (delta - 1) /\ k * (delta - 1) >= 0
      OBVIOUS
    <3> QED BY <3>1
  <2>3. k \in K
    BY <1>1, <2>1, <2>2 DEF K
  <2>4. k <= n
    BY <1>2, <2>3
  <2>5. k \in 1..n
    BY <1>1, <1>2, <2>1, <2>4
  <2> QED BY <2>1, <2>5
<1>5. Cardinality(X) <= n /\ Cardinality(X) \in Nat
  <2> DEFINE P == {k \in 1..n : SafeCut(c, k * delta) \in X}
             f == [k \in P |-> SafeCut(c, k * delta)]
  <2>1. f \in Surjection(P, X)
    <3>1. f \in [P -> X]
      OBVIOUS
    <3>2. \A x \in X : \E k \in P : f[k] = x
      BY <1>4
    <3> QED BY <3>1, <3>2 DEF Surjection
  <2>2. P \in SUBSET (1..n)
    OBVIOUS
  <2> HIDE DEF P, f
  <2>3. n \in Nat
    BY <1>1, <1>2
  <2>4. IsFiniteSet(1..n) /\ Cardinality(1..n) = n
    BY <2>3, FS_Interval
  <2>5. IsFiniteSet(P) /\ Cardinality(P) <= n
    BY <2>2, <2>4, FS_Subset
  <2>6. IsFiniteSet(X) /\ Cardinality(X) <= Cardinality(P)
    BY <2>1, <2>5, FS_Surjection
  <2>7. Cardinality(X) \in Nat /\ Cardinality(P) \in Nat
    BY <2>5, <2>6, FS_CardinalityType
  <2> QED BY <2>3, <2>5, <2>6, <2>7
<1>6. ASSUME Cardinality(X) > 0 PROVE Cardinality(X) * delta <= Len(c) - keep
  <2>1. PICK m \in Nat : m = Cardinality(X)
    BY <1>5
  <2>2. n \in Nat /\ n # 0 /\ m <= n
    BY <1>1, <1>2, <1>5, <1>6, <2>1
  <2>3. m * delta <= n * delta
    <3>1. PICK e \in Nat : n = m + e
      <4>1. n - m \in Nat /\ n = m + (n - m)
        BY <2>2
      <4> QED BY <4>1
    <3>2. (m + e) * delta = m * delta + e * delta
      BY <3>1
    <3>3. e * delta \in Nat /\ m * delta \in Nat
      BY <3>1
    <3> QED BY <3>1, <3>2, <3>3
  <2>4. m * delta \in Nat /\ n * delta \in Nat
    BY <2>2
  <2> QED BY <1>1, <1>3, <2>1, <2>2, <2>3, <2>4
<1> QED BY <1>6

(* strategy.go:141-160: between two places a window cuts at there are      *)
(* delta messages, and at least keepRecent messages survive it.            *)
THEOREM WindowAlwaysHoldsStill == ContextSpec => []WindowHoldsStill
<1>1. ASSUME Talking, Cutting PROVE WindowHoldsStill
  <2>1. ASSUME pc = "calling", Windowed
        PROVE  LET w == setup.strategy[1]
                   moves == Cardinality(cuts \ {0})
               IN  /\ (moves > 0 /\ w.at > w.keep) => moves * (w.at - w.keep) <= Len(transcript) - w.keep
                   /\ Len(msgs) >= w.keep \/ msgs = WithNotice(transcript)
    <3>1. PICK w : w = setup.strategy[1]
      OBVIOUS
    <3>2. w.at \in Nat /\ w.keep \in Nat /\ transcript \in Seq(Turn)
      BY <1>1, <2>1, <3>1, WindowedIs DEF Talking, Told, Sound
    <3>3. Len(msgs) >= w.keep \/ msgs = WithNotice(transcript)
      BY <1>1, <2>1, <3>1 DEF Cutting
    <3>4. ASSUME w.at > w.keep, Cardinality(cuts \ {0}) > 0
          PROVE  Cardinality(cuts \ {0}) * (w.at - w.keep) <= Len(transcript) - w.keep
      <4>1. w.at - w.keep \in Nat \ {0}
        BY <3>2, <3>4
      <4>2. \A x \in cuts \ {0} : CutAt(x, transcript, w.keep, w.at - w.keep)
        BY <1>1, <2>1, <3>1, <3>4 DEF Cutting
      <4> QED BY <3>2, <3>4, <4>1, <4>2, CutsCounted
    <3> QED BY <3>1, <3>3, <3>4
  <2> QED BY <2>1 DEF WindowHoldsStill, Windowed
<1> QED BY <1>1, AlwaysTalking, AlwaysCutting, PTL
===============================================================================
