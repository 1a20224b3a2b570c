------------------------------- MODULE Registry -------------------------------
(***************************************************************************)
(* The metric registry: instruments, each a map from label sets to series, *)
(* written by goroutines that add to counters and gauges without a lock    *)
(* and to histograms under the series' own, while a scrape reads them all. *)
(*                                                                         *)
(* A writer works off a list of operations.  Values are integers; names    *)
(* that must be sanitised, values that must be cut, NaN and the text of    *)
(* the exposition are left out.                                            *)
(***************************************************************************)
EXTENDS Integers, FiniteSets, SequencesExt

CONSTANTS
  Writers,
  Instruments,  \* the names in use
  Kind,         \* of each: "counter", "gauge" or "histogram"
  Bounds,       \* the histograms' upper bounds, as they were passed in
  MaxSeries,
  Views         \* bound: [tracked, watched, scrapes]: the instruments a behaviour
                \* follows the writes to, the one it is scraped for, how often

ASSUME RegistryAssumption ==
  /\ Kind \in [Instruments -> {"counter", "gauge", "histogram"}]
  /\ Bounds \in Seq(Int) /\ MaxSeries \in Nat
  /\ \A v \in Views : v.tracked \subseteq Instruments

VARIABLES
  vecs,    \* instrument |-> label set |-> series
  todo,    \* by writer: the operations it has yet to make, in order
  step,    \* by writer: how far it is with the first of them
  view,    \* what of the registry this behaviour follows
  scrape,  \* the series a scrape has yet to read, and what it has read
  last,    \* what the scrape before it returned
  scrapes

registry == <<vecs, todo, step>>
reading  == <<view, scrape, last, scrapes>>

-----------------------------------------------------------------------------
(* normalizeBuckets: ascending, each once. *)
Buckets == SetToSortSeq(Range(Bounds), <)

Zero(i) ==
  IF Kind[i] = "histogram"
    THEN [counts |-> [b \in 1..Len(Buckets) + 1 |-> 0], sum |-> 0, count |-> 0]
    ELSE 0

(* canonicalize, labelKey: unnamed labels dropped, the last of a name wins,*)
(* and the order they came in does not matter.                             *)
Canon(labels) ==
  [k \in {labels[n][1] : n \in DOMAIN labels} \ {""} |->
     labels[Max({n \in DOMAIN labels : labels[n][1] = k})][2]]

Overflow == Canon(<< <<"overflow", "true">> >>)

Op(i, labels, v)     == [op |-> "add", name |-> i, labels |-> Canon(labels), v |-> v]
SetTo(i, labels, v)  == [Op(i, labels, v) EXCEPT !.op = "set"]
Observe(i, labels, v) == [Op(i, labels, v) EXCEPT !.op = "observe"]

(* Counter.Add returns at once from what would make it go down. *)
Dropped(o) == Kind[o.name] = "counter" /\ o.v < 0

Idle(w) == todo[w] = <<>>
Fresh == [at |-> "get"]

Moves(w, s) == step' = [step EXCEPT ![w] = s]

Finishes(w) ==
  /\ todo' = [todo EXCEPT ![w] = Tail(@)]
  /\ Moves(w, Fresh)

(* register: a name that is known gives back the instrument it has. *)
Registered == [i \in Instruments |-> IF i \in DOMAIN vecs THEN vecs[i] ELSE <<>>]

-----------------------------------------------------------------------------
(* get, under the read lock: a series once made stays, so finding it and   *)
(* the first use of it are one step.                                       *)
Key(w) == IF step[w].at = "have" THEN step[w].key ELSE Head(todo[w]).labels

Reaches(w, op) ==
  /\ ~Idle(w) /\ Head(todo[w]).op = op
  /\ \/ step[w].at = "have"
     \/ step[w].at = "get" /\ Head(todo[w]).labels \in DOMAIN vecs[Head(todo[w]).name]

Misses(w) ==
  /\ ~Idle(w) /\ step[w].at = "get"
  /\ Head(todo[w]).labels \notin DOMAIN vecs[Head(todo[w]).name]
  /\ Moves(w, [at |-> "missed"])
  /\ UNCHANGED <<vecs, todo>>

(* Where a label set is counted: its own series, or past the cap the       *)
(* shared one.                                                             *)
Home(i, labels) ==
  IF labels \notin DOMAIN vecs[i] /\ Cardinality(DOMAIN vecs[i]) >= MaxSeries
    THEN Overflow ELSE labels

Admitted(i, k) ==
  [l \in DOMAIN vecs[i] \cup {k} |-> IF l \in DOMAIN vecs[i] THEN vecs[i][l] ELSE Zero(i)]

(* get, again under the write lock: another may have been first. *)
Admits(w) ==
  /\ ~Idle(w) /\ step[w].at = "missed"
  /\ LET o == Head(todo[w])
         k == Home(o.name, o.labels) IN
     /\ vecs' = [vecs EXCEPT ![o.name] = Admitted(o.name, k)]
     /\ Moves(w, [at |-> "have", key |-> k])
  /\ UNCHANGED todo

(* addFloat: load, add, and store unless it has changed. *)
Loads(w) ==
  /\ Reaches(w, "add")
  /\ Moves(w, [at |-> "swap", key |-> Key(w), old |-> vecs[Head(todo[w]).name][Key(w)]])
  /\ UNCHANGED <<vecs, todo>>

\* Mutant: a plain store.
FaultySwaps(now, old) == TRUE

Swaps(now, old) == now = old

Adds(w) ==
  /\ ~Idle(w) /\ step[w].at = "swap"
  /\ LET o == Head(todo[w]) IN
     IF Swaps(vecs[o.name][step[w].key], step[w].old)
       THEN /\ vecs' = [vecs EXCEPT ![o.name][step[w].key] = step[w].old + o.v]
            /\ Finishes(w)
       ELSE UNCHANGED <<vecs, todo>> /\ Moves(w, [at |-> "have", key |-> step[w].key])

Sets(w) ==
  /\ Reaches(w, "set")
  /\ vecs' = [vecs EXCEPT ![Head(todo[w]).name][Key(w)] = Head(todo[w]).v]
  /\ Finishes(w)

\* Mutant: a value on a bound is put in the bucket above.
FaultyBucket(v) == Min({b \in 1..Len(Buckets) : Buckets[b] > v} \cup {Len(Buckets) + 1})

(* The first bucket whose bound is not below the value. *)
Bucket(v) == Min({b \in 1..Len(Buckets) : Buckets[b] >= v} \cup {Len(Buckets) + 1})

(* Observe: the bucket, the sum and the count move together. *)
With(s, v) ==
  [counts |-> [s.counts EXCEPT ![Bucket(v)] = @ + 1], sum |-> s.sum + v, count |-> s.count + 1]

Counts(w) ==
  /\ Reaches(w, "observe")
  /\ LET o == Head(todo[w]) IN vecs' = [vecs EXCEPT ![o.name][Key(w)] = With(@, o.v)]
  /\ Finishes(w)

Writes(w) == Misses(w) \/ Admits(w) \/ Loads(w) \/ Adds(w) \/ Sets(w) \/ Counts(w)

-----------------------------------------------------------------------------
(***************************************************************************)
(* Snapshot: an instrument's series are listed at one moment and each is   *)
(* read at another.  Scrapes are followed through one instrument: what     *)
(* they read of the others touches neither it nor what is read of it.      *)
(***************************************************************************)
Watched == view.watched

NoScrape == [on |-> FALSE, kids |-> {}, out |-> <<>>]

(* snapshotOne: buckets made cumulative, with +Inf at the end. *)
Flat(i, s) ==
  IF Kind[i] # "histogram" THEN s
  ELSE [buckets |-> [b \in 1..Len(Buckets) + 1 |->
                       IF b = Len(Buckets) + 1 THEN s.count
                       ELSE MapThenSumSet(LAMBDA c : s.counts[c], 1..b)],
        sum |-> s.sum, count |-> s.count]

ScrapeStarts ==
  /\ scrapes < view.scrapes /\ ~scrape.on /\ Watched \in DOMAIN vecs
  /\ scrapes' = scrapes + 1
  /\ scrape' = [on |-> TRUE, kids |-> DOMAIN vecs[Watched], out |-> <<>>]
  /\ UNCHANGED <<last, view>>

ScrapeReads ==
  \E k \in scrape.kids :
    /\ scrape' = [scrape EXCEPT !.kids = @ \ {k},
                                !.out = @ @@ (k :> Flat(Watched, vecs[Watched][k]))]
    /\ UNCHANGED <<last, view, scrapes>>

ScrapeReturns ==
  /\ scrape.on /\ scrape.kids = {}
  /\ last' = scrape.out /\ scrape' = NoScrape
  /\ UNCHANGED <<view, scrapes>>

Scrapes == ScrapeStarts \/ ScrapeReads \/ ScrapeReturns

NothingToDo == [w \in Writers |-> <<>>]
NothingBegun == [w \in Writers |-> Fresh]

RegistryInit ==
  /\ vecs = <<>> /\ todo = NothingToDo /\ step = NothingBegun
  /\ view \in Views
  /\ scrape = NoScrape /\ last = <<>> /\ scrapes = 0

(* The registry goes with its process. *)
RegistryLost ==
  /\ vecs' = <<>> /\ todo' = NothingToDo /\ step' = NothingBegun
  /\ scrape' = NoScrape /\ last' = <<>> /\ scrapes' = 0 /\ UNCHANGED view
=============================================================================
