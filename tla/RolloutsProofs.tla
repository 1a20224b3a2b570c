--------------------------- MODULE RolloutsProofs ---------------------------
(***************************************************************************)
(* Theorems about Rollouts for any samples, any models and prices, any     *)
(* options and whatever the verifiers may make of an episode: Score is     *)
(* never unfolded here.                                                    *)
(***************************************************************************)
EXTENDS Rollouts, TLAPS

-----------------------------------------------------------------------------
(* The inductive invariant. *)

Phases == {"waits", "reset", "build", "top", "call", "tool", "score", "clean", "leave", "done"}
Reasons == GovernorLimits \cup {"none", "canceled", "deadline"}

Types ==
  /\ config \in Configs /\ parent \in {"alive", "canceled", "deadline"}
  /\ returned \in BOOLEAN
  /\ pc \in [Samples -> Phases] /\ cause \in [Samples -> Reasons]
  /\ iter \in [Samples -> Nat] /\ late \in [Samples -> Nat]
  /\ ran \in [Samples -> SUBSET Models] /\ flight \in [Samples -> SUBSET Models]
  /\ denied \in [Samples -> BOOLEAN]
  /\ DOMAIN asked = Samples /\ DOMAIN grade = Samples /\ DOMAIN err = Samples
  /\ DOMAIN failure = Samples /\ DOMAIN models = Samples /\ DOMAIN charged = Samples
  /\ DOMAIN cleanups = Samples /\ DOMAIN told = Samples
  /\ prepared \in [Samples -> BOOLEAN]
  /\ tokens \in [Samples -> BOOLEAN] /\ usd \in [Samples -> BOOLEAN]
  /\ misled \in [Samples -> BOOLEAN] /\ priced \in [Samples -> BOOLEAN]
  /\ world \in [Samples -> {"absent", "stale", "fresh"}]

(* Nobody is let out while a sample is inside; a sub-agent's call is under *)
(* way only inside a tool call of its parent, which is a turn's.           *)
RunBook(s) ==
  /\ returned => Done(s)
  /\ iter[s] <= config.iters[s] /\ late[s] <= iter[s]
  /\ pc[s] \in {"call", "tool"} => iter[s] # 0
  /\ flight[s] \subseteq ran[s]
  /\ flight[s] # {} => pc[s] = "tool"

(* The directory, by how far the episode has come. *)
WorldBook(s) ==
  /\ pc[s] \in {"waits", "reset"} => ~prepared[s]
  /\ pc[s] \notin {"leave", "done"} => cleanups[s] = <<>> /\ err[s] # "cleanup"
  /\ pc[s] \in {"build", "top", "call", "tool", "score", "clean"} =>
       world[s] = "fresh" /\ prepared[s]
  /\ pc[s] \in {"leave", "done"} =>
       /\ Len(cleanups[s]) = (IF prepared[s] THEN 1 ELSE 0)
       /\ prepared[s] /\ failure[s] # "success" =>
            err[s] = "cleanup" \/ (cleanups[s][1].keep /\ world[s] = "fresh")
       /\ failure[s] = "success" =>
            /\ prepared[s] /\ cleanups[s][1].keep = config.keepAll
            /\ world[s] = "absent" <=> ~config.keepAll /\ ~cleanups[s][1].failed

(* A context that ended has a reason, the caller's only if it was.         *)
CauseBook(s) ==
  /\ pc[s] \in {"waits", "reset", "build"} => cause[s] = "none"
  /\ cause[s] \in {"canceled", "deadline"} => parent = cause[s]

(* What a run that is over reports, against why its context ended.         *)
ErrBook(s) ==
  /\ pc[s] \in {"waits", "reset", "build", "top", "call", "tool"} => err[s] = "none"
  /\ err[s] \in GovernorLimits \cup {"canceled", "deadline"} => cause[s] = err[s]
  /\ err[s] = "timeout" => cause[s] \in {"none", "canceled"}
  /\ cause[s] \in GovernorLimits =>
       err[s] \in {cause[s], "none", "maxTokens", "refused", "stop", "panic", "host", "cleanup"}

(* The verdict is that of what is reported, or it is still to come of a    *)
(* panic.                                                                  *)
VerdictBook(s) ==
  /\ pc[s] \notin {"clean", "leave", "done"} => failure[s] = NoVerdict
  /\ Done(s) => failure[s] # NoVerdict
  /\ pc[s] \in {"clean", "leave", "done"} =>
       \/ failure[s] \in {NoVerdict, "panic"} /\ err[s] \in {"panic", "cleanup"}
       \/ err[s] = "none" /\ failure[s] \in {"success", "verifier"}
       \/ err[s] = "host" /\ failure[s] \notin {"success", NoVerdict}
       \/ err[s] \in DOMAIN Kinds /\ failure[s] = Kinds[err[s]]
       \/ err[s] \notin {"none", "host"} \cup DOMAIN Kinds /\ failure[s] \in {"denied", "other"}

(* What the folder and the budget keep, against who charged; and nothing   *)
(* is lost under contexts that live.                                       *)
SpendBook(s) ==
  /\ tokens[s] <=> told[s] # {}
  /\ usd[s] <=> config.tracked /\ charged[s] \cap Priced # {}
  /\ told[s] \subseteq charged[s]
  /\ ~misled[s] => models[s] = told[s]

Heard(s) == cause[s] = "none" /\ late[s] = 0 => told[s] = charged[s]

CostBook(s) ==
  /\ SpendBook(s) /\ Heard(s)
  /\ Done(s) => (priced[s] <=> PricedSpend(s))

Book(s) ==
  /\ RunBook(s) /\ WorldBook(s) /\ CauseBook(s) /\ ErrBook(s) /\ VerdictBook(s) /\ CostBook(s)

IInv == Types /\ \A s \in Samples : Book(s)
-----------------------------------------------------------------------------
(* What is used of the operators. *)

(* The assumption on the options, one fact at a time. *)
LEMMA Options ==
  ASSUME NEW c \in Configs
  PROVE  /\ c.keepAll \in BOOLEAN /\ c.pricing \in BOOLEAN /\ c.tracked \in BOOLEAN
         /\ c.tools \in BOOLEAN /\ c.model \in Models \cup {NoName}
         /\ c.limits \subseteq GovernorLimits /\ c.iters \in [Samples -> Nat]
  BY RolloutsAssumption

(* The kinds that an error of a limit or of a context has. *)
LEMMA KindsAre ==
  /\ DOMAIN Kinds = GovernorLimits \cup
       {"deadline", "timeout", "maxIterations", "maxTokens", "refused", "panic", "window",
        "provider", "canceled"}
  /\ \A e \in DOMAIN Kinds :
       /\ Kinds[e] \notin {"success", "verifier", "denied", "other"}
       /\ Kinds[e] = "cancelled" <=> e = "canceled"
       /\ Kinds[e] = "wall_clock" <=> e \in {"wall", "deadline", "timeout"}
       /\ Kinds[e] = "budget" <=> e = "budget"
       /\ Kinds[e] = "tool_loop" <=> e \in {"toolLoop", "toolCalls"}
       /\ Kinds[e] = "panic" <=> e = "panic"
<1>1. DOMAIN Kinds =
        {"budget", "wall", "deadline", "toolLoop", "toolCalls", "steps", "maxIterations",
         "maxTokens", "refused", "panic", "window", "provider", "canceled", "timeout"}
  BY DEF Kinds
<1>2. /\ Kinds["budget"] = "budget" /\ Kinds["wall"] = "wall_clock"
      /\ Kinds["deadline"] = "wall_clock" /\ Kinds["toolLoop"] = "tool_loop"
      /\ Kinds["toolCalls"] = "tool_loop" /\ Kinds["steps"] = "max_iterations"
      /\ Kinds["maxIterations"] = "max_iterations" /\ Kinds["maxTokens"] = "max_tokens"
      /\ Kinds["refused"] = "refused" /\ Kinds["panic"] = "panic"
      /\ Kinds["timeout"] = "wall_clock" /\ Kinds["window"] = "context_window"
      /\ Kinds["provider"] = "provider" /\ Kinds["canceled"] = "cancelled"
  BY DEF Kinds
<1>3. DOMAIN Kinds = GovernorLimits \cup
        {"deadline", "timeout", "maxIterations", "maxTokens", "refused", "panic", "window",
         "provider", "canceled"}
  BY <1>1 DEF GovernorLimits
<1>4. ASSUME NEW e \in DOMAIN Kinds
      PROVE  /\ Kinds[e] \notin {"success", "verifier", "denied", "other"}
             /\ Kinds[e] = "cancelled" <=> e = "canceled"
             /\ Kinds[e] = "wall_clock" <=> e \in {"wall", "deadline", "timeout"}
             /\ Kinds[e] = "budget" <=> e = "budget"
             /\ Kinds[e] = "tool_loop" <=> e \in {"toolLoop", "toolCalls"}
             /\ Kinds[e] = "panic" <=> e = "panic"
  BY <1>1, <1>2
<1> QED  BY <1>3, <1>4

(* No verdict is none of those there are. *)
LEMMA NotAVerdict ==
  /\ NoVerdict \notin {"success", "verifier", "denied", "other", "panic"}
  /\ \A e \in DOMAIN Kinds : Kinds[e] # NoVerdict
<1>1. NoVerdict \notin {"success", "verifier", "denied", "other", "panic", "budget",
        "wall_clock", "tool_loop", "max_iterations", "max_tokens", "refused",
        "context_window", "provider", "cancelled"}
  BY Zenon DEF NoVerdict
<1>2. \A e \in DOMAIN Kinds :
        Kinds[e] \in {"budget", "wall_clock", "tool_loop", "max_iterations", "max_tokens",
                     "refused", "panic", "context_window", "provider", "cancelled"}
  BY DEF Kinds
<1> QED  BY <1>1, <1>2

LEMMA NoKind ==
  {"none", "host", "cleanup", "stop"} \cap DOMAIN Kinds = {}
  BY KindsAre DEF GovernorLimits

(* classify, by what there is to classify. *)
LEMMA Classified ==
  ASSUME NEW e, NEW pass, NEW refusals
  PROVE  /\ e = "none" => Classify(e, pass, refusals) \in {"success", "verifier"}
         /\ e \in DOMAIN Kinds => Classify(e, pass, refusals) = Kinds[e]
         /\ e \notin {"none"} \cup DOMAIN Kinds =>
              Classify(e, pass, refusals) \in {"denied", "other"}
<1>1. "none" \notin DOMAIN Kinds
  BY KindsAre DEF GovernorLimits
<1>2. CASE e = "none"
  BY <1>1, <1>2 DEF Classify
<1>3. CASE e \in DOMAIN Kinds
  BY <1>1, <1>3 DEF Classify
<1>4. CASE e \notin {"none"} \cup DOMAIN Kinds
  BY <1>4 DEF Classify
<1> QED  BY <1>1, <1>2, <1>3, <1>4
(* What the host's errors are taken for is never a success. *)
LEMMA Hosted ==
  ASSUME NEW e \in Foreign, NEW pass, NEW refusals
  PROVE  Classify(e, pass, refusals) \notin {"success", NoVerdict}
<1>1. e # "none"
  BY RolloutsAssumption
<1> QED  BY <1>1, Classified, KindsAre, NotAVerdict
-----------------------------------------------------------------------------
(* A step of one sample leaves the others as they are. *)

Stands(t) ==
  /\ pc'[t] = pc[t] /\ cause'[t] = cause[t] /\ iter'[t] = iter[t] /\ late'[t] = late[t]
  /\ ran'[t] = ran[t] /\ flight'[t] = flight[t] /\ models'[t] = models[t]
  /\ tokens'[t] = tokens[t] /\ usd'[t] = usd[t] /\ charged'[t] = charged[t]
  /\ misled'[t] = misled[t] /\ told'[t] = told[t] /\ prepared'[t] = prepared[t]
  /\ err'[t] = err[t] /\ failure'[t] = failure[t]
  /\ priced'[t] = priced[t] /\ world'[t] = world[t] /\ cleanups'[t] = cleanups[t]

LEMMA BookStands ==
  ASSUME NEW t, Book(t), Stands(t), UNCHANGED <<config, parent, returned>>
  PROVE  Book(t)'
<1> USE DEF Stands
<1>1. RunBook(t)'
  BY DEF Book, RunBook, Done
<1>2. WorldBook(t)'
  BY DEF Book, WorldBook
<1>3. CauseBook(t)'
  BY DEF Book, CauseBook
<1>4. ErrBook(t)'
  BY DEF Book, ErrBook
<1>5. VerdictBook(t)'
  BY DEF Book, VerdictBook, Done
<1>6. CostBook(t)'
  BY DEF Book, CostBook, SpendBook, Heard, Done, PricedSpend
<1> QED  BY <1>1, <1>2, <1>3, <1>4, <1>5, <1>6 DEF Book

Sample(s) == Harness(s) \/ Drives(s) \/ WallClock(s) \/ ToolTimesOut(s)

(* A call that came back charged what an answer costs, of which the folder *)
(* heard or did not, or nothing.                                           *)
Costs(s, m, name) ==
  /\ Charges(s, m, name)
  /\ \/ Tells(s, m, name)
     \/ (cause'[s] # "none" \/ Late(s)) /\ UNCHANGED heard

LEMMA CameBack ==
  ASSUME NEW s, NEW m, Answered(s, m)
  PROVE  UNCHANGED <<cost, cause>> \/ (\E name : Costs(s, m, name))
  BY Zenon DEF Answered, Costs

(* An answer that comes back changes what one sample's run keeps, and no   *)
(* more.                                                                   *)
LEMMA AnsweredOne ==
  ASSUME Types, NEW s \in Samples, NEW m, Answered(s, m), NEW t \in Samples \ {s}
  PROVE  /\ models'[t] = models[t] /\ tokens'[t] = tokens[t] /\ usd'[t] = usd[t]
         /\ charged'[t] = charged[t] /\ told'[t] = told[t] /\ misled'[t] = misled[t]
         /\ cause'[t] = cause[t]
<1>1. CASE UNCHANGED <<cost, cause>>
  BY <1>1 DEF cost, heard
<1>2. CASE \E name : Costs(s, m, name)
  <2>1. PICK name : Costs(s, m, name)
    BY <1>2
  <2>2. usd'[t] = usd[t] /\ charged'[t] = charged[t]
    BY <2>1 DEF Costs, Charges, Types
  <2>3. cause'[t] = cause[t]
    BY <2>1 DEF Costs, Charges, MayTrip, Types
  <2>4. CASE Tells(s, m, name)
    <3>1. /\ models'[t] = models[t] /\ tokens'[t] = tokens[t]
          /\ told'[t] = told[t] /\ misled'[t] = misled[t]
      BY <2>4 DEF Tells, Types
    <3> QED  BY <2>2, <2>3, <3>1
  <2>5. CASE UNCHANGED heard
    BY <2>2, <2>3, <2>5 DEF heard
  <2> QED  BY <2>1, <2>4, <2>5 DEF Costs
<1> QED  BY <1>1, <1>2, CameBack

(* So does what is said of its disposal. *)
LEMMA DisposedOne ==
  ASSUME Types, NEW s \in Samples, NEW fails, Disposed(s, fails)
  PROVE  /\ DOMAIN cleanups' = Samples
         /\ \A t \in Samples \ {s} : cleanups'[t] = cleanups[t]
         /\ cleanups'[s] = Append(cleanups[s], [keep |-> Keeps(s), failed |-> fails])
  BY DEF Types, Disposed

LEMMA OthersStand ==
  ASSUME Types, NEW s \in Samples, NEW t \in Samples \ {s}, Sample(s)
  PROVE  Stands(t) /\ UNCHANGED <<config, parent, returned>>
<1> USE DEF Types, Stands, Goes, Breaks, Ends, MayTrip, run, cost, heard, result, place
<1>1. CASE Acquires(s)
  BY <1>1 DEF Acquires
<1>2. CASE Resets(s)
  BY <1>2 DEF Resets
<1>3. CASE ResetFails(s)
  BY <1>3 DEF ResetFails
<1>4. CASE Builds(s)
  BY <1>4 DEF Builds
<1>5. CASE BuildFails(s)
  BY <1>5 DEF BuildFails
<1>6. CASE Panics(s)
  BY <1>6 DEF Panics
<1>7. CASE Scores(s)
  BY <1>7 DEF Scores
<1>8. CASE CleansUp(s)
  BY <1>8, DisposedOne DEF CleansUp
<1>9. CASE CleanupPanics(s)
  BY <1>9, DisposedOne DEF CleanupPanics
<1>10. CASE Leaves(s)
  BY <1>10 DEF Leaves
<1>11. CASE Stopped(s)
  BY <1>11 DEF Stopped
<1>12. CASE OutOfTurns(s)
  BY <1>12 DEF OutOfTurns
<1>13. CASE OutOfSteps(s)
  BY <1>13 DEF OutOfSteps
<1>14. CASE Asks(s)
  BY <1>14 DEF Asks
<1>15. CASE CallAnswers(s)
  BY <1>15, AnsweredOne DEF CallAnswers
<1>16. CASE CallFails(s)
  BY <1>16 DEF CallFails
<1>17. CASE ToolEnds(s)
  BY <1>17 DEF ToolEnds
<1>18. CASE RunPanics(s)
  BY <1>18 DEF RunPanics
<1>19. CASE WallClock(s)
  BY <1>19 DEF WallClock
<1>20. CASE \E m \in Models : ChildAsks(s, m)
  BY <1>20 DEF ChildAsks
<1>21. CASE \E m \in Models : ChildBack(s, m)
  BY <1>21, AnsweredOne DEF ChildBack
<1>22. CASE ToolTimesOut(s)
  BY <1>22 DEF ToolTimesOut, Late
<1> QED
  BY <1>1, <1>2, <1>3, <1>4, <1>5, <1>6, <1>7, <1>8, <1>9, <1>10, <1>11, <1>12, <1>13, <1>14,
     <1>15, <1>16, <1>17, <1>18, <1>19, <1>20, <1>21, <1>22 DEF Sample, Harness, Drives
-----------------------------------------------------------------------------
(* A step of a sample keeps the types. *)

LEMMA TripTypes ==
  ASSUME Types, NEW s \in Samples, NEW limits, MayTrip(s, limits)
  PROVE  cause' \in [Samples -> Reasons]
<1>1. CASE UNCHANGED cause
  BY <1>1 DEF Types
<1>2. ASSUME NEW l \in config.limits,
             cause' = [cause EXCEPT ![s] = IF @ = "none" THEN l ELSE @]
      PROVE  cause' \in [Samples -> Reasons]
  <2>1. l \in Reasons
    BY Options DEF Types, Reasons
  <2> QED  BY <1>2, <2>1 DEF Types
<1> QED  BY <1>1, <1>2 DEF MayTrip

LEMMA AnsweredTypes ==
  ASSUME Types, NEW s \in Samples, NEW m \in Models \cup {NoName}, Answered(s, m)
  PROVE  /\ DOMAIN models' = Samples /\ DOMAIN charged' = Samples /\ DOMAIN told' = Samples
         /\ tokens' \in [Samples -> BOOLEAN] /\ usd' \in [Samples -> BOOLEAN]
         /\ misled' \in [Samples -> BOOLEAN] /\ cause' \in [Samples -> Reasons]
<1>1. CASE UNCHANGED <<cost, cause>>
  BY <1>1 DEF cost, heard, Types
<1>2. CASE \E name : Costs(s, m, name)
  <2>1. PICK name : Costs(s, m, name)
    BY <1>2
  <2>2. DOMAIN charged' = Samples /\ usd' \in [Samples -> BOOLEAN]
    BY <2>1 DEF Costs, Charges, Types
  <2>3. cause' \in [Samples -> Reasons]
    BY <2>1, TripTypes, Zenon DEF Costs, Charges
  <2>4. CASE Tells(s, m, name)
    <3>1. DOMAIN models' = Samples /\ DOMAIN told' = Samples /\ tokens' \in [Samples -> BOOLEAN]
      BY <2>4 DEF Tells, Types
    <3>2. misled' \in [Samples -> BOOLEAN]
      BY <2>4 DEF Tells, Types
    <3> QED  BY <2>2, <2>3, <3>1, <3>2
  <2>5. CASE UNCHANGED heard
    BY <2>2, <2>3, <2>5 DEF heard, Types
  <2> QED  BY <2>1, <2>4, <2>5 DEF Costs
<1> QED  BY <1>1, <1>2, CameBack

(* Whatever is Types' matter, action by action. *)
LEMMA TypesStay ==
  ASSUME Types, NEW s \in Samples, Sample(s)
  PROVE  Types'
<1> USE DEF Types, Phases, Goes, Breaks, Ends, run, cost, heard, result, place
<1>1. CASE Acquires(s)
  BY <1>1 DEF Acquires
<1>2. CASE Resets(s)
  BY <1>2 DEF Resets
<1>3. CASE ResetFails(s)
  BY <1>3 DEF ResetFails
<1>4. CASE Builds(s)
  BY <1>4 DEF Builds, Reasons
<1>5. CASE BuildFails(s)
  BY <1>5 DEF BuildFails
<1>6. CASE Panics(s)
  BY <1>6 DEF Panics
<1>7. CASE Scores(s)
  BY <1>7 DEF Scores
<1>8. CASE CleansUp(s)
  BY <1>8, DisposedOne DEF CleansUp
<1>9. CASE CleanupPanics(s)
  <2>1. DOMAIN cleanups' = Samples
    BY <1>9, DisposedOne DEF CleanupPanics
  <2>2. world' \in [Samples -> {"absent", "stale", "fresh"}]
    BY <1>9 DEF CleanupPanics
  <2> QED  BY <1>9, <2>1, <2>2 DEF CleanupPanics
<1>10. CASE Leaves(s)
  BY <1>10, Options DEF Leaves, PricedSpend
<1>11. CASE Stopped(s)
  BY <1>11 DEF Stopped
<1>12. CASE OutOfTurns(s)
  BY <1>12 DEF OutOfTurns
<1>13. CASE OutOfSteps(s)
  BY <1>13 DEF OutOfSteps, Reasons, GovernorLimits
<1>14. CASE Asks(s)
  <2>1. iter' \in [Samples -> Nat]
    BY <1>14 DEF Asks
  <2> QED  BY <1>14, <2>1 DEF Asks
<1>15. CASE CallAnswers(s)
  <2>1. Answered(s, config.model)
    BY <1>15 DEF CallAnswers
  <2>2. /\ DOMAIN models' = Samples /\ DOMAIN charged' = Samples /\ DOMAIN told' = Samples
        /\ tokens' \in [Samples -> BOOLEAN] /\ usd' \in [Samples -> BOOLEAN]
        /\ misled' \in [Samples -> BOOLEAN] /\ cause' \in [Samples -> Reasons]
    BY <2>1, AnsweredTypes, Options
  <2>3. DOMAIN asked' = Samples
    BY <2>1 DEF Answered
  <2> QED  BY <1>15, <2>2, <2>3 DEF CallAnswers
<1>16. CASE CallFails(s)
  BY <1>16 DEF CallFails
<1>17. CASE ToolEnds(s)
  <2>1. cause' \in [Samples -> Reasons]
    BY <1>17, TripTypes DEF ToolEnds
  <2>2. denied' \in [Samples -> BOOLEAN]
    BY <1>17 DEF ToolEnds
  <2> QED  BY <1>17, <2>1, <2>2 DEF ToolEnds
<1>18. CASE RunPanics(s)
  BY <1>18 DEF RunPanics
<1>19. CASE WallClock(s)
  BY <1>19 DEF WallClock, Reasons, GovernorLimits
<1>20. CASE \E m \in Models : ChildAsks(s, m)
  BY <1>20 DEF ChildAsks
<1>21. CASE \E m \in Models : ChildBack(s, m)
  <2>1. PICK m \in Models : ChildBack(s, m)
    BY <1>21
  <2>2. /\ DOMAIN models' = Samples /\ DOMAIN charged' = Samples /\ DOMAIN told' = Samples
        /\ tokens' \in [Samples -> BOOLEAN] /\ usd' \in [Samples -> BOOLEAN]
        /\ misled' \in [Samples -> BOOLEAN] /\ cause' \in [Samples -> Reasons]
    BY <2>1, AnsweredTypes DEF ChildBack
  <2>3. DOMAIN asked' = Samples
    BY <2>1 DEF ChildBack, Answered
  <2> QED  BY <2>1, <2>2, <2>3 DEF ChildBack
<1>22. CASE ToolTimesOut(s)
  BY <1>22 DEF ToolTimesOut, Late
<1> QED
  BY <1>1, <1>2, <1>3, <1>4, <1>5, <1>6, <1>7, <1>8, <1>9, <1>10, <1>11, <1>12, <1>13, <1>14,
     <1>15, <1>16, <1>17, <1>18, <1>19, <1>20, <1>21, <1>22 DEF Sample, Harness, Drives
-----------------------------------------------------------------------------
(* A step of a sample keeps its books, one book at a time. *)

(* Who is inside, and whose calls are under way. *)
LEMMA RunStays ==
  ASSUME Types, NEW s \in Samples, RunBook(s), Sample(s)
  PROVE  RunBook(s)'
<1> USE DEF RunBook, Done, Types, Goes, Breaks, Ends, run, cost, heard,
            result, place
<1>1. CASE Acquires(s)
  BY <1>1 DEF Acquires
<1>2. CASE Resets(s)
  BY <1>2 DEF Resets
<1>3. CASE ResetFails(s)
  BY <1>3 DEF ResetFails
<1>4. CASE Builds(s)
  BY <1>4 DEF Builds
<1>5. CASE BuildFails(s)
  BY <1>5 DEF BuildFails
<1>6. CASE Panics(s)
  BY <1>6 DEF Panics
<1>7. CASE Scores(s)
  BY <1>7 DEF Scores
<1>8. CASE CleansUp(s)
  BY <1>8 DEF CleansUp
<1>9. CASE CleanupPanics(s)
  BY <1>9 DEF CleanupPanics
<1>10. CASE Leaves(s)
  BY <1>10 DEF Leaves
<1>11. CASE Stopped(s)
  BY <1>11 DEF Stopped
<1>12. CASE OutOfTurns(s)
  BY <1>12 DEF OutOfTurns
<1>13. CASE OutOfSteps(s)
  BY <1>13 DEF OutOfSteps
<1>14. CASE Asks(s)
  <2>1. iter[s] < config.iters[s] /\ iter'[s] = iter[s] + 1 /\ config.iters[s] \in Nat
    BY <1>14, Options DEF Asks
  <2>2. iter'[s] <= config'.iters[s]
    BY <1>14, <2>1 DEF Asks
  <2>3. ~returned' /\ flight'[s] = {} /\ late'[s] = late[s] /\ iter[s] \in Nat /\ late[s] \in Nat
    BY <1>14 DEF Asks
  <2> HIDE DEF Types
  <2> QED  BY <2>1, <2>2, <2>3
<1>15. CASE CallAnswers(s)
  BY <1>15 DEF CallAnswers
<1>16. CASE CallFails(s)
  BY <1>16 DEF CallFails
<1>17. CASE ToolEnds(s)
  BY <1>17 DEF ToolEnds
<1>18. CASE RunPanics(s)
  BY <1>18 DEF RunPanics, Running
<1>19. CASE WallClock(s)
  BY <1>19 DEF WallClock, Running
<1>20. CASE \E m \in Models : ChildAsks(s, m)
  BY <1>20 DEF ChildAsks
<1>21. CASE \E m \in Models : ChildBack(s, m)
  BY <1>21 DEF ChildBack
<1>22. CASE ToolTimesOut(s)
  BY <1>22 DEF ToolTimesOut, Late
<1> QED
  BY <1>1, <1>2, <1>3, <1>4, <1>5, <1>6, <1>7, <1>8, <1>9, <1>10, <1>11, <1>12, <1>13, <1>14,
     <1>15, <1>16, <1>17, <1>18, <1>19, <1>20, <1>21, <1>22 DEF Sample, Harness, Drives

(* A world is disposed of once. *)
LEMMA LenFirst ==
  /\ Len(<<>>) = 0
  /\ \A x : Len(Append(<<>>, x)) = 1 /\ Append(<<>>, x)[1] = x
<1>1. ASSUME NEW x  PROVE Len(Append(<<>>, x)) = 1 /\ Append(<<>>, x)[1] = x
  <2>1. <<>> \in Seq({x})
    OBVIOUS
  <2> QED  BY <2>1
<1> QED  BY <1>1

LEMMA DisposedOnce ==
  ASSUME Types, NEW s \in Samples, NEW fails, Disposed(s, fails), cleanups[s] = <<>>
  PROVE  /\ Len(cleanups'[s]) = 1
         /\ cleanups'[s][1].keep = Keeps(s) /\ cleanups'[s][1].failed = fails
<1> DEFINE said == [keep |-> Keeps(s), failed |-> fails]
<1>1. cleanups'[s] = Append(<<>>, said)
  BY DisposedOne
<1>2. said.keep = Keeps(s) /\ said.failed = fails
  OBVIOUS
<1> HIDE DEF said
<1> QED  BY <1>1, <1>2, LenFirst

(* What causeOr makes of an error: the limit that ended the context, or    *)
(* the caller's deadline, and the error itself under a live or a cancelled *)
(* one.                                                                    *)
LEMMA Reported ==
  ASSUME Types, NEW s \in Samples, NEW e
  PROVE  /\ cause[s] \in {"none", "canceled"} => CauseOr(s, e) = e
         /\ cause[s] \notin {"none", "canceled"} =>
              CauseOr(s, e) = cause[s] /\ cause[s] \in GovernorLimits \cup {"deadline"}
         /\ cause[s] = "canceled" => CtxErr(s) = "canceled"
         /\ CtxErr(s) \in {"deadline", "canceled"}
  BY DEF CauseOr, CtxErr, Types, Reasons

LEMMA HostVerdict ==
  ASSUME Types, NEW s \in Samples, NEW to, Breaks(s, to)
  PROVE  err'[s] = "host" /\ failure'[s] \notin {"success", NoVerdict}
<1>1. PICK e \in Foreign : failure' = [failure EXCEPT ![s] = Classify(e, FALSE, denied[s])]
  BY DEF Breaks
<1>2. failure'[s] = Classify(e, FALSE, denied[s])
  BY <1>1 DEF Types
<1> QED  BY <1>2, Hosted DEF Breaks, Types

(* The directory. *)
LEMMA WorldStays ==
  ASSUME Types, NEW s \in Samples, Book(s), Sample(s)
  PROVE  WorldBook(s)'
<1> USE DEF Book, WorldBook, Types, Goes, Breaks, Ends, run, cost, heard,
            result, place
<1>1. CASE Acquires(s)
  BY <1>1 DEF Acquires
<1>2. CASE Resets(s)
  BY <1>2 DEF Resets
<1>3. CASE ResetFails(s)
  <2>1. failure'[s] # "success"
    BY <1>3, HostVerdict DEF ResetFails
  <2>2. ~prepared'[s] /\ cleanups'[s] = <<>> /\ pc'[s] = "leave"
    BY <1>3 DEF ResetFails
  <2> QED  BY <2>1, <2>2, LenFirst
<1>4. CASE Builds(s)
  BY <1>4 DEF Builds
<1>5. CASE BuildFails(s)
  BY <1>5 DEF BuildFails
<1>6. CASE Panics(s)
  <2>1. failure'[s] = NoVerdict /\ cleanups'[s] = <<>>
    BY <1>6 DEF Panics, VerdictBook
  <2>2. CASE pc[s] = "reset"
    <3>1. pc'[s] = "leave" /\ ~prepared'[s]
      BY <1>6, <2>2 DEF Panics
    <3> QED  BY <2>1, <3>1, LenFirst, NotAVerdict
  <2>3. CASE pc[s] \in {"build", "score"}
    <3>1. pc'[s] = "clean" /\ err'[s] = "panic" /\ world'[s] = "fresh" /\ prepared'[s]
      BY <1>6, <2>3 DEF Panics
    <3> QED  BY <2>1, <3>1
  <2> QED  BY <1>6, <2>2, <2>3 DEF Panics
<1>7. CASE Scores(s)
  BY <1>7 DEF Scores
<1>8. CASE CleansUp(s)
  <2>1. PICK fails \in BOOLEAN :
          /\ fails => ~Keeps(s)
          /\ Disposed(s, fails)
          /\ world' = [world EXCEPT ![s] = IF Keeps(s) \/ fails THEN @ ELSE "absent"]
    BY <1>8 DEF CleansUp
  <2>2. /\ pc'[s] = "leave" /\ world[s] = "fresh" /\ prepared'[s] /\ cleanups[s] = <<>>
        /\ UNCHANGED <<err, failure, config>>
        /\ world'[s] = (IF Keeps(s) \/ fails THEN "fresh" ELSE "absent")
    BY <1>8, <2>1 DEF CleansUp
  <2>3. /\ Len(cleanups'[s]) = 1
        /\ cleanups'[s][1].keep = Keeps(s) /\ cleanups'[s][1].failed = fails
    BY <2>1, <2>2, DisposedOnce
  <2>4. failure[s] # "success" => Keeps(s) /\ world'[s] = "fresh"
    BY <2>2 DEF Keeps
  <2>5. failure[s] = "success" =>
          /\ Keeps(s) = config.keepAll
          /\ world'[s] = "absent" <=> ~config.keepAll /\ ~fails
    BY <2>1, <2>2, Options DEF Keeps
  <2> HIDE DEF Types
  <2> QED  BY <2>2, <2>3, <2>4, <2>5
<1>9. CASE CleanupPanics(s)
  <2>1. /\ pc'[s] = "leave" /\ prepared'[s] /\ err'[s] = "cleanup" /\ failure'[s] = NoVerdict
        /\ Disposed(s, TRUE) /\ cleanups[s] = <<>>
    BY <1>9 DEF CleanupPanics
  <2>2. Len(cleanups'[s]) = 1
    BY <2>1, DisposedOnce
  <2> QED  BY <2>1, <2>2, NotAVerdict
<1>10. CASE Leaves(s)
  BY <1>10, NotAVerdict DEF Leaves
<1>11. CASE Stopped(s)
  BY <1>11, Reported DEF Stopped, GovernorLimits
<1>12. CASE OutOfTurns(s)
  BY <1>12 DEF OutOfTurns
<1>13. CASE OutOfSteps(s)
  BY <1>13 DEF OutOfSteps
<1>14. CASE Asks(s)
  BY <1>14 DEF Asks
<1>15. CASE CallAnswers(s)
  BY <1>15 DEF CallAnswers
<1>16. CASE CallFails(s)
  <2>1. PICK e \in {"window", "provider", "timeout"} \cup
                 (IF cause[s] = "none" THEN {} ELSE {CtxErr(s)}) :
          err' = [err EXCEPT ![s] = CauseOr(s, e)]
    BY <1>16 DEF CallFails
  <2>2. CauseOr(s, e) # "cleanup"
    BY Reported DEF GovernorLimits
  <2> QED  BY <1>16, <2>1, <2>2 DEF CallFails
<1>17. CASE ToolEnds(s)
  BY <1>17 DEF ToolEnds
<1>18. CASE RunPanics(s)
  BY <1>18 DEF RunPanics, Running
<1>19. CASE WallClock(s)
  BY <1>19 DEF WallClock, Running
<1>20. CASE \E m \in Models : ChildAsks(s, m)
  BY <1>20 DEF ChildAsks
<1>21. CASE \E m \in Models : ChildBack(s, m)
  BY <1>21 DEF ChildBack
<1>22. CASE ToolTimesOut(s)
  BY <1>22 DEF ToolTimesOut, Late
<1> QED
  BY <1>1, <1>2, <1>3, <1>4, <1>5, <1>6, <1>7, <1>8, <1>9, <1>10, <1>11, <1>12, <1>13, <1>14,
     <1>15, <1>16, <1>17, <1>18, <1>19, <1>20, <1>21, <1>22 DEF Sample, Harness, Drives
(* A limit that trips gives a context that lives a reason to end.          *)
LEMMA Tripped ==
  ASSUME Types, NEW s \in Samples, NEW limits, MayTrip(s, limits)
  PROVE  \/ cause'[s] = cause[s]
         \/ cause[s] = "none" /\ cause'[s] \in GovernorLimits
<1>1. CASE UNCHANGED cause
  BY <1>1
<1>2. ASSUME NEW l \in config.limits,
             cause' = [cause EXCEPT ![s] = IF @ = "none" THEN l ELSE @]
      PROVE  cause'[s] = cause[s] \/ (cause[s] = "none" /\ cause'[s] \in GovernorLimits)
  BY <1>2, Options DEF Types
<1> QED  BY <1>1, <1>2 DEF MayTrip

LEMMA AnsweredTripped ==
  ASSUME Types, NEW s \in Samples, NEW m, Answered(s, m)
  PROVE  \/ cause'[s] = cause[s]
         \/ cause[s] = "none" /\ cause'[s] \in GovernorLimits
<1>1. CASE UNCHANGED <<cost, cause>>
  BY <1>1
<1>2. CASE \E name : Costs(s, m, name)
  BY <1>2, Tripped DEF Costs, Charges
<1> QED  BY <1>1, <1>2, CameBack

(* Why the context ended. *)
LEMMA CauseStays ==
  ASSUME Types, NEW s \in Samples, Book(s), Sample(s)
  PROVE  CauseBook(s)'
<1> USE DEF Book, CauseBook, Types, Goes, Breaks, Ends, run, cost, heard,
            result, place
<1>1. CASE Acquires(s)
  BY <1>1 DEF Acquires
<1>2. CASE Resets(s)
  BY <1>2 DEF Resets
<1>3. CASE ResetFails(s)
  BY <1>3 DEF ResetFails
<1>4. CASE Builds(s)
  BY <1>4 DEF Builds
<1>5. CASE BuildFails(s)
  BY <1>5 DEF BuildFails
<1>6. CASE Panics(s)
  BY <1>6 DEF Panics
<1>7. CASE Scores(s)
  BY <1>7 DEF Scores
<1>8. CASE CleansUp(s)
  BY <1>8 DEF CleansUp
<1>9. CASE CleanupPanics(s)
  BY <1>9 DEF CleanupPanics
<1>10. CASE Leaves(s)
  BY <1>10 DEF Leaves
<1>11. CASE Stopped(s)
  BY <1>11 DEF Stopped
<1>12. CASE OutOfTurns(s)
  BY <1>12 DEF OutOfTurns
<1>13. CASE OutOfSteps(s)
  BY <1>13 DEF OutOfSteps, GovernorLimits
<1>14. CASE Asks(s)
  BY <1>14 DEF Asks
<1>15. CASE CallAnswers(s)
  BY <1>15, AnsweredTripped DEF CallAnswers, GovernorLimits
<1>16. CASE CallFails(s)
  BY <1>16 DEF CallFails
<1>17. CASE ToolEnds(s)
  BY <1>17, Tripped DEF ToolEnds, GovernorLimits
<1>18. CASE RunPanics(s)
  BY <1>18 DEF RunPanics, Running
<1>19. CASE WallClock(s)
  BY <1>19 DEF WallClock, Running, GovernorLimits
<1>20. CASE \E m \in Models : ChildAsks(s, m)
  BY <1>20 DEF ChildAsks
<1>21. CASE \E m \in Models : ChildBack(s, m)
  BY <1>21, AnsweredTripped DEF ChildBack, GovernorLimits, RunBook
<1>22. CASE ToolTimesOut(s)
  BY <1>22 DEF ToolTimesOut, Late
<1> QED
  BY <1>1, <1>2, <1>3, <1>4, <1>5, <1>6, <1>7, <1>8, <1>9, <1>10, <1>11, <1>12, <1>13, <1>14,
     <1>15, <1>16, <1>17, <1>18, <1>19, <1>20, <1>21, <1>22 DEF Sample, Harness, Drives

(* What is reported. *)
LEMMA ErrStays ==
  ASSUME Types, NEW s \in Samples, Book(s), Sample(s)
  PROVE  ErrBook(s)'
<1> USE DEF GovernorLimits, Book, CauseBook, ErrBook, Types, Goes, Breaks, Ends, run, cost, heard,
            result, place
<1>1. CASE Acquires(s)
  BY <1>1 DEF Acquires
<1>2. CASE Resets(s)
  BY <1>2 DEF Resets
<1>3. CASE ResetFails(s)
  BY <1>3 DEF ResetFails
<1>4. CASE Builds(s)
  BY <1>4 DEF Builds
<1>5. CASE BuildFails(s)
  BY <1>5 DEF BuildFails
<1>6. CASE Panics(s)
  BY <1>6 DEF Panics
<1>7. CASE Scores(s)
  BY <1>7 DEF Scores
<1>8. CASE CleansUp(s)
  BY <1>8 DEF CleansUp
<1>9. CASE CleanupPanics(s)
  BY <1>9 DEF CleanupPanics
<1>10. CASE Leaves(s)
  BY <1>10 DEF Leaves
<1>11. CASE Stopped(s)
  BY <1>11, Reported DEF Stopped
<1>12. CASE OutOfTurns(s)
  BY <1>12 DEF OutOfTurns
<1>13. CASE OutOfSteps(s)
  BY <1>13 DEF OutOfSteps
<1>14. CASE Asks(s)
  BY <1>14 DEF Asks
<1>15. CASE CallAnswers(s)
  BY <1>15, AnsweredTripped DEF CallAnswers
<1>16. CASE CallFails(s)
  BY <1>16, Reported DEF CallFails
<1>17. CASE ToolEnds(s)
  BY <1>17, Tripped DEF ToolEnds
<1>18. CASE RunPanics(s)
  BY <1>18 DEF RunPanics, Running
<1>19. CASE WallClock(s)
  BY <1>19 DEF WallClock, Running
<1>20. CASE \E m \in Models : ChildAsks(s, m)
  BY <1>20 DEF ChildAsks
<1>21. CASE \E m \in Models : ChildBack(s, m)
  BY <1>21, AnsweredTripped DEF ChildBack, RunBook
<1>22. CASE ToolTimesOut(s)
  BY <1>22 DEF ToolTimesOut, Late
<1> QED
  BY <1>1, <1>2, <1>3, <1>4, <1>5, <1>6, <1>7, <1>8, <1>9, <1>10, <1>11, <1>12, <1>13, <1>14,
     <1>15, <1>16, <1>17, <1>18, <1>19, <1>20, <1>21, <1>22 DEF Sample, Harness, Drives

(* The verdict. *)
LEMMA VerdictStays ==
  ASSUME Types, NEW s \in Samples, Book(s), Sample(s)
  PROVE  VerdictBook(s)'
<1> USE DEF Book, RunBook, VerdictBook, Done, Types, Goes, Breaks, Ends, run, cost, heard,
            result, place
<1>1. CASE Acquires(s)
  BY <1>1 DEF Acquires
<1>2. CASE Resets(s)
  BY <1>2 DEF Resets
<1>3. CASE ResetFails(s)
  BY <1>3, HostVerdict DEF ResetFails
<1>4. CASE Builds(s)
  BY <1>4 DEF Builds
<1>5. CASE BuildFails(s)
  BY <1>5, HostVerdict DEF BuildFails
<1>6. CASE Panics(s)
  BY <1>6 DEF Panics
<1>7. CASE Scores(s)
  <2>1. pc'[s] = "clean"
    BY <1>7 DEF Scores
  <2>2. PICK g : \/ /\ failure' = [failure EXCEPT ![s] = Classify(err[s], Passes(g), denied[s])]
                    /\ UNCHANGED err
                 \/ /\ err' = [err EXCEPT ![s] = "host"]
                    /\ \E e \in Foreign :
                         failure' = [failure EXCEPT ![s] = Classify(e, Passes(g), denied[s])]
    BY <1>7 DEF Scores
  <2>3. CASE failure' = [failure EXCEPT ![s] = Classify(err[s], Passes(g), denied[s])]
             /\ UNCHANGED err
    <3>1. failure'[s] = Classify(err[s], Passes(g), denied[s]) /\ err'[s] = err[s]
      BY <2>3
    <3> QED  BY <2>1, <3>1, Classified, NoKind, NotAVerdict
  <2>4. ASSUME NEW e \in Foreign, err' = [err EXCEPT ![s] = "host"],
               failure' = [failure EXCEPT ![s] = Classify(e, Passes(g), denied[s])]
        PROVE  VerdictBook(s)'
    <3>1. failure'[s] = Classify(e, Passes(g), denied[s]) /\ err'[s] = "host"
      BY <2>4
    <3> QED  BY <2>1, <3>1, Hosted
  <2> QED  BY <2>2, <2>3, <2>4
<1>8. CASE CleansUp(s)
  BY <1>8 DEF CleansUp
<1>9. CASE CleanupPanics(s)
  BY <1>9 DEF CleanupPanics
<1>10. CASE Leaves(s)
  BY <1>10, NotAVerdict DEF Leaves
<1>11. CASE Stopped(s)
  BY <1>11 DEF Stopped
<1>12. CASE OutOfTurns(s)
  BY <1>12 DEF OutOfTurns
<1>13. CASE OutOfSteps(s)
  BY <1>13 DEF OutOfSteps
<1>14. CASE Asks(s)
  BY <1>14 DEF Asks
<1>15. CASE CallAnswers(s)
  BY <1>15 DEF CallAnswers
<1>16. CASE CallFails(s)
  BY <1>16 DEF CallFails
<1>17. CASE ToolEnds(s)
  BY <1>17 DEF ToolEnds
<1>18. CASE RunPanics(s)
  BY <1>18 DEF RunPanics, Running
<1>19. CASE WallClock(s)
  BY <1>19 DEF WallClock, Running
<1>20. CASE \E m \in Models : ChildAsks(s, m)
  BY <1>20 DEF ChildAsks
<1>21. CASE \E m \in Models : ChildBack(s, m)
  BY <1>21 DEF ChildBack
<1>22. CASE ToolTimesOut(s)
  BY <1>22 DEF ToolTimesOut, Late
<1> QED
  BY <1>1, <1>2, <1>3, <1>4, <1>5, <1>6, <1>7, <1>8, <1>9, <1>10, <1>11, <1>12, <1>13, <1>14,
     <1>15, <1>16, <1>17, <1>18, <1>19, <1>20, <1>21, <1>22 DEF Sample, Harness, Drives
(* What an answer costs is in all that is kept of it, unless the folder    *)
(* does not hear of it, or puts it down to a model that did not give it.   *)
LEMMA ChargedBook ==
  ASSUME Types, NEW s \in Samples, SpendBook(s), NEW m, NEW name, Costs(s, m, name),
         UNCHANGED config
  PROVE  /\ SpendBook(s)'
         /\ \/ cause'[s] # "none" \/ Late(s)
            \/ told[s] = charged[s] => told'[s] = charged'[s]
<1> DEFINE model == Named(m, name)
           guess == Named(asked[s], name)
<1>1. /\ usd'[s] <=> usd[s] \/ (config.tracked /\ model \in Priced)
      /\ charged'[s] = charged[s] \cup {model}
  BY DEF Costs, Charges, Types
<1>2. usd'[s] <=> config.tracked /\ charged'[s] \cap Priced # {}
  <2> HIDE DEF model
  <2> QED  BY <1>1 DEF SpendBook
<1>3. CASE Tells(s, m, name)
  <2>1. /\ models'[s] = models[s] \cup ({guess} \ {NoName})
        /\ tokens'[s] = TRUE
        /\ told'[s] = told[s] \cup {model}
        /\ misled'[s] <=> misled[s] \/ guess # model \/ guess = NoName
    BY <1>3 DEF Tells, Types
  <2> HIDE DEF model, guess
  <2>2. (tokens'[s] <=> told'[s] # {}) /\ told'[s] \subseteq charged'[s]
    BY <1>1, <2>1 DEF SpendBook
  <2>3. ~misled'[s] => models'[s] = told'[s]
    BY <2>1 DEF SpendBook
  <2>4. told[s] = charged[s] => told'[s] = charged'[s]
    BY <1>1, <2>1
  <2> QED  BY <1>2, <2>2, <2>3, <2>4 DEF SpendBook
<1>4. CASE (cause'[s] # "none" \/ Late(s)) /\ UNCHANGED heard
  <2> HIDE DEF model, guess
  <2> QED  BY <1>1, <1>2, <1>4 DEF SpendBook, heard
<1> QED  BY <1>3, <1>4 DEF Costs

LEMMA AnsweredBook ==
  ASSUME Types, NEW s \in Samples, RunBook(s), SpendBook(s), Heard(s), NEW m, Answered(s, m),
         UNCHANGED <<config, late>>, pc[s] \in {"call", "tool"}
  PROVE  SpendBook(s)' /\ Heard(s)'
<1>1. CASE UNCHANGED <<cost, cause>>
  BY <1>1 DEF cost, heard, SpendBook, Heard
<1>2. CASE \E name : Costs(s, m, name)
  <2>1. PICK name : Costs(s, m, name)
    BY <1>2
  <2>2. cause'[s] = "none" => cause[s] = "none"
    BY AnsweredTripped DEF GovernorLimits
  <2>3. Late(s) => late[s] # 0
    BY DEF Late, RunBook
  <2> QED  BY <2>1, <2>2, <2>3, ChargedBook DEF Heard
<1> QED  BY <1>1, <1>2, CameBack

(* The cost. *)
LEMMA CostStays ==
  ASSUME Types, NEW s \in Samples, Book(s), Sample(s)
  PROVE  CostBook(s)'
<1> USE DEF Book, RunBook, CauseBook, CostBook, SpendBook, Heard, Done, Types, Goes, Breaks,
            Ends, run, cost, heard, result, place
<1>1. CASE Acquires(s)
  BY <1>1 DEF Acquires
<1>2. CASE Resets(s)
  BY <1>2 DEF Resets
<1>3. CASE ResetFails(s)
  BY <1>3 DEF ResetFails
<1>4. CASE Builds(s)
  BY <1>4 DEF Builds
<1>5. CASE BuildFails(s)
  BY <1>5 DEF BuildFails
<1>6. CASE Panics(s)
  BY <1>6 DEF Panics
<1>7. CASE Scores(s)
  BY <1>7 DEF Scores
<1>8. CASE CleansUp(s)
  BY <1>8 DEF CleansUp
<1>9. CASE CleanupPanics(s)
  BY <1>9 DEF CleanupPanics
<1>10. CASE Leaves(s)
  BY <1>10 DEF Leaves, PricedSpend
<1>11. CASE Stopped(s)
  BY <1>11 DEF Stopped
<1>12. CASE OutOfTurns(s)
  BY <1>12 DEF OutOfTurns
<1>13. CASE OutOfSteps(s)
  BY <1>13 DEF OutOfSteps
<1>14. CASE Asks(s)
  BY <1>14 DEF Asks
<1>15. CASE CallAnswers(s)
  BY <1>15, AnsweredBook DEF CallAnswers
<1>16. CASE CallFails(s)
  BY <1>16 DEF CallFails
<1>17. CASE ToolEnds(s)
  BY <1>17, Tripped DEF ToolEnds, GovernorLimits
<1>18. CASE RunPanics(s)
  BY <1>18 DEF RunPanics, Running
<1>19. CASE WallClock(s)
  BY <1>19 DEF WallClock, Running
<1>20. CASE \E m \in Models : ChildAsks(s, m)
  BY <1>20 DEF ChildAsks
<1>21. CASE \E m \in Models : ChildBack(s, m)
  BY <1>21, AnsweredBook DEF ChildBack
<1>22. CASE ToolTimesOut(s)
  BY <1>22 DEF ToolTimesOut, Late
<1> QED
  BY <1>1, <1>2, <1>3, <1>4, <1>5, <1>6, <1>7, <1>8, <1>9, <1>10, <1>11, <1>12, <1>13, <1>14,
     <1>15, <1>16, <1>17, <1>18, <1>19, <1>20, <1>21, <1>22 DEF Sample, Harness, Drives
-----------------------------------------------------------------------------
(* The invariant, step by step. *)

LEMMA InitIInv == Init => IInv
<1> SUFFICES ASSUME Init  PROVE IInv
  OBVIOUS
<1>1. Types
  BY DEF Init, Types, Phases, Reasons
<1>2. ASSUME NEW s \in Samples  PROVE Book(s)
  <2>1. RunBook(s)
    BY Options DEF Init, RunBook, Done
  <2>2. WorldBook(s)
    BY DEF Init, WorldBook
  <2>3. CauseBook(s) /\ ErrBook(s)
    BY DEF Init, CauseBook, ErrBook, GovernorLimits
  <2>4. VerdictBook(s)
    BY DEF Init, VerdictBook, Done
  <2>5. CostBook(s)
    BY DEF Init, CostBook, SpendBook, Heard, Done
  <2> QED  BY <2>1, <2>2, <2>3, <2>4, <2>5 DEF Book
<1> QED  BY <1>1, <1>2 DEF IInv

(* One sample moves. *)
LEMMA SampleStep ==
  ASSUME IInv, NEW s \in Samples, Sample(s)
  PROVE  IInv'
<1>1. Types'
  BY TypesStay DEF IInv
<1>2. Book(s)'
  BY RunStays, WorldStays, CauseStays, ErrStays, VerdictStays, CostStays DEF IInv, Book
<1>3. ASSUME NEW t \in Samples \ {s}  PROVE Book(t)'
  <2>1. Stands(t) /\ UNCHANGED <<config, parent, returned>>
    BY OthersStand DEF IInv
  <2> QED  BY <2>1, BookStands DEF IInv
<1> QED  BY <1>1, <1>2, <1>3 DEF IInv

(* The caller's context ends, under every run at once. *)
LEMMA CallerStep ==
  ASSUME IInv, NEW why \in {"canceled", "deadline"}, CallerEnds(why)
  PROVE  IInv'
<1> USE DEF IInv, CallerEnds, cost, heard, result, place
<1>1. Types'
  BY DEF Types, Reasons
<1>2. ASSUME NEW s \in Samples  PROVE Book(s)'
  <2>1. /\ Book(s) /\ s \in Samples /\ parent' = why /\ parent = "alive"
        /\ cause'[s] = (IF Running(s) /\ cause[s] = "none" THEN why ELSE cause[s])
    OBVIOUS
  <2>2. RunBook(s)'
    BY <2>1 DEF Book, RunBook, Done
  <2>3. WorldBook(s)'
    BY <2>1 DEF Book, WorldBook
  <2>4. CauseBook(s)'
    BY <2>1 DEF Book, CauseBook, Running
  <2>5. ErrBook(s)'
    BY <2>1 DEF Book, ErrBook, Running, GovernorLimits
  <2>6. VerdictBook(s)'
    BY <2>1 DEF Book, VerdictBook, Done
  <2>7. CostBook(s)'
    BY <2>1 DEF Book, CostBook, SpendBook, Heard, Done, PricedSpend
  <2> QED  BY <2>2, <2>3, <2>4, <2>5, <2>6, <2>7 DEF Book
<1> QED  BY <1>1, <1>2

LEMMA ReturnStep ==
  ASSUME IInv, Returns
  PROVE  IInv'
<1> USE DEF IInv, Returns, run, cost, heard, result, place
<1>1. Types'
  BY DEF Types
<1>2. ASSUME NEW s \in Samples  PROVE Book(s)'
  BY DEF Book, RunBook, WorldBook, CauseBook, ErrBook, VerdictBook, CostBook, SpendBook,
         Heard, Done, PricedSpend
<1> QED  BY <1>1, <1>2

LEMMA NothingStep ==
  ASSUME IInv, UNCHANGED vars
  PROVE  IInv'
<1> USE DEF IInv, vars, run, cost, heard, result, place
<1>1. Types'
  BY DEF Types
<1>2. ASSUME NEW s \in Samples  PROVE Book(s)'
  BY DEF Book, RunBook, WorldBook, CauseBook, ErrBook, VerdictBook, CostBook, SpendBook,
         Heard, Done, PricedSpend
<1> QED  BY <1>1, <1>2

LEMMA StepIInv == IInv /\ [Next]_vars => IInv'
<1> SUFFICES ASSUME IInv, [Next]_vars  PROVE IInv'
  OBVIOUS
<1>1. CASE \E s \in Samples : Sample(s)
  BY <1>1, SampleStep
<1>2. CASE \E why \in {"canceled", "deadline"} : CallerEnds(why)
  BY <1>2, CallerStep
<1>3. CASE Returns
  BY <1>3, ReturnStep
<1>4. CASE UNCHANGED vars
  BY <1>4, NothingStep
<1> QED  BY <1>1, <1>2, <1>3, <1>4 DEF Next, Sample

LEMMA AlwaysIInv == FairSpec => []IInv
  BY InitIInv, StepIInv, PTL DEF FairSpec

-----------------------------------------------------------------------------
(* The theorems. *)

(* Rollouts keeps its types: what a run of one sample has done is within   *)
(* the iterations it may take, and what its sub-agents have under way is   *)
(* within what they asked for.                                             *)
THEOREM TypeCorrect == FairSpec => []TypeOK
<1>1. IInv => TypeOK
  BY DEF IInv, Types, TypeOK, Book, RunBook, Phases, Reasons
<1> QED  BY AlwaysIInv, <1>1, PTL

(* However a sample's episode ends, in a panic of the environment, the     *)
(* factory, the run, a verifier or the cleanup itself, or under a caller   *)
(* that gave up, its world is disposed of once (never one that was not     *)
(* reset); what an episode that did not succeed leaves is there to look at,*)
(* and what a successful one leaves is gone, unless everything is kept or  *)
(* the removal failed, of which only the log hears (rollout.go's cleanup,  *)
(* env.go's Cleanup).                                                      *)
THEOREM EvidenceIsKept == FairSpec => []EvidenceKept
<1>1. IInv => EvidenceKept
  BY DEF IInv, Book, WorldBook, EvidenceKept, Done
<1> QED  BY AlwaysIInv, <1>1, PTL

(* The failure a report counts is the limit that ended the run, whatever   *)
(* the call it interrupted made of it: causeOr and classify between them   *)
(* never put a limit's end down to the caller, or the caller's to a limit; *)
(* and where they say that time ran out, a clock or a deadline ended the   *)
(* run, or no limit did and a model call gave up waiting by itself.        *)
THEOREM LimitsAreTold == FairSpec => []FailureTellsTheLimit
<1>1. ASSUME IInv, NEW s \in Samples, Done(s), err[s] # "host"
      PROVE  /\ failure[s] = "cancelled" => cause[s] = "canceled" /\ parent = "canceled"
             /\ failure[s] = "wall_clock" =>
                  \/ cause[s] \in {"wall", "deadline"}
                  \/ err[s] = "timeout" /\ cause[s] \in {"none", "canceled"}
             /\ failure[s] \in {"budget", "tool_loop"} => Kinds[cause[s]] = failure[s]
             /\ cause[s] \in GovernorLimits /\ failure[s] \notin {"success", "verifier"} =>
                  \/ failure[s] = Kinds[cause[s]]
                  \/ err[s] \in {"maxTokens", "refused", "stop", "panic", "cleanup"}
  <2>1. CauseBook(s) /\ ErrBook(s) /\ VerdictBook(s)
    BY <1>1 DEF IInv, Book
  <2>2. \/ failure[s] = "panic" /\ err[s] \in {"panic", "cleanup"}
        \/ err[s] = "none" /\ failure[s] \in {"success", "verifier"}
        \/ err[s] \in DOMAIN Kinds /\ failure[s] = Kinds[err[s]]
        \/ err[s] \notin {"none"} \cup DOMAIN Kinds /\ failure[s] \in {"denied", "other"}
    BY <1>1, <2>1 DEF VerdictBook, Done
  <2>3. /\ failure[s] = "cancelled" => err[s] = "canceled"
        /\ failure[s] = "wall_clock" => err[s] \in {"wall", "deadline", "timeout"}
        /\ failure[s] = "budget" => err[s] = "budget"
        /\ failure[s] = "tool_loop" => err[s] \in {"toolLoop", "toolCalls"}
    BY <2>2, KindsAre
  <2>4. failure[s] = "cancelled" => cause[s] = "canceled" /\ parent = "canceled"
    BY <2>1, <2>3 DEF ErrBook, CauseBook
  <2>5. failure[s] = "wall_clock" =>
          \/ cause[s] \in {"wall", "deadline"}
          \/ err[s] = "timeout" /\ cause[s] \in {"none", "canceled"}
    BY <2>1, <2>3 DEF ErrBook, GovernorLimits
  <2>6. failure[s] \in {"budget", "tool_loop"} => Kinds[cause[s]] = failure[s]
    BY <2>1, <2>2, <2>3, NoKind DEF ErrBook, GovernorLimits
  <2>7. ASSUME cause[s] \in GovernorLimits, failure[s] \notin {"success", "verifier"},
               err[s] \notin {"maxTokens", "refused", "stop", "panic", "cleanup"}
        PROVE  failure[s] = Kinds[cause[s]]
    <3>1. err[s] = cause[s] /\ err[s] \in DOMAIN Kinds
      BY <1>1, <2>1, <2>2, <2>7, KindsAre DEF ErrBook, GovernorLimits
    <3> QED  BY <2>2, <2>7, <3>1, NoKind
  <2> QED  BY <2>4, <2>5, <2>6, <2>7
<1>2. IInv => FailureTellsTheLimit
  BY <1>1 DEF FailureTellsTheLimit
<1> QED  BY AlwaysIInv, <1>2, PTL

(* A price is reported only of what the table could price: of every model  *)
(* the folder heard of that charged the sample, its sub-agents' included,  *)
(* and only if something was counted; no model that has a rate is in the   *)
(* report's line of those without; and the folder hears of every model that*)
(* charged until the run's context, or a tool call's, has ended (emit,     *)
(* pricedSpend, writeUnpriced).                                            *)
THEOREM CostIsHonest == FairSpec => []HonestCost
<1>1. ASSUME IInv, NEW s \in Samples, Done(s), priced[s]
      PROVE  /\ told[s] # {} => config.tracked /\ charged[s] \cap Priced # {}
             /\ config.pricing /\ ~misled[s] => told[s] \subseteq Priced
  BY <1>1 DEF IInv, Book, CostBook, SpendBook, PricedSpend
<1>2. ASSUME IInv, returned, config.tracked, \A s \in Samples : ~misled[s]
      PROVE  UnpricedLine(priced, [s \in Samples |-> Unpriced(s)]) \cap Priced = {}
  <2> DEFINE un == [s \in Samples |-> Unpriced(s)]
  <2>1. ASSUME NEW s \in Samples  PROVE Unpriced(s) \cap Priced = {}
    BY <1>2, <2>1 DEF IInv, Book, CostBook, SpendBook, Unpriced
  <2>2. ASSUME NEW s \in Samples, ~priced[s]  PROVE Unpriced(s) # {}
    BY <1>2, <2>2 DEF IInv, Book, RunBook, CostBook, SpendBook, Unpriced, PricedSpend
  <2>3. DOMAIN priced = Samples /\ DOMAIN un = Samples
    BY <1>2 DEF IInv, Types
  <2>4. UnpricedModels(un) \cap Priced = {}
    BY <2>1, <2>3 DEF UnpricedModels, Range
  <2>5. CASE AllPriced(priced)
    BY <2>5 DEF UnpricedLine
  <2>6. CASE ~AllPriced(priced)
    <3>1. PICK s \in Samples : ~priced[s]
      BY <2>3, <2>6 DEF AllPriced
    <3>2. UnpricedModels(un) # {}
      BY <2>2, <2>3, <3>1 DEF UnpricedModels, Range
    <3> QED  BY <2>4, <2>6, <3>2 DEF UnpricedLine
  <2> QED  BY <2>5, <2>6
<1>3. ASSUME IInv, NEW s \in Samples
      PROVE  cause[s] = "none" /\ late[s] = 0 => told[s] = charged[s]
  BY <1>3 DEF IInv, Book, CostBook, Heard
<1>4. IInv => HonestCost
  BY <1>1, <1>2, <1>3 DEF HonestCost
<1> QED  BY AlwaysIInv, <1>4, PTL
=============================================================================
