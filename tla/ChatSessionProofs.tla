------------------------- MODULE ChatSessionProofs -------------------------
(***************************************************************************)
(* Proofs about ChatSession, for any number of submissions.                *)
(***************************************************************************)
EXTENDS ChatSession, TLAPS

\* What is open when a step of New is about to run.
Held(step) ==
    CASE step = "evaluator" -> {}
      [] step \in {"bus", "globals", "runtime", "engine", "router"} ->
            {"evaluator"}
      [] step \in {"seed", "turns"} -> {"evaluator", "router"}
      [] step = "timeline" -> {"evaluator", "router", "turns"}

\* While New runs there is no program, no work and no Close; what its earlier
\* steps opened is open and the rest was never opened.
Building ==
    build \in ReplSteps \cup ChatSteps =>
        /\ program = "off" /\ child["chat"] = "absent"
        /\ \A r \in Resources :
                res[r] = IF r \in Held(build) THEN "open" ELSE "none"

\* Before the program runs nothing else does.
Quiet ==
    program = "off" =>
        /\ runs = {} /\ handler = "idle" /\ closer = 0
        /\ conn = "live" /\ \A k \in Kids : work[k] = "none"

\* A chat that was built keeps its resources until Close is past them.
ChatHeld ==
    build = "built" /\ child["chat"] # "absent" =>
        /\ closer <= 4 <=> res["router"] = "open"
        /\ closer <= 5 => res["turns"] = "open"
        /\ closer <= 6 => res["timeline"] = "open"

\* Only a chat that was built completes turns and emits events, and Close has
\* not got past the router while its handler writes.
ChatWorks ==
    /\ work["chat"] # "none" => build = "built" /\ child["chat"] # "absent"
    /\ "router" \in runs => build = "built" /\ child["chat"] # "absent"
    /\ handler = "writing" =>
            build = "built" /\ child["chat"] # "absent" /\ closer <= 4

\* Close waits for the end of the connection.
CloseIsLast == closer > 0 => conn = "done" /\ build = "built"

\* A turn is completed at most once for every submission.
TurnsBounded ==
    /\ turns.completed <= prompts
    /\ work["chat"] = "running" => turns.completed < prompts

\* The inductive invariant.
IndInv ==
    /\ TypeOK
    /\ Building
    /\ Quiet
    /\ ChatHeld
    /\ ChatWorks
    /\ CloseIsLast
    /\ TurnsBounded
    /\ FailedNewReleases
    /\ TurnsSavedWhileConnected

-----------------------------------------------------------------------------
(* Lemmas about the operators *)

\* The steps of Model.Close, in order.
LEMMA CloseOrderIs ==
    /\ DOMAIN CloseOrder = 1..6
    /\ CloseOrder[1] = "cancel bus" /\ CloseOrder[2] = "evaluator"
    /\ CloseOrder[3] = "cancel router" /\ CloseOrder[4] = "router"
    /\ CloseOrder[5] = "turns" /\ CloseOrder[6] = "timeline"
  BY DEF CloseOrder, ReplClose, ChatClose, StoresClose

\* Saving a turn counts it as completed and, with the store open, as saved;
\* a refused one counts as refused.
LEMMA PersistCounts ==
    ASSUME turns \in [completed : Nat, saved : Nat, refused : Nat]
    PROVE  /\ PersistTurn =
                [completed |-> turns.completed + 1,
                 saved |-> IF res["turns"] = "open"
                           THEN turns.saved + 1 ELSE turns.saved,
                 refused |-> turns.refused]
           /\ PersistTurnFails =
                [completed |-> turns.completed + 1, saved |-> turns.saved,
                 refused |-> turns.refused + 1]
  <1> DEFINE more == [turns EXCEPT !.completed = turns.completed + 1]
  <1>1. more = [completed |-> turns.completed + 1, saved |-> turns.saved,
                refused |-> turns.refused]
    OBVIOUS
  <1>2. /\ PersistTurn = [more EXCEPT !.saved =
                IF res["turns"] = "open" THEN more.saved + 1 ELSE more.saved]
        /\ PersistTurnFails = [more EXCEPT !.refused = more.refused + 1]
    BY DEF PersistTurn, PersistTurnFails
  <1> HIDE DEF more
  <1> QED BY <1>1, <1>2

-----------------------------------------------------------------------------
(* The steps *)

\* New: a step opens what it names, or the error path closes what is open.
LEMMA BuildKeeps ==
    ASSUME IndInv, BuildStep \/ BuildFails
    PROVE  IndInv'
  <1> USE DEF IndInv, TypeOK, Building, Quiet, ChatHeld, ChatWorks,
              CloseIsLast, TurnsBounded, FailedNewReleases,
              TurnsSavedWhileConnected, Kids, Resources, ChatResources,
              ReplSteps, ChatSteps, Held
  <1>1. CASE BuildStep
    <2>1. /\ build = "evaluator" => build' = "bus"
          /\ build = "bus" => build' = "globals"
          /\ build = "globals" => build' = "runtime"
          /\ build = "runtime" => build' = "engine"
          /\ build = "engine" => build' = "router"
          /\ build = "router" => build' = "seed"
          /\ build = "seed" => build' = "turns"
          /\ build = "turns" => build' = "timeline"
          /\ build = "timeline" => build' = "built"
      BY <1>1 DEF BuildStep, After
    <2>2. /\ res' \in [Resources -> {"none", "open", "closed"}]
          /\ \A r \in Resources :
                res'[r] = IF r = build THEN "open" ELSE res[r]
      BY <1>1 DEF BuildStep, ChangeAll, Opens
    <2>3. /\ child' \in [Kids -> {"absent", "idle", "busy", "error"}]
          /\ build # "timeline" => child'["chat"] = "absent"
      BY <1>1 DEF BuildStep, Built
    <2>4. /\ build \in ReplSteps \cup ChatSteps
          /\ UNCHANGED <<runs, conn, program, mode, work, handler, closer,
                         prompts, turns>>
      BY <1>1 DEF BuildStep
    <2>5. TypeOK' /\ TurnsBounded'
      BY <2>1, <2>2, <2>3, <2>4
    <2>6. Building'
      BY <2>1, <2>2, <2>3, <2>4
    <2>7. ChatHeld'
      BY <2>1, <2>2, <2>4
    <2>8. Quiet' /\ ChatWorks' /\ CloseIsLast' /\ TurnsSavedWhileConnected'
      BY <2>4
    <2>9. FailedNewReleases'
      BY <1>1 DEF BuildStep, ChangeAll, Opens, Built, After
    <2> QED BY <2>5, <2>6, <2>7, <2>8, <2>9
  <1>2. CASE BuildFails
    BY <1>2 DEF BuildFails, ChangeAll, ReplClosesOnError, ChatClosesOnError,
                StoresClosedOnError
  <1> QED BY <1>1, <1>2

\* The program, its event loop and the handler.
LEMMA ProgramKeeps ==
    ASSUME IndInv,
           \/ Attach \/ Back \/ Quit \/ ConnectionEnds
           \/ WriteTimeline \/ TimelineWritten
           \/ \E r \in {"bus", "router"} : RunStops(r)
           \/ \E k \in Kids : Enter(k) \/ Submit(k) \/ Deliver(k) \/ Fail(k)
    PROVE  IndInv'
  <1> USE PromptsBound
      DEF IndInv, TypeOK, Building, Quiet, ChatHeld, ChatWorks, CloseIsLast,
          TurnsBounded, FailedNewReleases, TurnsSavedWhileConnected, Kids,
          Resources, ChatResources, Board
  <1>1. CASE Attach
    BY <1>1 DEF Attach, ReplRuns, ChatRuns, ReplSteps, ChatSteps
  <1>2. CASE Back
    BY <1>2 DEF Back
  <1>3. CASE Quit
    BY <1>3 DEF Quit
  <1>4. CASE ConnectionEnds
    BY <1>4 DEF ConnectionEnds
  <1>5. CASE WriteTimeline
    BY <1>5 DEF WriteTimeline
  <1>6. CASE TimelineWritten
    BY <1>6 DEF TimelineWritten
  <1>7. ASSUME NEW k \in Kids, Enter(k)
        PROVE  IndInv'
    BY <1>7 DEF Enter
  <1>8. ASSUME NEW k \in Kids, Submit(k)
        PROVE  IndInv'
    BY <1>8 DEF Submit, ReplSteps, ChatSteps
  <1>9. ASSUME NEW k \in Kids, Deliver(k)
        PROVE  IndInv'
    BY <1>9 DEF Deliver, Routed, ReplSteps, ChatSteps
  <1>10. ASSUME NEW k \in Kids, Fail(k)
         PROVE  IndInv'
    BY <1>10 DEF Fail
  <1>11. ASSUME NEW r \in {"bus", "router"}, RunStops(r)
         PROVE  IndInv'
    BY <1>11 DEF RunStops
  <1> QED
    BY <1>1, <1>2, <1>3, <1>4, <1>5, <1>6, <1>7, <1>8, <1>9, <1>10, <1>11

\* A completed turn finds the store open as long as the connection lives.
LEMMA FinishKeeps ==
    ASSUME IndInv, NEW k \in Kids, Finish(k)
    PROVE  IndInv'
  <1> USE PromptsBound
      DEF IndInv, TypeOK, Building, Quiet, ChatHeld, ChatWorks, CloseIsLast,
          TurnsBounded, FailedNewReleases, TurnsSavedWhileConnected, Kids,
          Resources, ChatResources
  <1>1. turns \in [completed : Nat, saved : Nat, refused : Nat]
    OBVIOUS
  <1>2. CASE k = "chat"
    BY <1>1, <1>2, PersistCounts DEF Finish
  <1>3. CASE k = "repl"
    BY <1>3 DEF Finish
  <1> QED BY <1>2, <1>3

\* Close: the router first, then the stores.
LEMMA CloseKeeps ==
    ASSUME IndInv, CloseBegins \/ CloseStep
    PROVE  IndInv'
  <1> USE DEF IndInv, TypeOK, Building, Quiet, ChatHeld, ChatWorks,
              CloseIsLast, TurnsBounded, FailedNewReleases,
              TurnsSavedWhileConnected, Kids, Resources, ChatResources,
              ReplSteps, ChatSteps
  <1>1. CASE CloseBegins
    BY <1>1 DEF CloseBegins, MayClose
  <1>2. CASE CloseStep
    <2>1. /\ closer \in 1..6 /\ closer' = closer + 1
          /\ closer = 4 => handler = "idle"
          /\ UNCHANGED <<build, conn, program, mode, child, work, handler,
                         prompts, turns>>
      BY <1>2, CloseOrderIs DEF CloseStep
    <2>2. runs' = runs
      BY <1>2 DEF CloseStep
    <2>3. /\ res' \in [Resources -> {"none", "open", "closed"}]
          /\ \A r \in Resources :
                res'[r] = IF r = CloseOrder[closer] /\ res[r] = "open"
                          THEN "closed" ELSE res[r]
      BY <1>2 DEF CloseStep
    <2>4. /\ \A r \in Resources : res'[r] = "open" => res[r] = "open"
          /\ res'["router"] = "open" <=> res["router"] = "open" /\ closer # 4
          /\ closer # 5 => res'["turns"] = res["turns"]
          /\ closer # 6 => res'["timeline"] = res["timeline"]
      <3>1. closer = 1 \/ closer = 2 \/ closer = 3 \/ closer = 4 \/ closer = 5
            \/ closer = 6
        BY <2>1
      <3>2. /\ CloseOrder[closer] = "router" <=> closer = 4
            /\ CloseOrder[closer] = "turns" <=> closer = 5
            /\ CloseOrder[closer] = "timeline" <=> closer = 6
        BY <3>1, CloseOrderIs
      <3> QED BY <2>3, <3>2
    <2>5. TypeOK' /\ TurnsBounded'
      BY <2>1, <2>2, <2>3
    <2>6. ChatHeld' /\ ChatWorks'
      BY <2>1, <2>2, <2>4
    <2>7. Building' /\ Quiet' /\ CloseIsLast' /\ TurnsSavedWhileConnected'
      BY <2>1
    <2>8. FailedNewReleases'
      BY <2>1, <2>4
    <2> QED BY <2>5, <2>6, <2>7, <2>8
  <1> QED BY <1>1, <1>2

\* Every step keeps the invariant.
LEMMA IndStep == IndInv /\ [Next]_vars => IndInv'
  <1> SUFFICES ASSUME IndInv, [Next]_vars PROVE IndInv'
    OBVIOUS
  <1>1. CASE Next
    BY <1>1, BuildKeeps, ProgramKeeps, FinishKeeps, CloseKeeps DEF Next
  <1>2. CASE UNCHANGED vars
    BY <1>2
       DEF vars, IndInv, TypeOK, Building, Quiet, ChatHeld, ChatWorks,
           CloseIsLast, TurnsBounded, FailedNewReleases,
           TurnsSavedWhileConnected
  <1> QED BY <1>1, <1>2

\* It holds before New.
LEMMA IndInit == Init => IndInv
  BY PromptsBound
     DEF Init, IndInv, TypeOK, Building, Quiet, ChatHeld, ChatWorks,
         CloseIsLast, TurnsBounded, FailedNewReleases,
         TurnsSavedWhileConnected, Kids, Resources, ChatResources, ReplSteps,
         ChatSteps, Held

\* The inductive invariant of a session's REPL and chat.
THEOREM Inductive == Spec => []IndInv
  BY IndInit, IndStep, PTL DEF Spec

-----------------------------------------------------------------------------
(* The results *)

\* Every variable keeps its type, and a turn is counted once.
THEOREM TypeCorrect == Spec => []TypeOK
  <1>1. IndInv => TypeOK
    BY DEF IndInv
  <1> QED BY <1>1, Inductive, PTL

\* Whichever step of bbsapp.New, jsrepl.New or aichat.New fails, nothing it
\* had opened stays open.
THEOREM NewReleases == Spec => []FailedNewReleases
  <1>1. IndInv => FailedNewReleases
    BY DEF IndInv
  <1> QED BY <1>1, Inductive, PTL

\* Close never takes the timeline store away from the handler that writes.
THEOREM NoWriteAfterClose == Spec => []TimelineOpenWhileWritten
  <1>1. IndInv => TimelineOpenWhileWritten
    BY DEF IndInv, TypeOK, ChatHeld, ChatWorks, TimelineOpenWhileWritten
  <1> QED BY <1>1, Inductive, PTL

\* A turn completed while the connection lives is saved or refused by the
\* store, never lost to a store that Close has closed.
THEOREM TurnsReachTheStore == Spec => []TurnsSavedWhileConnected
  <1>1. IndInv => TurnsSavedWhileConnected
    BY DEF IndInv
  <1> QED BY <1>1, Inductive, PTL

=============================================================================
