---------------------------- MODULE AdaptiveLevel ----------------------------
(***************************************************************************)
(* AdaptiveLevelController (detail2/zstd.cpp) in the loop of               *)
(* ZstdCompressor::compress that consults it. Between two chunks the loop  *)
(* looks at the queue in front, at every output at the queue behind; what  *)
(* it sees there is whatever the other stages left. It looks whether or    *)
(* not the user fixed the level (-l), to any number: adaptive_enabled is   *)
(* not used. Time counts in kBaseCooldown.                                 *)
(***************************************************************************)
EXTENDS Integers

CONSTANTS MinLevel,     (* kMinAdaptiveCompressionLevel                    *)
          MaxLevel,     (* kMaxAdaptiveCompressionLevel                    *)
          InitialLevel  (* options.compression_level, or the default       *)

VARIABLES level,        (* compression_level_                              *)
          lastTarget,   (* last_target_level_                              *)
          lastDirection,(* last_direction_                                 *)
          cooldown,     (* current_cooldown_                               *)
          lastAdjusted, (* last_adjustment_, or Never                      *)
          pending,      (* pending_downstream_empty                        *)
          now,          (* the steady clock                                *)
          decisions     (* history: decisions taken, level changed or not  *)

vars == <<level, lastTarget, lastDirection, cooldown, lastAdjusted, pending, now, decisions>>

Never == -1
Directions == {"up", "down"}

(* What the theorems assume of the constants.                              *)
LevelsAreOrdered == /\ MinLevel \in Int /\ MaxLevel \in Int /\ InitialLevel \in Int
                    /\ MinLevel <= MaxLevel

Init ==
  /\ level = InitialLevel /\ lastTarget = InitialLevel /\ lastDirection = "none"
  /\ cooldown = 1 /\ lastAdjusted = Never /\ pending = FALSE
  /\ now = 0 /\ decisions = 0

Smaller(a, b) == IF a < b THEN a ELSE b
Clamp(l) == IF l < MinLevel THEN MinLevel ELSE IF l > MaxLevel THEN MaxLevel ELSE l

CoolingDown == lastAdjusted # Never /\ now - lastAdjusted < cooldown
Reversed(direction) == lastDirection # "none" /\ direction # lastDirection

(* A reversal never goes above the level it turns from, and doubles the    *)
(* time until the next decision.                                           *)
Target(requested, direction) ==
  IF Reversed(direction) THEN Smaller(Clamp(requested), lastTarget) ELSE Clamp(requested)

(* evaluate(), and apply_decision with what it returns.                    *)
Evaluate(requested, direction) ==
  IF CoolingDown
  THEN UNCHANGED <<level, lastTarget, lastDirection, cooldown, lastAdjusted, decisions>>
  ELSE /\ lastTarget' = Target(requested, direction)
       /\ level' = lastTarget'
       /\ lastDirection' = direction
       /\ cooldown' = IF Reversed(direction) THEN 2 * cooldown ELSE 1
       /\ lastAdjusted' = now
       /\ decisions' = decisions + 1

NoDecision == UNCHANGED <<level, lastTarget, lastDirection, cooldown, lastAdjusted, decisions>>

(* The head of the loop: the queue in front is full or not.                *)
Turn ==
  /\ \/ pending /\ Evaluate(level - 1, "down")
     \/ ~pending /\ Evaluate(level + 1, "up")
     \/ NoDecision
  /\ pending' = FALSE
  /\ UNCHANGED now

(* An output: the queue behind is empty, full, or neither.                 *)
Output ==
  /\ \/ pending' = TRUE /\ NoDecision
     \/ pending' = pending /\ Evaluate(level + 1, "up")
     \/ pending' = pending /\ NoDecision
  /\ UNCHANGED now

Tick == now' = now + 1 /\ UNCHANGED <<level, lastTarget, lastDirection, cooldown, lastAdjusted,
                                      pending, decisions>>

Next == Turn \/ Output \/ Tick

Spec == Init /\ [][Next]_vars

(***************************************************************************)
(* Properties.                                                             *)
(***************************************************************************)
TypeOK ==
  /\ level \in Int /\ lastTarget \in Int
  /\ lastDirection \in Directions \cup {"none"}
  /\ cooldown \in Nat \ {0}
  /\ lastAdjusted \in Nat \cup {Never}
  /\ pending \in BOOLEAN /\ now \in Nat /\ decisions \in Nat

(* However the queues fill and empty, and whatever level the user gave,    *)
(* the level the codec is set to is between the bounds from the first      *)
(* decision on, and is always the one the controller believes it chose.    *)
LevelIsBounded ==
  /\ level \in MinLevel .. MaxLevel \/ (decisions = 0 /\ level = InitialLevel)
  /\ lastTarget = level

(* The doubling of the cooldown keeps behind the clock: it cannot overflow *)
(* a duration before the clock itself does.                                *)
CooldownIsBounded == cooldown <= lastAdjusted + 1 \/ (lastAdjusted = Never /\ cooldown = 1)

(* At most one decision in each kBaseCooldown, over any stretch of time.   *)
OneDecisionPerCooldown == decisions <= lastAdjusted + 1

(* The level moves by one step at a time, but for the first decision, which*)
(* takes one the user gave outside the bounds to the bound next to it; and *)
(* never up right after it was taken down: it takes a second decision to   *)
(* raise it again.                                                         *)
SmallSteps == \/ level' \in {level - 1, level, level + 1}
              \/ decisions = 0 /\ level \notin MinLevel .. MaxLevel /\ level' = Clamp(level)
NoRaiseAfterDrop == lastDirection = "down" => level' <= level
MovesGently == [][SmallSteps /\ NoRaiseAfterDrop]_vars
=============================================================================
