---------------------------- MODULE OutputsProofs ---------------------------
(* What an output promises from the main thread's side, whatever the        *)
(* outputs, their arrangement, modes, windows and animations: that the      *)
(* allocation of CRTCs is sound and that the cursor is painted by the       *)
(* output it is on, once (Outputs), and that a frame shows the workspace at *)
(* one pan (Panning).                                                       *)
EXTENDS Outputs, Panning, SequenceTheorems, WellFoundedInduction, TLAPS

-----------------------------------------------------------------------------
(* CRTCs and the cursor.                                                    *)

LEMMA EarliestIsLeast ==
  ASSUME NEW S \in SUBSET Nat, S # {}
  PROVE  Earliest(S) \in S /\ \A t \in S : Earliest(S) <= t
<1> DEFINE less == {p \in Nat \X Nat : p[1] < p[2]}
<1>1. IsWellFoundedOn(less, Nat)
  BY NatLessThanWellFounded DEF OpToRel
<1>2. PICK x \in S : \A y \in S : ~(<<y, x>> \in less)
  <2> HIDE DEF less
  <2> QED
    BY <1>1, WFMin
<1>3. ASSUME NEW y \in S PROVE x <= y
  <2>1. ~(y < x)
    <3>1. <<y, x>> \in Nat \X Nat /\ <<y, x>>[1] = y /\ <<y, x>>[2] = x
      OBVIOUS
    <3> QED
      BY <1>2, <3>1
  <2> QED
    BY <2>1
<1>4. \E t \in S : \A u \in S : t <= u
  BY <1>3
<1> QED
  BY Zenon, <1>4 DEF Earliest

(* The CRTC a connector gets is free, and one of its encoders drives it.    *)
LEMMA FirstFreeIsFree ==
  ASSUME NEW c \in Outs, Drivable(c) # {}
  PROVE  /\ FirstFree(c) \in Crtcs
         /\ FirstFree(c) \notin Range(plan)
         /\ \E k \in DOMAIN Encoders[c] : FirstFree(c) \in Encoders[c][k]
<1> DEFINE k == Earliest(Drivable(c))
<1>1. DOMAIN Encoders[c] \subseteq Nat
      /\ \A j \in DOMAIN Encoders[c] : Encoders[c][j] \subseteq Crtcs
  BY OutputsAssumption
<1>2. k \in Drivable(c)
  BY <1>1, EarliestIsLeast DEF Drivable
<1>3. k \in DOMAIN Encoders[c] /\ FreeCrtcs(c, k) # {}
  BY <1>2 DEF Drivable
<1>4. FreeCrtcs(c, k) \in SUBSET Nat
  BY <1>1, <1>3, OutputsAssumption DEF FreeCrtcs, Crtcs
<1>5. FirstFree(c) \in FreeCrtcs(c, k)
  <2> HIDE DEF k
  <2>1. Earliest(FreeCrtcs(c, k)) \in FreeCrtcs(c, k)
    BY <1>3, <1>4, EarliestIsLeast
  <2> QED
    BY <2>1 DEF FirstFree, k
<1> QED
  BY <1>1, <1>3, <1>5 DEF FreeCrtcs

(* The next connector has no output yet.                                    *)
LEMMA NextIsNew ==
  ASSUME PlanTypeOK, PlanIsSound, ~Started
  PROVE  LET c == Connectors[Len(outputs) + 1]
         IN c \in Outs /\ c \notin Range(outputs)
<1>1. /\ Len(outputs) \in Nat /\ Len(Connectors) \in Nat
      /\ Len(outputs) < Len(Connectors)
      /\ DOMAIN outputs = 1 .. Len(outputs) /\ DOMAIN Connectors = 1 .. Len(Connectors)
  BY OutputsAssumption DEF PlanTypeOK, Started
<1>2. Len(outputs) + 1 \in DOMAIN Connectors
  BY <1>1
<1>3. ASSUME NEW i \in DOMAIN outputs PROVE outputs[i] # Connectors[Len(outputs) + 1]
  <2>1. i \in DOMAIN Connectors /\ i # Len(outputs) + 1 /\ outputs[i] = Connectors[i]
    BY <1>1 DEF PlanTypeOK
  <2> QED
    BY <1>2, <2>1, OutputsAssumption DEF IsInjective
<1> QED
  BY <1>2, <1>3 DEF Range, Outs

-----------------------------------------------------------------------------
(* The plan.                                                                *)

LEMMA AdoptKeepsPlan ==
  ASSUME PlanTypeOK, PlanIsSound, Adopt
  PROVE  PlanTypeOK' /\ PlanIsSound'
<1> DEFINE c == Connectors[Len(outputs) + 1]
<1>1. c \in Outs /\ c \notin Range(outputs) /\ c \notin DOMAIN plan
  BY NextIsNew DEF Adopt, PlanTypeOK
<1>2. outputs' = Append(outputs, c) /\ Len(outputs) < Len(Connectors)
  BY OutputsAssumption DEF Adopt, Started, PlanTypeOK
<1>3. plan' = IF Drivable(c) = {} THEN plan
              ELSE [d \in DOMAIN plan \cup {c} |-> IF d = c THEN FirstFree(c) ELSE plan[d]]
  BY DEF Adopt
<1> HIDE DEF c
<1>4. /\ outputs' \in Seq(Outs) /\ Len(outputs') <= Len(Connectors)
      /\ Range(outputs') = Range(outputs) \cup {c}
  <2>1. /\ outputs \in Seq(Outs) /\ Len(outputs) \in Nat /\ Len(Connectors) \in Nat
        /\ DOMAIN outputs = 1 .. Len(outputs)
    BY OutputsAssumption DEF PlanTypeOK
  <2>2. /\ outputs' \in Seq(Outs) /\ Len(outputs') = Len(outputs) + 1
        /\ DOMAIN outputs' = 1 .. Len(outputs) + 1
        /\ outputs'[Len(outputs) + 1] = c
        /\ \A i \in 1 .. Len(outputs) : outputs'[i] = outputs[i]
    BY <1>1, <1>2, <2>1
  <2>3. Range(outputs') = Range(outputs) \cup {c}
    BY <2>1, <2>2 DEF Range
  <2> QED
    BY <1>2, <2>1, <2>2, <2>3
<1>5. \A i \in DOMAIN outputs' : outputs'[i] = Connectors[i]
  BY <1>2 DEF PlanTypeOK, c
<1>6. /\ DOMAIN plan' \subseteq DOMAIN plan \cup {c}
      /\ \A d \in DOMAIN plan : d \in DOMAIN plan' /\ plan'[d] = plan[d]
  BY <1>1, <1>3
<1>7. CASE Drivable(c) = {}
  <2>1. \A k \in DOMAIN Encoders[c] : Encoders[c][k] \subseteq Range(plan)
    BY <1>1, <1>7, OutputsAssumption DEF Drivable, FreeCrtcs
  <2>2. plan' = plan
    BY <1>3, <1>7
  <2>3. PlanIsSound'
    BY <1>4, <2>1, <2>2 DEF PlanIsSound
  <2> QED
    BY <1>1, <1>4, <1>5, <2>2, <2>3 DEF PlanTypeOK
<1>8. CASE Drivable(c) # {}
  <2>1. /\ plan' = [d \in DOMAIN plan \cup {c} |-> IF d = c THEN FirstFree(c) ELSE plan[d]]
        /\ DOMAIN plan' = DOMAIN plan \cup {c} /\ plan'[c] = FirstFree(c)
    BY <1>3, <1>8
  <2>2. /\ FirstFree(c) \in Crtcs
        /\ FirstFree(c) \notin Range(plan)
        /\ \E k \in DOMAIN Encoders[c] : FirstFree(c) \in Encoders[c][k]
    BY <1>1, <1>8, FirstFreeIsFree
  <2>3. plan' \in [DOMAIN plan' -> Crtcs]
    BY <2>1, <2>2 DEF PlanTypeOK
  <2>4. IsInjective(plan')
    <3>1. \A d \in DOMAIN plan : plan'[d] # plan'[c]
      BY <1>6, <2>1, <2>2 DEF Range
    <3>2. \A d, e \in DOMAIN plan : plan'[d] = plan'[e] => d = e
      BY <1>6 DEF PlanIsSound, IsInjective
    <3> QED
      BY <2>1, <3>1, <3>2 DEF IsInjective
  <2>5. Range(plan) \subseteq Range(plan')
    BY <1>6 DEF Range
  <2>6. \A d \in DOMAIN plan' : \E k \in DOMAIN Encoders[d] : plan'[d] \in Encoders[d][k]
    BY <1>6, <2>1, <2>2 DEF PlanIsSound
  <2>7. \A d \in Range(outputs') \ DOMAIN plan' :
          \A k \in DOMAIN Encoders[d] : Encoders[d][k] \subseteq Range(plan')
    BY <1>4, <2>1, <2>5 DEF PlanIsSound
  <2> QED
    BY <1>1, <1>4, <1>5, <2>1, <2>3, <2>4, <2>6, <2>7 DEF PlanIsSound, PlanTypeOK
<1> QED
  BY <1>7, <1>8

LEMMA PlanStep == PlanTypeOK /\ PlanIsSound /\ [OutputsNext]_outVars
                    => PlanTypeOK' /\ PlanIsSound'
<1> SUFFICES ASSUME PlanTypeOK, PlanIsSound, [OutputsNext]_outVars
             PROVE  PlanTypeOK' /\ PlanIsSound'
  OBVIOUS
<1>1. CASE Adopt
  BY <1>1, AdoptKeepsPlan
<1>2. CASE UNCHANGED <<plan, outputs>>
  BY <1>2 DEF PlanTypeOK, PlanIsSound
<1> QED
  BY <1>1, <1>2 DEF OutputsNext, outVars, Configure, ModeSet, ModeSetThrows,
                    ListenerLeaves, ListenerEnters, MoveBeyond, MoveEnds

LEMMA PlanInit == OutputsInit => PlanTypeOK /\ PlanIsSound
<1> SUFFICES ASSUME OutputsInit PROVE PlanTypeOK /\ PlanIsSound
  OBVIOUS
<1>1. DOMAIN plan = {} /\ DOMAIN outputs = {} /\ Len(outputs) = 0
  BY DEF OutputsInit
<1>2. /\ plan \in [DOMAIN plan -> Crtcs]
      /\ outputs \in Seq(Outs) /\ Len(outputs) <= Len(Connectors)
  BY <1>1, OutputsAssumption DEF OutputsInit
<1> QED
  BY <1>1, <1>2 DEF PlanTypeOK, PlanIsSound, IsInjective, Range

-----------------------------------------------------------------------------
(* The cursor.                                                              *)

LEMMA AdjacentIsOutput ==
  ASSUME OutputsTypeOK, NEW o \in Outs \cup {NoOutput}, NEW dirs
  PROVE  Adjacent(o, dirs) \in Outs \cup {NoOutput}
<1>1. ASSUME NEW p \in Outs \cup {NoOutput}, NEW d \in Directions
      PROVE  Follow(p, d, dirs) \in Outs \cup {NoOutput}
  BY DEF Follow, OutputsTypeOK
<1>2. {"north", "east", "south", "west"} \subseteq Directions
  BY DEF Directions
<1> QED
  BY <1>1, <1>2 DEF Adjacent

(* A layer that boundedly many listeners are connected to.                  *)
Bounded(l) == DOMAIN l \subseteq Nat /\ \E n \in Nat : \A t \in DOMAIN l : t <= n

PaintersBounded == \A o \in Outs : Bounded(painters[o])

LEMMA LatestIsNat ==
  ASSUME NEW l, Bounded(l), DOMAIN l # {}
  PROVE  Latest(DOMAIN l) \in Nat /\ \A t \in DOMAIN l : t <= Latest(DOMAIN l)
<1> DEFINE bounds == {n \in Nat : \A t \in DOMAIN l : t <= n}
<1>1. bounds \in SUBSET Nat /\ bounds # {} /\ DOMAIN l \subseteq Nat
  BY DEF Bounded
<1>2. PICK m \in bounds : \A n \in bounds : m <= n
  <2> HIDE DEF bounds
  <2> QED
    BY <1>1, EarliestIsLeast
<1>3. m \in DOMAIN l
  <2>1. SUFFICES ASSUME m \notin DOMAIN l PROVE FALSE
    OBVIOUS
  <2>2. m \in Nat /\ \A t \in DOMAIN l : t \in Nat /\ t < m
    BY <1>1, <1>2, <2>1
  <2>3. m - 1 \in bounds
    <3>1. PICK t \in DOMAIN l : TRUE
      OBVIOUS
    <3> QED
      BY <2>2, <3>1
  <2> QED
    BY <1>2, <2>2, <2>3
<1>4. \E t \in DOMAIN l : \A u \in DOMAIN l : u <= t
  BY <1>2, <1>3
<1>5. Latest(DOMAIN l) \in DOMAIN l /\ \A t \in DOMAIN l : t <= Latest(DOMAIN l)
  BY Zenon, <1>4 DEF Latest
<1> QED
  BY <1>1, <1>5

(* Connecting gives a token, 0 when there are no listeners.                 *)
LEMMA ConnectAdds ==
  ASSUME NEW l, NEW x, Bounded(l)
  PROVE  /\ NextToken(l) \in Nat
         /\ DOMAIN Connect(l, x) = DOMAIN l \cup {NextToken(l)}
         /\ Bounded(Connect(l, x))
         /\ DOMAIN l = {} => NextToken(l) = 0
<1>1. NextToken(l) \in Nat /\ \A t \in DOMAIN l : t \in Nat /\ t <= NextToken(l)
  BY LatestIsNat DEF NextToken, Bounded
<1>2. DOMAIN Connect(l, x) = DOMAIN l \cup {NextToken(l)}
  BY DEF Connect
<1> QED
  BY <1>1, <1>2 DEF Bounded, NextToken

LEMMA DisconnectRemoves ==
  ASSUME NEW l, Bounded(l), NEW u
  PROVE  DOMAIN Disconnect(l, u) = DOMAIN l \ {u} /\ Bounded(Disconnect(l, u))
  BY DEF Disconnect, Bounded

(* What does not touch the cursor.                                          *)
LEMMA CursorRests ==
  ASSUME OutputsInv, UNCHANGED <<cursorOn, paintToken, painters, overlapped>>,
         \A t \in Threads : setting'[t] = "left" <=> setting[t] = "left"
  PROVE  CursorIsSomewhere' /\ OneMovesAtATime' /\ PaintedUnlessMoving'
  BY DEF OutputsInv, CursorIsSomewhere, OneMovesAtATime, PaintedUnlessMoving, Moving

LEMMA OutputsInvInit == OutputsInit => OutputsInv /\ PaintersBounded
<1> SUFFICES ASSUME OutputsInit PROVE OutputsInv /\ PaintersBounded
  OBVIOUS
<1>1. \A o \in Outs : DOMAIN painters[o] = {}
  BY DEF OutputsInit
<1>2. OutputsTypeOK
  BY <1>1, PlanInit, OutputsAssumption DEF OutputsInit, OutputsTypeOK, Threads
<1>3. ~Moving
  BY DEF OutputsInit, Moving
<1>4. CursorIsSomewhere /\ OneMovesAtATime /\ PaintedUnlessMoving
  BY <1>1, <1>3, OutputsAssumption DEF OutputsInit, CursorIsSomewhere,
     OneMovesAtATime, PaintedUnlessMoving
<1>5. PaintersBounded
  BY <1>1 DEF PaintersBounded, Bounded
<1>6. EmittedOnce
  BY DEF OutputsInit, EmittedOnce, Threads
<1> QED
  BY <1>2, <1>4, <1>5, <1>6 DEF OutputsInv

LEMMA EmittedOnceStep ==
  ASSUME OutputsTypeOK, EmittedOnce, [OutputsNext]_outVars
  PROVE  EmittedOnce'
<1> USE DEF EmittedOnce, OutputsTypeOK, Threads
<1>1. CASE UNCHANGED <<setting, modeSet>>
  BY <1>1
<1>2. ASSUME NEW o \in Outs, ModeSet(o) PROVE EmittedOnce'
  BY <1>2 DEF ModeSet
<1>3. ASSUME NEW o \in Outs, ListenerLeaves(o) \/ ListenerEnters(o) PROVE EmittedOnce'
  BY <1>3 DEF ListenerLeaves, ListenerEnters, Leave, Enter
<1>4. ASSUME NEW dirs, MoveBeyond(dirs) PROVE EmittedOnce'
  BY <1>4, OutputsAssumption DEF MoveBeyond, Leave
<1>5. CASE MoveEnds
  BY <1>5, OutputsAssumption DEF MoveEnds, Enter
<1> QED
  BY <1>1, <1>2, <1>3, <1>4, <1>5 DEF OutputsNext, outVars, Adopt, Configure, ModeSetThrows

(* The first half of set_output(): where nobody was half-way, no listener   *)
(* is left anywhere.                                                        *)
LEMMA LeaveStep ==
  ASSUME OutputsInv, PaintersBounded, NEW t \in Threads, NEW to \in Outs, Leave(t, to),
         UNCHANGED paintToken
  PROVE  /\ DOMAIN painters' = Outs /\ cursorOn' \in Outs
         /\ setting' \in [Threads -> {"no", "heard", "left"}]
         /\ overlapped' \in BOOLEAN /\ PaintersBounded'
         /\ CursorIsSomewhere' /\ OneMovesAtATime' /\ PaintedUnlessMoving'
<1>1. OutputsTypeOK /\ cursorOn' = to
  BY DEF OutputsInv, Leave
<1>2. /\ setting' = [setting EXCEPT ![t] = "left"]
      /\ setting' \in [Threads -> {"no", "heard", "left"}]
      /\ setting'[t] = "left"
      /\ \A u \in Threads : u # t => setting'[u] = setting[u]
  BY DEF OutputsInv, OutputsTypeOK, Leave
<1>3. overlapped' \in BOOLEAN /\ (~overlapped' => ~overlapped /\ ~Moving)
  BY <1>1 DEF Leave, OutputsTypeOK
<1>4. /\ DOMAIN Left = Outs
      /\ \A o \in Outs : /\ Bounded(Left[o])
                         /\ DOMAIN Left[o] =
                              IF paintToken # NoOutput /\ o = cursorOn
                              THEN DOMAIN painters[o] \ {paintToken} ELSE DOMAIN painters[o]
  <2>1. DOMAIN painters = Outs
    BY <1>1 DEF OutputsTypeOK
  <2>2. CASE paintToken = NoOutput
    BY <2>1, <2>2 DEF Left, PaintersBounded
  <2>3. CASE paintToken # NoOutput
    <3>1. cursorOn \in Outs
      BY <2>3 DEF OutputsInv, CursorIsSomewhere
    <3>2. Left = [painters EXCEPT ![cursorOn] = Disconnect(painters[cursorOn], paintToken)]
      BY <2>3 DEF Left
    <3>3. /\ DOMAIN Disconnect(painters[cursorOn], paintToken)
               = DOMAIN painters[cursorOn] \ {paintToken}
          /\ Bounded(Disconnect(painters[cursorOn], paintToken))
      BY <3>1, DisconnectRemoves DEF PaintersBounded
    <3>4. /\ Left[cursorOn] = Disconnect(painters[cursorOn], paintToken)
          /\ \A o \in Outs : o # cursorOn => Left[o] = painters[o]
      BY <2>1, <3>1, <3>2
    <3>5. ASSUME NEW o \in Outs
          PROVE  /\ Bounded(Left[o])
                 /\ DOMAIN Left[o] = IF paintToken # NoOutput /\ o = cursorOn
                                      THEN DOMAIN painters[o] \ {paintToken}
                                      ELSE DOMAIN painters[o]
      BY <2>3, <3>3, <3>4 DEF PaintersBounded
    <3> QED
      BY <2>1, <3>2, <3>5
  <2> QED
    BY <2>2, <2>3
<1>5. painters' = Left
  BY DEF Leave
<1>6. Moving'
  BY <1>2 DEF Moving
<1>7. CursorIsSomewhere'
  BY <1>1 DEF CursorIsSomewhere
<1>8. OneMovesAtATime'
  <2> SUFFICES ASSUME ~overlapped', NEW u \in Threads, setting'[u] = "left" PROVE u = t
    BY DEF OneMovesAtATime
  <2>1. setting[u] # "left"
    BY <1>3 DEF Moving
  <2> QED
    BY <1>2, <2>1
<1>9. PaintedUnlessMoving'
  <2> SUFFICES ASSUME ~overlapped', NEW o \in Outs PROVE DOMAIN painters'[o] = {}
    BY <1>6 DEF PaintedUnlessMoving
  <2>1. DOMAIN painters[o] = IF o = cursorOn THEN {paintToken} ELSE {}
    BY <1>3 DEF OutputsInv, PaintedUnlessMoving
  <2>2. o = cursorOn => paintToken # NoOutput
    BY <1>1, <2>1, OutputsAssumption DEF OutputsTypeOK
  <2> QED
    BY <1>4, <1>5, <2>1, <2>2
<1>10. PaintersBounded'
  BY <1>4, <1>5 DEF PaintersBounded
<1> QED
  BY <1>1, <1>2, <1>3, <1>4, <1>5, <1>7, <1>8, <1>9, <1>10

(* The second half: the listener connects to the output the cursor is on.   *)
LEMMA EnterStep ==
  ASSUME OutputsInv, PaintersBounded, NEW t \in Threads, Enter(t),
         UNCHANGED <<cursorOn, overlapped>>
  PROVE  /\ DOMAIN painters' = Outs /\ paintToken' \in Nat
         /\ setting' \in [Threads -> {"no", "heard", "left"}]
         /\ PaintersBounded'
         /\ CursorIsSomewhere' /\ OneMovesAtATime' /\ PaintedUnlessMoving'
<1>1. OutputsTypeOK /\ setting[t] = "left"
  BY DEF OutputsInv, Enter
<1>2. Moving
  BY <1>1 DEF Moving
<1>3. cursorOn \in Outs
  BY <1>2 DEF OutputsInv, CursorIsSomewhere
<1>4. /\ setting' \in [Threads -> {"no", "heard", "left"}]
      /\ setting'[t] = "no"
      /\ \A u \in Threads : u # t => setting'[u] = setting[u]
  BY <1>1 DEF Enter, OutputsTypeOK
<1>5. /\ paintToken' = NextToken(painters[cursorOn]) /\ paintToken' \in Nat
      /\ DOMAIN Connect(painters[cursorOn], "paint")
           = DOMAIN painters[cursorOn] \cup {paintToken'}
      /\ Bounded(Connect(painters[cursorOn], "paint"))
  BY <1>3, ConnectAdds DEF Enter, PaintersBounded
<1>6. /\ DOMAIN painters' = Outs
      /\ painters'[cursorOn] = Connect(painters[cursorOn], "paint")
      /\ \A o \in Outs : o # cursorOn => painters'[o] = painters[o]
  BY <1>1, <1>3 DEF Enter, OutputsTypeOK
<1>7. PaintersBounded'
  <2> SUFFICES ASSUME NEW o \in Outs PROVE Bounded(painters'[o])
    BY DEF PaintersBounded
  <2> QED
    BY <1>5, <1>6 DEF PaintersBounded
<1>8. CursorIsSomewhere'
  BY <1>3 DEF CursorIsSomewhere
<1>9. OneMovesAtATime'
  BY <1>4 DEF OutputsInv, OneMovesAtATime
<1>10. ASSUME ~overlapped
       PROVE  /\ ~Moving'
              /\ \A o \in Outs : DOMAIN painters'[o] = IF o = cursorOn THEN {paintToken'} ELSE {}
  <2>1. \A u \in Threads : u # t => setting[u] # "left"
    BY <1>1, <1>10 DEF OutputsInv, OneMovesAtATime
  <2>2. ~Moving'
    BY <1>4, <2>1 DEF Moving
  <2>3. \A o \in Outs : DOMAIN painters[o] = {}
    BY <1>2, <1>10 DEF OutputsInv, PaintedUnlessMoving
  <2> QED
    BY <1>3, <1>5, <1>6, <2>2, <2>3
<1>11. PaintedUnlessMoving'
  <2>1. paintToken' \in DOMAIN painters'[cursorOn] /\ cursorOn # NoOutput
    BY <1>3, <1>5, <1>6, OutputsAssumption
  <2> QED
    BY <1>10, <2>1 DEF PaintedUnlessMoving
<1> QED
  BY <1>4, <1>5, <1>6, <1>7, <1>8, <1>9, <1>11

LEMMA OutputsInvStep ==
  OutputsInv /\ PaintersBounded /\ PlanIsSound /\ [OutputsNext]_outVars
    => OutputsInv' /\ PaintersBounded'
<1> SUFFICES ASSUME OutputsInv, PaintersBounded, PlanIsSound, [OutputsNext]_outVars
             PROVE  OutputsInv' /\ PaintersBounded'
  OBVIOUS
<1> USE DEF OutputsInv
<1>0. PlanTypeOK' /\ EmittedOnce'
  BY PlanStep, EmittedOnceStep DEF OutputsTypeOK
<1>1. ASSUME UNCHANGED painters PROVE PaintersBounded'
  BY <1>1 DEF PaintersBounded
<1>2. PaintersBounded' => \A o \in Outs : DOMAIN painters'[o] \subseteq Nat
  BY DEF PaintersBounded, Bounded
<1>3. CASE Adopt
  <2>1. OutputsTypeOK'
    BY <1>0, <1>3 DEF Adopt, OutputsTypeOK
  <2> QED
    BY <1>0, <1>1, <1>3, <2>1, CursorRests DEF Adopt
<1>4. ASSUME NEW o \in Outs, NEW line \in Lines, Configure(o, line)
      PROVE  OutputsInv' /\ PaintersBounded'
  <2>1. /\ DOMAIN mode' = Outs
        /\ \A p \in Outs : mode'[p] \in DOMAIN Modes[p]
    BY <1>4 DEF Configure, BestMode, OutputsTypeOK
  <2>2. link' \in [Outs \X Directions -> Outs \cup {NoOutput}]
    BY <1>4 DEF Configure, SetAdjacent, OutputsTypeOK
  <2>3. OutputsTypeOK'
    BY <1>0, <1>4, <2>1, <2>2 DEF Configure, OutputsTypeOK
  <2> QED
    BY <1>0, <1>1, <1>4, <2>3, CursorRests DEF Configure
<1>5. ASSUME NEW o \in Outs, ModeSet(o) PROVE OutputsInv' /\ PaintersBounded'
  <2>1. OutputsTypeOK'
    <3>1. setting' \in [Threads -> {"no", "heard", "left"}] /\ modeSet' \subseteq Outs
      BY <1>5 DEF ModeSet, OutputsTypeOK
    <3> QED
      BY <1>0, <1>5, <3>1 DEF ModeSet, OutputsTypeOK
  <2>2. \A t \in Threads : setting'[t] = "left" <=> setting[t] = "left"
    BY <1>5 DEF ModeSet, EmittedOnce, OutputsTypeOK
  <2>3. UNCHANGED <<cursorOn, paintToken, painters, overlapped>>
    BY <1>5 DEF ModeSet
  <2> QED
    BY <1>0, <1>1, <2>1, <2>2, <2>3, CursorRests
<1>6. ASSUME NEW o \in Outs, ModeSetThrows(o) PROVE OutputsInv' /\ PaintersBounded'
  <2>1. OutputsTypeOK'
    BY <1>0, <1>6 DEF ModeSetThrows, OutputsTypeOK
  <2> QED
    BY <1>0, <1>1, <1>6, <2>1, CursorRests DEF ModeSetThrows
<1>7. ASSUME NEW o \in Outs, ListenerLeaves(o) PROVE OutputsInv' /\ PaintersBounded'
  <2>1. o \in Threads /\ Leave(o, o) /\ UNCHANGED paintToken
    BY <1>7 DEF ListenerLeaves, Threads
  <2>2. OutputsTypeOK'
    BY <1>0, <1>2, <1>7, <2>1, LeaveStep DEF ListenerLeaves, OutputsTypeOK
  <2> QED
    BY <1>0, <2>1, <2>2, LeaveStep
<1>8. ASSUME NEW o \in Outs, ListenerEnters(o) PROVE OutputsInv' /\ PaintersBounded'
  <2>1. o \in Threads /\ Enter(o) /\ UNCHANGED <<cursorOn, overlapped>>
    BY <1>8 DEF ListenerEnters, Threads
  <2>2. OutputsTypeOK'
    BY <1>0, <1>2, <1>8, <2>1, EnterStep DEF ListenerEnters, OutputsTypeOK
  <2> QED
    BY <1>0, <2>1, <2>2, EnterStep
<1>9. ASSUME NEW dirs \in SUBSET Directions, MoveBeyond(dirs)
      PROVE  OutputsInv' /\ PaintersBounded'
  <2> DEFINE to == Adjacent(cursorOn, dirs)
  <2>1. to \in Outs /\ NoOutput \in Threads /\ Leave(NoOutput, to) /\ UNCHANGED paintToken
    BY <1>9, AdjacentIsOutput DEF MoveBeyond, OutputsTypeOK, Threads
  <2> HIDE DEF to
  <2>2. OutputsTypeOK'
    BY <1>0, <1>2, <1>9, <2>1, LeaveStep DEF MoveBeyond, OutputsTypeOK
  <2> QED
    BY <1>0, <2>1, <2>2, LeaveStep
<1>10. CASE MoveEnds
  <2>1. NoOutput \in Threads /\ Enter(NoOutput) /\ UNCHANGED <<cursorOn, overlapped>>
    BY <1>10 DEF MoveEnds, Threads
  <2>2. OutputsTypeOK'
    BY <1>0, <1>2, <1>10, <2>1, EnterStep DEF MoveEnds, OutputsTypeOK
  <2> QED
    BY <1>0, <2>1, <2>2, EnterStep
<1>11. CASE UNCHANGED outVars
  <2>1. OutputsTypeOK'
    BY <1>0, <1>11 DEF outVars, OutputsTypeOK
  <2> QED
    BY <1>0, <1>1, <1>11, <2>1, CursorRests DEF outVars
<1> QED
  BY <1>3, <1>4, <1>5, <1>6, <1>7, <1>8, <1>9, <1>10, <1>11 DEF OutputsNext

LEMMA PlanAlways == OutputsSpec => [](PlanTypeOK /\ PlanIsSound)
  BY PlanInit, PlanStep, PTL DEF OutputsSpec

LEMMA OutputsAlways == OutputsSpec => []OutputsInv
<1>1. OutputsInv /\ PaintersBounded /\ (PlanTypeOK /\ PlanIsSound) /\ [OutputsNext]_outVars
        => OutputsInv' /\ PaintersBounded'
  BY OutputsInvStep
<1> QED
  BY <1>1, OutputsInvInit, PlanAlways, PTL DEF OutputsSpec

-----------------------------------------------------------------------------
(* The variables keep their types, however the threads overlap in           *)
(* set_output().                                                            *)
THEOREM OutputsTypeCorrect == OutputsSpec => []OutputsTypeOK
<1>1. OutputsInv => OutputsTypeOK
  BY DEF OutputsInv
<1> QED
  BY <1>1, OutputsAlways, PTL

(* drm_handle_t::adopt gives no CRTC to two connectors, gives each one that *)
(* an encoder of it can drive, and leaves a connector without a CRTC only   *)
(* when all that its encoders can drive are taken.                          *)
THEOREM CrtcPlanIsSound == OutputsSpec => []PlanIsSound
  BY PlanAlways, PTL

(* However the render threads overlap with each other and with the motions  *)
(* of the main thread, the cursor does not vanish when all have left        *)
(* set_output(): the output it is on paints it.  Until the first such       *)
(* overlap it is painted once, and no other listener is left behind.        *)
THEOREM CursorIsPaintedOnce == OutputsSpec => []CursorPaintedWhereItIs
<1>1. OutputsInv => CursorPaintedWhereItIs
  BY DEF OutputsInv, PaintedUnlessMoving, CursorPaintedWhereItIs
<1> QED
  BY <1>1, OutputsAlways, PTL

-----------------------------------------------------------------------------
(* The pan of an output.                                                    *)

(* Between two places that were asked for.                                  *)
Reached(x) == \E low, high \in asked : low <= x /\ x <= high

PanTypeOK ==
  /\ anim \in [start : Int, end : Int, progress : Nat]
  /\ DOMAIN unstored \subseteq Fields
  /\ \A f \in DOMAIN unstored : unstored[f] \in Int
  /\ "progress" \in DOMAIN unstored => unstored["progress"] \in Nat
  /\ asked \subseteq Int /\ target \in asked
  /\ frame \in [pc : {"asleep", "windows", "painted", "updating"}, took : Nat, progress : Nat]
  /\ layers \in Seq(Seq(Int))
  /\ skip \in BOOLEAN /\ disturbed \in BOOLEAN

(* Whatever has been stored of it, the animation runs between places that   *)
(* were asked for, and is to end at the last.                               *)
Aims ==
  /\ Reached(anim.start) /\ Reached(anim.end)
  /\ \A f \in DOMAIN unstored \ {"progress"} : Reached(unstored[f])
  /\ IF "end" \in DOMAIN unstored THEN unstored["end"] = target ELSE anim.end = target

Drawing == frame.pc \in {"windows", "painted"}

LayerOf(win) == IF IsVisible(win) THEN <<ToScreen(win.position - win.offset)>> ELSE Culled

(* What a frame has painted undisturbed, it would paint again.              *)
Painted ==
  /\ frame.pc = "asleep" => layers = <<>>
  /\ Drawing /\ ~disturbed =>
       /\ PanIdle
       /\ Len(layers) <= Len(Windows) + 1
       /\ \A i \in 1 .. Len(layers) : i <= Len(Windows) => layers[i] = LayerOf(Windows[i])
       /\ frame.pc = "windows" => Len(layers) <= Len(Windows)
       /\ frame.pc = "painted" => /\ Len(layers) = Len(Windows) + 1
                                  /\ layers[Len(layers)] = <<ToScreen(Pointer)>>

PanInv == PanTypeOK /\ Aims /\ Painted

-----------------------------------------------------------------------------
(* Arithmetic.                                                              *)

LEMMA EaseIsPart == ASSUME NEW t \in Nat PROVE Ease(t) \in 0 .. Scale
<1> DEFINE c == IF t > Duration THEN Duration ELSE t
<1>1. Duration \in Nat /\ Eased \in [0 .. Duration -> 0 .. Scale]
  BY PanningAssumption
<1>2. c \in 0 .. Duration
  BY <1>1
<1>3. Ease(t) = Eased[c]
  BY DEF Ease
<1> HIDE DEF c
<1> QED
  BY <1>1, <1>2, <1>3

LEMMA PartIsBetween ==
  ASSUME NEW s \in Int, NEW e \in Int, NEW k \in 0 .. Scale, NEW low \in Int, NEW high \in Int,
         low <= s, low <= e, s <= high, e <= high
  PROVE  /\ s + ((e - s) * k) \div Scale \in Int
         /\ low <= s + ((e - s) * k) \div Scale
         /\ s + ((e - s) * k) \div Scale <= high
<1>1. Scale \in Nat \ {0} /\ k \in Nat /\ k <= Scale
  BY PanningAssumption
<1> DEFINE d == e - s
<1> DEFINE q == (d * k) \div Scale
<1>2. d \in Int /\ q \in Int /\ e = s + d
  BY <1>1
<1>3. q * Scale <= d * k /\ d * k < q * Scale + Scale
  BY <1>1, <1>2
<1> HIDE DEF d, q
<1>4. CASE d >= 0
  <2>1. 0 <= d * k /\ d * k <= d * Scale
    BY <1>1, <1>2, <1>4
  <2>2. 0 <= q /\ q <= d
    BY <1>1, <1>2, <1>3, <2>1
  <2> QED
    BY <1>2, <2>2 DEF d, q
<1>5. CASE d < 0
  <2>1. d * Scale <= d * k /\ d * k <= 0
    BY <1>1, <1>2, <1>5
  <2>2. d <= q /\ q <= 0
    BY <1>1, <1>2, <1>3, <2>1
  <2> QED
    BY <1>2, <2>2 DEF d, q
<1> QED
  BY <1>2, <1>4, <1>5

LEMMA SampleIsReached ==
  ASSUME PanTypeOK, Aims
  PROVE  Sample \in Int /\ Reached(Sample)
<1>1. /\ anim.start \in Int /\ anim.end \in Int /\ anim.progress \in Nat /\ asked \subseteq Int
  BY DEF PanTypeOK
<1>2. PICK a, b \in asked : a <= anim.start /\ anim.start <= b
  BY DEF Aims, Reached
<1>3. PICK c, d \in asked : c <= anim.end /\ anim.end <= d
  BY DEF Aims, Reached
<1> DEFINE low == IF a <= c THEN a ELSE c
<1> DEFINE high == IF b <= d THEN d ELSE b
<1>4. /\ low \in asked /\ high \in asked /\ low \in Int /\ high \in Int
      /\ low <= anim.start /\ low <= anim.end /\ anim.start <= high /\ anim.end <= high
  BY <1>1, <1>2, <1>3
<1> HIDE DEF low, high
<1>5. Sample \in Int /\ low <= Sample /\ Sample <= high
  BY <1>1, <1>4, EaseIsPart, PartIsBetween DEF Sample
<1> QED
  BY <1>4, <1>5 DEF Reached

LEMMA SampleEnds ==
  ASSUME PanTypeOK, anim.progress >= Duration
  PROVE  Sample = anim.end
<1>1. /\ anim.start \in Int /\ anim.end \in Int /\ anim.progress \in Nat
      /\ Scale \in Nat \ {0} /\ Duration \in Nat
  BY PanningAssumption DEF PanTypeOK
<1>2. Ease(anim.progress) = Scale
  BY <1>1, PanningAssumption DEF Ease
<1> DEFINE d == anim.end - anim.start
<1>3. (d * Scale) \div Scale = d
  BY <1>1
<1> QED
  BY <1>1, <1>2, <1>3 DEF Sample

LEMMA TruncCuts ==
  ASSUME NEW x \in Int
  PROVE  /\ Trunc(x) \in Int
         /\ x >= 0 => Trunc(x) >= 0 /\ Trunc(x) * Pixel <= x /\ x < Trunc(x) * Pixel + Pixel
         /\ x < 0 => Trunc(x) <= 0 /\ x <= Trunc(x) * Pixel /\ Trunc(x) * Pixel - Pixel < x
<1>1. Pixel \in Nat \ {0}
  BY PanningAssumption
<1>2. CASE x >= 0
  BY <1>1, <1>2 DEF Trunc
<1>3. CASE x < 0
  <2> DEFINE q == (-x) \div Pixel
  <2>1. q \in Int /\ q * Pixel <= -x /\ -x < q * Pixel + Pixel /\ q >= 0
    BY <1>1, <1>3
  <2>2. Trunc(x) = -q
    BY <1>3 DEF Trunc
  <2> HIDE DEF q
  <2>3. (-q) * Pixel = -(q * Pixel)
    BY <1>1, <2>1
  <2> QED
    BY <1>1, <1>3, <2>1, <2>2, <2>3
<1> QED
  BY <1>2, <1>3

(* A window that is culled has less than two pixels on the screen.          *)
LEMMA CulledBarelyShows ==
  ASSUME NEW win \in [position : Int, size : Nat, offset : Int], Sample \in Int, ~IsVisible(win)
  PROVE  Showing(win, Sample) < 2 * Pixel
<1> DEFINE p == Sample
<1> DEFINE x == win.position
<1> DEFINE s == win.size
<1> DEFINE a == Trunc(p)
<1> DEFINE y == Trunc(x)
<1> DEFINE v == Trunc(s)
<1> DEFINE W == ScreenWidth
<1>1. p \in Int /\ x \in Int /\ s \in Nat /\ W \in Nat /\ Pixel \in Nat \ {0}
  BY PanningAssumption
<1>2. /\ a \in Int
      /\ p >= 0 => a >= 0 /\ a * Pixel <= p /\ p < a * Pixel + Pixel
      /\ p < 0 => a <= 0 /\ p <= a * Pixel /\ a * Pixel - Pixel < p
  BY <1>1, TruncCuts
<1>3. /\ y \in Int
      /\ x >= 0 => y >= 0 /\ y * Pixel <= x /\ x < y * Pixel + Pixel
      /\ x < 0 => y <= 0 /\ x <= y * Pixel /\ y * Pixel - Pixel < x
  BY <1>1, TruncCuts
<1>4. v \in Int /\ v >= 0 /\ v * Pixel <= s /\ s < v * Pixel + Pixel
  BY <1>1, TruncCuts
<1>5. ~(a >= y /\ a < y + v) /\ ~(y >= a /\ y < a + W)
  BY DEF IsVisible, Overlaps
<1>6. Showing(win, Sample) =
        LET left == IF x > p THEN x ELSE p
            right == IF x + s < p + W * Pixel THEN x + s ELSE p + W * Pixel
        IN right - left
  BY DEF Showing
<1> HIDE DEF p, x, s, a, y, v, W
<1>7. CASE a >= y
  <2>1. a >= y + v
    BY <1>2, <1>3, <1>4, <1>5, <1>7
  <2>2. (y + v) * Pixel <= a * Pixel /\ (y + v) * Pixel = y * Pixel + v * Pixel
    BY <1>1, <1>2, <1>3, <1>4, <2>1
  <2> DEFINE aP == a * Pixel
  <2> DEFINE yP == y * Pixel
  <2> DEFINE vP == v * Pixel
  <2> DEFINE wP == W * Pixel
  <2>3. aP \in Int /\ yP \in Int /\ vP \in Int /\ wP \in Int
    BY <1>1, <1>2, <1>3, <1>4
  <2>4. yP + vP <= aP
    BY <2>2
  <2>5. /\ p >= 0 => aP <= p
        /\ p < 0 => aP - Pixel < p
        /\ x >= 0 => x < yP + Pixel /\ y >= 0
        /\ x < 0 => x <= yP
        /\ s < vP + Pixel
    BY <1>2, <1>3, <1>4
  <2>6. p < 0 => a <= 0
    BY <1>2
  <2>7. p < 0 /\ x >= 0 => x > p /\ v = 0
    BY <1>1, <1>2, <1>3, <1>4, <2>1
  <2>8. v = 0 => vP = 0
    BY <1>1
  <2> HIDE DEF aP, yP, vP, wP
  <2>9. p < 0 /\ x >= 0 => x > p /\ s < Pixel
    BY <1>1, <2>3, <2>5, <2>7, <2>8
  <2>10. x + s - (IF x > p THEN x ELSE p) < 2 * Pixel
    <3>1. CASE p >= 0
      BY <1>1, <2>3, <2>4, <2>5, <3>1
    <3>2. CASE p < 0 /\ x < 0
      BY <1>1, <2>3, <2>4, <2>5, <3>2
    <3>3. CASE p < 0 /\ x >= 0
      BY <1>1, <2>9, <3>3
    <3> QED
      BY <1>1, <3>1, <3>2, <3>3
  <2> QED
    BY <1>1, <1>6, <2>3, <2>10 DEF wP
<1>8. CASE a < y
  <2>1. y >= a + W
    BY <1>1, <1>2, <1>3, <1>5, <1>8
  <2>2. (a + W) * Pixel <= y * Pixel /\ (a + W) * Pixel = a * Pixel + W * Pixel
    BY <1>1, <1>2, <1>3, <2>1
  <2> DEFINE aP == a * Pixel
  <2> DEFINE yP == y * Pixel
  <2> DEFINE wP == W * Pixel
  <2>3. aP \in Int /\ yP \in Int /\ wP \in Int
    BY <1>1, <1>2, <1>3
  <2>4. aP + wP <= yP
    BY <2>2
  <2>5. /\ p >= 0 => p < aP + Pixel /\ a >= 0
        /\ p < 0 => p <= aP
        /\ x >= 0 => yP <= x
        /\ x < 0 => yP - Pixel < x
    BY <1>2, <1>3
  <2>6. x < 0 => p < 0
    BY <1>1, <1>2, <1>3, <1>8
  <2> HIDE DEF aP, yP, wP
  <2>7. p + wP - x < 2 * Pixel
    BY <1>1, <2>3, <2>4, <2>5, <2>6
  <2> QED
    BY <1>1, <1>6, <2>3, <2>7 DEF wP
<1> QED
  BY <1>2, <1>3, <1>7, <1>8

-----------------------------------------------------------------------------
LEMMA PanInvInit == PanInit => PanInv
<1> SUFFICES ASSUME PanInit PROVE PanInv
  OBVIOUS
<1>1. unstored = NoField /\ DOMAIN unstored = {}
  BY DEF PanInit, NoField
<1>2. <<>> \in Seq(Seq(Int))
  OBVIOUS
<1>3. PanTypeOK
  <2>1. anim \in [start : Int, end : Int, progress : Nat]
    BY DEF PanInit
  <2>2. frame \in [pc : {"asleep", "windows", "painted", "updating"}, took : Nat, progress : Nat]
    BY DEF PanInit, Asleep
  <2>3. asked \subseteq Int /\ target \in asked
    BY DEF PanInit
  <2> QED
    BY <1>1, <1>2, <2>1, <2>2, <2>3 DEF PanInit, PanTypeOK
<1>4. Aims
  BY <1>1 DEF PanInit, Aims, Reached
<1>5. Painted
  BY DEF PanInit, Painted, Asleep, Drawing
<1> QED
  BY <1>3, <1>4, <1>5 DEF PanInv

LEMMA PanStep ==
  ASSUME PanInv, NEW place \in Pans, NEW skipAnimation \in BOOLEAN,
         PanIdle, Pan(place, skipAnimation)
  PROVE  PanInv'
<1>1. place \in Int /\ Sample \in Int /\ Reached(Sample)
  BY SampleIsReached, PanningAssumption DEF PanInv
<1>2. /\ unstored' = [start |-> Sample, end |-> place, progress |-> 0]
      /\ skip' = skipAnimation
      /\ asked' = asked \cup {place} /\ target' = place
      /\ disturbed' = (frame.pc # "asleep")
      /\ anim' = anim /\ frame' = frame /\ layers' = layers
  BY DEF Pan
<1>3. /\ DOMAIN unstored' = Fields /\ unstored'["start"] = Sample
      /\ unstored'["end"] = place /\ unstored'["progress"] = 0
  BY <1>2 DEF Fields
<1>4. PanTypeOK'
  <2>1. \A f \in Fields : unstored'[f] \in Int
    BY <1>1, <1>3 DEF Fields
  <2>2. asked' \subseteq Int /\ target' \in asked'
    BY <1>1, <1>2 DEF PanInv, PanTypeOK
  <2>3. disturbed' \in BOOLEAN /\ skip' \in BOOLEAN
    BY <1>2
  <2> QED
    BY <1>2, <1>3, <2>1, <2>2, <2>3 DEF PanInv, PanTypeOK
<1>5. Aims'
  <2>1. \A x : Reached(x) => Reached(x)'
    BY <1>2 DEF Reached
  <2>2. place <= place
    BY <1>1
  <2>3. Reached(place)'
    BY <1>2, <2>2 DEF Reached
  <2>4. Reached(anim.start)' /\ Reached(anim.end)'
    BY <1>2, <2>1 DEF PanInv, Aims, Reached
  <2>5. Reached(unstored["start"])' /\ Reached(unstored["end"])'
    BY <1>1, <1>2, <1>3, <2>1, <2>3 DEF Reached
  <2>6. \A f \in Fields \ {"progress"} : f = "start" \/ f = "end"
    BY DEF Fields
  <2> QED
    BY <1>2, <1>3, <2>4, <2>5, <2>6 DEF Aims, Fields
<1>6. Painted'
  BY <1>2 DEF PanInv, Painted, PanTypeOK, Drawing
<1> QED
  BY <1>4, <1>5, <1>6 DEF PanInv

LEMMA StoreStep ==
  ASSUME PanInv, NEW field \in Fields, Store(field)
  PROVE  PanInv'
<1>1. /\ field \in DOMAIN unstored
      /\ anim' = [anim EXCEPT ![field] = unstored[field]]
      /\ unstored' = [f \in DOMAIN unstored \ {field} |-> unstored[f]]
      /\ UNCHANGED <<skip, asked, target, frame, layers, disturbed>>
  BY DEF Store
<1>2. /\ DOMAIN unstored' = DOMAIN unstored \ {field}
      /\ \A f \in DOMAIN unstored' : unstored'[f] = unstored[f]
  BY <1>1
<1>3. /\ anim \in [start : Int, end : Int, progress : Nat]
      /\ unstored[field] \in Int /\ (field = "progress" => unstored[field] \in Nat)
  BY <1>1 DEF PanInv, PanTypeOK
<1>4. /\ anim' \in [start : Int, end : Int, progress : Nat]
      /\ anim'.start = (IF field = "start" THEN unstored[field] ELSE anim.start)
      /\ anim'.end = (IF field = "end" THEN unstored[field] ELSE anim.end)
  <2>1. CASE field = "start"
    BY <1>1, <1>3, <2>1
  <2>2. CASE field = "end"
    BY <1>1, <1>3, <2>2
  <2>3. CASE field = "progress"
    BY <1>1, <1>3, <2>3
  <2> QED
    BY <2>1, <2>2, <2>3 DEF Fields
<1>5. PanTypeOK'
  BY <1>1, <1>2, <1>4 DEF PanInv, PanTypeOK
<1>6. \A x : Reached(x)' <=> Reached(x)
  BY <1>1 DEF Reached
<1>7. Aims'
  <2>1. Reached(anim'.start) /\ Reached(anim'.end)
    BY <1>1, <1>4 DEF PanInv, Aims
  <2>2. \A f \in DOMAIN unstored' \ {"progress"} : Reached(unstored'[f])
    BY <1>2 DEF PanInv, Aims
  <2>3. IF "end" \in DOMAIN unstored' THEN unstored'["end"] = target' ELSE anim'.end = target'
    BY <1>1, <1>2, <1>4 DEF PanInv, Aims
  <2>4. asked' = asked
    BY <1>1
  <2> QED
    BY <2>1, <2>2, <2>3, <2>4 DEF Aims, Reached
<1>8. Painted'
  <2>1. ~PanIdle
    <3>1. DOMAIN NoField = {}
      BY DEF NoField
    <3> QED
      BY <1>1, <3>1 DEF PanIdle
  <2> QED
    BY <1>1, <2>1 DEF PanInv, Painted, Drawing
<1> QED
  BY <1>5, <1>7, <1>8 DEF PanInv

(* The progress alone changes, of an animation that is not being drawn      *)
(* undisturbed.                                                             *)
LEMMA ProgressStep ==
  ASSUME PanInv, NEW q \in Nat, anim' = [anim EXCEPT !.progress = q],
         UNCHANGED <<unstored, asked, target>>,
         skip' \in BOOLEAN, disturbed' \in BOOLEAN,
         frame' \in [pc : {"asleep", "windows", "painted", "updating"}, took : Nat, progress : Nat],
         layers' \in Seq(Seq(Int)), Painted'
  PROVE  PanInv'
<1>1. anim \in [start : Int, end : Int, progress : Nat]
  BY DEF PanInv, PanTypeOK
<1>2. anim' \in [start : Int, end : Int, progress : Nat] /\ anim'.start = anim.start
      /\ anim'.end = anim.end
  BY <1>1
<1>3. PanTypeOK'
  BY <1>2 DEF PanInv, PanTypeOK
<1>4. Aims'
  BY <1>2 DEF PanInv, Aims, Reached
<1> QED
  BY <1>3, <1>4 DEF PanInv

LEMMA UpdateStep ==
  ASSUME PanInv, SkipToDone \/ WriteProgress
  PROVE  PanInv'
<1>1. /\ anim.progress \in Nat /\ frame.progress \in Nat /\ frame.took \in Nat
      /\ Duration \in Nat /\ anim \in [start : Int, end : Int, progress : Nat]
      /\ frame \in [pc : {"asleep", "windows", "painted", "updating"}, took : Nat, progress : Nat]
      /\ layers \in Seq(Seq(Int)) /\ skip \in BOOLEAN /\ disturbed \in BOOLEAN
  BY PanningAssumption DEF PanInv, PanTypeOK
<1>2. CASE SkipToDone
  <2>1. Advanced(anim.progress, Duration) \in Nat
    BY <1>1 DEF Advanced
  <2>2. Painted'
    BY <1>2 DEF SkipToDone, PanInv, Painted, Drawing, PanIdle
  <2> QED
    BY <1>1, <1>2, <2>1, <2>2, ProgressStep DEF SkipToDone
<1>3. CASE WriteProgress
  <2> DEFINE q == IF frame.progress < Duration
                  THEN Advanced(frame.progress, frame.took) ELSE anim.progress
  <2>1. q \in Nat
    BY <1>1 DEF Advanced
  <2>2. anim' = [anim EXCEPT !.progress = q]
    <3>1. anim = [anim EXCEPT !.progress = anim.progress]
      BY <1>1
    <3> QED
      BY <1>3, <3>1 DEF WriteProgress
  <2>3. Painted'
    BY <1>3 DEF WriteProgress, Painted, Drawing, Asleep
  <2>4. /\ frame' \in [pc : {"asleep", "windows", "painted", "updating"}, took : Nat, progress : Nat]
        /\ layers' \in Seq(Seq(Int)) /\ disturbed' \in BOOLEAN /\ skip' \in BOOLEAN
        /\ UNCHANGED <<unstored, asked, target>>
    <3>1. /\ frame' = Asleep /\ layers' = <<>> /\ disturbed' = FALSE
          /\ UNCHANGED <<unstored, skip, asked, target>>
      BY <1>3 DEF WriteProgress
    <3>2. Asleep \in [pc : {"asleep", "windows", "painted", "updating"}, took : Nat, progress : Nat]
      BY DEF Asleep
    <3>3. <<>> \in Seq(Seq(Int))
      OBVIOUS
    <3> QED
      BY <1>1, <3>1, <3>2, <3>3
  <2> HIDE DEF q
  <2> QED
    BY <2>1, <2>2, <2>3, <2>4, ProgressStep
<1> QED
  BY <1>2, <1>3

LEMMA FrameStep ==
  ASSUME PanInv, BeginFrame \/ PaintWindow \/ PaintCursor \/ ReadProgress
  PROVE  PanInv'
<1>1. UNCHANGED <<anim, unstored, skip, asked, target>>
  BY DEF BeginFrame, PaintWindow, PaintCursor, ReadProgress
<1>2. Aims'
  BY <1>1 DEF PanInv, Aims, Reached
<1>3. Sample \in Int
  BY SampleIsReached DEF PanInv
<1>4. layers \in Seq(Seq(Int)) /\ Len(layers) \in Nat /\ disturbed \in BOOLEAN
      /\ frame \in [pc : {"asleep", "windows", "painted", "updating"}, took : Nat, progress : Nat]
  BY DEF PanInv, PanTypeOK
<1>5. Windows \in Seq([position : Int, size : Nat, offset : Int]) /\ Pointer \in Int
      /\ Len(Windows) \in Nat /\ FrameTimes \subseteq Nat
  BY PanningAssumption
<1>6. \A x \in Int : ToScreen(x) \in Int /\ <<ToScreen(x)>> \in Seq(Int)
  BY <1>3 DEF ToScreen
<1>7. PanIdle' = PanIdle
  BY <1>1 DEF PanIdle
<1>8. ASSUME /\ disturbed' \in BOOLEAN
             /\ frame' \in [pc : {"asleep", "windows", "painted", "updating"}, took : Nat, progress : Nat]
             /\ layers' \in Seq(Seq(Int))
      PROVE  PanTypeOK'
  BY <1>1, <1>8 DEF PanInv, PanTypeOK
<1>9. CASE BeginFrame
  <2>1. /\ frame.pc = "asleep" /\ layers' = layers /\ layers = <<>>
        /\ frame' = [frame EXCEPT !.pc = "windows"] /\ disturbed' = ~PanIdle
    BY <1>9 DEF BeginFrame, PanInv, Painted
  <2>2. frame' \in [pc : {"asleep", "windows", "painted", "updating"}, took : Nat, progress : Nat]
        /\ frame'.pc = "windows"
    BY <1>4, <2>1
  <2>3. Len(layers') = 0
    BY <2>1
  <2>4. Painted'
    <3>1. Len(layers') <= Len(Windows) /\ Len(layers') <= Len(Windows) + 1
      BY <1>5, <2>3
    <3>2. 1 .. Len(layers') = {}
      BY <2>3
    <3>3. ~disturbed' => PanIdle'
      BY <1>7, <2>1
    <3> QED
      BY <2>2, <3>1, <3>2, <3>3 DEF Painted
  <2> QED
    BY <1>2, <1>4, <1>8, <2>1, <2>2, <2>4 DEF PanInv
<1>10. ASSUME NEW layer \in Seq(Int), layers' = Append(layers, layer),
              disturbed' = disturbed, frame.pc = "windows",
              Len(layers) <= Len(Windows),
              frame' \in [pc : {"asleep", "windows", "painted", "updating"}, took : Nat, progress : Nat],
              \/ /\ frame'.pc = "windows" /\ Len(layers) < Len(Windows)
                 /\ layer = LayerOf(Windows[Len(layers) + 1])
              \/ /\ frame'.pc = "painted" /\ Len(layers) = Len(Windows)
                 /\ layer = <<ToScreen(Pointer)>>
       PROVE  PanInv'
  <2>1. /\ layers' \in Seq(Seq(Int)) /\ Len(layers') = Len(layers) + 1
        /\ \A i \in 1 .. Len(layers) : layers'[i] = layers[i]
        /\ layers'[Len(layers) + 1] = layer
    BY <1>4, <1>10, AppendProperties
  <2>2. PanTypeOK'
    BY <1>4, <1>8, <1>10, <2>1
  <2>3. ASSUME ~disturbed
        PROVE  /\ PanIdle
               /\ \A i \in 1 .. Len(layers) : i <= Len(Windows) => layers[i] = LayerOf(Windows[i])
    BY <1>10, <2>3 DEF PanInv, Painted, Drawing
  <2>4. ASSUME ~disturbed, NEW i \in 1 .. Len(layers'), i <= Len(Windows)
        PROVE  layers'[i] = LayerOf(Windows[i])
    <3>1. i \in 1 .. Len(layers) \/ i = Len(layers) + 1
      BY <1>4, <2>1
    <3>2. CASE i \in 1 .. Len(layers)
      BY <2>1, <2>3, <2>4, <3>2
    <3>3. CASE i = Len(layers) + 1
      <4>1. Len(layers) # Len(Windows)
        BY <1>4, <1>5, <2>4, <3>3
      <4> QED
        BY <1>10, <2>1, <3>3, <4>1
    <3> QED
      BY <3>1, <3>2, <3>3
  <2>6. ToScreen(Pointer)' = ToScreen(Pointer)
    BY <1>1 DEF ToScreen, Sample
  <2>7. /\ Len(layers') <= Len(Windows) + 1
        /\ frame'.pc = "windows" => Len(layers') <= Len(Windows)
        /\ frame'.pc = "painted" => /\ Len(layers') = Len(Windows) + 1
                                    /\ layers'[Len(layers')] = <<ToScreen(Pointer)>>
    BY <1>4, <1>5, <1>10, <2>1
  <2>8. frame'.pc # "asleep"
    BY <1>10
  <2>9. ASSUME NEW i \in Nat
        PROVE  LayerOf(Windows[i])' = LayerOf(Windows[i])
    BY <1>1 DEF LayerOf, IsVisible, ToScreen, Sample
  <2>10. Painted'
    BY <1>7, <1>10, <2>3, <2>4, <2>6, <2>7, <2>8, <2>9 DEF Painted
  <2> QED
    BY <1>2, <2>2, <2>10 DEF PanInv
<1>11. CASE PaintWindow
  <2> DEFINE win == Windows[Len(layers) + 1]
  <2>1. /\ frame.pc = "windows" /\ Len(layers) < Len(Windows)
        /\ layers' = Append(layers, LayerOf(win)) /\ frame' = frame /\ disturbed' = disturbed
    BY <1>11 DEF PaintWindow, LayerOf
  <2>2. Len(layers) + 1 \in 1 .. Len(Windows)
    BY <1>4, <1>5, <2>1
  <2>3. win \in [position : Int, size : Nat, offset : Int]
    BY <1>5, <2>2, ElementOfSeq
  <2>4. win.position - win.offset \in Int
    BY <2>3
  <2>5. LayerOf(win) \in Seq(Int)
    BY <1>6, <2>4 DEF LayerOf, Culled
  <2> HIDE DEF win
  <2>6. Len(layers) <= Len(Windows)
    BY <1>4, <1>5, <2>1
  <2> QED
    BY <1>4, <1>10, <2>1, <2>5, <2>6 DEF win
<1>12. CASE PaintCursor
  <2>1. /\ frame.pc = "windows" /\ Len(layers) = Len(Windows)
        /\ layers' = Append(layers, <<ToScreen(Pointer)>>)
        /\ frame' = [frame EXCEPT !.pc = "painted"] /\ disturbed' = disturbed
    BY <1>12 DEF PaintCursor
  <2>2. <<ToScreen(Pointer)>> \in Seq(Int)
    BY <1>5, <1>6
  <2>3. frame' \in [pc : {"asleep", "windows", "painted", "updating"}, took : Nat, progress : Nat]
        /\ frame'.pc = "painted"
    BY <1>4, <2>1
  <2>4. Len(layers) <= Len(Windows)
    BY <1>5, <2>1
  <2> QED
    BY <1>10, <2>1, <2>2, <2>3, <2>4
<1>13. CASE ReadProgress
  <2>1. PICK time \in FrameTimes :
          frame' = [pc |-> "updating", took |-> time, progress |-> anim.progress]
    BY <1>13 DEF ReadProgress
  <2>2. time \in Nat /\ anim.progress \in Nat
    BY <1>5 DEF PanInv, PanTypeOK
  <2>3. frame' \in [pc : {"asleep", "windows", "painted", "updating"}, took : Nat, progress : Nat]
        /\ frame'.pc = "updating"
    BY <2>1, <2>2
  <2>4. layers' = layers /\ disturbed' = disturbed
    BY <1>13 DEF ReadProgress
  <2>5. Painted'
    BY <2>3 DEF Painted, Drawing
  <2> QED
    BY <1>2, <1>4, <1>8, <2>3, <2>4, <2>5 DEF PanInv
<1> QED
  BY <1>9, <1>11, <1>12, <1>13

LEMMA PanInvStep == PanInv /\ [PanNext]_panVars => PanInv'
<1> SUFFICES ASSUME PanInv, [PanNext]_panVars PROVE PanInv'
  OBVIOUS
<1>1. CASE UNCHANGED panVars
  <2>1. UNCHANGED <<anim, unstored, skip, asked, target, frame, layers, disturbed>>
    BY <1>1 DEF panVars
  <2>2. PanTypeOK' /\ Aims'
    BY <2>1 DEF PanInv, PanTypeOK, Aims, Reached
  <2>3. Painted'
    <3>1. \A i \in Nat : LayerOf(Windows[i])' = LayerOf(Windows[i])
      BY <2>1 DEF LayerOf, IsVisible, ToScreen, Sample
    <3>2. ToScreen(Pointer)' = ToScreen(Pointer) /\ PanIdle' = PanIdle
      BY <2>1 DEF ToScreen, Sample, PanIdle
    <3> QED
      BY <2>1, <3>1, <3>2 DEF PanInv, Painted, Drawing
  <2> QED
    BY <2>2, <2>3 DEF PanInv
<1>2. CASE ScriptPan
  BY <1>2, PanStep DEF ScriptPan
<1>3. ASSUME NEW field \in Fields, Store(field)
      PROVE  PanInv'
  BY <1>3, StoreStep
<1>4. CASE SkipToDone \/ WriteProgress
  BY <1>4, UpdateStep
<1>5. CASE BeginFrame \/ PaintWindow \/ PaintCursor \/ ReadProgress
  BY <1>5, FrameStep
<1> QED
  BY <1>1, <1>2, <1>3, <1>4, <1>5 DEF PanNext

LEMMA PanAlways == PanSpec => []PanInv
BY PanInvInit, PanInvStep, PTL DEF PanSpec

(* A frame that no pan came into shows the workspace at one pan, which lies *)
(* between places that were asked for and is the last of them once the      *)
(* animation is over, with the cursor over what it points at, and leaves    *)
(* out no window of which two pixels could be seen: whatever the windows,   *)
(* the size of the output, the easing and the time frames take, and however *)
(* the stores and updates of the threads overlap.                           *)
THEOREM OnePanPerFrame == PanSpec => []FrameShowsOnePan
<1>1. PanInv => FrameShowsOnePan
  <2> SUFFICES ASSUME PanInv, frame.pc = "painted", ~disturbed
               PROVE  /\ \E low, high \in asked : low <= Sample /\ Sample <= high
                      /\ anim.progress >= Duration => Sample = target
                      /\ layers[Len(layers)] = <<Pointer - Sample>>
                      /\ \A i \in DOMAIN Windows :
                           IF layers[i] = Culled THEN Showing(Windows[i], Sample) < 2 * Pixel
                           ELSE layers[i] = <<Windows[i].position - Windows[i].offset - Sample>>
    BY DEF FrameShowsOnePan
  <2>1. Sample \in Int /\ Reached(Sample)
    BY SampleIsReached DEF PanInv
  <2>2. /\ PanIdle /\ Len(layers) = Len(Windows) + 1
        /\ \A i \in 1 .. Len(layers) : i <= Len(Windows) => layers[i] = LayerOf(Windows[i])
        /\ layers[Len(layers)] = <<ToScreen(Pointer)>>
    BY DEF PanInv, Painted, Drawing
  <2>3. anim.progress >= Duration => Sample = target
    <3>1. DOMAIN unstored = {}
      BY <2>2 DEF PanIdle, NoField
    <3>2. anim.end = target
      BY <3>1 DEF PanInv, Aims
    <3> QED
      BY <3>2, SampleEnds DEF PanInv
  <2>4. ASSUME NEW i \in DOMAIN Windows
        PROVE  IF layers[i] = Culled THEN Showing(Windows[i], Sample) < 2 * Pixel
               ELSE layers[i] = <<Windows[i].position - Windows[i].offset - Sample>>
    <3>1. /\ Windows \in Seq([position : Int, size : Nat, offset : Int])
          /\ Len(Windows) \in Nat /\ i \in 1 .. Len(Windows)
      BY PanningAssumption, LenProperties
    <3>2. Windows[i] \in [position : Int, size : Nat, offset : Int]
      BY <3>1, ElementOfSeq
    <3>3. i \in 1 .. Len(layers) /\ i <= Len(Windows)
      BY <2>2, <3>1
    <3>4. layers[i] = LayerOf(Windows[i])
      BY <2>2, <3>3
    <3>5. CASE IsVisible(Windows[i])
      <4>1. layers[i] = <<ToScreen(Windows[i].position - Windows[i].offset)>>
        BY <3>4, <3>5 DEF LayerOf
      <4>2. layers[i] # Culled
        BY <4>1 DEF Culled
      <4> QED
        BY <4>1, <4>2 DEF ToScreen
    <3>6. CASE ~IsVisible(Windows[i])
      <4>1. layers[i] = Culled
        BY <3>4, <3>6 DEF LayerOf
      <4>2. Showing(Windows[i], Sample) < 2 * Pixel
        BY <2>1, <3>2, <3>6, CulledBarelyShows
      <4> QED
        BY <4>1, <4>2
    <3> QED
      BY <3>5, <3>6
  <2> QED
    BY <2>1, <2>2, <2>3, <2>4 DEF Reached, ToScreen
<1> QED
  BY <1>1, PanAlways, PTL

=============================================================================
