--------------------------- MODULE SurfaceProofs ---------------------------
(***************************************************************************)
(* That draw never uses something that is gone, answers a callback before  *)
(* it destroys it and releases only what it owes, whatever the client does *)
(* and however its requests interleave with the steps of draw, until one   *)
(* of the steps that `disturbed' records is taken.  Up to then both copies *)
(* of the state know only callbacks that live, and who waits for a         *)
(* callback waits for its buffer.                                          *)
(***************************************************************************)
EXTENDS Surface, TLAPS

-----------------------------------------------------------------------------
(* Types.                                                                  *)

LEMMA ZeroIsAttr == Zero \in [Attr -> Value]
  BY DEF Zero, Value

LEMMA InitType == Init => TypeOK
<1> SUFFICES ASSUME Init PROVE TypeOK
  OBVIOUS
<1>1. state \in SurfaceState /\ staging \in SurfaceState
  BY ZeroIsAttr DEF Init, SurfaceState, Value
<1>2. fault \in BOOLEAN
  BY DEF Init
<1> QED
  BY <1>1, <1>2 DEF Init, TypeOK

LEMMA SetType ==
  ASSUME NEW x \in SurfaceState, NEW a \in Attr, NEW v \in Value
  PROVE  [x EXCEPT !.attr[a] = v] \in SurfaceState
<1>1. [x EXCEPT !.attr[a] = v] = [x EXCEPT !.attr = [x.attr EXCEPT ![a] = v]]
  BY DEF SurfaceState
<1>2. [x.attr EXCEPT ![a] = v] \in [Attr -> Value]
  BY DEF SurfaceState
<1> QED
  BY <1>1, <1>2 DEF SurfaceState

LEMMA RequestType == ASSUME TypeOK, Request PROVE TypeOK'
<1>1. CASE \E b \in Buffer : Attach(b) \/ DestroyBuffer(b)
  BY <1>1 DEF Attach, DestroyBuffer, Disturbs, threads, TypeOK, SurfaceState
<1>2. CASE \E c \in Callback : Frame(c)
  BY <1>2 DEF Frame, Disturbs, threads, TypeOK, SurfaceState
<1>3. ASSUME NEW a \in Attr, NEW v \in Region \cup {"zero"}, Set(a, v) PROVE TypeOK'
  <2>1. staging' \in SurfaceState
    BY <1>3, SetType DEF Set, TypeOK, Value
  <2> QED
    BY <1>3, <2>1 DEF Set, threads, TypeOK
<1>4. CASE Detach \/ Destroy
  BY <1>4 DEF Detach, Destroy, Disturbs, threads, TypeOK, SurfaceState
<1>5. CASE SetInputNull
  <2>1. staging' \in SurfaceState
    BY <1>5, SetType DEF SetInputNull, TypeOK, Value
  <2> QED
    BY <1>5, <2>1 DEF SetInputNull, threads, TypeOK
<1>6. CASE Commit
  <2>1. staging' \in SurfaceState
    BY <1>6, ZeroIsAttr DEF Commit, SurfaceState
  <2>2. held' \subseteq Buffer
    BY <1>6 DEF Commit, TypeOK, SurfaceState
  <2> QED
    BY <1>6, <2>1, <2>2 DEF Commit, Disturbs, threads, TypeOK
<1>7. CASE Damage
  BY <1>7 DEF Damage, threads, TypeOK
<1> QED
  BY <1>1, <1>2, <1>3, <1>4, <1>5, <1>6, <1>7 DEF Request

LEMMA DrawType == ASSUME TypeOK, Draw PROVE TypeOK'
<1>1. ASSUME Stop PROVE TypeOK'
  BY <1>1 DEF Stop, TypeOK
<1>2. CASE BeginDraw
  BY <1>2 DEF BeginDraw, Disturbs, Goto, TypeOK, SurfaceState
<1>3. CASE Upload
  BY <1>1, <1>3 DEF Upload, Goto, TypeOK
<1>4. CASE NothingPending
  BY <1>4 DEF NothingPending, Goto, TypeOK
<1>5. CASE SendDone
  BY <1>1, <1>5 DEF SendDone, Goto, TypeOK
<1>6. CASE DestroyCallback
  BY <1>1, <1>6 DEF DestroyCallback, Goto, TypeOK, SurfaceState
<1>7. CASE Release
  BY <1>1, <1>7 DEF Release, Goto, TypeOK
<1>8. CASE Clear
  BY <1>8 DEF Clear, Goto, TypeOK, SurfaceState
<1>9. CASE PaintNothing
  BY <1>9 DEF PaintNothing, threads, TypeOK
<1> QED
  BY <1>2, <1>3, <1>4, <1>5, <1>6, <1>7, <1>8, <1>9 DEF Draw, Drawing

\* The types of Surface.
THEOREM TypeCorrect == Spec => []TypeOK
<1>1. Init => TypeOK
  BY InitType
<1>2. TypeOK /\ [Next]_vars => TypeOK'
  BY RequestType, DrawType DEF Next, vars, threads, TypeOK
<1> QED
  BY <1>1, <1>2, PTL DEF Spec

-----------------------------------------------------------------------------
(* Safety, until a step is taken that is too much for the code.            *)

LEMMA SafeInit == Init => SurfaceInv
  BY InitType DEF Init, SurfaceInv, UndisturbedInv, NoFault, NoStaleCallback,
     FiredFirst, DrawInv, BuffersLive, AwaitedIsHeld, Answering

\* What the last steps of the lemmas show.
Holds == UndisturbedInv /\ NoStaleCallback /\ FiredFirst

LEMMA HeldIsEnough ==
  ASSUME SurfaceInv, Next, ~disturbed' => Holds'
  PROVE  SurfaceInv'
<1>1. TypeOK'
  BY RequestType, DrawType DEF SurfaceInv, Next
<1> QED
  BY <1>1 DEF SurfaceInv, Holds, NoStaleCallback, FiredFirst

LEMMA SafeRequest ==
  ASSUME SurfaceInv, Request, ~disturbed' PROVE Holds'
<1>1. ~disturbed /\ ~fault
  <2>1. ~fault
    BY DEF Request, Handles, Attach, Detach, Destroy, Frame, Set, SetInputNull,
           Commit, CommitAllowed, DestroyBuffer, Damage
  <2>2. CASE \E b \in Buffer : Attach(b) \/ DestroyBuffer(b)
    BY <2>1, <2>2 DEF Attach, DestroyBuffer, Disturbs
  <2>3. CASE \E c \in Callback : Frame(c)
    BY <2>1, <2>3 DEF Frame, Disturbs
  <2>4. CASE \E a \in Attr, v \in Region \cup {"zero"} : Set(a, v)
    BY <2>1, <2>4 DEF Set
  <2>5. CASE Detach \/ Destroy \/ Commit
    BY <2>1, <2>5 DEF Detach, Destroy, Commit, Disturbs
  <2>6. CASE SetInputNull \/ Damage
    BY <2>1, <2>6 DEF SetInputNull, Damage
  <2> QED
    BY <2>2, <2>3, <2>4, <2>5, <2>6 DEF Request
<1>2. UNCHANGED <<pc, texture, fault>>
  BY DEF Request, threads, Attach, Detach, Destroy, Frame, Set, SetInputNull,
         Commit, DestroyBuffer, Damage
<1>3. TypeOK /\ Holds
  BY <1>1 DEF SurfaceInv, Holds
<1> USE DEF Holds, UndisturbedInv, NoFault, TypeOK, SurfaceState, NoStaleCallback,
            FiredFirst, DrawInv, BuffersLive, AwaitedIsHeld, Answering
<1>4. CASE \E b \in Buffer : Attach(b)
  <2>1. PICK b \in Buffer : Attach(b)
    BY <1>4
  <2>2. /\ wlBuffer[b] = "live"
        /\ staging' = [staging EXCEPT !.buffer = b]
        /\ UNCHANGED <<state, wlBuffer, held, callback, asked>>
    BY <2>1 DEF Attach
  <2> QED
    BY <1>1, <1>2, <1>3, <2>2
<1>5. CASE \E b \in Buffer : DestroyBuffer(b)
  <2>1. PICK b \in Buffer : DestroyBuffer(b)
    BY <1>5
  <2>2. /\ b \notin held /\ b # staging.buffer
        /\ wlBuffer' = [wlBuffer EXCEPT ![b] = "destroyed"]
        /\ UNCHANGED <<state, staging, held, callback, asked>>
    BY <2>1 DEF DestroyBuffer, Disturbs
  <2> QED
    BY <1>1, <1>2, <1>3, <2>2
<1>6. CASE \E c \in Callback : Frame(c)
  <2>1. PICK c \in Callback : Frame(c)
    BY <1>6
  <2>2. /\ pc \in {"idle", "release", "clear"}
        /\ callback[c] = "unused"
        /\ callback' = [callback EXCEPT ![c] = "live"]
        /\ state' = [state EXCEPT !.pending = c]
        /\ staging' = [staging EXCEPT !.pending = c]
        /\ asked' = TRUE
        /\ UNCHANGED <<wlBuffer, held>>
    BY <1>3, <2>1 DEF Frame, Disturbs
  <2> QED
    BY <1>1, <1>2, <1>3, <2>2, NullIsNothing
<1>7. CASE (\E a \in Attr, v \in Region \cup {"zero"} : Set(a, v)) \/ SetInputNull
  <2>1. /\ staging'.pending = staging.pending /\ staging'.buffer = staging.buffer
        /\ UNCHANGED <<state, wlBuffer, held, callback, asked>>
    BY <1>3, <1>7 DEF Set, SetInputNull
  <2> QED
    BY <1>1, <1>2, <1>3, <2>1
<1>8. CASE Detach \/ Destroy
  <2>1. /\ pc = "idle"
        /\ state' = [state EXCEPT !.buffer = Null]
        /\ staging' \in {staging, [staging EXCEPT !.buffer = Null]}
        /\ UNCHANGED <<wlBuffer, held, callback, asked>>
    BY <1>8 DEF Detach, Destroy, Disturbs
  <2> QED
    BY <1>1, <1>2, <1>3, <2>1, NullIsNothing
<1>9. CASE Commit
  <2>1. /\ pc = "idle"
        /\ state' = staging
        /\ staging' = [buffer |-> Null, pending |-> Null, attr |-> Zero]
        /\ held' = held \cup ({staging.buffer} \ {Null})
        /\ asked' = FALSE
        /\ UNCHANGED <<wlBuffer, callback>>
    BY <1>9 DEF Commit, Disturbs
  <2> QED
    BY <1>1, <1>2, <1>3, <2>1, NullIsNothing
<1>10. CASE Damage
  BY <1>1, <1>2, <1>3, <1>10 DEF Damage
<1> QED
  BY <1>4, <1>5, <1>6, <1>7, <1>8, <1>9, <1>10 DEF Request

LEMMA SafeDraw ==
  ASSUME SurfaceInv, Draw, ~disturbed' PROVE Holds'
<1>1. ~disturbed
  BY DEF Draw, Drawing, PaintNothing, BeginDraw, Upload, NothingPending, SendDone,
         DestroyCallback, Release, Clear, Stop, Disturbs, threads
<1>2. TypeOK /\ Holds
  BY <1>1 DEF SurfaceInv, Holds
<1> USE DEF Holds, UndisturbedInv, NoFault, TypeOK, SurfaceState, NoStaleCallback,
            FiredFirst, DrawInv, BuffersLive, AwaitedIsHeld, Answering, At, Goto
<1>3. CASE PaintNothing
  BY <1>1, <1>2, <1>3 DEF PaintNothing, threads
<1>4. CASE BeginDraw
  <2>1. asked => state.pending = Null
    BY <1>4 DEF BeginDraw, Disturbs
  <2>2. /\ pc = "idle" /\ pc' = "upload" /\ texture' = state.buffer
        /\ state.buffer # Null
        /\ UNCHANGED <<state, staging, wlBuffer, held, callback, asked, fault>>
    BY <1>4 DEF BeginDraw
  <2> QED
    BY <1>1, <1>2, <2>1, <2>2
<1>5. CASE Upload
  BY <1>1, <1>2, <1>5 DEF Upload, Exists
<1>6. CASE NothingPending
  BY <1>1, <1>2, <1>6 DEF NothingPending
<1>7. CASE SendDone
  <2>1. /\ ~fault /\ pc = "sendDone" /\ state.pending \in Callback
        /\ callback[state.pending] = "live"
    BY <1>2, <1>7 DEF SendDone
  <2>2. /\ callback' = [callback EXCEPT ![state.pending] = "done"]
        /\ pc' = "destroy"
        /\ UNCHANGED <<state, staging, wlBuffer, held, asked, texture, fault>>
    BY <1>7, <2>1 DEF SendDone, Answerable
  <2>3. ~asked /\ staging.pending = Null
    BY <1>2, <2>1, NullIsNothing
  <2> QED
    BY <1>1, <1>2, <2>1, <2>2, <2>3
<1>8. CASE DestroyCallback
  <2>1. /\ ~fault /\ pc = "destroy" /\ state.pending \in Callback
        /\ callback[state.pending] = "done"
        /\ ~asked /\ staging.pending = Null
        /\ state.buffer \in held
    BY <1>2, <1>8, NullIsNothing DEF DestroyCallback
  <2>2. /\ callback' = [callback EXCEPT ![state.pending] = "gone"]
        /\ state' = [state EXCEPT !.pending = Null]
        /\ pc' = "release"
        /\ UNCHANGED <<staging, wlBuffer, held, asked, texture, fault>>
    BY <1>8, <2>1 DEF DestroyCallback, Answerable
  <2> QED
    BY <1>1, <1>2, <2>1, <2>2
<1>9. CASE Release
  <2>1. /\ pc = "release" /\ state.buffer \in held
        /\ wlBuffer[state.buffer] = "live"
    BY <1>2, <1>9 DEF Release
  <2>2. /\ held' = held \ {state.buffer} /\ pc' = "clear"
        /\ UNCHANGED <<state, staging, wlBuffer, callback, asked, texture, fault>>
    BY <1>2, <1>9, <2>1 DEF Release
  <2> QED
    BY <1>1, <1>2, <2>1, <2>2
<1>10. CASE Clear
  BY <1>1, <1>2, <1>10 DEF Clear
<1> QED
  BY <1>3, <1>4, <1>5, <1>6, <1>7, <1>8, <1>9, <1>10 DEF Draw, Drawing

LEMMA SafeStep == SurfaceInv /\ [Next]_vars => SurfaceInv'
<1>1. ASSUME SurfaceInv, UNCHANGED vars PROVE SurfaceInv'
  BY <1>1 DEF vars, threads, SurfaceInv, UndisturbedInv, TypeOK, NoFault,
              NoStaleCallback, FiredFirst, DrawInv, BuffersLive, AwaitedIsHeld,
              Answering
<1> QED
  BY <1>1, SafeRequest, SafeDraw, HeldIsEnough DEF Next

\* draw uses a callback, a buffer or a wl_buffer that is gone only where one of
\* the recorded steps came first, whatever a client does and however the threads
\* overlap.
THEOREM FaultsAreDisturbances == Spec => []FaultNeedsDisturbance
<1>1. Init => SurfaceInv
  BY SafeInit
<1>2. SurfaceInv /\ [Next]_vars => SurfaceInv'
  BY SafeStep
<1>3. SurfaceInv => FaultNeedsDisturbance
  BY DEF SurfaceInv, UndisturbedInv, NoFault, FaultNeedsDisturbance
<1> QED
  BY <1>1, <1>2, <1>3, PTL DEF Spec

\* Until then neither copy of the state keeps a callback that draw has destroyed.
THEOREM NoCallbackDangles == Spec => []NoStaleCallback
<1>1. Init => SurfaceInv
  BY SafeInit
<1>2. SurfaceInv /\ [Next]_vars => SurfaceInv'
  BY SafeStep
<1>3. SurfaceInv => NoStaleCallback
  BY DEF SurfaceInv
<1> QED
  BY <1>1, <1>2, <1>3, PTL DEF Spec

\* Until then draw releases a buffer only while the client waits for it: once for
\* every commit of it.
THEOREM ReleasesAreOwed == Spec => []ReleaseIsOwed
<1>1. Init => SurfaceInv
  BY SafeInit
<1>2. SurfaceInv /\ [Next]_vars => SurfaceInv'
  BY SafeStep
<1>3. SurfaceInv => ReleaseIsOwed
  BY DEF SurfaceInv, UndisturbedInv, AwaitedIsHeld, ReleaseIsOwed
<1> QED
  BY <1>1, <1>2, <1>3, PTL DEF Spec

\* Until then a callback is destroyed only after it was answered.
THEOREM AnsweredBeforeDestroyed == Spec => []FiredFirst
<1>1. Init => SurfaceInv
  BY SafeInit
<1>2. SurfaceInv /\ [Next]_vars => SurfaceInv'
  BY SafeStep
<1>3. SurfaceInv => FiredFirst
  BY DEF SurfaceInv
<1> QED
  BY <1>1, <1>2, <1>3, PTL DEF Spec

-----------------------------------------------------------------------------
(* What a draw owes the client, of which its answers in the end are made.  *)

\* The buffer of a draw that has released it is back.
GivenBack == pc = "clear" /\ ~disturbed => state.buffer \notin held

\* A draw takes a callback out of the state only when it has answered it or when
\* it is yet to be committed, ends with no other left, and where it released the
\* buffer the client has it back.
Answers ==
  /\ state'.pending # state.pending =>
       \/ callback'[state.pending] = "gone"
       \/ asked /\ state.pending = staging'.pending
  /\ pc # "idle" /\ pc' = "idle" => state'.pending = Null
  /\ pc = "clear" => state'.buffer \notin held'

DrawAnswers == [][Draw /\ ~disturbed' => Answers]_vars

LEMMA GivenBackStep ==
  ASSUME SurfaceInv, GivenBack, [Next]_vars
  PROVE  GivenBack'
<1> SUFFICES ASSUME pc' = "clear", ~disturbed' PROVE state'.buffer \notin held'
  BY DEF GivenBack
<1>0. TypeOK
  BY DEF SurfaceInv
<1>1. CASE Request
  <2>1. CASE \E b \in Buffer : Attach(b) \/ DestroyBuffer(b)
    BY <2>1 DEF Attach, DestroyBuffer, Disturbs, GivenBack, threads
  <2>2. CASE \E c \in Callback : Frame(c)
    BY <1>0, <2>2 DEF Frame, Disturbs, GivenBack, threads, TypeOK, SurfaceState
  <2>3. CASE \E a \in Attr, v \in Region \cup {"zero"} : Set(a, v)
    BY <2>3 DEF Set, GivenBack, threads
  <2>4. CASE Detach \/ Destroy \/ Commit
    BY <2>4 DEF Detach, Destroy, Commit, Disturbs, threads
  <2>5. CASE SetInputNull \/ Damage
    BY <2>5 DEF SetInputNull, Damage, GivenBack, threads
  <2> QED
    BY <1>1, <2>1, <2>2, <2>3, <2>4, <2>5 DEF Request
<1>2. CASE Draw
  BY <1>2 DEF Draw, Drawing, PaintNothing, BeginDraw, Upload, NothingPending,
     SendDone, DestroyCallback, Release, Clear, Stop, At, Goto, GivenBack, threads
<1>3. CASE UNCHANGED vars
  BY <1>3 DEF vars, threads, GivenBack
<1> QED
  BY <1>1, <1>2, <1>3 DEF Next

LEMMA DrawStepAnswers ==
  ASSUME SurfaceInv, GivenBack, Draw, ~disturbed'
  PROVE  Answers
<1>1. ~disturbed
  BY DEF Draw, Drawing, PaintNothing, BeginDraw, Upload, NothingPending, SendDone,
         DestroyCallback, Release, Clear, Stop, Disturbs, threads
<1>2. TypeOK /\ DrawInv /\ ~fault /\ ~fault'
  <2>1. SurfaceInv'
    BY SafeStep DEF Next
  <2> QED
    BY <1>1, <2>1 DEF SurfaceInv, UndisturbedInv, NoFault
<1> USE DEF Answers
<1>3. CASE PaintNothing \/ BeginDraw \/ Upload \/ SendDone \/ Release
  BY <1>2, <1>3 DEF PaintNothing, BeginDraw, Upload, SendDone, Release, Stop, At,
     Goto, threads
<1>4. CASE NothingPending
  BY <1>4 DEF NothingPending, At
<1>5. CASE DestroyCallback
  <2>1. /\ pc = "destroy" /\ pc' = "release" /\ state.pending \in Callback
        /\ callback[state.pending] = "done"
    BY <1>2, <1>5 DEF DestroyCallback, Stop, At, Goto, DrawInv
  <2>2. callback'[state.pending] = "gone"
    BY <1>2, <1>5, <2>1 DEF DestroyCallback, Stop, TypeOK
  <2> QED
    BY <2>1, <2>2
<1>6. CASE Clear
  <2>1. /\ pc = "clear" /\ state' = [state EXCEPT !.pending = Null]
        /\ UNCHANGED <<held, staging>>
    BY <1>6 DEF Clear, At
  <2>2. state.pending # Null => asked /\ state.pending = staging.pending
    BY <1>2, <2>1 DEF DrawInv
  <2>3. state \in SurfaceState
    BY <1>2 DEF TypeOK
  <2> QED
    BY <1>1, <2>1, <2>2, <2>3 DEF GivenBack, SurfaceState
<1> QED
  BY <1>3, <1>4, <1>5, <1>6 DEF Draw, Drawing

\* Every draw answers the callback it found before it forgets it, and gives its
\* buffer back before it ends, while requests arrive at any of its steps: with
\* draws that go on, this is why an awaited callback is answered and its buffer
\* returns.
THEOREM DrawsAnswer == Spec => DrawAnswers
<1>1. Init => SurfaceInv /\ GivenBack
  BY SafeInit DEF Init, GivenBack
<1>2. SurfaceInv /\ GivenBack /\ [Next]_vars => (SurfaceInv /\ GivenBack)'
  BY SafeStep, GivenBackStep
<1>3. SurfaceInv /\ GivenBack /\ [Next]_vars =>
        [Draw /\ ~disturbed' => Answers]_vars
  BY DrawStepAnswers
<1> QED
  BY <1>1, <1>2, <1>3, PTL DEF Spec, DrawAnswers

=============================================================================
