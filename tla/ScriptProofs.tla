---------------------------- MODULE ScriptProofs ----------------------------
(* That what a script registers is rooted once for each place that calls    *)
(* it, and that the walk of a list of hooks runs none of them twice and     *)
(* misses none that stays in place, whatever the functions, events and keys *)
(* and whatever the callbacks themselves register and remove. And that the  *)
(* chord stays as short as the longest sequence.                            *)
EXTENDS Script, FiniteSetTheorems, SequenceTheorems, TLAPS

Entries == [n : Nat, fn : Fns]

(* Every registration has its own number.                                   *)
Numbered ==
  /\ \A a \in actions : a.n <= registered
  /\ \A e \in Events : Len(hooks[e]) <= registered
  /\ \A e \in Events : \A i \in 1 .. Len(hooks[e]) : hooks[e][i].n <= registered
  /\ \A e \in Events : \A i, j \in 1 .. Len(hooks[e]) :
       hooks[e][i].n = hooks[e][j].n => i = j

(* What ran came before the place of the walk, or has left the list.        *)
Walk ==
  calling = "hook" =>
    /\ dispatch.event \in Events
    /\ IsInjective(dispatch.ran)
    /\ \A k \in DOMAIN dispatch.ran : dispatch.ran[k] <= registered
    /\ \A i \in 1 .. Len(hooks[dispatch.event]) :
         i > dispatch.at => hooks[dispatch.event][i].n \notin Range(dispatch.ran)
    /\ ~dispatch.shifted =>
         /\ dispatch.at <= Len(hooks[dispatch.event])
         /\ \A i \in 1 .. Len(hooks[dispatch.event]) :
              i <= dispatch.at => hooks[dispatch.event][i].n \in Range(dispatch.ran)

ScriptInv ==
  ScriptTypeOK /\ IsFiniteSet(actions) /\ Numbered /\ Walk /\ RegisteredIsRooted

-----------------------------------------------------------------------------
(* The counts.                                                              *)

Bound(f) == {a \in actions : a.fn = f}

LEMMA ListedFinite ==
  ASSUME registered \in Nat, NEW f
  PROVE  IsFiniteSet(Listed(f))
<1>1. IsFiniteSet(1 .. registered)
  BY FS_Interval
<1>2. IsFiniteSet(Events \X (1 .. registered))
  BY <1>1, ScriptAssumption, FS_Product
<1> QED
  BY <1>2, FS_Subset DEF Listed

LEMMA BoundFinite ==
  ASSUME IsFiniteSet(actions), NEW f
  PROVE  IsFiniteSet(Bound(f))
BY FS_Subset DEF Bound

LEMMA HooksTyped ==
  ASSUME ScriptTypeOK, NEW e \in Events
  PROVE  /\ hooks[e] \in Seq(Entries)
         /\ Len(hooks[e]) \in Nat
         /\ DOMAIN hooks[e] = 1 .. Len(hooks[e])
         /\ \A i \in 1 .. Len(hooks[e]) : hooks[e][i] \in Entries
<1>1. hooks[e] \in Seq(Entries)
  BY DEF ScriptTypeOK, Entries
<1> QED
  BY <1>1, LenProperties, ElementOfSeq

(* The places are a matter of the lists alone, whatever the number of       *)
(* registrations.                                                           *)
Places(h, f) == {p \in Events \X Nat : p[2] \in 1 .. Len(h[p[1]]) /\ h[p[1]][p[2]].fn = f}

LEMMA SamePlaces ==
  ASSUME NEW S \in SUBSET (Events \X Nat), NEW T \in SUBSET (Events \X Nat),
         \A d \in Events, i \in Nat : <<d, i>> \in S <=> <<d, i>> \in T
  PROVE  S = T
<1>1. ASSUME NEW p \in Events \X Nat PROVE p \in S <=> p \in T
  <2>1. PICK d \in Events, i \in Nat : p = <<d, i>>
    OBVIOUS
  <2>2. <<d, i>> \in S <=> <<d, i>> \in T
    OBVIOUS
  <2> QED
    BY <2>1, <2>2
<1> QED
  BY <1>1

LEMMA ListedIsPlaces ==
  ASSUME ScriptTypeOK, Numbered, NEW f
  PROVE  Listed(f) = Places(hooks, f)
<1>1. \A e \in Events : DOMAIN hooks[e] = 1 .. Len(hooks[e]) /\ Len(hooks[e]) \in Nat
  BY HooksTyped
<1>2. ASSUME NEW p \in Events \X Nat, p[2] \in 1 .. Len(hooks[p[1]])
      PROVE  p \in Events \X (1 .. registered)
  <2>1. PICK e \in Events, i \in Nat : p = <<e, i>>
    OBVIOUS
  <2>2. i \in 1 .. Len(hooks[e]) /\ Len(hooks[e]) <= registered
    BY <1>2, <2>1 DEF Numbered
  <2>3. i \in 1 .. registered
    BY <1>1, <2>2 DEF ScriptTypeOK
  <2> QED
    BY <2>1, <2>3
<1>3. \A p \in Events \X (1 .. registered) : p \in Events \X Nat /\ p[1] \in Events
  OBVIOUS
<1>4. Listed(f) \subseteq Places(hooks, f)
  BY <1>1, <1>3 DEF Listed, Places
<1>5. Places(hooks, f) \subseteq Listed(f)
  BY <1>1, <1>2 DEF Listed, Places
<1> QED
  BY <1>4, <1>5

ByPlace == \A f \in Fns : Listed(f) = Places(hooks, f)

LEMMA ListedByPlace == ScriptTypeOK /\ Numbered => ByPlace
BY ListedIsPlaces DEF ByPlace

LEMMA ListedByPlaceNext ==
  ASSUME ScriptTypeOK', Numbered'
  PROVE  \A f \in Fns : Listed(f)' = Places(hooks', f)
<1>1. ByPlace'
  BY ListedByPlace, PTL
<1>2. \A f \in Fns : Places(hooks, f)' = Places(hooks', f)
  BY DEF Places
<1> QED
  BY <1>1, <1>2 DEF ByPlace

-----------------------------------------------------------------------------
(* remove-hook on the list itself.                                          *)
LEMMA LastTakesPlace ==
  ASSUME NEW s \in Seq(Entries), NEW i \in 1 .. Len(s)
  PROVE  /\ Front([s EXCEPT ![i] = Last(s)]) \in Seq(Entries)
         /\ Len(Front([s EXCEPT ![i] = Last(s)])) = Len(s) - 1
         /\ \A j \in 1 .. Len(s) - 1 :
              Front([s EXCEPT ![i] = Last(s)])[j] = IF j = i THEN s[Len(s)] ELSE s[j]
<1> DEFINE t == [s EXCEPT ![i] = s[Len(s)]]
<1> DEFINE m == Len(s) - 1
<1>1. Len(s) \in Nat \ {0} /\ s[Len(s)] \in Entries
  <2>1. Len(s) \in Nat
    BY LenProperties
  <2>2. Len(s) # 0 /\ Len(s) \in 1 .. Len(s)
    BY <2>1
  <2> QED
    BY <2>1, <2>2, ElementOfSeq
<1>2. /\ t \in Seq(Entries) /\ Len(t) = Len(s)
      /\ \A j \in 1 .. Len(s) : t[j] = IF j = i THEN s[Len(s)] ELSE s[j]
  BY <1>1, ExceptSeq
<1>3. [s EXCEPT ![i] = Last(s)] = t
  BY DEF Last
<1> HIDE DEF t
<1>4. Front([s EXCEPT ![i] = Last(s)]) = SubSeq(t, 1, m)
  BY <1>2, <1>3 DEF Front
<1>5. m \in Nat /\ 1 .. m \subseteq 1 .. Len(s)
  BY <1>1
<1>6. \A j \in 1 .. m : t[j] \in Entries
  BY <1>2, <1>5, ElementOfSeq
<1>7. m = Len(s) - 1
  OBVIOUS
<1> HIDE DEF m
<1>8. /\ SubSeq(t, 1, m) \in Seq(Entries)
      /\ Len(SubSeq(t, 1, m)) = IF 1 <= m THEN m - 1 + 1 ELSE 0
      /\ \A j \in 1 .. m - 1 + 1 : SubSeq(t, 1, m)[j] = t[1 + j - 1]
  <2> HIDE DEF Entries
  <2>1. 1 \in Int /\ m \in Int
    BY <1>5
  <2> QED
    BY <1>6, <2>1, SubSeqProperties
<1>9. Len(SubSeq(t, 1, m)) = m /\ \A j \in 1 .. m : SubSeq(t, 1, m)[j] = t[j]
  BY <1>5, <1>8
<1> QED
  BY <1>2, <1>4, <1>5, <1>7, <1>8, <1>9

LEMMA ScriptInvInit == ScriptInit => ScriptInv
<1> SUFFICES ASSUME ScriptInit PROVE ScriptInv
  OBVIOUS
<1>1. ScriptTypeOK
  <2>1. <<>> \in Seq(Syms) /\ <<>> \in Seq([n : Nat, fn : Fns]) /\ <<>> \in Seq(Nat)
    OBVIOUS
  <2> QED
    BY <2>1 DEF ScriptInit, ScriptTypeOK, Idle
<1>2. IsFiniteSet(actions)
  BY FS_EmptySet DEF ScriptInit
<1>3. Numbered /\ Walk
  BY DEF ScriptInit, Numbered, Walk
<1>4. ASSUME NEW f \in Fns
      PROVE  roots[f] = Cardinality({a \in actions : a.fn = f}) + Cardinality(Listed(f))
  <2>1. {a \in actions : a.fn = f} = {} /\ Listed(f) = {} /\ roots[f] = 0
    BY DEF ScriptInit, Listed
  <2> QED
    BY <2>1, FS_EmptySet
<1> QED
  BY <1>1, <1>2, <1>3, <1>4 DEF ScriptInv, RegisteredIsRooted

-----------------------------------------------------------------------------
(* Lists, functions, roots and hotkeys that stay as they are stay rooted.   *)
LEMMA CountsKept ==
  ASSUME ScriptInv, ScriptTypeOK', Numbered', UNCHANGED <<actions, hooks, roots>>
  PROVE  RegisteredIsRooted'
<1> SUFFICES ASSUME NEW f \in Fns
             PROVE  roots'[f] = Cardinality({a \in actions' : a.fn = f})
                                  + Cardinality(Listed(f)')
  BY DEF RegisteredIsRooted
<1>1. Listed(f) = Places(hooks, f)
  BY ListedByPlace DEF ScriptInv, ByPlace
<1>2. Listed(f)' = Places(hooks', f)
  BY ListedByPlaceNext
<1> QED
  BY <1>1, <1>2 DEF ScriptInv, RegisteredIsRooted

(* A step that leaves what is registered alone, and no walk to follow.      *)
LEMMA NothingRegistered ==
  ASSUME ScriptInv, ScriptTypeOK', Walk',
         UNCHANGED <<actions, hooks, roots, registered>>
  PROVE  ScriptInv'
<1>1. Numbered'
  BY DEF ScriptInv, Numbered
<1>2. RegisteredIsRooted'
  BY <1>1, CountsKept
<1> QED
  BY <1>1, <1>2 DEF ScriptInv

LEMMA ScriptInvCalls ==
  ASSUME ScriptInv,
         \/ \E s \in Syms, latched \in BOOLEAN : OnKeyboardInput(s, latched)
         \/ ActionReturns
         \/ LoadFileReturns
  PROVE  ScriptInv'
<1>1. UNCHANGED <<actions, maxActionSize, hooks, roots, dispatch, registered>>
  BY DEF OnKeyboardInput, FeedHit, FeedMiss, ActionReturns, LoadFileReturns
<1>2. calling' \in Syms \cup {None, "config"}
  BY DEF OnKeyboardInput, FeedHit, FeedMiss, ActionReturns, LoadFileReturns
<1>3. chord' \in Seq(Syms)
  <2>1. chord \in Seq(Syms)
    BY DEF ScriptInv, ScriptTypeOK
  <2>2. ASSUME NEW s \in Syms, NEW latched \in BOOLEAN, OnKeyboardInput(s, latched)
        PROVE  chord' \in Seq(Syms)
    <3> DEFINE keys == Append(chord, s)
    <3>1. keys \in Seq(Syms) /\ keys # <<>>
      BY <2>1
    <3>2. CASE FeedHit(s, latched)
      <4>1. PICK a \in FirstMatches(keys, latched) :
              chord' = SubSeq(keys, 1, Len(keys) - Len(a.sequence))
        BY <3>2 DEF FeedHit
      <4>2. a \in actions /\ a.sequence \in Seq(Syms)
        BY <4>1 DEF FirstMatches, ScriptInv, ScriptTypeOK
      <4>3. Len(a.sequence) \in Nat /\ Len(keys) \in Nat
        BY <3>1, <4>2, LenProperties
      <4> HIDE DEF keys
      <4> DEFINE m == Len(keys) - Len(a.sequence)
      <4>4. m \in Int /\ 1 .. m \subseteq 1 .. Len(keys)
        BY <4>3
      <4> HIDE DEF m
      <4>5. \A i \in 1 .. m : keys[i] \in Syms
        BY <3>1, <4>4, ElementOfSeq
      <4>6. SubSeq(keys, 1, m) \in Seq(Syms)
        <5>1. 1 \in Int
          OBVIOUS
        <5> QED
          BY <4>4, <4>5, <5>1, SubSeqProperties
      <4> QED
        BY <4>1, <4>6 DEF m
    <3>3. CASE FeedMiss(s, latched)
      BY <3>1, <3>3, HeadTailProperties DEF FeedMiss
    <3> QED
      BY <2>2, <3>2, <3>3 DEF OnKeyboardInput
  <2> QED
    BY <2>1, <2>2 DEF ActionReturns, LoadFileReturns
<1>4. ScriptTypeOK'
  BY <1>1, <1>2, <1>3 DEF ScriptInv, ScriptTypeOK
<1>5. calling' # "hook"
  BY <1>2, ScriptAssumption
<1>6. Walk'
  BY <1>5 DEF Walk
<1> QED
  BY <1>1, <1>4, <1>6, NothingRegistered

-----------------------------------------------------------------------------
(* set-key: a hotkey more that calls the function, and a root more.         *)
LEMMA ScriptInvSetKey ==
  ASSUME ScriptInv, NEW str \in Strings, NEW g \in Fns, SetKey(str, g)
  PROVE  ScriptInv'
<1> DEFINE new == [n |-> registered + 1, fn |-> g,
                   sequence |-> SequenceOf(str), modifiers |-> ModifiersOf(str)]
<1>1. SequenceOf(str) \in Seq(Syms) /\ ModifiersOf(str) \subseteq VMods
  <2>1. ModifiersOf(str) \subseteq VMods
    BY DEF ModifiersOf
  <2>2. SequenceOf(str) = <<>> \/ \E t \in Syms : SequenceOf(str) = <<t>>
    BY DEF SequenceOf
  <2>3. <<>> \in Seq(Syms) /\ \A t \in Syms : <<t>> \in Seq(Syms)
    OBVIOUS
  <2> QED
    BY <2>1, <2>2, <2>3
<1>2. Len(SequenceOf(str)) \in Nat
  BY <1>1, LenProperties
<1>3. /\ actions' = actions \cup {new}
      /\ maxActionSize' \in Nat
      /\ roots' = [roots EXCEPT ![g] = @ + 1]
      /\ registered' = registered + 1
      /\ UNCHANGED <<chord, hooks, calling, dispatch>>
  BY <1>2 DEF SetKey, Add, ScriptInv, ScriptTypeOK
<1>4. new \in [n : Nat, fn : Fns, sequence : Seq(Syms), modifiers : SUBSET VMods]
      /\ new.fn = g /\ new.n = registered + 1
  BY <1>1 DEF ScriptInv, ScriptTypeOK
<1> HIDE DEF new
<1>5. new \notin actions
  <2>1. \A b \in actions : b.n <= registered
    BY DEF ScriptInv, Numbered
  <2>2. registered \in Nat
    BY DEF ScriptInv, ScriptTypeOK
  <2>3. ~(registered + 1 <= registered)
    BY <2>2
  <2> QED
    BY <1>4, <2>1, <2>3
<1>6. ScriptTypeOK'
  <2>1. actions' \subseteq [n : Nat, fn : Fns, sequence : Seq(Syms), modifiers : SUBSET VMods]
    BY <1>3, <1>4 DEF ScriptInv, ScriptTypeOK
  <2>2. roots' \in [Fns -> Nat] /\ registered' \in Nat
    BY <1>3 DEF ScriptInv, ScriptTypeOK
  <2> QED
    BY <1>3, <2>1, <2>2 DEF ScriptInv, ScriptTypeOK
<1>7. Numbered'
  <2>1. \A e \in Events : Len(hooks[e]) \in Nat
    BY HooksTyped DEF ScriptInv
  <2>2. \A e \in Events : \A i \in 1 .. Len(hooks[e]) : hooks[e][i] \in Entries
    BY HooksTyped DEF ScriptInv
  <2>3. \A e \in Events : \A i \in 1 .. Len(hooks[e]) : hooks[e][i].n \in Nat
    BY <2>2 DEF Entries
  <2>4. registered \in Nat /\ \A b \in actions : b.n \in Nat
    BY DEF ScriptInv, ScriptTypeOK
  <2>5. \A b \in actions' : b.n <= registered'
    <3>1. ASSUME NEW b \in actions PROVE b.n <= registered + 1
      <4>1. b.n <= registered
        BY DEF ScriptInv, Numbered
      <4> QED
        BY <2>4, <4>1
    <3> QED
      BY <1>3, <1>4, <2>4, <3>1
  <2>6. \A e \in Events : \A i \in 1 .. Len(hooks[e]) : hooks[e][i].n <= registered'
    BY <1>3, <2>3, <2>4 DEF ScriptInv, Numbered
  <2>7. \A e \in Events : Len(hooks[e]) <= registered'
    BY <1>3, <2>1, <2>4 DEF ScriptInv, Numbered
  <2> QED
    BY <1>3, <2>5, <2>6, <2>7 DEF ScriptInv, Numbered
<1>8. Walk'
  <2> SUFFICES ASSUME calling = "hook"
               PROVE  \A k \in DOMAIN dispatch.ran : dispatch.ran[k] <= registered'
    BY <1>3 DEF ScriptInv, Walk
  <2>1. dispatch.ran \in Seq(Nat)
    BY DEF ScriptInv, ScriptTypeOK
  <2>2. \A k \in DOMAIN dispatch.ran : dispatch.ran[k] \in Nat
    BY <2>1, LenProperties, ElementOfSeq
  <2> QED
    BY <1>3, <2>2 DEF ScriptInv, Walk, ScriptTypeOK
<1>9. ASSUME NEW f \in Fns
      PROVE  roots'[f] = Cardinality({a \in actions' : a.fn = f}) + Cardinality(Listed(f)')
  <2>1. Listed(f)' = Listed(f)
    BY <1>3, <1>6, <1>7, ListedByPlace, ListedByPlaceNext DEF ScriptInv, ByPlace
  <2>2. IsFiniteSet(Bound(f)) /\ IsFiniteSet(Listed(f))
    BY BoundFinite, ListedFinite DEF ScriptInv, ScriptTypeOK
  <2>3. Cardinality(Bound(f)) \in Nat /\ Cardinality(Listed(f)) \in Nat
    BY <2>2, FS_CardinalityType
  <2>4. roots[f] = Cardinality(Bound(f)) + Cardinality(Listed(f))
    BY DEF ScriptInv, RegisteredIsRooted, Bound
  <2>5. CASE f = g
    <3>1. {a \in actions' : a.fn = f} = Bound(f) \cup {new} /\ new \notin Bound(f)
      <4>1. actions' = actions \cup {new} /\ new.fn = f /\ new \notin actions
        BY <1>3, <1>4, <1>5, <2>5
      <4> QED
        BY <4>1 DEF Bound
    <3>2. Cardinality(Bound(f) \cup {new}) = Cardinality(Bound(f)) + 1
      BY <2>2, <3>1, FS_AddElement
    <3>3. roots'[f] = roots[f] + 1
      BY <1>3, <2>5 DEF ScriptInv, ScriptTypeOK
    <3>4. Cardinality({a \in actions' : a.fn = f}) = Cardinality(Bound(f)) + 1
      BY <3>1, <3>2
    <3>5. Cardinality(Listed(f)') = Cardinality(Listed(f))
      BY <2>1
    <3> QED
      BY <2>3, <2>4, <3>3, <3>4, <3>5
  <2>6. CASE f # g
    <3>1. {a \in actions' : a.fn = f} = Bound(f)
      BY <1>3, <1>4, <2>6 DEF Bound
    <3>2. roots'[f] = roots[f]
      BY <1>3, <2>6 DEF ScriptInv, ScriptTypeOK
    <3> QED
      BY <2>1, <2>4, <3>1, <3>2
  <2> QED
    BY <2>5, <2>6
<1>10. IsFiniteSet(actions')
  BY <1>3, FS_AddElement DEF ScriptInv
<1> QED
  BY <1>6, <1>7, <1>8, <1>9, <1>10 DEF ScriptInv, RegisteredIsRooted

-----------------------------------------------------------------------------
(* add-hook: a place more at the end of one list.                           *)
LEMMA ScriptInvAddHook ==
  ASSUME ScriptInv, NEW e \in Events, NEW g \in Fns, AddHook(e, g)
  PROVE  ScriptInv'
<1> DEFINE n == Len(hooks[e])
<1> DEFINE x == Entry(g)
<1>1. /\ hooks' = [hooks EXCEPT ![e] = Append(hooks[e], x)]
      /\ roots' = [roots EXCEPT ![g] = @ + 1]
      /\ registered' = registered + 1
      /\ UNCHANGED <<chord, actions, maxActionSize, calling, dispatch>>
  BY DEF AddHook
<1>2. /\ x \in Entries /\ x.n = registered + 1 /\ x.fn = g
      /\ n \in Nat /\ registered \in Nat /\ hooks[e] \in Seq(Entries)
      /\ DOMAIN hooks = Events
  <2>1. registered \in Nat /\ DOMAIN hooks = Events
    BY DEF ScriptInv, ScriptTypeOK
  <2>2. n \in Nat /\ hooks[e] \in Seq(Entries)
    BY HooksTyped DEF ScriptInv
  <2>3. x \in Entries /\ x.n = registered + 1 /\ x.fn = g
    BY <2>1 DEF Entries, Entry
  <2> QED
    BY <2>1, <2>2, <2>3
<1> DEFINE longer == Append(hooks[e], x)
<1>3. /\ longer \in Seq(Entries)
      /\ Len(longer) = n + 1
      /\ \A i \in 1 .. n : longer[i] = hooks[e][i]
      /\ longer[n + 1] = x
  BY <1>2, AppendProperties
<1>4. \A d \in Events : hooks'[d] = IF d = e THEN longer ELSE hooks[d]
  BY <1>1, <1>2
<1>4a. hooks' = [hooks EXCEPT ![e] = longer]
  BY <1>1
<1> HIDE DEF x, longer
<1>5. \A d \in Events : /\ hooks[d] \in Seq(Entries)
                        /\ Len(hooks[d]) \in Nat /\ Len(hooks[d]) <= registered
                        /\ \A i \in 1 .. Len(hooks[d]) : /\ hooks[d][i].n \in Nat
                                                        /\ hooks[d][i].n <= registered
  BY HooksTyped DEF ScriptInv, Numbered, Entries
<1>6. \A d \in Events : /\ hooks'[d] \in Seq(Entries)
                        /\ Len(hooks'[d]) = IF d = e THEN n + 1 ELSE Len(hooks[d])
  BY <1>3, <1>4, <1>5
<1>7. ASSUME NEW d \in Events, NEW i \in 1 .. Len(hooks[d])
      PROVE  i \in 1 .. Len(hooks'[d]) /\ hooks'[d][i] = hooks[d][i]
  <2>1. CASE d = e
    <3>1. i \in 1 .. n /\ 1 .. n \subseteq 1 .. n + 1
      BY <1>2, <2>1
    <3> QED
      BY <1>3, <1>4, <2>1, <3>1
  <2>2. CASE d # e
    BY <1>4, <2>2
  <2> QED
    BY <2>1, <2>2
<1>8. n + 1 \in 1 .. Len(hooks'[e]) /\ hooks'[e][n + 1] = x
  <2>1. n + 1 \in 1 .. n + 1
    BY <1>2
  <2> QED
    BY <1>3, <1>4, <2>1
<1>9. \A d \in Events : \A i \in 1 .. Len(hooks'[d]) :
        i \in 1 .. Len(hooks[d]) \/ (d = e /\ i = n + 1)
  BY <1>2, <1>5, <1>6
<1>10. ScriptTypeOK'
  <2>1. hooks' \in [Events -> Seq([n : Nat, fn : Fns])]
    BY <1>4a, <1>3 DEF ScriptInv, ScriptTypeOK, Entries
  <2>2. roots' \in [Fns -> Nat] /\ registered' \in Nat
    BY <1>1 DEF ScriptInv, ScriptTypeOK
  <2> QED
    BY <1>1, <2>1, <2>2 DEF ScriptInv, ScriptTypeOK
<1>11. Numbered'
  <2>1. ASSUME NEW b \in actions PROVE b.n <= registered + 1
    <3>1. b.n <= registered /\ b.n \in Nat
      BY DEF ScriptInv, Numbered, ScriptTypeOK
    <3> QED
      BY <1>2, <3>1
  <2>2. \A d \in Events : Len(hooks'[d]) <= registered + 1
    BY <1>2, <1>5, <1>6
  <2>3. ASSUME NEW d \in Events, NEW i \in 1 .. Len(hooks'[d])
        PROVE  hooks'[d][i].n <= registered + 1
    <3>1. CASE i \in 1 .. Len(hooks[d])
      <4>1. hooks'[d][i] = hooks[d][i]
        BY <1>7, <3>1
      <4>2. hooks[d][i].n \in Nat /\ hooks[d][i].n <= registered
        BY <1>5, <3>1
      <4> QED
        BY <1>2, <4>1, <4>2
    <3>2. CASE d = e /\ i = n + 1
      <4>1. hooks'[d][i].n = registered + 1
        BY <1>2, <1>8, <3>2
      <4> QED
        BY <1>2, <4>1
    <3> QED
      BY <1>9, <3>1, <3>2
  <2>4. ASSUME NEW d \in Events, NEW i \in 1 .. Len(hooks'[d]), NEW j \in 1 .. Len(hooks'[d]),
               hooks'[d][i].n = hooks'[d][j].n
        PROVE  i = j
    <3>1. ~(registered + 1 <= registered)
      BY <1>2
    <3>2. CASE i \in 1 .. Len(hooks[d]) /\ j \in 1 .. Len(hooks[d])
      BY <1>7, <2>4, <3>2 DEF ScriptInv, Numbered
    <3>3. CASE i \in 1 .. Len(hooks[d]) /\ d = e /\ j = n + 1
      BY <1>2, <1>5, <1>7, <1>8, <2>4, <3>1, <3>3
    <3>4. CASE j \in 1 .. Len(hooks[d]) /\ d = e /\ i = n + 1
      BY <1>2, <1>5, <1>7, <1>8, <2>4, <3>1, <3>4
    <3> QED
      BY <1>9, <3>2, <3>3, <3>4
  <2> QED
    BY <1>1, <2>1, <2>2, <2>3, <2>4 DEF Numbered
<1>12. Walk'
  <2> SUFFICES ASSUME calling = "hook" PROVE Walk'
    BY <1>1 DEF Walk
  <2> DEFINE d == dispatch.event
  <2>1. /\ d \in Events
        /\ IsInjective(dispatch.ran)
        /\ \A k \in DOMAIN dispatch.ran : dispatch.ran[k] <= registered
        /\ dispatch.at \in Nat
    BY DEF ScriptInv, ScriptTypeOK, Walk
  <2>2. \A k \in DOMAIN dispatch.ran : dispatch.ran[k] \in Nat
    <3>1. dispatch.ran \in Seq(Nat)
      BY DEF ScriptInv, ScriptTypeOK
    <3> QED
      BY <3>1, LenProperties, ElementOfSeq
  <2>3. \A k \in DOMAIN dispatch.ran : dispatch.ran[k] <= registered + 1
    BY <1>2, <2>1, <2>2
  <2>4. x.n \notin Range(dispatch.ran)
    <3>1. ~(registered + 1 <= registered)
      BY <1>2
    <3> QED
      BY <1>2, <2>1, <3>1 DEF Range
  <2>5. ASSUME NEW i \in 1 .. Len(hooks'[d]), i > dispatch.at
        PROVE  hooks'[d][i].n \notin Range(dispatch.ran)
    <3>1. CASE i \in 1 .. Len(hooks[d])
      <4>1. hooks[d][i].n \notin Range(dispatch.ran)
        BY <2>5, <3>1 DEF ScriptInv, Walk
      <4> QED
        BY <1>7, <2>1, <3>1, <4>1
    <3>2. CASE d = e /\ i = n + 1
      BY <1>8, <2>4, <3>2
    <3> QED
      BY <1>9, <2>1, <3>1, <3>2
  <2>6. ASSUME ~dispatch.shifted
        PROVE  /\ dispatch.at <= Len(hooks'[d])
               /\ \A i \in 1 .. Len(hooks'[d]) :
                    i <= dispatch.at => hooks'[d][i].n \in Range(dispatch.ran)
    <3>1. /\ dispatch.at <= Len(hooks[d])
          /\ \A i \in 1 .. Len(hooks[d]) :
               i <= dispatch.at => hooks[d][i].n \in Range(dispatch.ran)
      BY <2>6 DEF ScriptInv, Walk
    <3>2. dispatch.at <= Len(hooks'[d])
      BY <1>2, <1>5, <1>6, <2>1, <3>1
    <3>3. ASSUME NEW i \in 1 .. Len(hooks'[d]), i <= dispatch.at
          PROVE  hooks'[d][i].n \in Range(dispatch.ran)
      <4>1. i \in 1 .. Len(hooks[d])
        BY <1>5, <2>1, <3>1, <3>3
      <4> QED
        BY <1>7, <2>1, <3>1, <3>3, <4>1
    <3> QED
      BY <3>2, <3>3
  <2> QED
    BY <1>1, <2>1, <2>3, <2>5, <2>6 DEF Walk
<1>13. ASSUME NEW f \in Fns
       PROVE  roots'[f] = Cardinality({a \in actions' : a.fn = f}) + Cardinality(Listed(f)')
  <2>1. Listed(f) = Places(hooks, f) /\ Listed(f)' = Places(hooks', f)
    BY <1>10, <1>11, ListedByPlace, ListedByPlaceNext DEF ScriptInv, ByPlace
  <2>2. IsFiniteSet(Bound(f)) /\ IsFiniteSet(Listed(f))
    BY BoundFinite, ListedFinite DEF ScriptInv, ScriptTypeOK
  <2>3. Cardinality(Bound(f)) \in Nat /\ Cardinality(Listed(f)) \in Nat
    BY <2>2, FS_CardinalityType
  <2>4. roots[f] = Cardinality(Bound(f)) + Cardinality(Listed(f))
    BY DEF ScriptInv, RegisteredIsRooted, Bound
  <2>5. {a \in actions' : a.fn = f} = Bound(f)
    BY <1>1 DEF Bound
  <2>6. \A d \in Events, i \in Nat :
          <<d, i>> \in Places(hooks', f) <=>
            <<d, i>> \in Places(hooks, f) \/ (f = g /\ <<d, i>> = <<e, n + 1>>)
    <3> SUFFICES ASSUME NEW d \in Events, NEW i \in Nat
                 PROVE  i \in 1 .. Len(hooks'[d]) /\ hooks'[d][i].fn = f <=>
                          \/ i \in 1 .. Len(hooks[d]) /\ hooks[d][i].fn = f
                          \/ f = g /\ d = e /\ i = n + 1
      BY DEF Places
    <3>1. CASE i \in 1 .. Len(hooks[d])
      <4>1. ~(n + 1 \in 1 .. n)
        BY <1>2
      <4> QED
        BY <1>7, <3>1, <4>1
    <3>2. CASE i \notin 1 .. Len(hooks[d])
      BY <1>2, <1>8, <1>9, <3>2
    <3> QED
      BY <3>1, <3>2
  <2>7. Places(hooks', f) \subseteq Events \X Nat /\ Places(hooks, f) \subseteq Events \X Nat
    BY DEF Places
  <2>8. CASE f = g
    <3>1. <<e, n + 1>> \in Events \X Nat
      BY <1>2
    <3>2. Places(hooks', f) = Places(hooks, f) \cup {<<e, n + 1>>}
      <4> DEFINE T == Places(hooks, f) \cup {<<e, n + 1>>}
      <4>1. T \subseteq Events \X Nat
        BY <2>7, <3>1
      <4>2. \A d \in Events, i \in Nat : <<d, i>> \in Places(hooks', f) <=> <<d, i>> \in T
        BY <2>6, <2>8
      <4> HIDE DEF T
      <4>3. Places(hooks', f) = T
        BY <2>7, <4>1, <4>2, SamePlaces
      <4> QED
        BY <4>3 DEF T
    <3>3. <<e, n + 1>> \notin Places(hooks, f)
      <4>1. ~(n + 1 \in 1 .. n)
        BY <1>2
      <4> QED
        BY <4>1 DEF Places
    <3>4. Cardinality(Listed(f)') = Cardinality(Listed(f)) + 1
      <4> DEFINE P == Places(hooks, f)
      <4> DEFINE y == <<e, n + 1>>
      <4>1. IsFiniteSet(P) /\ y \notin P
        BY <2>1, <2>2, <3>3
      <4>2. Listed(f)' = P \cup {y} /\ Listed(f) = P
        BY <2>1, <3>2
      <4> HIDE DEF P, y
      <4>3. Cardinality(P \cup {y}) = Cardinality(P) + 1
        BY <4>1, FS_AddElement
      <4> QED
        BY <4>2, <4>3
    <3>5. roots'[f] = roots[f] + 1
      BY <1>1, <2>8 DEF ScriptInv, ScriptTypeOK
    <3>6. Cardinality({a \in actions' : a.fn = f}) = Cardinality(Bound(f))
      BY <2>5
    <3> QED
      BY <2>3, <2>4, <3>4, <3>5, <3>6
  <2>9. CASE f # g
    <3>1. Places(hooks', f) = Places(hooks, f)
      <4>1. \A d \in Events, i \in Nat :
              <<d, i>> \in Places(hooks', f) <=> <<d, i>> \in Places(hooks, f)
        BY <2>6, <2>9
      <4> QED
        BY <2>7, <4>1, SamePlaces
    <3>2. roots'[f] = roots[f]
      BY <1>1, <2>9 DEF ScriptInv, ScriptTypeOK
    <3>3. Cardinality({a \in actions' : a.fn = f}) = Cardinality(Bound(f))
      BY <2>5
    <3> QED
      BY <2>1, <2>4, <3>1, <3>2, <3>3
  <2> QED
    BY <2>8, <2>9
<1> QED
  BY <1>1, <1>10, <1>11, <1>12, <1>13 DEF ScriptInv, RegisteredIsRooted

-----------------------------------------------------------------------------
(* remove-hook: the place of the function goes, and the last of the list    *)
(* moves into it.                                                           *)
LEMMA ScriptInvRemoveHook ==
  ASSUME ScriptInv, NEW e \in Events, NEW g \in Fns, RemoveHook(e, g)
  PROVE  ScriptInv'
<1> DEFINE n == Len(hooks[e])
<1>1. PICK p \in IndexOf(e, g) :
        /\ hooks' = [hooks EXCEPT ![e] = Front([hooks[e] EXCEPT ![p] = Last(hooks[e])])]
        /\ dispatch' = [dispatch EXCEPT !.shifted =
                           @ \/ (e = dispatch.event /\ p <= dispatch.at)]
  BY DEF RemoveHook
<1>2. /\ roots' = [roots EXCEPT ![g] = @ - 1]
      /\ UNCHANGED <<chord, actions, maxActionSize, calling, registered>>
  BY DEF RemoveHook
<1> DEFINE shorter == Front([hooks[e] EXCEPT ![p] = Last(hooks[e])])
<1>3. hooks' = [hooks EXCEPT ![e] = shorter]
  BY <1>1
<1>4. /\ n \in Nat /\ registered \in Nat /\ hooks[e] \in Seq(Entries)
      /\ DOMAIN hooks = Events
  <2>1. registered \in Nat /\ DOMAIN hooks = Events
    BY DEF ScriptInv, ScriptTypeOK
  <2> QED
    BY <2>1, HooksTyped DEF ScriptInv
<1>5. p \in 1 .. n /\ hooks[e][p].fn = g
  BY HooksTyped DEF IndexOf, ScriptInv
<1>6. /\ shorter \in Seq(Entries) /\ Len(shorter) = n - 1
      /\ \A j \in 1 .. n - 1 : shorter[j] = IF j = p THEN hooks[e][n] ELSE hooks[e][j]
  BY <1>4, <1>5, LastTakesPlace
<1> HIDE DEF shorter
<1>7. \A d \in Events : hooks'[d] = IF d = e THEN shorter ELSE hooks[d]
  BY <1>3, <1>4
<1>8. \A d \in Events : /\ hooks[d] \in Seq(Entries)
                        /\ Len(hooks[d]) \in Nat /\ Len(hooks[d]) <= registered
                        /\ \A i \in 1 .. Len(hooks[d]) : /\ hooks[d][i].n \in Nat
                                                        /\ hooks[d][i].n <= registered
  BY HooksTyped DEF ScriptInv, Numbered, Entries
<1>9. /\ n \in 1 .. n /\ n - 1 \in Nat /\ 1 .. n - 1 \subseteq 1 .. n
      /\ \A i \in 1 .. n : i = n \/ i \in 1 .. n - 1
      /\ n \notin 1 .. n - 1
  BY <1>4, <1>5
<1>10. /\ Len(hooks'[e]) = n - 1
       /\ hooks'[e] \in Seq(Entries)
       /\ \A j \in 1 .. n - 1 : hooks'[e][j] = IF j = p THEN hooks[e][n] ELSE hooks[e][j]
  BY <1>6, <1>7
<1>11. \A d \in Events : d # e => hooks'[d] = hooks[d]
  BY <1>7
<1>12. \A d \in Events : \A i, j \in 1 .. Len(hooks[d]) : hooks[d][i].n = hooks[d][j].n => i = j
  BY DEF ScriptInv, Numbered
<1>13. Numbered'
  <2>1. \A d \in Events : Len(hooks'[d]) <= registered
    BY <1>4, <1>8, <1>10, <1>11
  <2>2. ASSUME NEW d \in Events, NEW i \in 1 .. Len(hooks'[d])
        PROVE  hooks'[d][i].n <= registered
    BY <1>8, <1>9, <1>10, <1>11
  <2>3. ASSUME NEW d \in Events, NEW i \in 1 .. Len(hooks'[d]), NEW j \in 1 .. Len(hooks'[d]),
               hooks'[d][i].n = hooks'[d][j].n
        PROVE  i = j
    <3>1. CASE d # e
      BY <1>11, <1>12, <2>3, <3>1
    <3>2. CASE d = e
      <4>1. i \in 1 .. n - 1 /\ j \in 1 .. n - 1
        BY <1>10, <3>2
      <4>2. \A k, l \in 1 .. n : hooks[e][k].n = hooks[e][l].n => k = l
        BY <1>12
      <4>3. i \in 1 .. n /\ j \in 1 .. n /\ i # n /\ j # n
        BY <1>9, <4>1
      <4> QED
        BY <1>9, <1>10, <2>3, <3>2, <4>1, <4>2, <4>3
    <3> QED
      BY <3>1, <3>2
  <2> QED
    BY <1>2, <2>1, <2>2, <2>3 DEF ScriptInv, Numbered
<1>14. hooks' \in [Events -> Seq([n : Nat, fn : Fns])]
  BY <1>3, <1>6 DEF ScriptInv, ScriptTypeOK, Entries
<1>15. dispatch' \in [event : Events \cup {None}, at : Nat, ran : Seq(Nat), shifted : BOOLEAN]
       /\ dispatch'.event = dispatch.event /\ dispatch'.at = dispatch.at
       /\ dispatch'.ran = dispatch.ran
       /\ (~dispatch'.shifted => ~dispatch.shifted)
       /\ (~dispatch'.shifted => ~(e = dispatch.event /\ p <= dispatch.at))
  <2>1. dispatch \in [event : Events \cup {None}, at : Nat, ran : Seq(Nat), shifted : BOOLEAN]
    BY DEF ScriptInv, ScriptTypeOK
  <2> DEFINE b == dispatch.shifted \/ (e = dispatch.event /\ p <= dispatch.at)
  <2>2. dispatch' = [dispatch EXCEPT !.shifted = b] /\ b \in BOOLEAN
    BY <1>1
  <2>3. (~b => ~dispatch.shifted) /\ (~b => ~(e = dispatch.event /\ p <= dispatch.at))
    OBVIOUS
  <2> HIDE DEF b
  <2>4. dispatch' \in [event : Events \cup {None}, at : Nat, ran : Seq(Nat), shifted : BOOLEAN]
       /\ dispatch'.event = dispatch.event /\ dispatch'.at = dispatch.at
       /\ dispatch'.ran = dispatch.ran /\ dispatch'.shifted = b
    BY <2>1, <2>2
  <2> QED
    BY <2>3, <2>4
<1>16. ASSUME calling = "hook"
       PROVE  Walk'
  <2> DEFINE d == dispatch.event
  <2> DEFINE ran == dispatch.ran
  <2>1. /\ d \in Events /\ IsInjective(ran)
        /\ \A k \in DOMAIN ran : ran[k] <= registered
        /\ \A i \in 1 .. Len(hooks[d]) : i > dispatch.at => hooks[d][i].n \notin Range(ran)
        /\ ~dispatch.shifted =>
             /\ dispatch.at <= Len(hooks[d])
             /\ \A i \in 1 .. Len(hooks[d]) :
                  i <= dispatch.at => hooks[d][i].n \in Range(ran)
    BY <1>16 DEF ScriptInv, Walk
  <2>2. dispatch.at \in Nat
    BY DEF ScriptInv, ScriptTypeOK
  <2>3. ASSUME NEW i \in 1 .. Len(hooks'[d]), i > dispatch.at
        PROVE  hooks'[d][i].n \notin Range(ran)
    <3>1. CASE d # e
      BY <1>11, <2>1, <2>3, <3>1
    <3>2. CASE d = e
      <4>1. i \in 1 .. n - 1 /\ i \in 1 .. n
        BY <1>9, <1>10, <3>2
      <4>2. i = p => n > dispatch.at
        BY <1>4, <2>2, <2>3, <4>1
      <4> QED
        BY <1>9, <1>10, <2>1, <2>3, <3>2, <4>1, <4>2
    <3> QED
      BY <3>1, <3>2
  <2>4. ASSUME ~dispatch'.shifted
        PROVE  /\ dispatch.at <= Len(hooks'[d])
               /\ \A i \in 1 .. Len(hooks'[d]) :
                    i <= dispatch.at => hooks'[d][i].n \in Range(ran)
    <3>1. /\ dispatch.at <= Len(hooks[d])
          /\ \A i \in 1 .. Len(hooks[d]) : i <= dispatch.at => hooks[d][i].n \in Range(ran)
          /\ ~(e = d /\ p <= dispatch.at)
      BY <1>15, <2>1, <2>4
    <3>2. CASE d # e
      BY <1>11, <2>1, <3>1, <3>2
    <3>3. CASE d = e
      <4>1. ~(p <= dispatch.at) /\ p \in 1 .. n
        BY <1>5, <3>1, <3>3
      <4>2. dispatch.at <= n - 1
        BY <1>4, <2>2, <4>1
      <4>3. ASSUME NEW i \in 1 .. n - 1, i <= dispatch.at
            PROVE  hooks'[e][i].n \in Range(ran)
        <5>1. i # p /\ i \in 1 .. n
          BY <1>9, <4>1, <4>3
        <5> QED
          BY <1>10, <3>1, <3>3, <4>3, <5>1
      <4> QED
        BY <1>10, <3>3, <4>2, <4>3
    <3> QED
      BY <3>2, <3>3
  <2> QED
    BY <1>2, <1>15, <2>1, <2>3, <2>4 DEF Walk
<1>17. Walk'
  BY <1>2, <1>16 DEF Walk
<1> DEFINE l == hooks[e][n].fn
<1>18. ASSUME NEW f \in Fns, NEW d \in Events, NEW i \in Nat
       PROVE  <<d, i>> \in Places(hooks', f) <=>
                \/ d # e /\ <<d, i>> \in Places(hooks, f)
                \/ /\ d = e /\ i \in 1 .. n /\ i # n
                   /\ IF i = p THEN l = f ELSE <<d, i>> \in Places(hooks, f)
  <2>1. i \in 1 .. n - 1 <=> i \in 1 .. n /\ i # n
    BY <1>9
  <2>2. CASE d # e
    BY <1>11, <2>2 DEF Places
  <2>3. CASE d = e
    BY <1>10, <2>1, <2>3 DEF Places
  <2> QED
    BY <2>2, <2>3
<1>19. \A f \in Fns : /\ Places(hooks', f) \subseteq Events \X Nat
                      /\ Places(hooks, f) \subseteq Events \X Nat
  BY DEF Places
<1>20. /\ <<e, p>> \in Events \X Nat /\ <<e, n>> \in Events \X Nat
       /\ \A f \in Fns : <<e, n>> \in Places(hooks, f) <=> l = f
       /\ \A f \in Fns : <<e, p>> \in Places(hooks, f) <=> g = f
  BY <1>4, <1>5, <1>9 DEF Places
<1>21. \A f \in Fns, i \in Nat : <<e, i>> \in Places(hooks, f) => i \in 1 .. n
  BY DEF Places
<1> HIDE DEF l, n
<1>22. \A f \in Fns, d \in Events, i \in Nat :
         <<d, i>> \in Places(hooks', f) <=>
            \/ <<d, i>> \in Places(hooks, f) /\ <<d, i>> # <<e, n>> /\ <<d, i>> # <<e, p>>
            \/ <<d, i>> = <<e, p>> /\ p # n /\ l = f
  BY <1>5, <1>18, <1>20, <1>21 DEF n
<1>23. ScriptTypeOK => \A f \in Fns : roots[f] \in Nat
  BY DEF ScriptTypeOK
<1>24. ASSUME NEW f \in Fns
       PROVE  IF f = g
              THEN \E y \in Places(hooks, f) : Places(hooks', f) = Places(hooks, f) \ {y}
              ELSE \/ Places(hooks', f) = Places(hooks, f)
                   \/ \E y \in Places(hooks, f) : \E z :
                        /\ z \notin Places(hooks, f)
                        /\ Places(hooks', f) = (Places(hooks, f) \ {y}) \cup {z}
  <2> DEFINE P == Places(hooks, f)
  <2> DEFINE last == <<e, n>>
  <2> DEFINE gone == <<e, p>>
  <2>1. /\ P \subseteq Events \X Nat /\ last \in Events \X Nat /\ gone \in Events \X Nat
        /\ Places(hooks', f) \in SUBSET (Events \X Nat)
    BY <1>19, <1>20
  <2>2. \A d \in Events, i \in Nat :
          <<d, i>> \in Places(hooks', f) <=>
             \/ <<d, i>> \in P /\ <<d, i>> # last /\ <<d, i>> # gone
             \/ <<d, i>> = gone /\ p # n /\ l = f
    BY <1>22
  <2>3. (last \in P <=> l = f) /\ (gone \in P <=> g = f) /\ (last = gone <=> p = n)
    BY <1>20
  <2> HIDE DEF P, last, gone
  <2>4. CASE l = g
    <3>1. CASE f = g
      <4>1. P \ {last} \in SUBSET (Events \X Nat)
        BY <2>1
      <4>2. \A d \in Events, i \in Nat :
              <<d, i>> \in Places(hooks', f) <=> <<d, i>> \in P \ {last}
        BY <2>2, <2>3, <2>4, <3>1
      <4>3. Places(hooks', f) = P \ {last}
        BY <2>1, <4>1, <4>2, SamePlaces
      <4> QED
        BY <2>3, <2>4, <3>1, <4>3 DEF P
    <3>2. CASE f # g
      <4>1. \A d \in Events, i \in Nat : <<d, i>> \in Places(hooks', f) <=> <<d, i>> \in P
        BY <2>2, <2>3, <2>4, <3>2
      <4>2. Places(hooks', f) = P
        BY <2>1, <4>1, SamePlaces
      <4> QED
        BY <3>2, <4>2 DEF P
    <3> QED
      BY <3>1, <3>2
  <2>5. CASE l # g
    <3>1. p # n
      BY <1>5, <2>5 DEF l
    <3>2. CASE f = g
      <4>1. P \ {gone} \in SUBSET (Events \X Nat)
        BY <2>1
      <4>2. \A d \in Events, i \in Nat :
              <<d, i>> \in Places(hooks', f) <=> <<d, i>> \in P \ {gone}
        BY <2>2, <2>3, <2>5, <3>2
      <4>3. Places(hooks', f) = P \ {gone}
        BY <2>1, <4>1, <4>2, SamePlaces
      <4> QED
        BY <2>3, <3>2, <4>3 DEF P
    <3>3. CASE f # g /\ f = l
      <4>1. (P \ {last}) \cup {gone} \in SUBSET (Events \X Nat)
        BY <2>1
      <4>2. \A d \in Events, i \in Nat :
              <<d, i>> \in Places(hooks', f) <=> <<d, i>> \in (P \ {last}) \cup {gone}
        BY <2>2, <2>3, <3>1, <3>3
      <4>3. Places(hooks', f) = (P \ {last}) \cup {gone}
        BY <2>1, <4>1, <4>2, SamePlaces
      <4> QED
        BY <2>3, <3>3, <4>3 DEF P
    <3>4. CASE f # g /\ f # l
      <4>1. \A d \in Events, i \in Nat : <<d, i>> \in Places(hooks', f) <=> <<d, i>> \in P
        BY <2>2, <2>3, <3>4
      <4>2. Places(hooks', f) = P
        BY <2>1, <4>1, SamePlaces
      <4> QED
        BY <3>4, <4>2 DEF P
    <3> QED
      BY <3>2, <3>3, <3>4
  <2> QED
    BY <2>4, <2>5
<1>25. ASSUME NEW f \in Fns
       PROVE  /\ IsFiniteSet(Bound(f)) /\ IsFiniteSet(Listed(f))
              /\ Cardinality(Bound(f)) \in Nat /\ Cardinality(Listed(f)) \in Nat
              /\ roots[f] = Cardinality(Bound(f)) + Cardinality(Listed(f))
              /\ Listed(f) = Places(hooks, f)
  <2>1. IsFiniteSet(Bound(f)) /\ IsFiniteSet(Listed(f))
    BY BoundFinite, ListedFinite DEF ScriptInv, ScriptTypeOK
  <2>2. Cardinality(Bound(f)) \in Nat /\ Cardinality(Listed(f)) \in Nat
    BY <2>1, FS_CardinalityType
  <2>3. roots[f] = Cardinality(Bound(f)) + Cardinality(Listed(f))
    BY DEF ScriptInv, RegisteredIsRooted, Bound
  <2>4. Listed(f) = Places(hooks, f)
    BY ListedByPlace DEF ScriptInv, ByPlace
  <2> QED
    BY <2>1, <2>2, <2>3, <2>4
<1>26. ASSUME NEW f \in Fns
       PROVE  IF f = g
              THEN /\ Cardinality(Places(hooks', f)) \in Nat
                   /\ Cardinality(Listed(f)) = Cardinality(Places(hooks', f)) + 1
              ELSE Cardinality(Places(hooks', f)) = Cardinality(Listed(f))
  <2> DEFINE P == Places(hooks, f)
  <2> DEFINE Q == Places(hooks', f)
  <2>1. IsFiniteSet(P) /\ Cardinality(P) \in Nat /\ Listed(f) = P
    BY <1>25
  <2>2. IF f = g
        THEN \E y \in P : Q = P \ {y}
        ELSE Q = P \/ \E y \in P : \E z : z \notin P /\ Q = (P \ {y}) \cup {z}
    BY <1>24
  <2> HIDE DEF P, Q
  <2>3. ASSUME NEW y \in P
        PROVE  /\ IsFiniteSet(P \ {y}) /\ Cardinality(P \ {y}) = Cardinality(P) - 1
               /\ Cardinality(P \ {y}) \in Nat
    <3>1. IsFiniteSet(P \ {y}) /\ Cardinality(P \ {y}) = Cardinality(P) - 1
      BY <2>1, FS_RemoveElement
    <3> QED
      BY <3>1, FS_CardinalityType
  <2>4. ASSUME f = g
        PROVE  Cardinality(Q) \in Nat /\ Cardinality(P) = Cardinality(Q) + 1
    <3>1. PICK y \in P : Q = P \ {y}
      BY <2>2, <2>4
    <3>2. /\ Cardinality(P \ {y}) \in Nat
          /\ Cardinality(P \ {y}) = Cardinality(P) - 1
      BY <2>3
    <3>3. Cardinality(Q) \in Nat /\ Cardinality(Q) = Cardinality(P) - 1
      BY <3>1, <3>2
    <3> QED
      BY <2>1, <3>3
  <2>5. ASSUME f # g, Q # P
        PROVE  Cardinality(Q) = Cardinality(P)
    <3>0. PICK y \in P : \E z : z \notin P /\ Q = (P \ {y}) \cup {z}
      BY <2>2, <2>5
    <3>1. PICK z : z \notin P /\ Q = (P \ {y}) \cup {z}
      BY <3>0
    <3>2. IsFiniteSet(P \ {y}) /\ z \notin P \ {y}
      BY <2>3, <3>1
    <3>3. Cardinality((P \ {y}) \cup {z}) = Cardinality(P \ {y}) + 1
      BY <3>2, FS_AddElement
    <3>4. Cardinality(P \ {y}) = Cardinality(P) - 1
      BY <2>3
    <3>5. Cardinality(Q) = Cardinality(P \ {y}) + 1
      BY <3>1, <3>3
    <3> QED
      BY <2>1, <3>4, <3>5
  <2>6. Q = Places(hooks', f)
    BY DEF Q
  <2> QED
    BY <2>1, <2>4, <2>5, <2>6
<1>27. roots' \in [Fns -> Nat]
  <2>1. roots[g] - 1 \in Nat
    <3>1. Cardinality(Listed(g)) = Cardinality(Places(hooks', g)) + 1
          /\ Cardinality(Places(hooks', g)) \in Nat
      BY <1>26
    <3> QED
      BY <1>25, <3>1
  <2> QED
    BY <1>2, <2>1 DEF ScriptInv, ScriptTypeOK
<1>28. ScriptTypeOK'
  BY <1>2, <1>14, <1>15, <1>27 DEF ScriptInv, ScriptTypeOK
<1>29. ASSUME NEW f \in Fns
       PROVE  roots'[f] = Cardinality({a \in actions' : a.fn = f}) + Cardinality(Listed(f)')
  <2>1. Cardinality(Listed(f)') = Cardinality(Places(hooks', f))
    BY <1>13, <1>28, ListedByPlaceNext
  <2>2. Cardinality({a \in actions' : a.fn = f}) = Cardinality(Bound(f))
    BY <1>2 DEF Bound
  <2>3. roots'[f] = IF f = g THEN roots[f] - 1 ELSE roots[f]
    BY <1>2 DEF ScriptInv, ScriptTypeOK
  <2>4. /\ Cardinality(Bound(f)) \in Nat /\ Cardinality(Listed(f)) \in Nat
        /\ roots[f] = Cardinality(Bound(f)) + Cardinality(Listed(f))
    BY <1>25
  <2>5. CASE f = g
    <3>1. /\ Cardinality(Places(hooks', f)) \in Nat
          /\ Cardinality(Listed(f)) = Cardinality(Places(hooks', f)) + 1
      BY <1>26, <2>5
    <3> QED
      BY <2>1, <2>2, <2>3, <2>4, <2>5, <3>1
  <2>6. CASE f # g
    <3>1. Cardinality(Places(hooks', f)) = Cardinality(Listed(f))
      BY <1>26, <2>6
    <3> QED
      BY <2>1, <2>2, <2>3, <2>4, <2>6, <3>1
  <2> QED
    BY <2>5, <2>6
<1> QED
  BY <1>2, <1>13, <1>17, <1>28, <1>29 DEF ScriptInv, RegisteredIsRooted

-----------------------------------------------------------------------------
(* The walk of a list.                                                      *)
LEMMA RunsNext ==
  ASSUME NEW ran \in Seq(Nat), NEW m \in Nat, IsInjective(ran), m \notin Range(ran)
  PROVE  /\ Append(ran, m) \in Seq(Nat)
         /\ IsInjective(Append(ran, m))
         /\ Range(Append(ran, m)) = Range(ran) \cup {m}
<1> DEFINE longer == Append(ran, m)
<1>1. /\ longer \in Seq(Nat) /\ Len(longer) = Len(ran) + 1
      /\ \A k \in 1 .. Len(ran) : longer[k] = ran[k]
      /\ longer[Len(ran) + 1] = m
  BY AppendProperties
<1>2. /\ Len(ran) \in Nat /\ DOMAIN ran = 1 .. Len(ran)
      /\ DOMAIN longer = 1 .. Len(ran) + 1
  BY <1>1, LenProperties
<1> HIDE DEF longer
<1>3. 1 .. Len(ran) + 1 = (1 .. Len(ran)) \cup {Len(ran) + 1}
  BY <1>2
<1>4. \A k \in DOMAIN ran : ran[k] # m
  BY DEF Range
<1>5. IsInjective(longer)
  BY <1>1, <1>2, <1>3, <1>4 DEF IsInjective
<1>6. Range(longer) = Range(ran) \cup {m}
  BY <1>1, <1>2, <1>3 DEF Range
<1> QED
  BY <1>1, <1>5, <1>6 DEF longer

LEMMA ScriptInvWalk ==
  ASSUME ScriptInv, (\E e \in Events : DispatchHook(e)) \/ HookReturns
  PROVE  ScriptInv'
<1>1. UNCHANGED <<chord, actions, maxActionSize, hooks, roots, registered>>
  BY DEF DispatchHook, HookReturns
<1>2. /\ dispatch \in [event : Events \cup {None}, at : Nat, ran : Seq(Nat), shifted : BOOLEAN]
      /\ registered \in Nat
  BY DEF ScriptInv, ScriptTypeOK
<1>3. \A d \in Events : /\ hooks[d] \in Seq(Entries) /\ Len(hooks[d]) \in Nat
                        /\ Len(hooks[d]) <= registered
                        /\ \A i \in 1 .. Len(hooks[d]) : /\ hooks[d][i].n \in Nat
                                                        /\ hooks[d][i].n <= registered
  BY HooksTyped DEF ScriptInv, Numbered, Entries
<1>4. \A d \in Events : \A i, j \in 1 .. Len(hooks[d]) : hooks[d][i].n = hooks[d][j].n => i = j
  BY DEF ScriptInv, Numbered
(* The next place of the walk is called.                                    *)
<1>5. ASSUME NEW e \in Events, NEW i \in 1 .. Len(hooks[e]), NEW ran \in Seq(Nat),
             IsInjective(ran), \A m \in Range(ran) : m <= registered,
             \A j \in 1 .. Len(hooks[e]) : j >= i => hooks[e][j].n \notin Range(ran),
             ~dispatch.shifted =>
               \A j \in 1 .. Len(hooks[e]) : j < i => hooks[e][j].n \in Range(ran),
             RunHook(e, i, ran), calling' = "hook"
      PROVE  ScriptInv'
  <2> DEFINE m == hooks[e][i].n
  <2>1. m \in Nat /\ m <= registered /\ i \in Nat /\ i <= Len(hooks[e])
    BY <1>3
  <2>2. i >= i
    BY <2>1
  <2>3. m \notin Range(ran)
    BY <1>5, <2>2
  <2> DEFINE longer == Append(ran, m)
  <2>4. longer \in Seq(Nat) /\ IsInjective(longer) /\ Range(longer) = Range(ran) \cup {m}
    BY <1>5, <2>1, <2>3, RunsNext
  <2>5. dispatch' = [dispatch EXCEPT !.event = e, !.at = i, !.ran = longer]
    BY <1>5 DEF RunHook
  <2> HIDE DEF longer
  <2>6. /\ dispatch' \in [event : Events \cup {None}, at : Nat, ran : Seq(Nat), shifted : BOOLEAN]
        /\ dispatch'.event = e /\ dispatch'.at = i /\ dispatch'.ran = longer
        /\ dispatch'.shifted = dispatch.shifted
    BY <1>2, <2>1, <2>4, <2>5
  <2>7. ScriptTypeOK'
    BY <1>1, <1>5, <2>6 DEF ScriptInv, ScriptTypeOK
  <2>8. \A k \in DOMAIN longer : longer[k] <= registered
    <3>1. \A x \in Range(longer) : x <= registered
      BY <1>5, <2>1, <2>4
    <3> QED
      BY <3>1 DEF Range
  <2>9. ASSUME NEW j \in 1 .. Len(hooks[e]), j > i
        PROVE  hooks[e][j].n \notin Range(longer)
    <3>1. j >= i /\ j # i
      BY <2>1, <2>9
    <3>2. hooks[e][j].n # m
      BY <1>4, <3>1
    <3>3. hooks[e][j].n \notin Range(ran)
      BY <1>5, <3>1
    <3> QED
      BY <2>4, <3>2, <3>3
  <2>10. ASSUME ~dispatch.shifted, NEW j \in 1 .. Len(hooks[e]), j <= i
         PROVE  hooks[e][j].n \in Range(longer)
    <3>1. j = i \/ j < i
      BY <2>1, <2>10
    <3>2. CASE j = i
      BY <2>4, <3>2
    <3>3. CASE j < i
      BY <1>5, <2>4, <2>10, <3>3
    <3> QED
      BY <3>1, <3>2, <3>3
  <2>11. Walk'
    BY <1>1, <2>1, <2>4, <2>6, <2>8, <2>9, <2>10 DEF Walk
  <2> QED
    BY <1>1, <2>7, <2>11, NothingRegistered
<1>6. ASSUME NEW e \in Events, DispatchHook(e)
      PROVE  ScriptInv'
  <2>1. RunHook(e, 1, <<>>) /\ calling' = "hook" /\ hooks[e] # <<>>
    BY <1>6 DEF DispatchHook
  <2>2. 1 \in 1 .. Len(hooks[e])
    BY <1>3, <2>1
  <2>3. <<>> \in Seq(Nat) /\ IsInjective(<<>>) /\ Range(<<>>) = {}
    BY DEF IsInjective, Range
  <2>4. \A j \in 1 .. Len(hooks[e]) : ~(j < 1)
    BY <1>3
  <2> QED
    BY <1>5, <2>1, <2>2, <2>3, <2>4
<1>7. ASSUME HookReturns
      PROVE  ScriptInv'
  <2> DEFINE d == dispatch.event
  <2> DEFINE ran == dispatch.ran
  <2>1. /\ d \in Events /\ IsInjective(ran)
        /\ \A k \in DOMAIN ran : ran[k] <= registered
        /\ \A i \in 1 .. Len(hooks[d]) : i > dispatch.at => hooks[d][i].n \notin Range(ran)
        /\ ~dispatch.shifted =>
             \A i \in 1 .. Len(hooks[d]) : i <= dispatch.at => hooks[d][i].n \in Range(ran)
    BY <1>7 DEF HookReturns, ScriptInv, Walk
  <2>2. CASE More
    <3>1. RunHook(d, dispatch.at + 1, ran) /\ calling' = "hook"
      BY <1>7, <2>2 DEF HookReturns
    <3>2. dispatch.at \in Nat /\ ran \in Seq(Nat)
      BY <1>2
    <3>3. dispatch.at + 1 \in 1 .. Len(hooks[d])
      BY <1>3, <2>1, <2>2, <3>2 DEF More
    <3>4. \A m \in Range(ran) : m <= registered
      BY <2>1 DEF Range
    <3>5. 1 .. Len(hooks[d]) \subseteq Nat
      BY <1>3, <2>1
    <3>6. ASSUME NEW j \in 1 .. Len(hooks[d]), j >= dispatch.at + 1
          PROVE  hooks[d][j].n \notin Range(ran)
      <4>1. j > dispatch.at
        BY <3>2, <3>5, <3>6
      <4> QED
        BY <2>1, <4>1
    <3>7. ASSUME ~dispatch.shifted, NEW j \in 1 .. Len(hooks[d]), j < dispatch.at + 1
          PROVE  hooks[d][j].n \in Range(ran)
      <4>1. j <= dispatch.at
        BY <3>2, <3>5, <3>7
      <4> QED
        BY <2>1, <3>7, <4>1
    <3> QED
      BY <1>5, <2>1, <3>1, <3>2, <3>3, <3>4, <3>6, <3>7
  <2>3. CASE ~More
    <3>1. dispatch' = Idle /\ calling' = None
      BY <1>7, <2>3 DEF HookReturns
    <3>2. Idle \in [event : Events \cup {None}, at : Nat, ran : Seq(Nat), shifted : BOOLEAN]
      BY DEF Idle
    <3>3. ScriptTypeOK'
      BY <1>1, <3>1, <3>2 DEF ScriptInv, ScriptTypeOK
    <3>4. Walk'
      BY <3>1, ScriptAssumption DEF Walk
    <3> QED
      BY <1>1, <3>3, <3>4, NothingRegistered
  <2> QED
    BY <2>2, <2>3
<1> QED
  BY <1>6, <1>7

-----------------------------------------------------------------------------
LEMMA ScriptInvStep == ScriptInv /\ [ScriptNext]_scriptVars => ScriptInv'
<1> SUFFICES ASSUME ScriptInv, [ScriptNext]_scriptVars PROVE ScriptInv'
  OBVIOUS
<1>1. CASE UNCHANGED scriptVars
  <2>1. UNCHANGED <<chord, actions, maxActionSize, hooks, roots, calling, dispatch, registered>>
    BY <1>1 DEF scriptVars
  <2>2. ScriptTypeOK' /\ Walk'
    BY <2>1 DEF ScriptInv, ScriptTypeOK, Walk
  <2> QED
    BY <2>1, <2>2, NothingRegistered
<1>2. ASSUME NEW f \in Fns, NEW str \in Strings, SetKey(str, f)
      PROVE  ScriptInv'
  BY <1>2, ScriptInvSetKey
<1>3. ASSUME NEW f \in Fns, NEW e \in Events, AddHook(e, f)
      PROVE  ScriptInv'
  BY <1>3, ScriptInvAddHook
<1>4. ASSUME NEW f \in Fns, NEW e \in Events, RemoveHook(e, f)
      PROVE  ScriptInv'
  BY <1>4, ScriptInvRemoveHook
<1>5. ASSUME (\E s \in Syms, latched \in BOOLEAN : OnKeyboardInput(s, latched))
               \/ ActionReturns \/ LoadFileReturns
      PROVE  ScriptInv'
  BY <1>5, ScriptInvCalls
<1>6. ASSUME (\E e \in Events : DispatchHook(e)) \/ HookReturns
      PROVE  ScriptInv'
  BY <1>6, ScriptInvWalk
<1> QED
  BY <1>1, <1>2, <1>3, <1>4, <1>5, <1>6 DEF ScriptNext

LEMMA ScriptAlways == ScriptSpec => []ScriptInv
BY ScriptInvInit, ScriptInvStep, PTL DEF ScriptSpec

(* Every function of the script is rooted exactly once for each hotkey and  *)
(* each place of a hook list that calls it, whatever add-hook, remove-hook  *)
(* and set-key did, from the configuration or from inside a running hook:   *)
(* the collector frees nothing that can still be called, and keeps nothing  *)
(* for a hook that was removed.                                             *)
THEOREM RootedWhileRegistered == ScriptSpec => []RegisteredIsRooted
<1>1. ScriptInv => RegisteredIsRooted
  BY DEF ScriptInv
<1> QED
  BY <1>1, ScriptAlways, PTL

(* The walk of a list of hooks runs no registration twice, and leaves none  *)
(* that is still listed unrun unless a callback removed one at or before    *)
(* the place the walk had come to.                                          *)
THEOREM WalkRunsEveryHook == ScriptSpec => EveryHookRuns
<1>1. ASSUME ScriptInv, [ScriptNext]_scriptVars, calling = "hook", calling' # "hook"
      PROVE  /\ IsInjective(dispatch.ran)
             /\ ~dispatch.shifted =>
                  \A i \in DOMAIN hooks[dispatch.event] :
                    hooks[dispatch.event][i].n \in Range(dispatch.ran)
  <2>1. "hook" \notin Syms /\ "hook" # None /\ "hook" # "config"
    BY ScriptAssumption
  <2>2. ~More
    BY <1>1, <2>1 DEF ScriptNext, SetKey, AddHook, RemoveHook, OnKeyboardInput, FeedHit,
                     FeedMiss, DispatchHook, ActionReturns, HookReturns, LoadFileReturns,
                     scriptVars
  <2>3. dispatch.event \in Events /\ dispatch.at \in Nat
    BY <1>1 DEF ScriptInv, Walk, ScriptTypeOK
  <2>4. /\ Len(hooks[dispatch.event]) \in Nat
        /\ DOMAIN hooks[dispatch.event] = 1 .. Len(hooks[dispatch.event])
    BY <1>1, <2>3, HooksTyped DEF ScriptInv
  <2>5. \A i \in 1 .. Len(hooks[dispatch.event]) : i <= dispatch.at
    BY <2>2, <2>3, <2>4 DEF More
  <2> QED
    BY <1>1, <2>4, <2>5 DEF ScriptInv, Walk
<1>2. ScriptInv /\ [ScriptNext]_scriptVars =>
        [ calling = "hook" /\ calling' # "hook" =>
            /\ IsInjective(dispatch.ran)
            /\ ~dispatch.shifted =>
                 \A i \in DOMAIN hooks[dispatch.event] :
                   hooks[dispatch.event][i].n \in Range(dispatch.ran) ]_scriptVars
  BY <1>1
<1> QED
  BY <1>2, ScriptAlways, PTL DEF ScriptSpec, EveryHookRuns

(* The variables keep their types.                                          *)
THEOREM ScriptTypeCorrect == ScriptSpec => []ScriptTypeOK
<1>1. ScriptInv => ScriptTypeOK
  BY DEF ScriptInv
<1> QED
  BY <1>1, ScriptAlways, PTL

-----------------------------------------------------------------------------
(* The chord.                                                               *)

(* A press that hits an action without a key takes nothing off the chord:   *)
(* the string the action was set with had no key that parse_hotkey_string() *)
(* finds.                                                                   *)
HitsKeyless(keys) ==
  \E a \in actions, latched \in BOOLEAN :
    a \in FirstMatches(keys, latched) /\ a.sequence = <<>>

(* feed() remembers one more key only to fill the longest sequence, unless  *)
(* the press hit such an action.                                            *)
ChordGrowsToFit ==
  [][Len(chord') > Len(chord) =>
       /\ Len(chord') = Len(chord) + 1
       /\ Len(chord') <= maxActionSize \/ HitsKeyless(chord')]_scriptVars

(* So that it holds no more than that while no such action is set.          *)
ChordFits ==
  Len(chord) <= maxActionSize \/ \E a \in actions : a.sequence = <<>>

LEMMA ChordTyped ==
  ASSUME ScriptInv
  PROVE  /\ chord \in Seq(Syms) /\ Len(chord) \in Nat /\ maxActionSize \in Nat
         /\ \A a \in actions : a.sequence \in Seq(Syms) /\ Len(a.sequence) \in Nat
BY LenProperties DEF ScriptInv, ScriptTypeOK

(* What a press does to the chord.                                          *)
LEMMA HitTakesKeys ==
  ASSUME ScriptInv, NEW s \in Syms, NEW latched \in BOOLEAN, FeedHit(s, latched)
  PROVE  \/ Len(chord') <= Len(chord)
         \/ Len(chord') = Len(chord) + 1 /\ HitsKeyless(chord')
<1> DEFINE keys == Append(chord, s)
<1>1. PICK a \in actions : /\ a \in FirstMatches(keys, latched)
                           /\ chord' = SubSeq(keys, 1, Len(keys) - Len(a.sequence))
  BY DEF FeedHit, FirstMatches
<1>2. /\ keys \in Seq(Syms) /\ Len(keys) = Len(chord) + 1 /\ Len(chord) \in Nat
      /\ a.sequence \in Seq(Syms) /\ Len(a.sequence) \in Nat
  BY ChordTyped
<1> HIDE DEF keys
<1>3. CASE Len(a.sequence) = 0
  <2>1. a.sequence = <<>>
    BY <1>2, <1>3, EmptySeq
  <2>2. chord' = SubSeq(keys, 1, Len(keys))
    BY <1>1, <1>2, <1>3
  <2>3. chord' = keys
    BY <1>2, <2>2, SubSeqFull
  <2> QED
    BY <1>1, <1>2, <2>1, <2>3 DEF HitsKeyless
<1>4. CASE Len(a.sequence) # 0
  <2>1. PICK l \in Nat, c \in Nat : l = Len(a.sequence) /\ l >= 1 /\ c = Len(chord)
    BY <1>2, <1>4
  <2> DEFINE m == c + 1 - l
  <2>2. /\ m \in Int /\ m <= c /\ 1 .. m \subseteq 1 .. c + 1 /\ chord' = SubSeq(keys, 1, m)
    <3>1. c + 1 - l \in Int /\ c + 1 - l <= c /\ 1 .. c + 1 - l \subseteq 1 .. c + 1
      <4>1. l >= 1
        BY <2>1
      <4>2. c + 1 - l \in Int /\ c + 1 - l <= c
        BY <4>1
      <4>3. 1 .. c + 1 - l \subseteq 1 .. c + 1
        BY <4>1
      <4> QED
        BY <4>2, <4>3
    <3>2. Len(keys) - Len(a.sequence) = m
      BY <1>2, <2>1
    <3> QED
      BY <1>1, <3>1, <3>2
  <2> HIDE DEF m
  <2>3. \A i \in 1 .. m : keys[i] \in Syms
    BY <1>2, <2>1, <2>2, ElementOfSeq
  <2>4. Len(SubSeq(keys, 1, m)) = IF 1 <= m THEN m - 1 + 1 ELSE 0
    BY <2>2, <2>3, SubSeqProperties, 1 \in Int
  <2> QED
    BY <2>1, <2>2, <2>4
<1> QED
  BY <1>3, <1>4

LEMMA MissFillsChord ==
  ASSUME ScriptInv, NEW s \in Syms, NEW latched \in BOOLEAN, FeedMiss(s, latched)
  PROVE  \/ Len(chord') = Len(chord)
         \/ Len(chord') = Len(chord) + 1 /\ Len(chord') <= maxActionSize
<1> DEFINE keys == Append(chord, s)
<1>1. keys \in Seq(Syms) /\ keys # <<>> /\ Len(keys) = Len(chord) + 1
  BY ChordTyped
<1>2. chord' = IF Len(keys) > maxActionSize THEN Tail(keys) ELSE keys
  BY DEF FeedMiss
<1>3. Len(chord) \in Nat /\ maxActionSize \in Nat
  BY ChordTyped
<1> HIDE DEF keys
<1>4. Len(Tail(keys)) = Len(keys) - 1
  BY <1>1, HeadTailProperties
<1> QED
  BY <1>1, <1>2, <1>3, <1>4

(* All that a step does to the chord and the actions.                       *)
LEMMA ChordStep ==
  ASSUME ScriptInv, [ScriptNext]_scriptVars
  PROVE  /\ actions \subseteq actions'
         /\ maxActionSize' \in Nat /\ maxActionSize <= maxActionSize'
         /\ \/ Len(chord') <= Len(chord)
            \/ /\ Len(chord') = Len(chord) + 1
               /\ Len(chord') <= maxActionSize \/ HitsKeyless(chord')
<1>1. ASSUME NEW str \in Strings, NEW f \in Fns, SetKey(str, f)
      PROVE  /\ actions \subseteq actions' /\ chord' = chord
             /\ maxActionSize' \in Nat /\ maxActionSize <= maxActionSize'
  <2> DEFINE new == [n |-> registered + 1, fn |-> f,
                     sequence |-> SequenceOf(str), modifiers |-> ModifiersOf(str)]
  <2>1. /\ actions' = actions \cup {new} /\ chord' = chord
        /\ maxActionSize' = IF Len(new.sequence) > maxActionSize
                            THEN Len(new.sequence) ELSE maxActionSize
    BY <1>1 DEF SetKey, Add
  <2>2. Len(new.sequence) \in Nat
    <3>1. SequenceOf(str) = <<Last(str)>> \/ SequenceOf(str) = <<>>
      BY DEF SequenceOf
    <3>2. Len(SequenceOf(str)) \in Nat
      BY <3>1
    <3> QED
      BY <3>2
  <2> HIDE DEF new
  <2> QED
    BY <2>1, <2>2, ChordTyped
<1>2. ASSUME NEW s \in Syms, NEW latched \in BOOLEAN, OnKeyboardInput(s, latched)
      PROVE  /\ UNCHANGED <<actions, maxActionSize>>
             /\ \/ Len(chord') <= Len(chord)
                \/ /\ Len(chord') = Len(chord) + 1
                   /\ Len(chord') <= maxActionSize \/ HitsKeyless(chord')
  <2>1. CASE FeedHit(s, latched)
    BY <2>1, HitTakesKeys DEF FeedHit
  <2>2. CASE FeedMiss(s, latched)
    BY <2>2, MissFillsChord, ChordTyped DEF FeedMiss
  <2> QED
    BY <1>2, <2>1, <2>2 DEF OnKeyboardInput
<1>3. CASE UNCHANGED <<chord, actions, maxActionSize>>
  BY <1>3, ChordTyped
<1>4. maxActionSize \in Nat /\ Len(chord) \in Nat
  BY ChordTyped
<1> QED
  BY <1>1, <1>2, <1>3, <1>4
     DEF ScriptNext, AddHook, RemoveHook, DispatchHook, ActionReturns, HookReturns,
         LoadFileReturns, scriptVars

(* Whatever is pressed and whatever hotkeys are set, with a key or without: *)
(* the chord grows by one key at a time, to what the longest sequence needs *)
(* and no further, but for a press that hits a hotkey without a key, which  *)
(* it keeps.                                                                *)
THEOREM ChordGrows == ScriptSpec => ChordGrowsToFit
<1>1. ScriptInv /\ [ScriptNext]_scriptVars =>
        [Len(chord') > Len(chord) =>
           /\ Len(chord') = Len(chord) + 1
           /\ Len(chord') <= maxActionSize \/ HitsKeyless(chord')]_scriptVars
  <2>1. SUFFICES ASSUME ScriptInv, [ScriptNext]_scriptVars, Len(chord') > Len(chord)
                 PROVE  /\ Len(chord') = Len(chord) + 1
                        /\ Len(chord') <= maxActionSize \/ HitsKeyless(chord')
    OBVIOUS
  <2>2. ~(Len(chord') <= Len(chord))
    <3>1. ScriptInv'
      BY <2>1, ScriptInvStep
    <3>2. Len(chord) \in Nat /\ Len(chord') \in Nat
      BY <2>1, <3>1, LenProperties DEF ScriptInv, ScriptTypeOK
    <3> QED
      BY <2>1, <3>2
  <2> QED
    BY <2>1, <2>2, ChordStep
<1> QED
  BY <1>1, ScriptAlways, PTL DEF ScriptSpec, ChordGrowsToFit

(* Until a hotkey without a key is set, the chord holds no more keys than   *)
(* the longest sequence, although feed() forgets one key at a time and none *)
(* after a hit.                                                             *)
THEOREM ChordIsBounded == ScriptSpec => []ChordFits
<1>1. ScriptInit => ChordFits
  BY DEF ScriptInit, ChordFits
<1>2. ScriptInv /\ ChordFits /\ [ScriptNext]_scriptVars => ChordFits'
  <2>1. SUFFICES ASSUME ScriptInv, ChordFits, [ScriptNext]_scriptVars,
                        \A a \in actions' : a.sequence # <<>>
                 PROVE  Len(chord') <= maxActionSize'
    BY DEF ChordFits
  <2>2. \A a \in actions : a.sequence # <<>>
    BY <2>1, ChordStep
  <2>3. Len(chord) <= maxActionSize /\ ~HitsKeyless(chord')
    BY <2>1, <2>2 DEF ChordFits, HitsKeyless
  <2>4. ScriptInv'
    BY <2>1, ScriptInvStep
  <2>5. Len(chord) \in Nat /\ maxActionSize \in Nat /\ Len(chord') \in Nat
    BY <2>1, <2>4, LenProperties DEF ScriptInv, ScriptTypeOK
  <2>6. /\ maxActionSize' \in Nat /\ maxActionSize <= maxActionSize'
        /\ Len(chord') <= Len(chord) \/ Len(chord') <= maxActionSize
    BY <2>1, <2>3, ChordStep
  <2> QED
    BY <2>3, <2>5, <2>6
<1> QED
  BY <1>1, <1>2, ScriptAlways, PTL DEF ScriptSpec

=============================================================================
