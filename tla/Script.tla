------------------------------- MODULE Script -------------------------------
(* What a configuration registers with the compositor: hotkeys (hotkey.cpp, *)
(* script/hotkey.cpp) and hooks (script/compositor.cpp, script/janet.hpp),  *)
(* and how a key or an event comes to run it.                               *)
(* Janet runs on the main thread: while a function of the script is called  *)
(* nothing else happens there, but the function may itself add and remove   *)
(* hooks and set keys, under the loop that called it.                       *)
(* A hotkey string is a sequence of tokens.  Everything registered carries  *)
(* the number of its registration, because the lists keep equal functions   *)
(* apart only by their place.                                               *)
EXTENDS Naturals, Sequences, FiniteSets, SequencesExt

CONSTANTS
  Fns,            \* functions of the script
  Events,         \* hook lists: "mouse-move-hook" and its like
  Syms,           \* the key symbols that the keymap can produce
  VMods,          \* tokens that name a modifier
  Strings,        \* hotkey strings the script uses, as sequences of tokens
  OccursIn,       \* pairs of tokens: the first is a part of the second
  None,
  MaxChord,       \* bound: length of the chord
  MaxRegistered   \* bound: registrations

ASSUME ScriptAssumption ==
  /\ IsFiniteSet(Events)
  /\ {"config", "hook"} \cap (Syms \cup {None}) = {}

VARIABLES
  chord, actions, maxActionSize,   \* hotkey_t
  hooks,                           \* event -> list of registrations
  roots,                           \* function -> number of times gcrooted
  calling,                         \* why the script runs now
  dispatch,                        \* the event, the place in its list, what ran
  registered                       \* number of registrations so far

scriptVars == <<chord, actions, maxActionSize, hooks, roots,
                calling, dispatch, registered>>

Entry(f) == [n |-> registered + 1, fn |-> f]

Idle == [event |-> None, at |-> 0, ran |-> <<>>, shifted |-> FALSE]

(* run_all_imports defines an empty array for every hook; load_file then    *)
(* runs the configuration before anything else does.                        *)
ScriptInit ==
  /\ chord = <<>> /\ actions = {} /\ maxActionSize = 0
  /\ hooks = [e \in Events |-> <<>>]
  /\ roots = [f \in Fns |-> 0]
  /\ calling = "config"
  /\ dispatch = Idle
  /\ registered = 0

-----------------------------------------------------------------------------
(* parse_hotkey_string().  A token is looked up by where its text first     *)
(* occurs in the string, and a key by all of the string that follows, for   *)
(* the view that cuts the token out of it ends without a NUL: only the last *)
(* token can be a key, and only if its text does not occur in an earlier    *)
(* one, as "p" does in "Super".                                             *)
ModifiersOf(str) == {t \in Range(str) : t \in VMods}

SequenceOf(str) ==
  LET t == Last(str)
      isKey == /\ t \in Syms \ VMods
               /\ \A i \in 1 .. Len(str) - 1 : <<t, str[i]>> \notin OccursIn
  IN IF str # <<>> /\ isKey THEN <<t>> ELSE <<>>

(* add(): the action is sorted in with the longest sequence first.  Only    *)
(* that order is kept here: std::sort promises none among equals.           *)
Add(new) ==
  /\ actions' = actions \cup {new}
  /\ maxActionSize' = IF Len(new.sequence) > maxActionSize
                      THEN Len(new.sequence) ELSE maxActionSize

(* set-key: the function is rooted for good.                                *)
SetKey(str, f) ==
  /\ calling # None
  /\ registered < MaxRegistered
  /\ Add([n |-> registered + 1, fn |-> f,
          sequence |-> SequenceOf(str), modifiers |-> ModifiersOf(str)])
  /\ roots' = [roots EXCEPT ![f] = @ + 1]
  /\ registered' = registered + 1
  /\ UNCHANGED <<chord, hooks, calling, dispatch>>

(* feed() asks xkb for the layout that has the modifier's name; there is    *)
(* none, the index it gets has every bit set, and any latched modifier will *)
(* do, whichever the action names.                                          *)
Matches(a, keys, latched) ==
  /\ a.modifiers # {} => latched
  /\ IsSuffix(a.sequence, keys)

(* The first match of the sorted list.                                      *)
FirstMatches(keys, latched) ==
  LET found == {a \in actions : Matches(a, keys, latched)}
  IN {a \in found : \A b \in found : Len(a.sequence) >= Len(b.sequence)}

(* feed() of a press that hits an action: its keys are consumed, it is run, *)
(* and the chord is not trimmed.                                            *)
FeedHit(s, latched) ==
  LET keys == Append(chord, s)
  IN /\ calling = None
     /\ \E a \in FirstMatches(keys, latched) :
          chord' = SubSeq(keys, 1, Len(keys) - Len(a.sequence))
     /\ Len(chord') <= MaxChord
     /\ calling' = s
     /\ UNCHANGED <<actions, maxActionSize, hooks, roots,
                    dispatch, registered>>

ActionReturns ==
  /\ calling \in Syms
  /\ calling' = None
  /\ UNCHANGED <<chord, actions, maxActionSize, hooks, roots, dispatch, registered>>

(* feed() of a press that hits nothing: one key too many is forgotten.      *)
FeedMiss(s, latched) ==
  LET keys == Append(chord, s)
  IN /\ calling = None
     /\ FirstMatches(keys, latched) = {}
     /\ chord' = IF Len(keys) > maxActionSize THEN Tail(keys) ELSE keys
     /\ Len(chord') <= MaxChord
     /\ UNCHANGED <<actions, maxActionSize, hooks, roots, calling, dispatch,
                    registered>>

(* A press is fed to the hotkeys, a release is not.                         *)
OnKeyboardInput(s, latched) == FeedHit(s, latched) \/ FeedMiss(s, latched)

-----------------------------------------------------------------------------
(* Mutant: the function becomes the first of the list.                      *)
AddHookInFront(e, f) ==
  /\ calling # None
  /\ registered < MaxRegistered
  /\ hooks' = [hooks EXCEPT ![e] = <<Entry(f)>> \o @]
  /\ roots' = [roots EXCEPT ![f] = @ + 1]
  /\ registered' = registered + 1
  /\ UNCHANGED <<chord, actions, maxActionSize, calling, dispatch>>

(* add-hook: the function is rooted and pushed to the end of the array.     *)
AddHook(e, f) ==
  /\ calling # None
  /\ registered < MaxRegistered
  /\ hooks' = [hooks EXCEPT ![e] = Append(@, Entry(f))]
  /\ roots' = [roots EXCEPT ![f] = @ + 1]
  /\ registered' = registered + 1
  /\ UNCHANGED <<chord, actions, maxActionSize, calling, dispatch>>

(* The first place of the function in the list.                             *)
IndexOf(e, f) == {i \in DOMAIN hooks[e] :
                    /\ hooks[e][i].fn = f
                    /\ \A j \in 1 .. i - 1 : hooks[e][j].fn # f}

(* Mutant: a function that is not listed is unrooted too.                   *)
UnrootAnyway(e, f) ==
  /\ calling # None
  /\ \/ /\ IndexOf(e, f) = {}
        /\ UNCHANGED <<hooks, dispatch>>
     \/ \E i \in IndexOf(e, f) :
       /\ hooks' = [hooks EXCEPT ![e] = Front([hooks[e] EXCEPT ![i] = Last(hooks[e])])]
       /\ UNCHANGED dispatch
  /\ roots' = [roots EXCEPT ![f] = @ - 1]
  /\ UNCHANGED <<chord, actions, maxActionSize, calling, registered>>

(* remove-hook: the last callback takes the place of the one removed, which *)
(* is unrooted once; a function that is not listed is left alone.           *)
RemoveHook(e, f) ==
  /\ calling # None
  /\ \E i \in IndexOf(e, f) :
       /\ hooks' = [hooks EXCEPT ![e] = Front([hooks[e] EXCEPT ![i] = Last(hooks[e])])]
       /\ dispatch' = [dispatch EXCEPT !.shifted =
                         @ \/ (e = dispatch.event /\ i <= dispatch.at)]
  /\ roots' = [roots EXCEPT ![f] = @ - 1]
  /\ UNCHANGED <<chord, actions, maxActionSize, calling, registered>>

(* An event calls the hooks of its list one by one (dispatch_hook and the   *)
(* loops of mouse-button-hook and xdg-new-window-hook).                     *)
RunHook(e, i, ran) ==
  dispatch' = [dispatch EXCEPT !.event = e, !.at = i,
                               !.ran = Append(ran, hooks[e][i].n)]

DispatchHook(e) ==
  /\ calling = None
  /\ hooks[e] # <<>>
  /\ calling' = "hook"
  /\ RunHook(e, 1, <<>>)
  /\ UNCHANGED <<chord, actions, maxActionSize, hooks, roots, registered>>

(* The count is read again after every call.                                *)
More == dispatch.at < Len(hooks[dispatch.event])

HookReturns ==
  /\ calling = "hook"
  /\ IF More
     THEN /\ RunHook(dispatch.event, dispatch.at + 1, dispatch.ran)
          /\ UNCHANGED calling
     ELSE dispatch' = Idle /\ calling' = None
  /\ UNCHANGED <<chord, actions, maxActionSize, hooks, roots, registered>>

LoadFileReturns ==
  /\ calling = "config"
  /\ calling' = None
  /\ UNCHANGED <<chord, actions, maxActionSize, hooks, roots,
                 dispatch, registered>>

ScriptNext ==
  \/ \E f \in Fns, str \in Strings : SetKey(str, f)
  \/ \E f \in Fns, e \in Events : AddHook(e, f) \/ RemoveHook(e, f)
  \/ \E s \in Syms, latched \in BOOLEAN : OnKeyboardInput(s, latched)
  \/ \E e \in Events : DispatchHook(e)
  \/ ActionReturns \/ HookReturns \/ LoadFileReturns

ScriptSpec == ScriptInit /\ [][ScriptNext]_scriptVars

-----------------------------------------------------------------------------
ScriptTypeOK ==
  /\ chord \in Seq(Syms)
  /\ actions \subseteq [n : Nat, fn : Fns, sequence : Seq(Syms), modifiers : SUBSET VMods]
  /\ maxActionSize \in Nat
  /\ hooks \in [Events -> Seq([n : Nat, fn : Fns])]
  /\ roots \in [Fns -> Nat]
  /\ calling \in Syms \cup {None, "config", "hook"}
  /\ dispatch \in [event : Events \cup {None}, at : Nat, ran : Seq(Nat), shifted : BOOLEAN]
  /\ registered \in Nat

(* A callback that runs may add hooks to the list that is being walked and  *)
(* remove others.  No registration runs twice for one event, whatever the   *)
(* callbacks do, and all that are listed when the walk ends have run, the   *)
(* new ones too, unless a callback removed itself or one before it: then    *)
(* the last of the list has moved to a place already passed.                *)
EveryHookRuns ==
  [][ calling = "hook" /\ calling' # "hook" =>
        /\ IsInjective(dispatch.ran)
        /\ ~dispatch.shifted =>
             \A i \in DOMAIN hooks[dispatch.event] :
               hooks[dispatch.event][i].n \in Range(dispatch.ran) ]_scriptVars

(* Where the lists of hooks name the function.                              *)
Listed(f) == {p \in Events \X (1 .. registered) :
                p[2] \in DOMAIN hooks[p[1]] /\ hooks[p[1]][p[2]].fn = f}

(* Each registration holds one root of its function, so that the collector  *)
(* takes no function that a list or a hotkey would still call, and keeps    *)
(* none for the sake of a hook that was removed.                            *)
RegisteredIsRooted ==
  \A f \in Fns :
    roots[f] = Cardinality({a \in actions : a.fn = f}) + Cardinality(Listed(f))

=============================================================================
