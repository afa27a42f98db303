------------------------------ MODULE SeatProofs ------------------------------
(***************************************************************************)
(* Proofs about Seat, for every set of clients and objects, whatever the   *)
(* clients bind, ask for and release: the map finds the client's own seat, *)
(* which has stored devices of its own, and none of them stays entered.    *)
(***************************************************************************)
EXTENDS Seat, TLAPS

SeatInv == SeatTypeOK /\ MapFindsOwnSeat /\ StoredIsOwn

LEMMA InitInv == SeatInit => SeatInv
<1>. SUFFICES ASSUME SeatInit PROVE SeatInv
  OBVIOUS
<1>1. SeatTypeOK
  BY DEF SeatInit, SeatTypeOK, NoDevices
<1>2. MapFindsOwnSeat /\ StoredIsOwn
  BY DEF SeatInit, MapFindsOwnSeat, StoredIsOwn, NoDevices
<1>. QED
  BY <1>1, <1>2 DEF SeatInv

\* The destruction of devices leaves what is stored of those that live.
LEMMA DestroyedInv ==
  ASSUME SeatInv, NEW D \in SUBSET Device, Destroyed(D)
  PROVE  /\ device' \in [Device -> [kind : Kind, seat : Seat] \cup {Null}]
         /\ stored' \in [Seat -> [Kind -> Device \cup {Null}]]
         /\ \A s \in Seat, k \in Kind : stored'[s][k] \in {stored[s][k], Null}
         /\ \A s \in Seat, k \in Kind : stored'[s][k] # Null => stored'[s][k] \notin D
         /\ \A d \in Device \ D : device'[d] = device[d] /\ entered'[d] = entered[d]
         /\ \A d \in D : device'[d] = Null /\ entered'[d] = Null
         /\ StoredIsOwn'
<1>1. /\ device \in [Device -> [kind : Kind, seat : Seat] \cup {Null}]
      /\ stored \in [Seat -> [Kind -> Device \cup {Null}]]
  BY DEF SeatInv, SeatTypeOK
<1>2. /\ device' \in [Device -> [kind : Kind, seat : Seat] \cup {Null}]
      /\ stored' \in [Seat -> [Kind -> Device \cup {Null}]]
  BY <1>1 DEF Destroyed
<1>3. \A s \in Seat, k \in Kind : stored'[s][k] \in {stored[s][k], Null}
  BY DEF Destroyed
<1>4. \A s \in Seat, k \in Kind : stored'[s][k] # Null => stored'[s][k] \notin D
  BY DEF Destroyed
<1>5. \A d \in Device \ D : device'[d] = device[d] /\ entered'[d] = entered[d]
  BY DEF Destroyed
<1>6. \A d \in D : device'[d] = Null /\ entered'[d] = Null
  BY DEF Destroyed
<1>7. StoredIsOwn'
  <2>1. SUFFICES ASSUME NEW s \in Seat, NEW k \in Kind, stored'[s][k] # Null
                 PROVE  device'[stored'[s][k]] = [kind |-> k, seat |-> s]
    BY DEF StoredIsOwn
  <2>2. stored'[s][k] = stored[s][k] /\ stored'[s][k] \in Device \ D
    BY <1>2, <1>3, <1>4, <2>1
  <2>. QED
    BY <1>5, <2>1, <2>2 DEF SeatInv, StoredIsOwn
<1>. QED
  BY <1>2, <1>3, <1>4, <1>5, <1>6, <1>7

\* The focus goes to a surface that exists, or to none.
LEMMA FocusedTypes ==
  ASSUME SeatTypeOK, NEW kind \in Kind, NEW w \in surfaces \cup {Null},
         NEW told \in [Device -> surfaces \cup {Null}]
  PROVE  Focused(kind, w, told) \in [Device -> surfaces \cup {Null}]
BY DEF Focused

LEMMA Step == SeatInv /\ [SeatNext]_seatVars => SeatInv'
<1>. SUFFICES ASSUME SeatInv, [SeatNext]_seatVars PROVE SeatInv'
  OBVIOUS
<1>1. SeatTypeOK /\ MapFindsOwnSeat /\ StoredIsOwn
  BY DEF SeatInv
<1>2. CASE UNCHANGED <<seats, clientOf, stored, device>> /\ SeatTypeOK'
  BY <1>1, <1>2 DEF SeatInv, MapFindsOwnSeat, StoredIsOwn
<1>3. ASSUME NEW c \in Client, NEW s \in Seat, Bind(c, s) PROVE SeatInv'
  <2>1. SeatTypeOK'
    BY <1>1, <1>3 DEF Bind, SeatTypeOK, NoDevices
  <2>2. MapFindsOwnSeat'
    <3>1. /\ clientOf[s] = Null /\ clientOf' = [clientOf EXCEPT ![s] = c]
          /\ seats' = [seats EXCEPT ![c] = IF seats[c] = Null THEN s ELSE seats[c]]
          /\ s \in DOMAIN clientOf /\ c \in DOMAIN seats
      BY <1>1, <1>3 DEF Bind, Live, SeatTypeOK
    <3>2. ASSUME NEW e \in Client, seats'[e] # Null PROVE clientOf'[seats'[e]] = e
      <4>1. CASE e = c /\ seats[c] = Null
        BY <3>1, <4>1
      <4>2. CASE ~(e = c /\ seats[c] = Null)
        <5>1. seats'[e] = seats[e] /\ clientOf[seats[e]] = e
          BY <1>1, <3>1, <3>2, <4>2 DEF MapFindsOwnSeat
        <5>2. e # Null
          BY NullIsNobody
        <5>. QED
          BY <3>1, <5>1, <5>2
      <4>. QED
        BY <4>1, <4>2
    <3>. QED
      BY <3>2 DEF MapFindsOwnSeat
  <2>3. StoredIsOwn'
    <3>1. /\ device' = device /\ \A k \in Kind : stored'[s][k] = Null
          /\ \A t \in Seat \ {s} : stored'[t] = stored[t]
      BY <1>1, <1>3 DEF Bind, NoDevices, SeatTypeOK
    <3>. QED
      BY <1>1, <3>1 DEF StoredIsOwn
  <2>. QED
    BY <2>1, <2>2, <2>3 DEF SeatInv
<1>4. ASSUME NEW s \in Seat, NEW d \in Device, NEW kind \in Kind, GetDevice(s, d, kind)
      PROVE  SeatInv'
  <2>1. SeatTypeOK'
    BY <1>1, <1>4 DEF GetDevice, SeatTypeOK
  <2>2. MapFindsOwnSeat'
    BY <1>1, <1>4 DEF GetDevice, MapFindsOwnSeat
  <2>3. StoredIsOwn'
    <3>1. /\ stored'[s][kind] = d /\ device'[d] = [kind |-> kind, seat |-> s]
          /\ \A t \in Seat, k \in Kind : <<t, k>> # <<s, kind>> => stored'[t][k] = stored[t][k]
          /\ \A e \in Device \ {d} : device'[e] = device[e]
          /\ device[d] = Null
      BY <1>1, <1>4 DEF GetDevice, SeatTypeOK
    <3>2. SUFFICES ASSUME NEW t \in Seat, NEW k \in Kind, stored'[t][k] # Null
                   PROVE  device'[stored'[t][k]] = [kind |-> k, seat |-> t]
      BY DEF StoredIsOwn
    <3>3. CASE t = s /\ k = kind
      BY <3>1, <3>3
    <3>4. CASE ~(t = s /\ k = kind)
      <4>1. stored'[t][k] = stored[t][k] /\ stored[t][k] \in Device
        BY <1>1, <3>1, <3>2, <3>4 DEF SeatTypeOK
      <4>2. device[stored[t][k]] = [kind |-> k, seat |-> t]
        BY <1>1, <3>2, <4>1 DEF StoredIsOwn
      <4>3. stored[t][k] # d
        <5>1. SUFFICES ASSUME stored[t][k] = d PROVE FALSE
          OBVIOUS
        <5>2. Null = [kind |-> k, seat |-> t]
          BY <3>1, <4>2, <5>1
        <5>. QED
          BY <5>2, NullIsNoDevice
      <4>. QED
        BY <3>1, <4>1, <4>2, <4>3
    <3>. QED
      BY <3>3, <3>4
  <2>. QED
    BY <2>1, <2>2, <2>3 DEF SeatInv
<1>5. ASSUME NEW d \in Device, ReleaseDevice(d) PROVE SeatInv'
  <2>1. Destroyed({d}) /\ UNCHANGED <<seats, clientOf, surfaces, focus>>
    BY <1>5 DEF ReleaseDevice
  <2>2. StoredIsOwn' /\ SeatTypeOK'
    <3>1. entered' \in [Device -> surfaces \cup {Null}]
      BY <1>1, <2>1 DEF Destroyed, SeatTypeOK
    <3>2. /\ device' \in [Device -> [kind : Kind, seat : Seat] \cup {Null}]
          /\ stored' \in [Seat -> [Kind -> Device \cup {Null}]] /\ StoredIsOwn'
      BY <2>1, DestroyedInv
    <3>. QED
      BY <1>1, <2>1, <3>1, <3>2 DEF SeatTypeOK
  <2>. QED
    BY <1>1, <2>1, <2>2 DEF SeatInv, MapFindsOwnSeat
<1>6. ASSUME NEW s \in Seat, ReleaseSeat(s) PROVE SeatInv'
  <2>1. /\ Destroyed(Stored(s)) /\ UNCHANGED <<surfaces, focus>> /\ clientOf[s] # Null
        /\ clientOf' = [clientOf EXCEPT ![s] = Null]
        /\ seats' = [seats EXCEPT ![clientOf[s]] = Null]
    BY <1>6 DEF ReleaseSeat, Live
  <2>2. Stored(s) \in SUBSET Device
    BY <1>1 DEF Stored, SeatTypeOK
  <2>3. StoredIsOwn' /\ SeatTypeOK'
    <3>1. entered' \in [Device -> surfaces \cup {Null}]
      BY <1>1, <2>1 DEF Destroyed, SeatTypeOK
    <3>2. /\ device' \in [Device -> [kind : Kind, seat : Seat] \cup {Null}]
          /\ stored' \in [Seat -> [Kind -> Device \cup {Null}]] /\ StoredIsOwn'
      BY <2>1, <2>2, DestroyedInv
    <3>. QED
      BY <1>1, <2>1, <3>1, <3>2 DEF SeatTypeOK
  <2>4. MapFindsOwnSeat'
    BY <1>1, <2>1 DEF MapFindsOwnSeat, SeatTypeOK
  <2>. QED
    BY <2>3, <2>4 DEF SeatInv
<1>7. ASSUME NEW w \in Surface, CreateSurface(w) \/ DestroySurface(w) PROVE SeatInv'
  <2>1. SeatTypeOK'
    BY <1>1, <1>7 DEF CreateSurface, DestroySurface, SeatTypeOK
  <2>. QED
    BY <1>2, <1>7, <2>1 DEF CreateSurface, DestroySurface
<1>8. ASSUME NEW kind \in Kind, NEW w \in surfaces \cup {Null}, SetFocus(kind, w)
      PROVE  SeatInv'
  <2>1. entered' \in [Device -> surfaces \cup {Null}]
    BY <1>1, <1>8, FocusedTypes DEF SetFocus, SeatTypeOK
  <2>2. SeatTypeOK'
    BY <1>1, <1>8, <2>1 DEF SetFocus, SeatTypeOK
  <2>. QED
    BY <1>2, <1>8, <2>2 DEF SetFocus
<1>9. ASSUME NEW w \in surfaces \cup {Null}, SetBoth(w) PROVE SeatInv'
  <2>1. entered \in [Device -> surfaces \cup {Null}] /\ "pointer" \in Kind /\ "keyboard" \in Kind
    BY <1>1 DEF SeatTypeOK, Kind
  <2>2. Focused("pointer", w, entered) \in [Device -> surfaces \cup {Null}]
    BY <1>1, <2>1, FocusedTypes
  <2>3. Focused("keyboard", w, Focused("pointer", w, entered))
          \in [Device -> surfaces \cup {Null}]
    BY <1>1, <2>1, <2>2, FocusedTypes
  <2>4. SeatTypeOK'
    BY <1>1, <1>9, <2>3 DEF SetBoth, SeatTypeOK
  <2>. QED
    BY <1>2, <1>9, <2>4 DEF SetBoth
<1>10. CASE UNCHANGED seatVars
  <2>1. SeatTypeOK'
    BY <1>1, <1>10 DEF seatVars, SeatTypeOK
  <2>. QED
    BY <1>2, <1>10, <2>1 DEF seatVars
<1>11. focus["pointer"] \in surfaces \cup {Null} /\ "pointer" \in Kind /\ "keyboard" \in Kind
  BY <1>1 DEF SeatTypeOK, Kind
<1>. QED
  BY <1>3, <1>4, <1>5, <1>6, <1>7, <1>8, <1>9, <1>10, <1>11
     DEF SeatNext, GetPointer, GetKeyboard, FindFocus, LoseFocus, RefineFocus, Click, BeginDrag,
         EndMove

LEMMA Invariance == SeatSpec => []SeatInv
BY InitInv, Step, PTL DEF SeatSpec

\* Every variable keeps its type.
THEOREM TypeCorrect == SeatSpec => []SeatTypeOK
<1>1. SeatInv => SeatTypeOK
  BY DEF SeatInv
<1>. QED
  BY <1>1, Invariance, PTL

\* However clients bind, release and disconnect, find returns a seat of the
\* client that asks, and one whose resource lives.
THEOREM MapIsTrue == SeatSpec => []MapFindsOwnSeat
<1>1. SeatInv => MapFindsOwnSeat
  BY DEF SeatInv
<1>. QED
  BY <1>1, Invariance, PTL

\* However clients ask for devices and release them, also twice and in any
\* order, what a seat has stored lives and is its own.
THEOREM StoredIsTrue == SeatSpec => []StoredIsOwn
<1>1. SeatInv => StoredIsOwn
  BY DEF SeatInv
<1>. QED
  BY <1>1, Invariance, PTL

-----------------------------------------------------------------------------
(* What devices are told.                                                  *)

\* A device that find and lock() give is in the surface that has the focus, and
\* that is one of its client, so that it will hear when the focus goes.
FoundIsTold ==
  \A c \in Client, k \in Kind :
    seats[c] # Null /\ stored[seats[c]][k] # Null /\ entered[stored[seats[c]][k]] # Null =>
      /\ entered[stored[seats[c]][k]] = focus[k]
      /\ Owner[focus[k]] = c

\* Where no device is, none has entered.
NewHasNotEntered == \A d \in Device : device[d] = Null => entered[d] = Null

ToldInv == FoundIsTold /\ NewHasNotEntered

\* The device found for one client and kind is not found for another.
LEMMA FoundOnce ==
  ASSUME SeatInv, NEW c \in Client, NEW k \in Kind, seats[c] # Null,
         stored[seats[c]][k] # Null,
         NEW w \in Surface \cup {Null}, NEW j \in Kind
  PROVE  /\ seats[c] \in Seat /\ stored[seats[c]][k] \in Device
         /\ device[stored[seats[c]][k]] # Null
         /\ (Listening(w, j) = stored[seats[c]][k] => w \in Surface /\ Owner[w] = c /\ j = k)
         /\ (w \in Surface /\ Owner[w] = c => Listening(w, k) = stored[seats[c]][k])
<1>1. seats[c] \in Seat /\ stored[seats[c]][k] \in Device
  BY DEF SeatInv, SeatTypeOK
<1>2. device[stored[seats[c]][k]] = [kind |-> k, seat |-> seats[c]] /\ clientOf[seats[c]] = c
  BY <1>1 DEF SeatInv, StoredIsOwn, MapFindsOwnSeat
<1>3. device[stored[seats[c]][k]] # Null
  BY <1>1, <1>2, NullIsNoDevice
<1>4. ASSUME Listening(w, j) = stored[seats[c]][k]
      PROVE  w \in Surface /\ Owner[w] = c /\ j = k
  <2>1. /\ w \in Surface /\ seats[Owner[w]] # Null
        /\ stored[seats[Owner[w]]][j] = stored[seats[c]][k]
    BY <1>4 DEF Listening
  <2>2. Owner[w] \in Client /\ seats[Owner[w]] \in Seat
    BY <2>1, OwnersAreClients DEF SeatInv, SeatTypeOK
  <2>3. /\ device[stored[seats[c]][k]] = [kind |-> j, seat |-> seats[Owner[w]]]
        /\ clientOf[seats[Owner[w]]] = Owner[w]
    BY <2>1, <2>2 DEF SeatInv, StoredIsOwn, MapFindsOwnSeat
  <2>4. j = k /\ seats[Owner[w]] = seats[c]
    <3> DEFINE x == [kind |-> j, seat |-> seats[Owner[w]]]
    <3> DEFINE y == [kind |-> k, seat |-> seats[c]]
    <3>1. x = y
      BY <1>2, <2>3
    <3>2. x.kind = y.kind /\ x.seat = y.seat
      BY <3>1
    <3> QED
      BY <3>2
  <2> QED
    BY <1>2, <2>1, <2>3, <2>4
<1>5. ASSUME w \in Surface, Owner[w] = c PROVE Listening(w, k) = stored[seats[c]][k]
  BY <1>5, NullIsNobody DEF Listening
<1> QED
  BY <1>1, <1>3, <1>4, <1>5

\* Telling about one kind of focus leaves every device that is found told.
LEMMA FocusedTells ==
  ASSUME SeatInv, NEW kind \in Kind, NEW w \in surfaces \cup {Null},
         NEW told \in [Device -> surfaces \cup {Null}],
         NEW c \in Client, NEW k \in Kind, seats[c] # Null, stored[seats[c]][k] # Null,
         told[stored[seats[c]][k]] # Null =>
           told[stored[seats[c]][k]] = focus[k] /\ Owner[focus[k]] = c
  PROVE  LET d == stored[seats[c]][k]
             now == Focused(kind, w, told)[d]
         IN IF k = kind THEN now # Null => now = w /\ Owner[w] = c
            ELSE now = told[d]
<1> DEFINE d == stored[seats[c]][k]
<1> DEFINE now == Focused(kind, w, told)[d]
<1>1. /\ w \in Surface \cup {Null} /\ focus[kind] \in Surface \cup {Null} /\ d \in Device
      /\ focus \in [Kind -> surfaces \cup {Null}] /\ surfaces \subseteq Surface
  BY FoundOnce DEF SeatInv, SeatTypeOK
<1>2. /\ Listening(w, kind) = d => w \in Surface /\ Owner[w] = c /\ kind = k
      /\ Listening(focus[kind], kind) = d => kind = k
      /\ focus[k] \in Surface /\ Owner[focus[k]] = c => Listening(focus[k], k) = d
  BY <1>1, FoundOnce
<1>3. now = IF d = Listening(w, kind) THEN w
            ELSE IF d = Listening(focus[kind], kind) THEN Null ELSE told[d]
  BY <1>1 DEF Focused
<1> HIDE DEF d, now
<1>4. CASE k = kind
  <2>1. CASE d = Listening(w, kind)
    BY <1>2, <1>3, <1>4, <2>1 DEF d, now
  <2>2. CASE d # Listening(w, kind)
    <3>1. SUFFICES ASSUME now # Null PROVE FALSE
      BY <1>4 DEF d, now
    <3>2. now = told[d] /\ d # Listening(focus[kind], kind)
      BY <1>3, <2>2, <3>1
    <3>3. told[d] = focus[k] /\ Owner[focus[k]] = c /\ focus[k] # Null
      BY <3>1, <3>2 DEF d
    <3>4. focus[k] \in Surface
      BY <1>1, <3>3
    <3> QED
      BY <1>2, <1>4, <3>2, <3>3, <3>4
  <2> QED
    BY <1>4, <2>1, <2>2 DEF d, now
<1>5. CASE k # kind
  BY <1>2, <1>3, <1>5 DEF d, now
<1> QED
  BY <1>4, <1>5 DEF d, now

LEMMA ToldStep == SeatInv /\ ToldInv /\ [SeatNext]_seatVars => ToldInv'
<1> SUFFICES ASSUME SeatInv, ToldInv, [SeatNext]_seatVars PROVE ToldInv'
  OBVIOUS
<1>1. SeatTypeOK /\ MapFindsOwnSeat /\ StoredIsOwn /\ FoundIsTold /\ NewHasNotEntered
  BY DEF SeatInv, ToldInv
<1>2. SeatInv'
  BY Step
<1>3. "pointer" \in Kind /\ "keyboard" \in Kind /\ \A k \in Kind : k \in {"pointer", "keyboard"}
  BY DEF Kind
\* It is enough that nothing new is found, and what is found is as it was.
<1>4. ASSUME NewHasNotEntered',
             \A c \in Client, k \in Kind :
               seats'[c] # Null /\ stored'[seats'[c]][k] # Null
                 /\ entered'[stored'[seats'[c]][k]] # Null =>
                    /\ seats[c] = seats'[c] /\ stored[seats[c]][k] = stored'[seats[c]][k]
                    /\ entered'[stored[seats[c]][k]] = entered[stored[seats[c]][k]]
                    /\ focus'[k] = focus[k]
      PROVE  ToldInv'
  <2>1. ASSUME NEW c \in Client, NEW k \in Kind,
               seats'[c] # Null, stored'[seats'[c]][k] # Null,
               entered'[stored'[seats'[c]][k]] # Null
        PROVE  /\ entered'[stored'[seats'[c]][k]] = focus'[k]
               /\ Owner[focus'[k]] = c
    <3>1. /\ seats[c] = seats'[c] /\ stored[seats[c]][k] = stored'[seats[c]][k]
          /\ entered'[stored[seats[c]][k]] = entered[stored[seats[c]][k]]
          /\ focus'[k] = focus[k]
      BY <1>4, <2>1
    <3>2. /\ seats[c] # Null /\ stored[seats[c]][k] # Null
          /\ entered[stored[seats[c]][k]] # Null
      BY <2>1, <3>1
    <3> QED
      BY <1>1, <3>1, <3>2 DEF FoundIsTold
  <2> QED
    BY <1>4, <2>1 DEF ToldInv, FoundIsTold
<1>5. ASSUME NEW c \in Client, NEW s \in Seat, Bind(c, s) PROVE ToldInv'
  <2>1. /\ clientOf[s] = Null /\ stored' = [stored EXCEPT ![s] = NoDevices]
        /\ seats' = [seats EXCEPT ![c] = IF seats[c] = Null THEN s ELSE seats[c]]
        /\ UNCHANGED <<device, surfaces, focus, entered>>
    BY <1>1, <1>5 DEF Bind, Live, SeatTypeOK
  <2>2. NewHasNotEntered'
    BY <1>1, <2>1 DEF NewHasNotEntered
  <2>3. ASSUME NEW e \in Client, NEW k \in Kind,
               seats'[e] # Null, stored'[seats'[e]][k] # Null
        PROVE  seats[e] = seats'[e] /\ stored[seats[e]][k] = stored'[seats[e]][k]
    <3>1. seats'[e] # s
      BY <1>1, <1>3, <2>1, <2>3 DEF NoDevices, SeatTypeOK
    <3>2. seats[e] = seats'[e] /\ seats[e] \in Seat
      BY <1>1, <2>1, <2>3, <3>1 DEF SeatTypeOK
    <3> QED
      BY <1>1, <2>1, <3>1, <3>2 DEF SeatTypeOK
  <2> QED
    BY <1>4, <2>1, <2>2, <2>3
<1>6. ASSUME NEW s \in Seat, NEW d \in Device, NEW kind \in Kind, GetDevice(s, d, kind)
      PROVE  ToldInv'
  <2>1. /\ device[d] = Null /\ device' = [device EXCEPT ![d] = [kind |-> kind, seat |-> s]]
        /\ stored' = [stored EXCEPT ![s][kind] = d]
        /\ UNCHANGED <<seats, clientOf, surfaces, focus, entered>>
    BY <1>6 DEF GetDevice
  <2>2. NewHasNotEntered' /\ entered'[d] = Null
    BY <1>1, <2>1 DEF NewHasNotEntered, SeatTypeOK
  <2>3. ASSUME NEW e \in Client, NEW k \in Kind, seats'[e] # Null,
               entered'[stored'[seats'[e]][k]] # Null
        PROVE  stored[seats[e]][k] = stored'[seats[e]][k]
    <3>1. stored'[seats[e]][k] # d /\ seats[e] \in Seat
      BY <1>1, <2>1, <2>2, <2>3 DEF SeatTypeOK
    <3> QED
      BY <1>1, <2>1, <3>1 DEF SeatTypeOK
  <2> QED
    BY <1>4, <2>1, <2>2, <2>3
<1>7. ASSUME NEW D \in SUBSET Device, Destroyed(D), UNCHANGED <<surfaces, focus>>,
             \A c \in Client : seats'[c] \in {seats[c], Null}
      PROVE  ToldInv'
  <2>1. /\ \A s \in Seat, k \in Kind : stored'[s][k] \in {stored[s][k], Null}
        /\ \A s \in Seat, k \in Kind : stored'[s][k] # Null => stored'[s][k] \notin D
        /\ \A d \in Device \ D : device'[d] = device[d] /\ entered'[d] = entered[d]
        /\ \A d \in D : device'[d] = Null /\ entered'[d] = Null
    BY <1>7, DestroyedInv
  <2>2. NewHasNotEntered'
    BY <1>1, <2>1 DEF NewHasNotEntered
  <2>3. ASSUME NEW c \in Client, NEW k \in Kind, seats'[c] # Null, stored'[seats'[c]][k] # Null
        PROVE  /\ seats[c] = seats'[c] /\ stored[seats[c]][k] = stored'[seats[c]][k]
               /\ entered'[stored[seats[c]][k]] = entered[stored[seats[c]][k]]
    <3>1. seats[c] = seats'[c] /\ seats[c] \in Seat
      BY <1>1, <1>7, <2>3 DEF SeatTypeOK
    <3>2. stored[seats[c]][k] = stored'[seats[c]][k] /\ stored[seats[c]][k] \in Device \ D
      BY <1>1, <2>1, <2>3, <3>1 DEF SeatTypeOK
    <3> QED
      BY <2>1, <3>1, <3>2
  <2> QED
    BY <1>4, <1>7, <2>2, <2>3
<1>8. ASSUME NEW d \in Device, ReleaseDevice(d) PROVE ToldInv'
  BY <1>7, <1>8 DEF ReleaseDevice
<1>9. ASSUME NEW s \in Seat, ReleaseSeat(s) PROVE ToldInv'
  <2>1. Stored(s) \in SUBSET Device
    BY <1>1 DEF Stored, SeatTypeOK
  <2>2. \A c \in Client : seats'[c] \in {seats[c], Null}
    BY <1>1, <1>9 DEF ReleaseSeat, SeatTypeOK
  <2> QED
    BY <1>7, <1>9, <2>1, <2>2 DEF ReleaseSeat
<1>10. ASSUME NEW w \in Surface, CreateSurface(w) PROVE ToldInv'
  BY <1>1, <1>10 DEF CreateSurface, ToldInv, FoundIsTold, NewHasNotEntered
<1>11. ASSUME NEW w \in Surface, DestroySurface(w) PROVE ToldInv'
  <2>1. /\ UNCHANGED <<seats, clientOf, stored, device>>
        /\ focus' = [k \in Kind |-> IF focus[k] = w THEN Null ELSE focus[k]]
        /\ entered' = [d \in Device |-> IF entered[d] = w THEN Null ELSE entered[d]]
    BY <1>11 DEF DestroySurface
  <2>2. NewHasNotEntered'
    BY <1>1, <2>1 DEF NewHasNotEntered
  <2>3. ASSUME NEW c \in Client, NEW k \in Kind, seats[c] # Null, stored[seats[c]][k] # Null,
               entered'[stored[seats[c]][k]] # Null
        PROVE  /\ entered'[stored[seats[c]][k]] = entered[stored[seats[c]][k]]
               /\ focus'[k] = focus[k]
    <3>1. stored[seats[c]][k] \in Device
      BY <2>3, FoundOnce, NullIsNobody
    <3>2. /\ entered'[stored[seats[c]][k]] = entered[stored[seats[c]][k]]
          /\ entered[stored[seats[c]][k]] # w
      BY <2>1, <2>3, <3>1
    <3>3. focus[k] # w
      BY <1>1, <2>3, <3>2 DEF FoundIsTold
    <3> QED
      BY <2>1, <3>2, <3>3
  <2> QED
    BY <1>4, <2>1, <2>2, <2>3
<1>12. ASSUME NEW c \in Client, NEW k \in Kind, seats[c] # Null, stored[seats[c]][k] # Null
       PROVE  entered[stored[seats[c]][k]] # Null =>
                entered[stored[seats[c]][k]] = focus[k] /\ Owner[focus[k]] = c
  BY <1>1, <1>12 DEF FoundIsTold
<1>13. entered \in [Device -> surfaces \cup {Null}] /\ focus \in [Kind -> surfaces \cup {Null}]
  BY <1>1 DEF SeatTypeOK
\* Who hears of a surface has a resource.
<1>14. ASSUME NEW w \in surfaces \cup {Null}, NEW kind \in Kind, NEW d \in Device,
              device[d] = Null
       PROVE  Listening(w, kind) # d
  <2>1. SUFFICES ASSUME Listening(w, kind) = d PROVE FALSE
    OBVIOUS
  <2>2. w \in Surface /\ seats[Owner[w]] # Null /\ stored[seats[Owner[w]]][kind] = d
    BY <1>1, <2>1, NullIsNobody DEF Listening, SeatTypeOK
  <2>3. Owner[w] \in Client
    BY <2>2, OwnersAreClients
  <2>4. d # Null
    BY NullIsNobody
  <2> QED
    BY <1>14, <2>2, <2>3, <2>4, FoundOnce
<1>15. ASSUME NEW kind \in Kind, NEW w \in surfaces \cup {Null}, SetFocus(kind, w)
       PROVE  ToldInv'
  <2>1. /\ UNCHANGED <<seats, clientOf, stored, device, surfaces>>
        /\ focus' = [focus EXCEPT ![kind] = w] /\ entered' = Focused(kind, w, entered)
    BY <1>15 DEF SetFocus
  <2>2. NewHasNotEntered'
    <3>1. SUFFICES ASSUME NEW d \in Device, device[d] = Null PROVE entered'[d] = Null
      BY <2>1 DEF NewHasNotEntered
    <3> QED
      BY <1>1, <1>14, <2>1, <3>1 DEF NewHasNotEntered, Focused
  <2>3. FoundIsTold'
    <3>1. SUFFICES ASSUME NEW c \in Client, NEW k \in Kind, seats[c] # Null,
                          stored[seats[c]][k] # Null, entered'[stored[seats[c]][k]] # Null
                   PROVE  entered'[stored[seats[c]][k]] = focus'[k] /\ Owner[focus'[k]] = c
      BY <2>1 DEF FoundIsTold
    <3>2. IF k = kind THEN entered'[stored[seats[c]][k]] # Null =>
                             entered'[stored[seats[c]][k]] = w /\ Owner[w] = c
          ELSE entered'[stored[seats[c]][k]] = entered[stored[seats[c]][k]]
      <4>1. entered[stored[seats[c]][k]] # Null =>
              entered[stored[seats[c]][k]] = focus[k] /\ Owner[focus[k]] = c
        BY <1>12, <3>1
      <4>2. entered \in [Device -> surfaces \cup {Null}]
        BY <1>13
      <4>3. IF k = kind
            THEN Focused(kind, w, entered)[stored[seats[c]][k]] # Null =>
                   Focused(kind, w, entered)[stored[seats[c]][k]] = w /\ Owner[w] = c
            ELSE Focused(kind, w, entered)[stored[seats[c]][k]] = entered[stored[seats[c]][k]]
        BY <3>1, <4>1, <4>2, FocusedTells
      <4> QED
        BY <2>1, <4>3
    <3> QED
      BY <1>12, <1>13, <2>1, <3>1, <3>2
  <2> QED
    BY <2>2, <2>3 DEF ToldInv
<1>16. ASSUME NEW w \in surfaces \cup {Null}, SetBoth(w) PROVE ToldInv'
  <2> DEFINE first == Focused("pointer", w, entered)
  <2>1. /\ UNCHANGED <<seats, clientOf, stored, device, surfaces>>
        /\ focus' = [k \in Kind |-> w] /\ entered' = Focused("keyboard", w, first)
    BY <1>16 DEF SetBoth
  <2>2. first \in [Device -> surfaces \cup {Null}]
    BY <1>1, <1>3, <1>13, FocusedTypes
  <2>3. NewHasNotEntered'
    <3>1. SUFFICES ASSUME NEW d \in Device, device[d] = Null PROVE entered'[d] = Null
      BY <2>1 DEF NewHasNotEntered
    <3>2. first[d] = Null
      BY <1>1, <1>3, <1>13, <1>14, <3>1 DEF NewHasNotEntered, Focused
    <3> HIDE DEF first
    <3> QED
      BY <1>3, <1>13, <1>14, <2>1, <3>1, <3>2 DEF Focused
  <2>4. ASSUME NEW c \in Client, NEW k \in Kind, seats[c] # Null,
               stored[seats[c]][k] # Null, entered'[stored[seats[c]][k]] # Null
        PROVE  entered'[stored[seats[c]][k]] = w /\ Owner[w] = c
    <3> DEFINE d == stored[seats[c]][k]
    <3>1. IF k = "pointer" THEN first[d] # Null => first[d] = w /\ Owner[w] = c
          ELSE first[d] = entered[d]
      BY <1>3, <1>12, <1>13, <2>4, FocusedTells
    <3>2. d \in Device
      BY <1>3, <2>4, FoundOnce, NullIsNobody
    <3>3. CASE k = "keyboard"
      <4>1. first[d] # Null => first[d] = focus[k] /\ Owner[focus[k]] = c
        BY <1>12, <2>4, <3>1, <3>3
      <4> HIDE DEF first
      <4> QED
        BY <1>3, <2>1, <2>2, <2>4, <3>3, <4>1, FocusedTells
    <3>4. CASE k = "pointer"
      <4>1. Listening(w, "keyboard") # d /\ Listening(focus["keyboard"], "keyboard") # d
        <5>1. w \in Surface \cup {Null} /\ focus["keyboard"] \in Surface \cup {Null}
          BY <1>1, <1>3, <1>13 DEF SeatTypeOK
        <5> QED
          BY <1>3, <2>4, <3>4, <5>1, FoundOnce
      <4> HIDE DEF first
      <4>2. entered'[d] = first[d]
        BY <2>1, <3>2, <4>1 DEF Focused
      <4> QED
        BY <2>4, <3>1, <3>4, <4>2
    <3> QED
      BY <1>3, <3>3, <3>4
  <2>5. FoundIsTold'
    BY <2>1, <2>4 DEF FoundIsTold
  <2> QED
    BY <2>3, <2>5 DEF ToldInv
<1>17. CASE UNCHANGED seatVars
  BY <1>1, <1>17 DEF seatVars, ToldInv, FoundIsTold, NewHasNotEntered
<1>18. focus["pointer"] \in surfaces \cup {Null}
  BY <1>3, <1>13
<1> QED
  BY <1>3, <1>5, <1>6, <1>8, <1>9, <1>10, <1>11, <1>15, <1>16, <1>17, <1>18
     DEF SeatNext, GetPointer, GetKeyboard, FindFocus, LoseFocus, RefineFocus, Click, BeginDrag,
         EndMove

\* Whatever has the focus and loses it, and whatever clients bind, ask for and
\* release between, in any order and more than once: a device that events still
\* reach was told leave for every enter, but for the surface that has the focus.
THEOREM LeaveIsTold == SeatSpec => []NobodyStaysEntered
<1>1. SeatInit => ToldInv
  BY DEF SeatInit, ToldInv, FoundIsTold, NewHasNotEntered
<1>2. SeatInv /\ ToldInv => NobodyStaysEntered
  <2>1. SUFFICES ASSUME SeatInv, ToldInv, NEW c \in Client, NEW k \in Kind,
                        seats[c] # Null, stored[seats[c]][k] # Null
                 PROVE  entered[stored[seats[c]][k]] \in {Null, focus[k]}
    BY DEF NobodyStaysEntered
  <2> QED
    BY <2>1 DEF ToldInv, FoundIsTold
<1> QED
  BY <1>1, <1>2, Invariance, ToldStep, PTL DEF SeatSpec

=============================================================================
