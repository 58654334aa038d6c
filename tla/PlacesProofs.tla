---------------------------- MODULE PlacesProofs ----------------------------
(***************************************************************************)
(* Theorems about Places, for any places, texts, roads and bounds: the     *)
(* list under a typed text was found for that text, every road is decoded  *)
(* into its points, and the line, the price and the address of the preview *)
(* are those of the places that will be booked.                            *)
(***************************************************************************)
EXTENDS Places, SequenceTheorems, WellFoundedInduction, TLAPS

-----------------------------------------------------------------------------
\* A box that is not on the page has nothing started and lists nothing.
HiddenOK ==
    ~BoxShown => debounce = None /\ searches = <<>> /\ suggestions = None /\ ~isOpen

\* Without a mishap the timer, the last search or the list is of the text that
\* was typed, whichever of them is the latest.
TextsAgree == mishaps = 0 /\ dropoffAddress \in Typed =>
    /\ debounce # None => debounce = dropoffAddress
    /\ debounce = None /\ searches # <<>> => searches[Len(searches)] = dropoffAddress
    /\ debounce = None /\ searches = <<>> /\ suggestions # None => suggestions = dropoffAddress

Way == <<pickup, dropoff>>

\* What the last answer of a route has put on the map.
Drawn(way) ==
    /\ distanceOf = way
    /\ routeCoordinates \in {Points[way], way}
    /\ routeWaypoints = GetRouteWaypoints(routeCoordinates, 6)

\* Without a mishap the last request is for the places of the form, or their
\* route is drawn.
WayAgrees == mishaps = 0 /\ None \notin {pickup, dropoff} =>
    IF routes = <<>> THEN Drawn(Way) ELSE routes[Len(routes)] = Way

\* The panel changes to the preview only with both places chosen and the
\* dropoff's address in the box.
PanelAgrees ==
    /\ timer \/ step = "ROUTE_PREVIEW" => pickup # None
    /\ mishaps = 0 /\ (step = "ROUTE_PREVIEW" \/ (timer /\ step # "RIDE" /\ dropoff # None)) =>
           dropoff # None /\ dropoffAddress = dropoff

\* The inductive invariant.
Inv == TypeOK /\ HiddenOK /\ TextsAgree /\ WayAgrees /\ PanelAgrees

-----------------------------------------------------------------------------
LEMMA RemoveAtProperties ==
    ASSUME NEW S, NEW s \in Seq(S), NEW i \in DOMAIN s
    PROVE  /\ RemoveAt(s, i) \in Seq(S)
           /\ Len(RemoveAt(s, i)) = Len(s) - 1
           /\ i = 1 => \A j \in 1..(Len(s) - 1) : RemoveAt(s, i)[j] = s[j + 1]
<1> DEFINE before == SubSeq(s, 1, i - 1)
           after == SubSeq(s, i + 1, Len(s))
<1>1. i \in 1..Len(s) /\ Len(s) \in Nat
  OBVIOUS
<1>2. /\ before \in Seq(S)
      /\ Len(before) = i - 1
  <2>1. 1 \in 1..(Len(s) + 1) /\ i - 1 \in 0..Len(s)
    BY <1>1
  <2>2. \A k \in 1..(i - 1) : s[k] \in S
    BY <1>1
  <2>3. QED
    BY <1>1, <2>1, <2>2, SubSeqProperties
<1>3. /\ after \in Seq(S)
      /\ Len(after) = Len(s) - i
      /\ \A j \in 1..(Len(s) - i) : after[j] = s[i + j]
  BY <1>1, SubSeqProperties
<1>4. RemoveAt(s, i) = before \o after
  BY DEF RemoveAt
<1> HIDE DEF before, after
<1>5. Len(before) + Len(after) = Len(s) - 1
  BY <1>1, <1>2, <1>3
<1>6. before \o after \in Seq(S) /\ Len(before \o after) = Len(s) - 1
  BY <1>2, <1>3, <1>5, ConcatProperties
<1>7. ASSUME i = 1, NEW j \in 1..(Len(s) - 1)
      PROVE  (before \o after)[j] = s[j + 1]
  <2>1. Len(before) = 0 /\ j \in 1..(Len(before) + Len(after)) /\ ~(j <= Len(before))
    BY <1>1, <1>2, <1>5, <1>7
  <2>2. (before \o after)[j] = after[j - 0]
    BY <1>2, <1>3, <2>1, ConcatProperties
  <2>3. after[j] = s[1 + j]
    BY <1>1, <1>3, <1>7
  <2>4. j - 0 = j /\ 1 + j = j + 1
    OBVIOUS
  <2>5. QED
    BY <2>2, <2>3, <2>4
<1>8. QED
  BY <1>4, <1>6, <1>7

\* Mishaps are only ever counted up.
LEMMA MishapsGrow ==
    ASSUME TypeOK, Next
    PROVE  mishaps' \in 0..MaxMishaps /\ (mishaps' = 0 => mishaps = 0)
<1>1. mishaps \in Nat /\ MaxMishaps \in Nat /\ mishaps \in 0..MaxMishaps
  BY BoundAssumption DEF TypeOK
<1>2. mishaps' = mishaps \/ Mishap
  BY DEF Next, Moves, GetCurrentPosition, AskPosition, PositionForPickup, GpsButton, SetOnMap,
     ConfirmPickup, HandlePickupSelect, HandleMapCenterChange, SelectPlace, Type, PositionKnown,
     Search, SearchReturns, Browse, TimerFires, Back, Booked, ResetFlow, PollRestores, RouteAnswer,
     SetPickup, MishapIf, page, form
<1>3. QED
  BY <1>1, <1>2 DEF Mishap

-----------------------------------------------------------------------------
(* Types *)

RoutesOK == routes \in Seq(Spots \X Spots) /\ Len(routes) <= MaxRoutes
FormOK ==
    /\ step \in {"LOCATION_INPUT", "ROUTE_PREVIEW", "RIDE"}
    /\ pickup \in Spots \cup {None} /\ dropoff \in Spots \cup {None}
    /\ dropoffAddress \in Texts \cup {None}
    /\ isMapSelecting \in BOOLEAN /\ timer \in BOOLEAN
    /\ distanceOf \in Spots \X Spots \cup {None}
    /\ positionFor \subseteq {"page", "box"}

LEMMA TypeParts == TypeOK <=> BoxTypeOK /\ FormOK /\ RoutesOK /\ mishaps \in 0..MaxMishaps
BY DEF TypeOK, FormOK, RoutesOK

LEMMA FetchRouteOK ==
    ASSUME RoutesOK, pickup' \in Spots \cup {None}, dropoff' \in Spots \cup {None}, FetchRoute
    PROVE  RoutesOK'
<1>1. CASE None \in {pickup', dropoff'}
  BY <1>1 DEF RoutesOK, FetchRoute
<1>2. CASE None \notin {pickup', dropoff'}
  <2>1. <<pickup', dropoff'>> \in Spots \X Spots
    BY <1>2
  <2>2. routes' = Append(routes, <<pickup', dropoff'>>) /\ Len(routes) < MaxRoutes
    BY <1>2 DEF FetchRoute
  <2>3. routes' \in Seq(Spots \X Spots) /\ Len(routes') = Len(routes) + 1
    BY <2>1, <2>2, AppendProperties DEF RoutesOK
  <2>4. Len(routes) \in Nat /\ MaxRoutes \in Nat
    BY BoundAssumption DEF RoutesOK
  <2>5. QED
    BY <2>2, <2>3, <2>4 DEF RoutesOK
<1>3. QED
  BY <1>1, <1>2

\* The steps by what they do to the way and the route.
AsksRoute ==
    /\ FetchRoute \/ UNCHANGED <<pickup, dropoff, routes>>
    /\ UNCHANGED <<routeCoordinates, routeWaypoints, distanceOf>>
KeepsWay == UNCHANGED <<pickup, dropoff, routes, routeCoordinates, routeWaypoints, distanceOf>>

LEMMA WaySteps ==
    ASSUME Next
    PROVE  AsksRoute \/ KeepsWay \/ ResetFlow \/ \E i \in DOMAIN routes : RouteAnswer(i)
BY DEF Next, Moves, AsksRoute, KeepsWay, GetCurrentPosition, AskPosition, PositionForPickup,
   GpsButton, SetOnMap, ConfirmPickup, HandlePickupSelect, HandleMapCenterChange, SelectPlace, Type,
   PositionKnown, Search, SearchReturns, Browse, TimerFires, Back, Booked, PollRestores, SetPickup,
   HandleDropoffSelect, page, form

\* The places and texts that a step puts into the form are known ones.
LEMMA FormKept ==
    ASSUME TypeOK, Next
    PROVE  FormOK'
<1> USE RoadAssumption DEF FormOK, Spots, Texts, Typed
<1>0. FormOK
  BY TypeParts
<1>1. CASE \/ GetCurrentPosition \/ PositionForPickup \/ (GpsButton /\ UNCHANGED positionFor)
           \/ \E spot \in Spots :
                  (HandlePickupSelect(spot) \/ HandleMapCenterChange(spot)) /\ UNCHANGED positionFor
  BY <1>0, <1>1 DEF GetCurrentPosition, PositionForPickup, GpsButton, HandlePickupSelect,
     HandleMapCenterChange, SetPickup, page, form
<1>2. CASE (SetOnMap \/ ConfirmPickup \/ TimerFires \/ Back \/ Booked \/ ResetFlow) /\ UNCHANGED positionFor
  BY <1>0, <1>2 DEF SetOnMap, ConfirmPickup, TimerFires, Back, Booked, ResetFlow
<1>3. CASE (PositionKnown \/ \E spot \in Spots : SelectPlace(spot)) /\ UNCHANGED positionFor
  BY <1>0, <1>3 DEF PositionKnown, SelectPlace, HandleDropoffSelect
<1>4. CASE \/ AskPosition
           \/ /\ UNCHANGED positionFor
              /\ \/ Search \/ Browse \/ \E t \in Typed : Type(t)
                 \/ \E i \in DOMAIN searches : SearchReturns(i)
  BY <1>0, <1>4 DEF AskPosition, Search, SearchReturns, Browse, Type, page, form
<1>5. CASE (\E from, to \in Spots : PollRestores(from, to)) /\ UNCHANGED positionFor
  BY <1>0, <1>5 DEF PollRestores
<1>6. ASSUME NEW i \in DOMAIN routes, RouteAnswer(i), UNCHANGED positionFor
      PROVE  FormOK'
  <2>1. routes[i] \in Spots \X Spots
    BY <1>6, TypeParts DEF RoutesOK
  <2>2. QED
    BY <1>0, <1>6, <2>1 DEF RouteAnswer, ShowRoute
<1>7. QED
  BY <1>1, <1>2, <1>3, <1>4, <1>5, <1>6 DEF Next, Moves

LEMMA RoutesKept ==
    ASSUME TypeOK, Next
    PROVE  RoutesOK'
<1>0. RoutesOK
  BY TypeParts
<1>1. CASE AsksRoute
  <2>1. pickup' \in Spots \cup {None} /\ dropoff' \in Spots \cup {None}
    BY FormKept DEF FormOK
  <2>2. QED
    BY <1>0, <1>1, <2>1, FetchRouteOK DEF AsksRoute, RoutesOK
<1>2. CASE KeepsWay \/ ResetFlow
  BY <1>0, <1>2 DEF KeepsWay, ResetFlow, RoutesOK
<1>3. ASSUME NEW i \in DOMAIN routes, RouteAnswer(i)
      PROVE  RoutesOK'
  <2>1. routes' = RemoveAt(routes, i)
    BY <1>3 DEF RouteAnswer
  <2>2. routes' \in Seq(Spots \X Spots) /\ Len(routes') = Len(routes) - 1
    BY <1>0, <2>1, RemoveAtProperties DEF RoutesOK
  <2>3. Len(routes) \in Nat /\ MaxRoutes \in Nat
    BY <1>0, BoundAssumption DEF RoutesOK
  <2>4. QED
    BY <1>0, <2>2, <2>3 DEF RoutesOK
<1>4. QED
  BY <1>1, <1>2, <1>3, WaySteps

LEMMA BoxKept ==
    ASSUME TypeOK, Next
    PROVE  BoxTypeOK'
<1> USE DEF BoxTypeOK
<1>0. BoxTypeOK
  BY TypeParts
<1>1. CASE UNCHANGED box
  BY <1>0, <1>1 DEF box
<1>2. CASE Unmounted /\ UNCHANGED locating
  <2>1. <<>> \in Seq(Long) /\ Len(<<>>) <= MaxSearches
    BY BoundAssumption
  <2>2. QED
    BY <1>0, <1>2, <2>1 DEF Unmounted
<1>3. CASE SearchPlaces
  <2>1. CASE UNCHANGED searches
    BY <1>0, <1>3, <2>1 DEF SearchPlaces
  <2>2. CASE /\ debounce \in Long /\ Len(searches) < MaxSearches
             /\ searches' = Append(searches, debounce)
             /\ UNCHANGED <<suggestions, isOpen>>
    <3>1. searches' \in Seq(Long) /\ Len(searches') = Len(searches) + 1
      BY <1>0, <2>2, AppendProperties
    <3>2. Len(searches) \in Nat /\ MaxSearches \in Nat
      BY <1>0, BoundAssumption
    <3>3. Len(searches') <= MaxSearches
      BY <2>2, <3>1, <3>2
    <3>4. QED
      BY <1>0, <1>3, <2>2, <3>1, <3>3 DEF SearchPlaces
  <2>3. QED
    BY <1>3, <2>1, <2>2 DEF SearchPlaces
<1>4. ASSUME NEW i \in DOMAIN searches, SearchAnswer(i) \/ SearchError(i)
      PROVE  BoxTypeOK'
  <2>1. searches' = RemoveAt(searches, i) /\ UNCHANGED <<debounce, locating>>
    BY <1>4 DEF SearchAnswer, SearchError
  <2>2. searches' \in Seq(Long) /\ Len(searches') = Len(searches) - 1
    BY <1>0, <2>1, RemoveAtProperties
  <2>3. Len(searches) \in Nat /\ MaxSearches \in Nat
    BY <1>0, BoundAssumption
  <2>4. searches[i] \in Long
    BY <1>0
  <2>5. /\ isOpen' \in BOOLEAN
        /\ suggestions' \in Long \cup {None}
        /\ suggestions' # None => Found[suggestions'] # {}
    BY <1>0, <1>4, <2>4 DEF SearchAnswer, SearchError
  <2>6. Len(searches') <= MaxSearches
    BY <1>0, <2>2, <2>3
  <2>7. QED
    BY <1>0, <2>1, <2>2, <2>5, <2>6
<1>5. CASE \/ ClickOutside \/ Focus \/ HandleCurrentLocation \/ NotLocated \/ Located
           \/ \E spot \in Spots : HandleSelect(spot)
           \/ \E t \in Typed : HandleInputChange(t)
  BY <1>0, <1>5 DEF ClickOutside, Focus, HandleCurrentLocation, NotLocated, Located,
     HandleSelect, HandleInputChange, Typed
<1>6. CASE \/ GetCurrentPosition \/ AskPosition \/ PositionForPickup \/ GpsButton \/ ConfirmPickup
           \/ Back \/ ResetFlow
           \/ \E spot \in Spots : HandlePickupSelect(spot) \/ HandleMapCenterChange(spot)
           \/ \E i \in DOMAIN routes : RouteAnswer(i)
  <2>1. UNCHANGED box
    BY <1>6 DEF GetCurrentPosition, AskPosition, PositionForPickup, GpsButton, ConfirmPickup, Back,
       ResetFlow, HandlePickupSelect, HandleMapCenterChange, RouteAnswer, SetPickup
  <2>2. QED
    BY <1>1, <2>1
<1>7. CASE \/ SetOnMap \/ TimerFires \/ Booked
           \/ \E from, to \in Spots : PollRestores(from, to)
  <2>1. BoxFollows
    BY <1>7 DEF SetOnMap, TimerFires, Booked, PollRestores
  <2>2. QED
    BY <1>1, <1>2, <2>1 DEF BoxFollows
<1>8. CASE \/ PositionKnown \/ Browse
           \/ \E spot \in Spots : SelectPlace(spot)
           \/ \E t \in Typed : Type(t)
  <2>1. CASE Browse
    BY <1>5, <2>1 DEF Browse
  <2>2. CASE \/ PositionKnown
             \/ \E spot \in Spots : SelectPlace(spot)
             \/ \E t \in Typed : Type(t)
    BY <1>5, <2>2 DEF PositionKnown, SelectPlace, Type
  <2>3. QED
    BY <1>8, <2>1, <2>2
<1>9. CASE Search \/ \E i \in DOMAIN searches : SearchReturns(i)
  BY <1>3, <1>4, <1>9 DEF Search, SearchReturns
<1>10. QED
  BY <1>6, <1>7, <1>8, <1>9 DEF Next, Moves

LEMMA TypeKept ==
    ASSUME TypeOK, Next
    PROVE  TypeOK'
<1>1. BoxTypeOK' /\ FormOK' /\ RoutesOK' /\ mishaps' \in 0..MaxMishaps
  BY BoxKept, FormKept, RoutesKept, MishapsGrow
<1>2. QED
  BY <1>1 DEF TypeOK, FormOK, RoutesOK

-----------------------------------------------------------------------------
(* The box *)

\* The steps by what they do to the box and its text.
KeepsText == UNCHANGED box /\ UNCHANGED dropoffAddress
Empties == debounce' = None /\ searches' = <<>> /\ suggestions' = None /\ ~isOpen'

LEMMA BoxSteps ==
    ASSUME Next
    PROVE  \/ KeepsText \/ Empties \/ ResetFlow \/ PositionKnown \/ Search \/ Browse
           \/ \E i \in DOMAIN searches : SearchReturns(i)
           \/ \E from, to \in Spots : PollRestores(from, to)
           \/ \E spot \in Spots : SelectPlace(spot)
           \/ \E t \in Typed : Type(t)
BY DEF Next, Moves, KeepsText, Empties, Unmounted, BoxFollows, box, page, form,
   GetCurrentPosition, AskPosition, PositionForPickup, GpsButton, SetOnMap, ConfirmPickup,
   HandlePickupSelect, HandleMapCenterChange, TimerFires, Back, Booked, RouteAnswer, SetPickup

\* The box goes off the page only in steps that empty it.
LEMMA HiddenKept ==
    ASSUME TypeOK, HiddenOK, Next
    PROVE  HiddenOK'
<1> USE DEF HiddenOK, box
<1>1. CASE \/ SetOnMap \/ TimerFires \/ Booked
           \/ \E from, to \in Spots : PollRestores(from, to)
  BY <1>1 DEF SetOnMap, TimerFires, Booked, PollRestores, BoxFollows, Unmounted
<1>2. CASE \/ GetCurrentPosition \/ AskPosition \/ PositionForPickup \/ GpsButton \/ ConfirmPickup
           \/ Back \/ ResetFlow
           \/ \E spot \in Spots : HandlePickupSelect(spot) \/ HandleMapCenterChange(spot)
           \/ \E i \in DOMAIN routes : RouteAnswer(i)
  <2>1. UNCHANGED box
    BY <1>2 DEF GetCurrentPosition, AskPosition, PositionForPickup, GpsButton, ConfirmPickup,
       Back, ResetFlow, HandlePickupSelect, HandleMapCenterChange, RouteAnswer, SetPickup
  <2>2. BoxShown => BoxShown'
    BY <1>2 DEF BoxShown, page, form, GetCurrentPosition, AskPosition, PositionForPickup,
       GpsButton, ConfirmPickup, Back, ResetFlow, HandlePickupSelect, HandleMapCenterChange,
       RouteAnswer, SetPickup
  <2>3. QED
    BY <2>1, <2>2
<1>3. CASE \/ Search \/ PositionKnown
           \/ \E spot \in Spots : SelectPlace(spot)
           \/ \E t \in Typed : Type(t)
  <2>1. BoxShown' = BoxShown
    BY <1>3 DEF BoxShown, form, Search, PositionKnown, SelectPlace, Type, HandleDropoffSelect
  <2>2. CASE \E t \in Typed : Type(t)
    BY <2>1, <2>2 DEF Type
  <2>3. CASE PositionKnown
    BY <2>1, <2>3 DEF PositionKnown, Located
  <2>4. CASE \/ Search \/ \E spot \in Spots : SelectPlace(spot)
    BY <2>1, <2>4 DEF Search, SearchPlaces, SelectPlace, HandleSelect
  <2>5. QED
    BY <1>3, <2>2, <2>3, <2>4
<1>4. CASE Browse \/ \E i \in DOMAIN searches : SearchReturns(i)
  <2>1. BoxShown' = BoxShown
    BY <1>4 DEF Browse, SearchReturns, page, form, BoxShown
  <2>2. ~BoxShown => searches = <<>>
    OBVIOUS
  <2>3. DOMAIN <<>> = {}
    OBVIOUS
  <2>4. QED
    BY <1>4, <2>1, <2>2, <2>3 DEF Browse, SearchReturns, ClickOutside, Focus, HandleCurrentLocation,
       NotLocated
<1>5. QED
  BY <1>1, <1>2, <1>3, <1>4 DEF Next, Moves

\* Without a mishap a text is typed, then searched for, then listed, and each
\* of these is given up when another is typed; a choice puts an address into
\* the box.
LEMMA TextsKept ==
    ASSUME TypeOK, HiddenOK, TextsAgree, Next
    PROVE  TextsAgree'
<1> SUFFICES ASSUME mishaps' = 0, dropoffAddress' \in Typed
             PROVE  TextsAgree'
  BY DEF TextsAgree
<1>0. /\ mishaps = 0
      /\ searches \in Seq(Long)
      /\ suggestions \in Long \cup {None}
  BY MishapsGrow DEF TypeOK, BoxTypeOK
<1>late. ASSUME NEW late, MishapIf(late)
      PROVE  ~late
  BY <1>0, <1>late DEF MishapIf, Mishap
<1> USE <1>0 DEF TextsAgree
<1>1. CASE KeepsText
  BY <1>1 DEF KeepsText, box
<1>2. CASE Empties
  BY <1>2 DEF Empties
<1>3. CASE ResetFlow
  BY <1>3, NoneAssumption DEF ResetFlow, Typed
<1>4. CASE \E from, to \in Spots : PollRestores(from, to)
  <2>1. step' = "RIDE"
    BY <1>4, <1>late DEF PollRestores
  <2>2. Empties
    BY <1>4, <2>1 DEF PollRestores, BoxFollows, BoxShown, Unmounted, Empties
  <2>3. QED
    BY <2>2, <1>2
<1>5. CASE PositionKnown \/ \E spot \in Spots : SelectPlace(spot)
  <2>1. dropoffAddress' \in Spots
    BY <1>5, RoadAssumption DEF PositionKnown, SelectPlace, HandleDropoffSelect
  <2>2. QED
    BY <2>1, TypedAssumption
<1>6. CASE \E t \in Typed : Type(t)
  BY <1>6, NoneAssumption DEF Type, HandleInputChange, Typed
<1>7. CASE Search
  <2>1. UNCHANGED dropoffAddress /\ debounce # None /\ debounce = dropoffAddress /\ debounce' = None
    BY <1>7 DEF Search, SearchPlaces, form
  <2>2. CASE debounce \in Long /\ searches' = Append(searches, debounce)
    <3>1. searches' # <<>> /\ searches'[Len(searches')] = debounce
      BY <2>2
    <3>2. QED
      BY <2>1, <3>1
  <2>3. CASE debounce \in Short /\ suggestions' = None /\ UNCHANGED searches
    <3>1. searches = <<>>
      BY <1>7, <1>late, <2>3 DEF Search
    <3>2. QED
      BY <2>1, <2>3, <3>1
  <2>4. QED
    BY <1>7, <2>2, <2>3 DEF Search, SearchPlaces
<1>8. ASSUME NEW i \in DOMAIN searches, SearchReturns(i)
      PROVE  TextsAgree'
  <2>1. i = 1
    <3>0. MishapIf(i > 1)
      BY <1>8 DEF SearchReturns
    <3>1. ~(i > 1) /\ i \in Nat /\ i >= 1
      <4>1. i \in Nat /\ i >= 1
        OBVIOUS
      <4>2. ~(i > 1)
        BY <3>0, <1>late, Zenon
      <4>3. QED
        BY <4>1, <4>2
    <3>2. \A n \in Nat : n >= 1 /\ ~(n > 1) => n = 1
      OBVIOUS
    <3>3. QED
      BY <3>1, <3>2
  <2>2. UNCHANGED <<dropoffAddress, debounce>> /\ searches' = RemoveAt(searches, i)
    BY <1>8 DEF SearchReturns, SearchAnswer, SearchError, form
  <2>3. /\ searches' \in Seq(Long) /\ Len(searches') = Len(searches) - 1
        /\ \A j \in 1..(Len(searches) - 1) : searches'[j] = searches[j + 1]
    BY <2>1, <2>2, RemoveAtProperties
  <2>4. Len(searches) \in Nat /\ Len(searches) >= 1 /\ searches # <<>>
    BY <1>8
  <2>5. CASE Len(searches) = 1
    <3>1. searches' = <<>>
      BY <2>3, <2>5
    <3>2. suggestions' \in {searches[Len(searches)], None}
      BY <1>8, <2>1, <2>5 DEF SearchReturns, SearchAnswer, SearchError
    <3>3. QED
      BY <2>2, <2>4, <3>1, <3>2
  <2>6. CASE Len(searches) > 1
    <3>1. searches' # <<>> /\ Len(searches') \in 1..(Len(searches) - 1)
      BY <2>3, <2>4, <2>6
    <3>2. searches'[Len(searches')] = searches[Len(searches)]
      BY <2>3, <2>4, <3>1
    <3>3. QED
      BY <2>2, <2>4, <3>1, <3>2
  <2>7. Len(searches) = 1 \/ Len(searches) > 1
    <3>1. \A n \in Nat : n >= 1 => n = 1 \/ n > 1
      OBVIOUS
    <3>2. QED
      BY <2>4, <3>1
  <2>8. QED
    BY <2>5, <2>6, <2>7
<1>9. CASE Browse
  BY <1>9 DEF Browse, page, form, ClickOutside, Focus, HandleCurrentLocation, NotLocated
<1>10. QED
  BY <1>1, <1>2, <1>3, <1>4, <1>5, <1>6, <1>7, <1>8, <1>9, BoxSteps

-----------------------------------------------------------------------------
(* The way and the panel *)

\* Answers come in order, so that the one that empties the queue is that of
\* the latest places.
LEMMA WayKept ==
    ASSUME TypeOK, WayAgrees, Next
    PROVE  WayAgrees'
<1> SUFFICES ASSUME mishaps' = 0, None \notin {pickup', dropoff'}
             PROVE  WayAgrees'
  BY DEF WayAgrees
<1>0. /\ mishaps = 0
      /\ routes \in Seq(Spots \X Spots) /\ Len(routes) \in Nat
  BY MishapsGrow DEF TypeOK
<1> USE <1>0 DEF WayAgrees, Way, Drawn
<1>1. CASE KeepsWay \/ (AsksRoute /\ UNCHANGED <<pickup, dropoff, routes>>)
  <2>1. UNCHANGED <<pickup, dropoff, routes, routeCoordinates, routeWaypoints, distanceOf>>
    BY <1>1 DEF KeepsWay, AsksRoute
  <2>2. QED
    BY <2>1
<1>2. CASE AsksRoute /\ FetchRoute
  <2>1. routes' = Append(routes, <<pickup', dropoff'>>)
    BY <1>2 DEF FetchRoute
  <2>2. PICK way : way = <<pickup', dropoff'>>
    OBVIOUS
  <2>3. routes' = Append(routes, way)
    BY <2>1, <2>2
  <2>4. routes' # <<>> /\ routes'[Len(routes')] = way
    BY <2>3
  <2>5. QED
    BY <2>2, <2>4
<1>3. CASE ResetFlow
  BY <1>3 DEF ResetFlow
<1>4. ASSUME NEW i \in DOMAIN routes, RouteAnswer(i)
      PROVE  WayAgrees'
  <2>1. i = 1 /\ ShowRoute(i, routeCoordinates') /\ routeCoordinates' \in {Points[routes[i]], routes[i]}
    BY <1>4 DEF RouteAnswer, MishapIf, Mishap, ShowRoute
  <2>2. UNCHANGED <<pickup, dropoff>> /\ routes' = RemoveAt(routes, i)
    BY <1>4 DEF RouteAnswer
  <2>3. /\ Len(routes') = Len(routes) - 1 /\ routes' \in Seq(Spots \X Spots)
        /\ \A j \in 1..(Len(routes) - 1) : routes'[j] = routes[j + 1]
    BY <2>1, <2>2, RemoveAtProperties
  <2>4. Len(routes) >= 1 /\ routes # <<>>
    BY <1>4
  <2>5. routes[Len(routes)] = <<pickup, dropoff>>
    BY <2>2, <2>4
  <2>6. CASE Len(routes) = 1
    <3>1. routes' = <<>>
      BY <2>3, <2>6
    <3>2. routes[i] = <<pickup, dropoff>>
      BY <2>1, <2>5, <2>6
    <3>3. QED
      BY <2>1, <2>2, <3>1, <3>2 DEF ShowRoute
  <2>7. CASE Len(routes) > 1
    <3>1. routes'[Len(routes) - 1] = routes[Len(routes)] /\ routes' # <<>>
      BY <2>3, <2>7
    <3>2. QED
      BY <2>2, <2>3, <2>5, <3>1
  <2>8. Len(routes) = 1 \/ Len(routes) > 1
    <3>1. \A n \in Nat : n >= 1 => n = 1 \/ n > 1
      OBVIOUS
    <3>2. QED
      BY <2>4, <3>1
  <2>9. QED
    BY <2>6, <2>7, <2>8
<1>5. QED
  BY <1>1, <1>2, <1>3, <1>4, WaySteps DEF AsksRoute

\* The timer is started with both places chosen, and stopped by none of the
\* steps that take one away; such a step makes its firing a mishap.
LEMMA PanelKept ==
    ASSUME TypeOK, PanelAgrees, Next
    PROVE  PanelAgrees'
<1>0. mishaps' = 0 => mishaps = 0
  BY MishapsGrow
<1>late. ASSUME NEW late, MishapIf(late), mishaps' = 0
      PROVE  ~late
  <2>1. mishaps \in Nat
    BY BoundAssumption DEF TypeOK
  <2>2. QED
    BY <1>late, <2>1 DEF MishapIf, Mishap
<1> USE NoneAssumption, RoadAssumption DEF PanelAgrees, Spots
<1>1. CASE \/ GetCurrentPosition \/ PositionForPickup \/ (GpsButton /\ UNCHANGED positionFor)
           \/ \E spot \in Spots :
                  (HandlePickupSelect(spot) \/ HandleMapCenterChange(spot)) /\ UNCHANGED positionFor
  BY <1>0, <1>1 DEF GetCurrentPosition, PositionForPickup, GpsButton, HandlePickupSelect,
     HandleMapCenterChange, SetPickup, page, form
<1>2. CASE SetOnMap \/ ConfirmPickup \/ Back \/ Booked \/ ResetFlow
  BY <1>0, <1>2 DEF SetOnMap, ConfirmPickup, Back, Booked, ResetFlow, BoxShown
<1>3. CASE TimerFires
  BY <1>0, <1>late, <1>3 DEF TimerFires
<1>4. CASE PositionKnown \/ \E spot \in Spots : SelectPlace(spot)
  BY <1>0, <1>4 DEF PositionKnown, SelectPlace, HandleDropoffSelect
<1>5. CASE \E t \in Typed : Type(t)
  BY <1>0, <1>late, <1>5 DEF Type, BoxShown
<1>6. CASE AskPosition \/ Search \/ Browse \/ \E i \in DOMAIN searches : SearchReturns(i)
  BY <1>0, <1>6 DEF AskPosition, Search, SearchReturns, Browse, page, form
<1>7. CASE \E from, to \in Spots : PollRestores(from, to)
  BY <1>0, <1>late, <1>7 DEF PollRestores
<1>8. CASE \E i \in DOMAIN routes : RouteAnswer(i)
  BY <1>0, <1>8 DEF RouteAnswer
<1>9. QED
  BY <1>1, <1>2, <1>3, <1>4, <1>5, <1>6, <1>7, <1>8 DEF Next, Moves

-----------------------------------------------------------------------------
(* The route on the wire *)

\* Induction over the naturals, as a fact about sets.
LEMMA StrongInduction ==
    ASSUME NEW S \in SUBSET Nat, \A n \in Nat : (\A m \in 0..(n - 1) : m \in S) => n \in S
    PROVE  S = Nat
<1> DEFINE R == {p \in Nat \X Nat : p[1] < p[2]}
           T == Nat \ S
<1>1. IsWellFoundedOn(R, Nat)
  BY NatLessThanWellFounded DEF OpToRel
<1>2. \A x, y \in Nat : x < y => <<x, y>> \in R
  OBVIOUS
<1>3. SUFFICES ASSUME T # {} PROVE FALSE
  OBVIOUS
<1>4. PICK x \in T : \A y \in T : ~(<<y, x>> \in R)
  <2> HIDE DEF R
  <2>1. T \subseteq Nat
    OBVIOUS
  <2> HIDE DEF T
  <2>2. QED
    BY <1>1, <1>3, <2>1, WFMin
<1>5. ASSUME NEW m \in 0..(x - 1)
      PROVE  m \in S
  <2>1. m \in Nat /\ m < x /\ x \in Nat
    OBVIOUS
  <2>2. <<m, x>> \in R
    BY <1>2, <2>1
  <2>3. QED
    BY <1>4, <2>1, <2>2
<1>6. x \in Nat /\ x \notin S
  OBVIOUS
<1>7. QED
  BY <1>5, <1>6

LEMMA Induction ==
    ASSUME NEW S \in SUBSET Nat, 0 \in S, \A n \in S : n + 1 \in S
    PROVE  S = Nat
<1>1. ASSUME NEW n \in Nat, \A m \in 0..(n - 1) : m \in S
      PROVE  n \in S
  <2>1. CASE n = 0
    BY <2>1
  <2>2. CASE n # 0
    <3>1. n - 1 \in 0..(n - 1) /\ n = (n - 1) + 1
      BY <2>2
    <3>2. n - 1 \in S
      BY <1>1, <3>1
    <3>3. (n - 1) + 1 \in S
      BY <3>2
    <3>4. QED
      BY <3>1, <3>3
  <2>3. QED
    BY <2>1, <2>2
<1>2. QED
  BY <1>1, StrongInduction

\* What is defined by its value at 0 and by a step from each value to the next
\* exists, and its values have the type that the steps keep.
Recursive(f, n, X, base, F) ==
    f \in [0..n -> X] /\ f[0] = base /\ \A i \in 1..n : f[i] = F[i][f[i - 1]]

LEMMA Recursion ==
    ASSUME NEW n \in Nat, NEW X, NEW base \in X, NEW F \in [1..n -> [X -> X]]
    PROVE  \E f : Recursive(f, n, X, base, F)
<1> DEFINE P(f, k) == f[0] = base /\ \A i \in 1..k : f[i] = F[i][f[i - 1]]
           S == {k \in Nat : k <= n => \E f \in [0..k -> X] : P(f, k)}
<1>1. 0 \in S
  <2>1. P([i \in 0..0 |-> base], 0) /\ [i \in 0..0 |-> base] \in [0..0 -> X]
    OBVIOUS
  <2>2. QED
    BY <2>1
<1>2. ASSUME NEW k \in S
      PROVE  k + 1 \in S
  <2>0. SUFFICES ASSUME k + 1 <= n
                 PROVE  \E f \in [0..(k + 1) -> X] : P(f, k + 1)
    <3>1. k + 1 \in Nat
      OBVIOUS
    <3>2. QED
      BY <3>1
  <2>1. PICK f \in [0..k -> X] : P(f, k)
    BY <1>2, <2>0
  <2> DEFINE g == [i \in 0..(k + 1) |-> IF i <= k THEN f[i] ELSE F[k + 1][f[k]]]
  <2>2. F[k + 1][f[k]] \in X
    BY <2>0
  <2>3. g \in [0..(k + 1) -> X] /\ g[0] = base
    BY <2>1, <2>2
  <2>4. ASSUME NEW i \in 1..(k + 1)
        PROVE  g[i] = F[i][g[i - 1]]
    <3>1. i - 1 \in 0..k /\ g[i - 1] = f[i - 1]
      OBVIOUS
    <3>2. CASE i <= k
      BY <2>1, <3>1, <3>2
    <3>3. CASE i = k + 1
      BY <3>1, <3>3
    <3>4. QED
      BY <3>2, <3>3
  <2>5. QED
    BY <2>3, <2>4
<1>3. S = Nat
  <2> HIDE DEF S
  <2>1. S \in SUBSET Nat
    BY DEF S
  <2>2. QED
    BY <1>1, <1>2, <2>1, Induction
<1>4. PICK f \in [0..n -> X] : P(f, n)
  BY <1>3
<1>5. Recursive(f, n, X, base, F)
  BY <1>4 DEF Recursive
<1>6. QED
  BY <1>5

\* The encoder's numbers.
Chars(f, k) == IF k < 32 THEN <<k>> ELSE <<32 + (k % 32)>> \o f[k \div 32]
Written(f, m) == f \in [0..m -> Seq(Nat)] /\ \A k \in 0..m : f[k] = Chars(f, k)

LEMMA Halves == \A k \in Nat : k >= 32 => k \div 32 \in 0..(k - 1) /\ 32 + (k % 32) \in Nat
OBVIOUS

LEMMA CharsAgree ==
    ASSUME NEW k \in Nat, NEW f, NEW g, k >= 32 => f[k \div 32] = g[k \div 32]
    PROVE  Chars(f, k) = Chars(g, k)
<1>1. CASE k < 32
  BY <1>1 DEF Chars
<1>2. CASE k >= 32
  BY <1>2 DEF Chars
<1>3. QED
  BY <1>1, <1>2

LEMMA CharsType ==
    ASSUME NEW k \in Nat, NEW f, k >= 32 => f[k \div 32] \in Seq(Nat)
    PROVE  Chars(f, k) \in Seq(Nat)
<1>1. CASE k < 32
  BY <1>1 DEF Chars
<1>2. CASE k >= 32
  <2>1. <<32 + (k % 32)>> \in Seq(Nat)
    BY <1>2, Halves
  <2>2. <<32 + (k % 32)>> \o f[k \div 32] \in Seq(Nat)
    BY <1>2, <2>1, ConcatProperties
  <2>3. QED
    BY <1>2, <2>2 DEF Chars
<1>3. QED
  BY <1>1, <1>2

LEMMA WrittenExists == \A m \in Nat : \E f : Written(f, m)
<1> DEFINE S == {m \in Nat : \E f : Written(f, m)}
<1>1. ASSUME NEW m \in Nat, \A l \in 0..(m - 1) : l \in S
      PROVE  m \in S
  <2>1. \E f : m # 0 => Written(f, m - 1)
    <3>1. CASE m # 0
      <4>1. m - 1 \in 0..(m - 1)
        BY <3>1
      <4>2. QED
        BY <1>1, <4>1
    <3>2. QED
      BY <3>1
  <2>2. PICK f : m # 0 => Written(f, m - 1)
    BY <2>1
  <2>g. PICK g : g = [k \in 0..m |-> IF k < m THEN f[k] ELSE Chars(f, m)]
    OBVIOUS
  <2>3. ASSUME NEW k \in Nat, k < m
        PROVE  f[k] \in Seq(Nat) /\ f[k] = Chars(f, k) /\ g[k] = f[k]
    <3>1. k \in 0..(m - 1) /\ m # 0 /\ k \in 0..m
      BY <2>3
    <3>2. QED
      BY <2>2, <2>3, <2>g, <3>1 DEF Written
  <2>4. ASSUME NEW k \in 0..m
        PROVE  g[k] = Chars(f, k) /\ Chars(f, k) = Chars(g, k) /\ Chars(f, k) \in Seq(Nat)
    <3>1. k >= 32 => k \div 32 \in Nat /\ k \div 32 < m
      BY Halves
    <3>2. k >= 32 => f[k \div 32] = g[k \div 32] /\ f[k \div 32] \in Seq(Nat)
      BY <2>3, <3>1
    <3>3. Chars(f, k) = Chars(g, k)
      BY <3>2, CharsAgree
    <3>4. Chars(f, k) \in Seq(Nat)
      BY <3>2, CharsType
    <3>5. CASE k < m
      BY <2>3, <3>3, <3>4, <3>5
    <3>6. CASE k = m
      <4>1. ~(k < m)
        BY <3>6
      <4>2. g[k] = Chars(f, m)
        BY <2>g, <4>1
      <4>3. QED
        BY <3>3, <3>4, <3>6, <4>2
    <3>7. QED
      BY <3>5, <3>6
  <2>5. g \in [0..m -> Seq(Nat)]
    BY <2>4, <2>g
  <2>6. Written(g, m)
    BY <2>4, <2>5 DEF Written
  <2>7. QED
    BY <2>6
<1>2. S \in SUBSET Nat
  OBVIOUS
<1>3. S = Nat
  <2> HIDE DEF S
  <2>1. QED
    BY <1>1, <1>2, StrongInduction
<1>4. QED
  BY <1>3

LEMMA WrittenUnique ==
    ASSUME NEW m \in Nat, NEW f, NEW g, NEW i \in Nat, NEW j \in Nat, i >= m, j >= m,
           Written(f, i), Written(g, j)
    PROVE  f[m] = g[m]
<1> DEFINE S == {k \in Nat : k <= m => f[k] = g[k]}
<1>1. ASSUME NEW k \in Nat, \A l \in 0..(k - 1) : l \in S
      PROVE  k \in S
  <2>1. ASSUME k <= m
        PROVE  f[k] = g[k]
    <3>1. k >= 32 => f[k \div 32] = g[k \div 32]
      <4>1. k >= 32 => k \div 32 \in S /\ k \div 32 <= m
        BY <1>1, <2>1, Halves
      <4>2. QED
        BY <4>1
    <3>2. Chars(f, k) = Chars(g, k)
      BY <3>1, CharsAgree
    <3>3. k \in 0..i /\ k \in 0..j
      BY <2>1
    <3>4. QED
      BY <3>2, <3>3 DEF Written
  <2>2. QED
    BY <2>1
<1>2. S \in SUBSET Nat
  OBVIOUS
<1>3. S = Nat
  <2> HIDE DEF S
  <2>1. QED
    BY <1>1, <1>2, StrongInduction
<1>4. m \in S
  BY <1>3
<1>5. QED
  BY <1>4

LEMMA ChunksDef ==
    ASSUME NEW n \in Nat
    PROVE  /\ Chunks(n) \in Seq(Nat)
           /\ n < 32 => Chunks(n) = <<n>>
           /\ n >= 32 => Chunks(n) = <<32 + (n % 32)>> \o Chunks(n \div 32)
<1> DEFINE first(m) == CHOOSE f : Written(f, m)
           h == [k \in Nat |-> first(k)[k]]
<1>1. \A m \in Nat : Written(first(m), m)
  BY WrittenExists
<1> HIDE DEF first
<1>2. \A m \in Nat : h[m] = first(m)[m]
  OBVIOUS
<1> HIDE DEF h
<1>3. ASSUME NEW m \in Nat
      PROVE  h[m] = Chars(h, m)
  <2>1. m \in 0..m
    OBVIOUS
  <2>2. h[m] = Chars(first(m), m)
    BY <1>1, <1>2, <2>1 DEF Written
  <2>3. m >= 32 => first(m)[m \div 32] = h[m \div 32]
    <3>1. ASSUME m >= 32
          PROVE  first(m)[m \div 32] = h[m \div 32]
      <4>1. m \div 32 \in Nat /\ m >= m \div 32 /\ m \div 32 >= m \div 32
        BY <3>1, Halves
      <4>2. PICK l \in Nat : l = m \div 32
        BY <4>1
      <4>3. first(m)[l] = first(l)[l]
        BY <1>1, <4>1, <4>2, WrittenUnique
      <4>4. QED
        BY <1>2, <4>2, <4>3
    <3>2. QED
      BY <3>1
  <2>4. QED
    BY <2>2, <2>3, CharsAgree
<1>4. h = [k \in Nat |-> IF k < 32 THEN <<k>> ELSE <<32 + (k % 32)>> \o h[k \div 32]]
  <2>1. h = [k \in Nat |-> h[k]]
    BY DEF h
  <2>2. QED
    BY <1>3, <2>1, Zenon DEF Chars
<1>5. PICK f : /\ f = [k \in Nat |-> IF k < 32 THEN <<k>> ELSE <<32 + (k % 32)>> \o f[k \div 32]]
               /\ \A m : Chunks(m) = f[m]
  BY <1>4, Zenon DEF Chunks
<1>6. \A m \in Nat : Chunks(m) = Chars(f, m)
  BY <1>5 DEF Chars
<1>7. \A m \in Nat : m < 32 => Chunks(m) = <<m>>
  BY <1>6 DEF Chars
<1>8. \A m \in Nat : m >= 32 => Chunks(m) = <<32 + (m % 32)>> \o Chunks(m \div 32)
  <2> SUFFICES ASSUME NEW m \in Nat, m >= 32
               PROVE  Chunks(m) = <<32 + (m % 32)>> \o Chunks(m \div 32)
    OBVIOUS
  <2>1. ~(m < 32)
    OBVIOUS
  <2>2. Chunks(m) = <<32 + (m % 32)>> \o f[m \div 32]
    BY <1>6, <2>1 DEF Chars
  <2>3. QED
    BY <1>5, <2>2, Zenon
<1>9. Chunks(n) \in Seq(Nat)
  <2> DEFINE S == {k \in Nat : Chunks(k) \in Seq(Nat)}
  <2>1. ASSUME NEW k \in Nat, \A l \in 0..(k - 1) : l \in S
        PROVE  k \in S
    <3>1. k >= 32 => f[k \div 32] \in Seq(Nat)
      BY <1>5, <2>1, Halves
    <3>2. QED
      BY <1>6, <3>1, CharsType
  <2>2. S \in SUBSET Nat
    OBVIOUS
  <2>3. S = Nat
    <3> HIDE DEF S
    <3>1. QED
      BY <2>1, <2>2, StrongInduction
  <2>4. QED
    BY <2>3
<1>10. QED
  BY <1>7, <1>8, <1>9

\* The decoder's states.
State == [result : Nat, weight : Nat, loop : {"lat", "lng"}, lat : Int, lng : Int,
          points : Seq(Int \X Int)]

LEMMA SignedZigZag == \A d \in Int : ZigZag(d) \in Nat /\ Signed(ZigZag(d)) = d
BY DEF Signed, ZigZag

LEMMA AddNumberType ==
    ASSUME NEW s \in State, NEW r \in Nat
    PROVE  AddNumber(s, r) \in State
<1>1. PICK lat, lng, points :
          lat = s.lat + Signed(r) /\ lng = s.lng + Signed(r) /\ points = Append(s.points, <<s.lat, lng>>)
  OBVIOUS
<1>2. lat \in Int /\ lng \in Int
  BY <1>1 DEF Signed, State
<1>3. points \in Seq(Int \X Int)
  <2>1. s.points \in Seq(Int \X Int) /\ <<s.lat, lng>> \in Int \X Int
    BY <1>2 DEF State
  <2>2. QED
    BY <1>1, <2>1, AppendProperties
<1>4. CASE s.loop = "lat"
  <2>1. [s EXCEPT !.result = 0, !.weight = 1, !.loop = "lng", !.lat = lat] \in State
    BY <1>2 DEF State
  <2>2. QED
    BY <1>1, <1>4, <2>1 DEF AddNumber
<1>5. CASE s.loop # "lat"
  <2>1. [s EXCEPT !.result = 0, !.weight = 1, !.loop = "lat", !.lng = lng, !.points = points] \in State
    BY <1>2, <1>3 DEF State
  <2>2. QED
    BY <1>1, <1>5, <2>1 DEF AddNumber
<1>6. QED
  BY <1>4, <1>5

LEMMA NextCharType ==
    ASSUME NEW s \in State, NEW b \in Nat
    PROVE  /\ NextChar(s, b) \in State
           /\ s.result + (b % 32) * s.weight \in Nat
<1> DEFINE r == s.result + (b % 32) * s.weight
<1>1. s.result \in Nat /\ s.weight \in Nat /\ b % 32 \in Nat
  BY DEF State
<1>2. \A x, y, z \in Nat : x + y * z \in Nat
  OBVIOUS
<1>3. r \in Nat
  BY <1>1, <1>2
<1> HIDE DEF r
<1>4. CASE b >= 32
  <2>1. NextChar(s, b) = [s EXCEPT !.result = r, !.weight = @ * 32]
    BY <1>4 DEF NextChar, r
  <2>2. s.weight * 32 \in Nat
    BY <1>1
  <2>3. NextChar(s, b) \in State
    BY <1>3, <2>1, <2>2 DEF State
  <2>4. QED
    BY <1>3, <2>3 DEF r
<1>5. CASE ~(b >= 32)
  BY <1>3, <1>5, AddNumberType DEF NextChar, r
<1>6. QED
  BY <1>4, <1>5

LEMMA DecoderDef ==
    ASSUME NEW e \in Seq(Nat)
    PROVE  /\ Decoder(e) \in [0..Len(e) -> State]
           /\ Decoder(e)[0] = Decoding
           /\ \A i \in 1..Len(e) : Decoder(e)[i] = NextChar(Decoder(e)[i - 1], e[i])
<1> DEFINE F == [i \in 1..Len(e) |-> [s \in State |-> NextChar(s, e[i])]]
<1>1. Len(e) \in Nat /\ \A i \in 1..Len(e) : e[i] \in Nat
  OBVIOUS
<1>2. F \in [1..Len(e) -> [State -> State]]
  BY <1>1, NextCharType
<1>3. Decoding \in State
  <2>1. <<>> \in Seq(Int \X Int)
    OBVIOUS
  <2>2. QED
    BY <2>1 DEF Decoding, State
<1>4. PICK g \in [0..Len(e) -> State] : g[0] = Decoding /\ \A i \in 1..Len(e) : g[i] = F[i][g[i - 1]]
  <2>1. \E f : Recursive(f, Len(e), State, Decoding, F)
    <3> HIDE DEF F
    <3>1. QED
      BY <1>1, <1>2, <1>3, Recursion
  <2>2. QED
    BY <2>1 DEF Recursive
<1>5. g = [i \in 0..Len(e) |-> IF i = 0 THEN Decoding ELSE NextChar(g[i - 1], e[i])]
  <2>1. ASSUME NEW i \in 0..Len(e)
        PROVE  g[i] = IF i = 0 THEN Decoding ELSE NextChar(g[i - 1], e[i])
    <3>1. CASE i = 0
      BY <1>4, <3>1
    <3>2. CASE i # 0
      <4>1. i \in 1..Len(e) /\ i - 1 \in 0..Len(e)
        BY <1>1, <3>2
      <4>2. g[i] = F[i][g[i - 1]] /\ g[i - 1] \in State
        BY <1>4, <4>1
      <4>3. QED
        BY <3>2, <4>1, <4>2
    <3>3. QED
      BY <3>1, <3>2
  <2>2. g = [i \in 0..Len(e) |-> g[i]]
    BY <1>4
  <2>3. QED
    BY <2>1, <2>2
<1>6. Decoder(e) = [i \in 0..Len(e) |-> IF i = 0 THEN Decoding ELSE NextChar(Decoder(e)[i - 1], e[i])]
  BY <1>5, Zenon DEF Decoder
<1>7. \A i \in 0..Len(e) : Decoder(e)[i] = IF i = 0 THEN Decoding ELSE NextChar(Decoder(e)[i - 1], e[i])
  BY <1>6, Zenon
<1>8. ASSUME NEW i \in 1..Len(e)
      PROVE  Decoder(e)[i] = NextChar(Decoder(e)[i - 1], e[i])
  <2>1. i \in 0..Len(e) /\ i # 0
    BY <1>1
  <2>2. QED
    BY <1>7, <2>1
<1>9. Decoder(e)[0] = Decoding
  <2>1. 0 \in 0..Len(e)
    BY <1>1
  <2>2. QED
    BY <1>7, <2>1
<1>10. Decoder(e) \in [0..Len(e) -> State]
  <2> DEFINE S == {k \in Nat : k <= Len(e) => Decoder(e)[k] \in State}
  <2>1. 0 \in S
    BY <1>3, <1>9
  <2>2. ASSUME NEW k \in S
        PROVE  k + 1 \in S
    <3>1. ASSUME k + 1 <= Len(e)
          PROVE  Decoder(e)[k + 1] \in State
      <4>1. k \in Nat /\ k + 1 \in 1..Len(e) /\ (k + 1) - 1 = k /\ k <= Len(e)
        BY <1>1, <3>1
      <4>2. Decoder(e)[k + 1] = NextChar(Decoder(e)[k], e[k + 1])
        BY <1>8, <4>1
      <4>3. Decoder(e)[k] \in State /\ e[k + 1] \in Nat
        BY <1>1, <2>2, <4>1
      <4>4. QED
        BY <4>2, <4>3, NextCharType
    <3>2. k + 1 \in Nat
      OBVIOUS
    <3>3. QED
      BY <3>1, <3>2
  <2>3. S \in SUBSET Nat
    OBVIOUS
  <2>4. S = Nat
    <3> HIDE DEF S
    <3>1. QED
      BY <2>1, <2>2, <2>3, Induction
  <2>5. \A k \in 0..Len(e) : Decoder(e)[k] \in State
    BY <1>1, <2>4
  <2>6. QED
    BY <1>6, <2>5
<1>11. QED
  BY <1>8, <1>9, <1>10

\* The characters of a number, wherever they stand, are read as that number.
StandsAt(e, p, m) ==
    p + Len(Chunks(m)) <= Len(e) /\ \A i \in 1..Len(Chunks(m)) : e[p + i] = Chunks(m)[i]

ReadFrom(e, p, m) ==
    LET s == Decoder(e)[p]
        total == s.result + m * s.weight
    IN  /\ Decoder(e)[p + Len(Chunks(m))] = AddNumber(s, total)
        /\ \A i \in p..(p + Len(Chunks(m)) - 1) : Decoder(e)[i].result <= total

LEMMA SameFields ==
    ASSUME NEW a \in State
    PROVE  a = [result |-> a.result, weight |-> a.weight, loop |-> a.loop,
                lat |-> a.lat, lng |-> a.lng, points |-> a.points]
BY DEF State

\* What AddNumber makes of a state does not depend on the bits and the weight.
Summed(loop, lat, lng, points, t) ==
    IF loop = "lat"
    THEN [result |-> 0, weight |-> 1, loop |-> "lng", lat |-> lat + Signed(t), lng |-> lng, points |-> points]
    ELSE [result |-> 0, weight |-> 1, loop |-> "lat", lat |-> lat, lng |-> lng + Signed(t),
          points |-> Append(points, <<lat, lng + Signed(t)>>)]

LEMMA AddNumberFields ==
    ASSUME NEW s \in State, NEW t \in Nat
    PROVE  AddNumber(s, t) = Summed(s.loop, s.lat, s.lng, s.points, t)
<1>1. PICK a, b : a = AddNumber(s, t) /\ b = Summed(s.loop, s.lat, s.lng, s.points, t)
  OBVIOUS
<1>2. PICK x, p : x = s.lng + Signed(t) /\ p = Append(s.points, <<s.lat, x>>)
  OBVIOUS
<1>3. a \in State
  BY <1>1, AddNumberType
<1>4. CASE s.loop = "lat"
  <2>1. b = [result |-> 0, weight |-> 1, loop |-> "lng", lat |-> s.lat + Signed(t), lng |-> s.lng, points |-> s.points]
    BY <1>1, <1>4, Zenon DEF Summed
  <2>2. /\ a.result = 0 /\ a.weight = 1 /\ a.loop = "lng"
        /\ a.lat = s.lat + Signed(t) /\ a.lng = s.lng /\ a.points = s.points
    BY <1>1, <1>4 DEF AddNumber, State
  <2>3. QED
    BY <1>1, <1>3, <2>1, <2>2, SameFields
<1>5. CASE s.loop # "lat"
  <2>1. b = [result |-> 0, weight |-> 1, loop |-> "lat", lat |-> s.lat, lng |-> x, points |-> p]
    BY <1>1, <1>2, <1>5, Zenon DEF Summed
  <2>2. /\ a.result = 0 /\ a.weight = 1 /\ a.loop = "lat" /\ a.lat = s.lat /\ a.lng = x /\ a.points = p
    <3>1. a = [s EXCEPT !.result = 0, !.weight = 1, !.loop = "lat", !.lng = x, !.points = p]
      BY <1>1, <1>2, <1>5, Zenon DEF AddNumber
    <3>2. QED
      BY <3>1 DEF State
  <2>3. QED
    BY <1>1, <1>3, <2>1, <2>2, SameFields
<1>6. QED
  BY <1>4, <1>5

LEMMA AddNumberFresh ==
    ASSUME NEW s \in State, NEW u \in State, NEW t \in Nat,
           u.loop = s.loop, u.lat = s.lat, u.lng = s.lng, u.points = s.points
    PROVE  AddNumber(u, t) = AddNumber(s, t)
<1>1. AddNumber(u, t) = Summed(u.loop, u.lat, u.lng, u.points, t)
  BY AddNumberFields
<1>2. AddNumber(s, t) = Summed(s.loop, s.lat, s.lng, s.points, t)
  BY AddNumberFields
<1>3. QED
  BY <1>1, <1>2, Zenon

LEMMA NumberRead ==
    ASSUME NEW e \in Seq(Nat), NEW m \in Nat
    PROVE  \A p \in Nat : StandsAt(e, p, m) => ReadFrom(e, p, m)
<1> DEFINE S == {k \in Nat : \A p \in Nat : StandsAt(e, p, k) => ReadFrom(e, p, k)}
<1>1. ASSUME NEW k \in Nat, \A l \in 0..(k - 1) : l \in S
      PROVE  k \in S
  <2> SUFFICES ASSUME NEW p \in Nat, StandsAt(e, p, k)
               PROVE  ReadFrom(e, p, k)
    OBVIOUS
  <2>0. Len(e) \in Nat /\ Chunks(k) \in Seq(Nat) /\ Len(Chunks(k)) \in Nat
    <3>1. Chunks(k) \in Seq(Nat)
      BY ChunksDef, Zenon
    <3>2. QED
      BY <3>1
  <2>1. CASE k < 32
    <3>1. Chunks(k) = <<k>> /\ Len(Chunks(k)) = 1 /\ Chunks(k)[1] = k
      <4>1. Chunks(k) = <<k>>
        BY <2>1, ChunksDef, Zenon
      <4>2. QED
        BY <4>1
    <3>2. p + 1 \in 1..Len(e) /\ e[p + 1] = k /\ p \in 0..Len(e)
      BY <2>0, <3>1 DEF StandsAt
    <3>3. PICK s \in State : s = Decoder(e)[p]
      BY <3>2, DecoderDef
    <3>4. Decoder(e)[p + 1] = NextChar(s, k)
      <4>1. (p + 1) - 1 = p
        OBVIOUS
      <4>2. QED
        BY <3>2, <3>3, <4>1, DecoderDef
    <3>5. k % 32 = k /\ ~(k >= 32)
      BY <2>1
    <3>6. NextChar(s, k) = AddNumber(s, s.result + k * s.weight)
      BY <3>5 DEF NextChar
    <3>7. s.result <= s.result + k * s.weight
      <4>1. s.result \in Nat /\ s.weight \in Nat
        BY DEF State
      <4>2. \A x, y, z \in Nat : x <= x + y * z
        OBVIOUS
      <4>3. QED
        BY <4>1, <4>2
    <3>8. \A i \in p..(p + Len(Chunks(k)) - 1) : i = p
      BY <3>1
    <3>9. QED
      BY <3>1, <3>3, <3>4, <3>6, <3>7, <3>8 DEF ReadFrom
  <2>2. CASE k >= 32
    <3> DEFINE b == 32 + (k % 32)
               q == k \div 32
    <3>1. q \in Nat /\ q \in 0..(k - 1) /\ b \in Nat /\ b % 32 = k % 32 /\ b >= 32 /\ k = (k % 32) + 32 * q
      BY <2>2
    <3>2. Chunks(k) = <<b>> \o Chunks(q) /\ Chunks(q) \in Seq(Nat) /\ Len(Chunks(q)) \in Nat
      <4>1. Chunks(k) = <<b>> \o Chunks(q)
        BY <2>2, ChunksDef, Zenon
      <4>2. Chunks(q) \in Seq(Nat)
        BY <3>1, ChunksDef, Zenon
      <4>3. QED
        BY <4>1, <4>2
    <3>3. \A r \in Nat : r % 32 \in Nat
      OBVIOUS
    <3>4. k % 32 \in Nat
      BY <3>3
    <3> HIDE DEF b, q
    <3>5. /\ Len(Chunks(k)) = 1 + Len(Chunks(q))
          /\ Chunks(k)[1] = b
          /\ \A i \in 1..Len(Chunks(q)) : Chunks(k)[1 + i] = Chunks(q)[i]
      <4>1. PICK t \in Seq(Nat) : t = Chunks(q)
        BY <3>2
      <4>2. <<b>> \in Seq(Nat) /\ Len(<<b>>) = 1 /\ <<b>>[1] = b
        BY <3>1
      <4>3. Len(<<b>> \o t) = 1 + Len(t) /\ Len(t) \in Nat
        BY <4>2, ConcatProperties
      <4>4. ASSUME NEW i \in 1..(1 + Len(t))
            PROVE  (<<b>> \o t)[i] = IF i <= 1 THEN <<b>>[i] ELSE t[i - 1]
        BY <4>2, ConcatProperties
      <4>5. (<<b>> \o t)[1] = b
        BY <4>2, <4>3, <4>4
      <4>6. ASSUME NEW i \in 1..Len(t)
            PROVE  (<<b>> \o t)[1 + i] = t[i]
        <5>1. 1 + i \in 1..(1 + Len(t)) /\ ~(1 + i <= 1) /\ (1 + i) - 1 = i
          BY <4>3
        <5>2. QED
          BY <4>4, <5>1
      <4>7. QED
        BY <3>2, <4>1, <4>3, <4>5, <4>6
    <3>6. p + 1 \in 1..Len(e) /\ e[p + 1] = b /\ p \in 0..Len(e)
      BY <2>0, <3>2, <3>5 DEF StandsAt
    <3>7. StandsAt(e, p + 1, q)
      <4>1. (p + 1) + Len(Chunks(q)) <= Len(e)
        BY <2>0, <3>2, <3>5 DEF StandsAt
      <4>2. ASSUME NEW i \in 1..Len(Chunks(q))
            PROVE  e[(p + 1) + i] = Chunks(q)[i]
        <5>1. 1 + i \in 1..Len(Chunks(k)) /\ p + (1 + i) = (p + 1) + i
          BY <3>2, <3>5
        <5>2. e[p + (1 + i)] = Chunks(k)[1 + i]
          BY <5>1 DEF StandsAt
        <5>3. QED
          BY <3>5, <5>1, <5>2
      <4>3. QED
        BY <4>1, <4>2 DEF StandsAt
    <3>8. ReadFrom(e, p + 1, q)
      BY <1>1, <3>1, <3>7
    <3>9. PICK s \in State : s = Decoder(e)[p]
      BY <3>6, DecoderDef
    <3>10. s.result \in Nat /\ s.weight \in Nat
      BY DEF State
    <3>11. PICK r, w, total : /\ r = s.result + (k % 32) * s.weight
                              /\ w = s.weight * 32
                              /\ total = s.result + k * s.weight
      OBVIOUS
    <3>12. Decoder(e)[p + 1] = [s EXCEPT !.result = r, !.weight = w]
      <4>1. (p + 1) - 1 = p
        OBVIOUS
      <4>2. Decoder(e)[p + 1] = NextChar(s, b)
        BY <3>6, <3>9, <4>1, DecoderDef
      <4>3. QED
        BY <3>1, <3>11, <4>2 DEF NextChar
    <3>13. r + q * w = total
      <4>1. \A x, y, u, v \in Nat : (x + u * y) + v * (y * 32) = x + (u + 32 * v) * y
        OBVIOUS
      <4>2. PICK u \in Nat : u = k % 32
        BY <3>4
      <4>3. total = s.result + (u + 32 * q) * s.weight
        BY <3>1, <3>11, <4>2
      <4>4. r + q * w = (s.result + u * s.weight) + q * (s.weight * 32)
        BY <3>11, <4>2
      <4>5. PICK x \in Nat, y \in Nat, z \in Nat : x = s.result /\ y = s.weight /\ z = q
        BY <3>1, <3>10
      <4>6. (x + u * y) + z * (y * 32) = x + (u + 32 * z) * y
        BY <4>1
      <4>7. QED
        BY <4>3, <4>4, <4>5, <4>6, Zenon
    <3>14. s.result <= total
      <4>1. \A x, y, z \in Nat : x <= x + y * z
        OBVIOUS
      <4>2. QED
        BY <3>10, <3>11, <4>1
    <3>15. Decoder(e)[p + 1].result = r /\ Decoder(e)[p + 1].weight = w
      BY <3>12 DEF State
    <3>16. /\ Decoder(e)[(p + 1) + Len(Chunks(q))] = AddNumber(Decoder(e)[p + 1], total)
           /\ \A i \in (p + 1)..((p + 1) + Len(Chunks(q)) - 1) : Decoder(e)[i].result <= total
      BY <3>8, <3>13, <3>15 DEF ReadFrom
    <3>17. Decoder(e)[p + Len(Chunks(k))] = AddNumber(s, total)
      <4>1. p + Len(Chunks(k)) = (p + 1) + Len(Chunks(q))
        BY <3>2, <3>5
      <4>2. AddNumber(Decoder(e)[p + 1], total) = AddNumber(s, total)
        <5>1. PICK u \in State : u = Decoder(e)[p + 1]
          <6>1. p + 1 \in 0..Len(e)
            BY <2>0, <3>6
          <6>2. QED
            BY <6>1, DecoderDef
        <5>2. u.loop = s.loop /\ u.lat = s.lat /\ u.lng = s.lng /\ u.points = s.points
          BY <3>12, <5>1 DEF State
        <5>3. total \in Nat
          <6>1. \A x, y, z \in Nat : x + y * z \in Nat
            OBVIOUS
          <6>2. QED
            BY <3>10, <3>11, <6>1
        <5>4. AddNumber(u, total) = AddNumber(s, total)
          BY <5>2, <5>3, AddNumberFresh
        <5>5. QED
          BY <5>1, <5>4
      <4>3. QED
        BY <3>16, <4>1, <4>2
    <3>18. ASSUME NEW i \in p..(p + Len(Chunks(k)) - 1)
           PROVE  Decoder(e)[i].result <= total
      <4>1. CASE i = p
        BY <3>9, <3>14, <4>1
      <4>2. CASE i # p
        <5>1. i \in (p + 1)..((p + 1) + Len(Chunks(q)) - 1)
          BY <3>2, <3>5, <4>2
        <5>2. QED
          BY <3>16, <5>1
      <4>3. QED
        BY <4>1, <4>2
    <3>19. QED
      BY <3>9, <3>11, <3>17, <3>18 DEF ReadFrom
  <2>3. QED
    BY <2>1, <2>2
<1>2. S \in SUBSET Nat
  OBVIOUS
<1>3. S = Nat
  <2> HIDE DEF S
  <2>1. QED
    BY <1>1, <1>2, StrongInduction
<1>4. QED
  BY <1>3

\* The encoder point by point.
LEMMA NumberType ==
    ASSUME NEW d \in Int
    PROVE  Number(d) \in Seq(Nat) /\ Number(d) = Chunks(ZigZag(d)) /\ ZigZag(d) \in Nat
<1>1. ZigZag(d) \in Nat
  BY SignedZigZag
<1>2. QED
  BY <1>1, ChunksDef, Zenon DEF Number

LEMMA BeforeType ==
    ASSUME NEW points \in Seq(Int \X Int), NEW i \in 1..Len(points)
    PROVE  /\ Before(points, i) \in Int \X Int
           /\ points[i] \in Int \X Int
           /\ points[i][1] - Before(points, i)[1] \in Int
           /\ points[i][2] - Before(points, i)[2] \in Int
<1>1. Len(points) \in Nat /\ \A j \in 1..Len(points) : points[j] \in Int \X Int
  OBVIOUS
<1>2. Before(points, i) \in Int \X Int
  <2>1. CASE i = 1
    <3>1. <<0, 0>> \in Int \X Int
      OBVIOUS
    <3>2. QED
      BY <2>1, <3>1 DEF Before
  <2>2. CASE i # 1
    <3>1. i - 1 \in 1..Len(points)
      BY <1>1, <2>2
    <3>2. QED
      BY <1>1, <2>2, <3>1 DEF Before
  <2>3. QED
    BY <2>1, <2>2
<1>3. points[i] \in Int \X Int
  BY <1>1
<1>4. \A u, v \in Int \X Int : u[1] - v[1] \in Int /\ u[2] - v[2] \in Int
  OBVIOUS
<1>5. QED
  BY <1>2, <1>3, <1>4

LEMMA SendType ==
    ASSUME NEW points \in Seq(Int \X Int), NEW i \in 1..Len(points), NEW s \in Seq(Nat)
    PROVE  Send(s, points, i) \in Seq(Nat)
<1>1. PICK d1, d2 \in Int : d1 = points[i][1] - Before(points, i)[1] /\ d2 = points[i][2] - Before(points, i)[2]
  BY BeforeType, Zenon
<1>2. PICK t1, t2 \in Seq(Nat) : t1 = Number(d1) /\ t2 = Number(d2)
  BY NumberType, Zenon
<1>3. Send(s, points, i) = (s \o t1) \o t2
  BY <1>1, <1>2 DEF Send
<1>4. PICK st \in Seq(Nat) : st = s \o t1
  BY ConcatProperties
<1>5. st \o t2 \in Seq(Nat)
  BY ConcatProperties
<1>6. QED
  BY <1>3, <1>4, <1>5

Sends(sent, points) ==
    /\ sent \in [0..Len(points) -> Seq(Nat)]
    /\ sent[0] = <<>>
    /\ \A i \in 1..Len(points) : sent[i] = Send(sent[i - 1], points, i)
    /\ Encode(points) = sent[Len(points)]

LEMMA EncodeDef ==
    ASSUME NEW points \in Seq(Int \X Int)
    PROVE  \E sent : Sends(sent, points)
<1> DEFINE n == Len(points)
           F == [i \in 1..n |-> [s \in Seq(Nat) |-> Send(s, points, i)]]
<1>1. n \in Nat
  OBVIOUS
<1>2. F \in [1..n -> [Seq(Nat) -> Seq(Nat)]]
  <2>1. ASSUME NEW i \in 1..n, NEW s \in Seq(Nat)
        PROVE  Send(s, points, i) \in Seq(Nat)
    BY SendType
  <2>2. QED
    BY <2>1
<1>3. <<>> \in Seq(Nat)
  OBVIOUS
<1>4. PICK g \in [0..n -> Seq(Nat)] : g[0] = <<>> /\ \A i \in 1..n : g[i] = F[i][g[i - 1]]
  <2>1. \E f : Recursive(f, n, Seq(Nat), <<>>, F)
    <3> HIDE DEF F, n
    <3>1. QED
      BY <1>1, <1>2, <1>3, Recursion
  <2>2. QED
    BY <2>1 DEF Recursive
<1>5. \A i \in 1..n : g[i] = Send(g[i - 1], points, i)
  <2>1. ASSUME NEW i \in 1..n
        PROVE  g[i] = Send(g[i - 1], points, i)
    <3>1. i - 1 \in 0..n
      BY <1>1
    <3>2. g[i] = F[i][g[i - 1]] /\ g[i - 1] \in Seq(Nat)
      BY <1>4, <3>1
    <3>3. QED
      BY <3>2
  <2>2. QED
    BY <2>1
<1>6. g = [i \in 0..n |-> IF i = 0 THEN <<>> ELSE Send(g[i - 1], points, i)]
  <2>1. ASSUME NEW i \in 0..n
        PROVE  g[i] = IF i = 0 THEN <<>> ELSE Send(g[i - 1], points, i)
    <3>1. i = 0 \/ i \in 1..n
      BY <1>1
    <3>2. i \in 1..n => i # 0
      BY <1>1
    <3>3. QED
      BY <1>4, <1>5, <3>1, <3>2
  <2>2. g = [i \in 0..n |-> g[i]]
    BY <1>4
  <2>3. QED
    BY <2>1, <2>2, Zenon
<1> HIDE DEF F
<1>7. PICK sent : /\ sent = [i \in 0..n |-> IF i = 0 THEN <<>> ELSE Send(sent[i - 1], points, i)]
                  /\ Encode(points) = sent[n]
  BY <1>6, Zenon DEF Encode
<1>8. /\ sent[0] = <<>>
      /\ \A i \in 1..n : sent[i] = Send(sent[i - 1], points, i)
  <2>0. \A i \in 0..n : sent[i] = IF i = 0 THEN <<>> ELSE Send(sent[i - 1], points, i)
    BY <1>7, Zenon
  <2>1. 0 \in 0..n /\ \A i \in 1..n : i \in 0..n /\ i # 0
    BY <1>1
  <2>2. QED
    BY <2>0, <2>1, Zenon
<1>9. sent \in [0..n -> Seq(Nat)]
  <2> DEFINE S == {k \in Nat : k <= n => sent[k] \in Seq(Nat)}
  <2>1. 0 \in S
    BY <1>8, <1>3
  <2>2. ASSUME NEW k \in S
        PROVE  k + 1 \in S
    <3>1. ASSUME k + 1 <= n
          PROVE  sent[k + 1] \in Seq(Nat)
      <4>1. k \in Nat /\ k + 1 \in 1..n /\ (k + 1) - 1 = k /\ k <= n
        BY <1>1, <3>1
      <4>2. sent[k + 1] = Send(sent[k], points, k + 1) /\ sent[k] \in Seq(Nat)
        BY <1>8, <2>2, <4>1
      <4>3. QED
        BY <4>1, <4>2, SendType
    <3>2. k + 1 \in Nat
      OBVIOUS
    <3>3. QED
      BY <3>1, <3>2
  <2>3. S \in SUBSET Nat
    OBVIOUS
  <2>4. S = Nat
    <3> HIDE DEF S
    <3>1. QED
      BY <2>1, <2>2, <2>3, Induction
  <2>5. ASSUME NEW k \in 0..n
        PROVE  sent[k] \in Seq(Nat)
    <3>1. k \in Nat /\ k <= n
      BY <1>1
    <3>2. k \in S
      BY <2>4, <3>1
    <3>3. QED
      BY <3>1, <3>2
  <2>6. QED
    BY <1>7, <2>5
<1>10. QED
  BY <1>7, <1>8, <1>9 DEF Sends

\* e begins with w.
Begins(e, w) == w \in Seq(Nat) /\ Len(w) <= Len(e) /\ \A k \in 1..Len(w) : e[k] = w[k]

LEMMA BeginsConcat ==
    ASSUME NEW s \in Seq(Nat), NEW t \in Seq(Nat)
    PROVE  /\ Begins(s \o t, s)
           /\ Len(s) \in Nat /\ Len(t) \in Nat /\ Len(s \o t) = Len(s) + Len(t)
           /\ \A i \in 1..Len(t) : (s \o t)[Len(s) + i] = t[i]
<1>1. Len(s) \in Nat /\ Len(t) \in Nat /\ Len(s \o t) = Len(s) + Len(t)
  BY ConcatProperties
<1>2. \A k \in 1..(Len(s) + Len(t)) : (s \o t)[k] = IF k <= Len(s) THEN s[k] ELSE t[k - Len(s)]
  BY ConcatProperties
<1>3. \A k \in 1..Len(s) : (s \o t)[k] = s[k]
  BY <1>1, <1>2
<1>4. ASSUME NEW i \in 1..Len(t)
      PROVE  (s \o t)[Len(s) + i] = t[i]
  <2>1. Len(s) + i \in 1..(Len(s) + Len(t)) /\ ~(Len(s) + i <= Len(s)) /\ (Len(s) + i) - Len(s) = i
    BY <1>1
  <2>2. QED
    BY <1>2, <2>1
<1>5. Len(s) <= Len(s \o t)
  BY <1>1
<1>6. QED
  BY <1>1, <1>3, <1>4, <1>5 DEF Begins

LEMMA BeginsTrans ==
    ASSUME NEW e \in Seq(Nat), NEW s, NEW w, Begins(e, w), Begins(w, s)
    PROVE  Begins(e, s)
<1>1. w \in Seq(Nat) /\ s \in Seq(Nat) /\ Len(s) <= Len(w) /\ Len(w) <= Len(e)
  BY DEF Begins
<1>2. Len(s) \in Nat /\ Len(w) \in Nat /\ Len(e) \in Nat
  BY <1>1
<1>3. ASSUME NEW k \in 1..Len(s)
      PROVE  e[k] = s[k]
  <2>1. k \in 1..Len(w)
    BY <1>1, <1>2
  <2>2. e[k] = w[k] /\ w[k] = s[k]
    BY <2>1 DEF Begins
  <2>3. QED
    BY <2>2
<1>4. Len(s) <= Len(e)
  BY <1>1, <1>2
<1>5. QED
  BY <1>1, <1>3, <1>4 DEF Begins

LEMMA BeginsSend ==
    ASSUME NEW points \in Seq(Int \X Int), NEW i \in 1..Len(points), NEW s \in Seq(Nat)
    PROVE  Begins(Send(s, points, i), s)
<1>1. PICK d1, d2 \in Int : d1 = points[i][1] - Before(points, i)[1] /\ d2 = points[i][2] - Before(points, i)[2]
  BY BeforeType, Zenon
<1>2. PICK t1, t2 \in Seq(Nat) : t1 = Number(d1) /\ t2 = Number(d2)
  BY NumberType, Zenon
<1>3. PICK st : st = s \o t1
  OBVIOUS
<1>4. Begins(st, s) /\ st \in Seq(Nat)
  BY <1>3, BeginsConcat, ConcatProperties
<1>5. PICK w : w = st \o t2
  OBVIOUS
<1>6. Begins(w, st) /\ w \in Seq(Nat)
  BY <1>4, <1>5, BeginsConcat, ConcatProperties
<1>7. Send(s, points, i) = w
  BY <1>1, <1>2, <1>3, <1>5 DEF Send
<1>8. QED
  BY <1>4, <1>6, <1>7, BeginsTrans

\* What has been sent stays where it is.
LEMMA SentKept ==
    ASSUME NEW points \in Seq(Int \X Int), NEW sent, Sends(sent, points), NEW i \in 0..Len(points)
    PROVE  Begins(Encode(points), sent[i])
<1> DEFINE n == Len(points)
           S == {j \in Nat : i <= j /\ j <= n => Begins(sent[j], sent[i])}
<1>0. n \in Nat /\ i \in Nat
  OBVIOUS
<1>00. \A j \in 0..n : sent[j] \in Seq(Nat)
  BY DEF Sends
<1>000. Begins(sent[i], sent[i])
  <2>1. PICK s \in Seq(Nat) : s = sent[i]
    BY <1>00
  <2>2. Len(s) \in Nat
    OBVIOUS
  <2>3. Begins(s, s)
    BY <2>2 DEF Begins
  <2>4. QED
    BY <2>1, <2>3
<1>1. 0 \in S
  <2>1. i <= 0 => i = 0
    BY <1>0
  <2>2. QED
    BY <1>000, <2>1
<1>2. ASSUME NEW j \in S
      PROVE  j + 1 \in S
  <2>0. j \in Nat /\ j + 1 \in Nat
    OBVIOUS
  <2>1. ASSUME i <= j + 1, j + 1 <= n
        PROVE  Begins(sent[j + 1], sent[i])
    <3>1. CASE i = j + 1
      BY <1>000, <3>1
    <3>2. CASE i # j + 1
      <4>1. i <= j /\ j <= n /\ j \in 0..n /\ j + 1 \in 1..n /\ j + 1 \in 0..n /\ (j + 1) - 1 = j
        BY <1>0, <2>0, <2>1, <3>2
      <4>2. Begins(sent[j], sent[i])
        BY <1>2, <4>1
      <4>3. sent[j + 1] = Send(sent[j], points, j + 1) /\ sent[j] \in Seq(Nat) /\ sent[j + 1] \in Seq(Nat)
        BY <1>00, <4>1 DEF Sends
      <4>4. Begins(sent[j + 1], sent[j])
        BY <4>1, <4>3, BeginsSend
      <4>5. QED
        BY <4>2, <4>3, <4>4, BeginsTrans
    <3>3. QED
      BY <3>1, <3>2
  <2>2. QED
    BY <2>0, <2>1
<1>3. S \in SUBSET Nat
  OBVIOUS
<1>4. S = Nat
  <2> HIDE DEF S
  <2>1. QED
    BY <1>1, <1>2, <1>3, Induction
<1>5. Begins(sent[n], sent[i])
  <2>1. n \in S /\ i <= n /\ n <= n
    BY <1>0, <1>4
  <2>2. QED
    BY <2>1
<1>6. QED
  BY <1>5 DEF Sends

\* The number d stands in e from p to q.
Stretch(e, p, d, q) == StandsAt(e, p, ZigZag(d)) /\ p \in Nat /\ q = p + Len(Number(d))

\* A number that stands behind what has been sent.
LEMMA NumberStands ==
    ASSUME NEW e \in Seq(Nat), NEW s \in Seq(Nat), NEW d \in Int, Begins(e, s \o Number(d))
    PROVE  Begins(e, s) /\ Stretch(e, Len(s), d, Len(s \o Number(d)))
<1>1. PICK t \in Seq(Nat) : t = Number(d) /\ t = Chunks(ZigZag(d))
  BY NumberType, Zenon
<1>2. /\ Begins(s \o t, s)
      /\ Len(s) \in Nat /\ Len(t) \in Nat /\ Len(s \o t) = Len(s) + Len(t)
      /\ \A i \in 1..Len(t) : (s \o t)[Len(s) + i] = t[i]
  BY BeginsConcat
<1>3. Len(s \o t) <= Len(e) /\ \A k \in 1..Len(s \o t) : e[k] = (s \o t)[k]
  BY <1>1 DEF Begins
<1>4. ASSUME NEW i \in 1..Len(t)
      PROVE  e[Len(s) + i] = t[i]
  <2>1. Len(s) + i \in 1..Len(s \o t)
    BY <1>2
  <2>2. QED
    BY <1>2, <1>3, <2>1
<1>5. StandsAt(e, Len(s), ZigZag(d))
  BY <1>1, <1>2, <1>3, <1>4 DEF StandsAt
<1>6. Stretch(e, Len(s), d, Len(s \o t))
  BY <1>1, <1>2, <1>5 DEF Stretch
<1>7. Begins(e, s)
  BY <1>1, <1>2, BeginsTrans
<1>8. QED
  BY <1>1, <1>6, <1>7

\* A state between two numbers.
Fresh(s) == s \in State /\ s.result = 0 /\ s.weight = 1

\* A stretch adds its number; the bits on the way do not exceed it.
LEMMA NumberTaken ==
    ASSUME NEW e \in Seq(Nat), NEW d \in Int, NEW p, NEW q, Stretch(e, p, d, q), Fresh(Decoder(e)[p])
    PROVE  /\ Decoder(e)[q] = AddNumber(Decoder(e)[p], ZigZag(d))
           /\ \A i \in p..(q - 1) : Decoder(e)[i].result <= ZigZag(d)
<1>1. ZigZag(d) \in Nat /\ Number(d) = Chunks(ZigZag(d))
  BY NumberType, Zenon
<1>2. ReadFrom(e, p, ZigZag(d))
  BY <1>1, NumberRead DEF Stretch
<1>3. \A z \in Nat : 0 + z * 1 = z
  OBVIOUS
<1>4. 0 + ZigZag(d) * 1 = ZigZag(d)
  BY <1>1, <1>3
<1>5. QED
  BY <1>1, <1>2, <1>4 DEF ReadFrom, Stretch, Fresh

\* The two numbers of a point are added to the sums, and the point is kept.
Added(a, d, b) == b = AddNumber(a, ZigZag(d))

LEMMA PointAdds ==
    ASSUME NEW a \in State, a.loop = "lat", NEW d1 \in Int, NEW d2 \in Int, NEW b, NEW c,
           Added(a, d1, b), Added(b, d2, c)
    PROVE  /\ Fresh(b) /\ Fresh(c) /\ c.loop = "lat"
           /\ c.lat = a.lat + d1 /\ c.lng = a.lng + d2
           /\ c.points = Append(a.points, <<a.lat + d1, a.lng + d2>>)
<1>1. /\ ZigZag(d1) \in Nat /\ Signed(ZigZag(d1)) = d1
      /\ ZigZag(d2) \in Nat /\ Signed(ZigZag(d2)) = d2
  BY SignedZigZag
<1>2. PICK u, v : u = a.lat + d1 /\ v = a.lng + d2
  OBVIOUS
<1>3. b = [a EXCEPT !.result = 0, !.weight = 1, !.loop = "lng", !.lat = u]
  BY <1>1, <1>2 DEF Added, AddNumber
<1>4. /\ b.result = 0 /\ b.weight = 1 /\ b.loop = "lng" /\ b.lat = u /\ b.lng = a.lng
      /\ b.points = a.points
  BY <1>3 DEF State
<1>5. b \in State
  BY <1>1, AddNumberType DEF Added
<1>6. PICK points : points = Append(b.points, <<u, v>>)
  OBVIOUS
<1>7. c = [b EXCEPT !.result = 0, !.weight = 1, !.loop = "lat", !.lng = v, !.points = points]
  BY <1>1, <1>2, <1>4, <1>6 DEF Added, AddNumber
<1>8. /\ c.result = 0 /\ c.weight = 1 /\ c.loop = "lat" /\ c.lat = u /\ c.lng = v
      /\ c.points = points
  BY <1>4, <1>5, <1>7 DEF State
<1>9. c \in State
  BY <1>1, <1>5, AddNumberType DEF Added
<1>10. QED
  BY <1>2, <1>4, <1>5, <1>6, <1>8, <1>9 DEF Fresh

\* The state after i points have been read.
PointsRead(s, points, i) ==
    /\ Fresh(s) /\ s.loop = "lat"
    /\ <<s.lat, s.lng>> = Before(points, i + 1)
    /\ Len(s.points) = i
    /\ \A j \in 1..i : s.points[j] = points[j]

\* The differences that are sent for the i-th point.
Deltas(points, i, d1, d2) ==
    d1 = points[i][1] - Before(points, i)[1] /\ d2 = points[i][2] - Before(points, i)[2]

LEMMA PointRead ==
    ASSUME NEW points \in Seq(Int \X Int), NEW i \in 1..Len(points), NEW a, NEW b, NEW c,
           PointsRead(a, points, i - 1), NEW d1 \in Int, NEW d2 \in Int, Deltas(points, i, d1, d2),
           Added(a, d1, b), Added(b, d2, c)
    PROVE  PointsRead(c, points, i) /\ Fresh(b)
<1>1. i \in Nat /\ (i - 1) + 1 = i /\ i + 1 # 1 /\ (i + 1) - 1 = i
  OBVIOUS
<1>2. a \in State /\ a.loop = "lat" /\ <<a.lat, a.lng>> = Before(points, i)
  BY <1>1 DEF PointsRead, Fresh
<1>3. PICK u, v \in Int : <<u, v>> = points[i]
  <2>1. points[i] \in Int \X Int
    BY BeforeType
  <2>2. QED
    BY <2>1
<1>4. a.lat + d1 = u /\ a.lng + d2 = v
  <2>1. PICK x, y \in Int : x = a.lat /\ y = a.lng
    BY <1>2 DEF State
  <2>2. d1 = u - x /\ d2 = v - y
    <3>1. PICK here, before : here = points[i] /\ before = Before(points, i)
      OBVIOUS
    <3>2. here = <<u, v>> /\ before = <<x, y>>
      BY <1>2, <1>3, <2>1, <3>1, Zenon
    <3>3. d1 = here[1] - before[1] /\ d2 = here[2] - before[2]
      BY <3>1, Zenon DEF Deltas
    <3>4. QED
      BY <3>2, <3>3
  <2>3. \A k, l \in Int : k + (l - k) = l
    OBVIOUS
  <2>4. QED
    BY <2>1, <2>2, <2>3
<1>5. /\ Fresh(b) /\ Fresh(c) /\ c.loop = "lat"
      /\ c.lat = u /\ c.lng = v
      /\ c.points = Append(a.points, <<u, v>>)
  <2>1. /\ Fresh(b) /\ Fresh(c) /\ c.loop = "lat"
        /\ c.lat = a.lat + d1 /\ c.lng = a.lng + d2
        /\ c.points = Append(a.points, <<a.lat + d1, a.lng + d2>>)
    BY <1>2, PointAdds
  <2>2. QED
    BY <1>4, <2>1
<1>6. <<c.lat, c.lng>> = Before(points, i + 1)
  BY <1>1, <1>3, <1>5 DEF Before
<1>7. Len(c.points) = i /\ \A j \in 1..i : c.points[j] = points[j]
  <2>1. PICK old \in Seq(Int \X Int), x \in Int \X Int : old = a.points /\ x = <<u, v>>
    BY <1>2 DEF State
  <2>2. Len(old) = i - 1 /\ \A j \in 1..(i - 1) : old[j] = points[j]
    BY <2>1 DEF PointsRead
  <2>3. PICK new : new = Append(old, x)
    OBVIOUS
  <2>4. /\ Len(new) = Len(old) + 1
        /\ \A j \in 1..Len(old) : new[j] = old[j]
        /\ new[Len(old) + 1] = x
    BY <2>3, AppendProperties
  <2>5. \A j \in 1..i : j = i \/ j \in 1..(i - 1)
    BY <1>1
  <2>6. Len(new) = i /\ new[i] = points[i] /\ \A j \in 1..(i - 1) : new[j] = points[j]
    BY <1>1, <1>3, <2>1, <2>2, <2>4
  <2>7. new = c.points
    BY <1>5, <2>1, <2>3
  <2>8. QED
    BY <2>5, <2>6, <2>7
<1>8. QED
  BY <1>5, <1>6, <1>7 DEF PointsRead

\* No number between two points is larger than the bound.
Bounded(points, bound) ==
    \A i \in 1..Len(points) : \A d1, d2 \in Int :
        Deltas(points, i, d1, d2) => ZigZag(d1) <= bound /\ ZigZag(d2) <= bound

\* Two stretches, one behind the other.
Stretches(e, d1, d2, p, q, r, b, c) ==
    /\ Stretch(e, p, d1, q) /\ Added(Decoder(e)[p], d1, b)
    /\ Stretch(e, q, d2, r) /\ Added(b, d2, c)
    /\ Fresh(Decoder(e)[p]) /\ Fresh(b) /\ Fresh(c)

Taken(e, p, r, c, bound) ==
    Decoder(e)[r] = c /\ \A k \in p..r : Decoder(e)[k].result <= bound

LEMMA TwoNumbers ==
    ASSUME NEW e \in Seq(Nat), NEW d1 \in Int, NEW d2 \in Int, NEW p, NEW q, NEW r, NEW b, NEW c,
           Stretches(e, d1, d2, p, q, r, b, c),
           NEW bound \in Nat, ZigZag(d1) <= bound, ZigZag(d2) <= bound
    PROVE  Taken(e, p, r, c, bound)
<1>1. Decoder(e)[q] = b /\ \A k \in p..(q - 1) : Decoder(e)[k].result <= ZigZag(d1)
  BY NumberTaken DEF Added, Stretches
<1>2. Decoder(e)[r] = c /\ \A k \in q..(r - 1) : Decoder(e)[k].result <= ZigZag(d2)
  BY <1>1, NumberTaken DEF Added, Stretches
<1>3. p \in Nat /\ q \in Nat /\ r \in Nat /\ r <= Len(e) /\ Len(e) \in Nat
  <2>1. /\ Number(d1) \in Seq(Nat) /\ Number(d2) \in Seq(Nat)
        /\ Number(d1) = Chunks(ZigZag(d1)) /\ Number(d2) = Chunks(ZigZag(d2))
    BY NumberType, Zenon
  <2>2. Len(Number(d1)) \in Nat /\ Len(Number(d2)) \in Nat /\ Len(e) \in Nat
    BY <2>1
  <2>3. QED
    BY <2>1, <2>2 DEF Stretches, Stretch, StandsAt
<1>4. ZigZag(d1) \in Nat /\ ZigZag(d2) \in Nat
  BY SignedZigZag
<1>5. ASSUME NEW k \in p..r
      PROVE  Decoder(e)[k].result <= bound
  <2>1. k \in p..(q - 1) \/ k \in q..(r - 1) \/ k = r
    BY <1>3
  <2>2. Decoder(e)[k].result <= ZigZag(d1) \/ Decoder(e)[k].result <= ZigZag(d2) \/ k = r
    BY <1>1, <1>2, <2>1
  <2>3. k \in 0..Len(e)
    BY <1>3
  <2>4. PICK s \in State : s = Decoder(e)[k]
    BY <2>3, DecoderDef
  <2>5. s.result \in Nat
    BY DEF State
  <2>6. k = r => s.result = 0
    BY <1>2, <2>4 DEF Fresh, Stretches
  <2>7. \A x, y, z \in Nat : x <= y /\ y <= z => x <= z
    OBVIOUS
  <2>8. s.result <= bound
    BY <1>4, <2>2, <2>4, <2>5, <2>6, <2>7
  <2>9. QED
    BY <2>4, <2>8
<1>6. QED
  BY <1>2, <1>5 DEF Taken

LEMMA PointTaken ==
    ASSUME NEW points \in Seq(Int \X Int), NEW bound \in Nat, Bounded(points, bound),
           NEW sent, Sends(sent, points), NEW i \in 1..Len(points), NEW e, e = Encode(points),
           PointsRead(Decoder(e)[Len(sent[i - 1])], points, i - 1)
    PROVE  /\ PointsRead(Decoder(e)[Len(sent[i])], points, i)
           /\ \A k \in Len(sent[i - 1])..Len(sent[i]) : Decoder(e)[k].result <= bound
<1>0. i - 1 \in 0..Len(points) /\ i \in 0..Len(points) /\ Len(points) \in 0..Len(points)
  OBVIOUS
<1>1. PICK d1, d2 \in Int : Deltas(points, i, d1, d2)
  BY BeforeType, Zenon DEF Deltas
<1>2. PICK s \in Seq(Nat) : s = sent[i - 1]
  BY <1>0 DEF Sends
<1>3. e \in Seq(Nat)
  BY <1>0 DEF Sends
<1>4. PICK s1 : s1 = s \o Number(d1)
  OBVIOUS
<1>5. s1 \in Seq(Nat)
  <2>1. Number(d1) \in Seq(Nat)
    BY NumberType, Zenon
  <2>2. QED
    BY <1>4, <2>1, ConcatProperties
<1>6. sent[i] = s1 \o Number(d2)
  BY <1>1, <1>2, <1>4 DEF Sends, Send, Deltas
<1>7. Begins(e, s1 \o Number(d2))
  BY <1>0, <1>6, SentKept
<1>8. Begins(e, s1) /\ Stretch(e, Len(s1), d2, Len(sent[i]))
  BY <1>3, <1>5, <1>6, <1>7, NumberStands
<1>9. Stretch(e, Len(s), d1, Len(s1))
  BY <1>3, <1>4, <1>8, NumberStands
<1>10. PICK a, b, c : a = Decoder(e)[Len(s)] /\ Added(a, d1, b) /\ Added(b, d2, c)
  BY DEF Added
<1>11. PointsRead(a, points, i - 1)
  BY <1>2, <1>10
<1>12. PointsRead(c, points, i) /\ Fresh(b)
  BY <1>1, <1>10, <1>11, PointRead
<1>13. Fresh(a) /\ Fresh(c)
  BY <1>11, <1>12 DEF PointsRead
<1>14. ZigZag(d1) <= bound /\ ZigZag(d2) <= bound
  BY <1>1 DEF Bounded
<1>15. Decoder(e)[Len(sent[i])] = c /\ \A k \in Len(s)..Len(sent[i]) : Decoder(e)[k].result <= bound
  <2>1. PICK p, q, r : p = Len(s) /\ q = Len(s1) /\ r = Len(sent[i])
    OBVIOUS
  <2>2. Stretch(e, p, d1, q) /\ Stretch(e, q, d2, r)
    BY <1>8, <1>9, <2>1
  <2>3. Fresh(Decoder(e)[p]) /\ Added(Decoder(e)[p], d1, b)
    BY <1>10, <1>13, <2>1
  <2>4. Decoder(e)[r] = c /\ \A k \in p..r : Decoder(e)[k].result <= bound
    <3>1. Stretches(e, d1, d2, p, q, r, b, c)
      BY <1>10, <1>12, <1>13, <2>2, <2>3 DEF Stretches
    <3>2. Taken(e, p, r, c, bound)
      BY <1>3, <1>14, <3>1, TwoNumbers
    <3>3. QED
      BY <3>2 DEF Taken
  <2>5. QED
    BY <2>1, <2>4
<1>16. QED
  BY <1>2, <1>12, <1>15

\* The decoder returns the points, and holds no number above the bound.
LEMMA RoundTrip ==
    ASSUME NEW points \in Seq(Int \X Int), NEW bound \in Nat, Bounded(points, bound)
    PROVE  /\ DecodePolyline(Encode(points)) = points
           /\ \A k \in 0..Len(Encode(points)) : Decoder(Encode(points))[k].result <= bound
<1> DEFINE e == Encode(points)
           n == Len(points)
<1>1. PICK sent : Sends(sent, points)
  BY EncodeDef
<1> DEFINE Good(i) == /\ PointsRead(Decoder(e)[Len(sent[i])], points, i)
                      /\ \A k \in 0..Len(sent[i]) : Decoder(e)[k].result <= bound
           S == {i \in Nat : i <= n => Good(i)}
<1>2. n \in Nat /\ e \in Seq(Nat) /\ e = sent[n] /\ \A i \in 0..n : sent[i] \in Seq(Nat)
  <2>1. n \in Nat /\ n \in 0..n
    OBVIOUS
  <2>2. QED
    BY <1>1, <2>1 DEF Sends
<1>3. 0 \in S
  <2>1. sent[0] = <<>> /\ Len(<<>>) = 0
    BY <1>1 DEF Sends
  <2>2. Decoder(e)[0] = Decoding
    BY <1>2, DecoderDef
  <2>3. Decoding \in State
    <3>1. 0 \in 0..Len(e)
      BY <1>2
    <3>2. QED
      BY <1>2, <2>2, <3>1, DecoderDef
  <2>4. /\ Decoding.result = 0 /\ Decoding.weight = 1 /\ Decoding.loop = "lat"
        /\ <<Decoding.lat, Decoding.lng>> = Before(points, 0 + 1) /\ Len(Decoding.points) = 0
    BY DEF Decoding, Before
  <2>5. PointsRead(Decoding, points, 0)
    BY <2>3, <2>4 DEF PointsRead, Fresh
  <2>6. \A k \in 0..0 : Decoder(e)[k].result <= bound
    BY <2>2, <2>4
  <2>7. Good(0)
    BY <2>1, <2>2, <2>5, <2>6
  <2>8. QED
    BY <2>7
<1>4. ASSUME NEW i \in S
      PROVE  i + 1 \in S
  <2>0. i \in Nat /\ i + 1 \in Nat
    OBVIOUS
  <2>1. ASSUME i + 1 <= n
        PROVE  Good(i + 1)
    <3>1. i + 1 \in 1..n /\ (i + 1) - 1 = i /\ i <= n /\ i \in 0..n /\ i + 1 \in 0..n
      BY <1>2, <2>0, <2>1
    <3>2. Good(i)
      BY <1>4, <3>1
    <3>3. /\ PointsRead(Decoder(e)[Len(sent[i + 1])], points, i + 1)
          /\ \A k \in Len(sent[i])..Len(sent[i + 1]) : Decoder(e)[k].result <= bound
      <4>1. PICK l \in 1..n : l = i + 1 /\ l - 1 = i
        BY <3>1
      <4>2. PointsRead(Decoder(e)[Len(sent[l - 1])], points, l - 1)
        BY <3>2, <4>1
      <4>3. /\ PointsRead(Decoder(e)[Len(sent[l])], points, l)
            /\ \A k \in Len(sent[l - 1])..Len(sent[l]) : Decoder(e)[k].result <= bound
        BY <1>1, <4>2, PointTaken, Zenon
      <4>4. QED
        BY <4>1, <4>3
    <3>4. Len(sent[i]) \in Nat /\ Len(sent[i + 1]) \in Nat
      <4>1. i \in 0..n /\ i + 1 \in 0..n
        BY <1>2, <3>1
      <4>2. sent[i] \in Seq(Nat) /\ sent[i + 1] \in Seq(Nat)
        BY <1>2, <4>1, Zenon
      <4>3. QED
        BY <4>2
    <3>5. \A k \in 0..Len(sent[i + 1]) : k \in 0..Len(sent[i]) \/ k \in Len(sent[i])..Len(sent[i + 1])
      <4>1. \A a, b \in Nat : \A k \in 0..b : k \in 0..a \/ k \in a..b
        OBVIOUS
      <4>2. QED
        BY <3>4, <4>1, Zenon
    <3>6. QED
      BY <3>2, <3>3, <3>5
  <2>2. QED
    BY <2>0, <2>1
<1>5. S \in SUBSET Nat
  OBVIOUS
<1>6. S = Nat
  <2> HIDE DEF S
  <2>1. QED
    BY <1>3, <1>4, <1>5, Induction
<1>7. Good(n)
  <2>1. n \in S /\ n <= n
    BY <1>2, <1>6
  <2>2. QED
    BY <2>1
<1>8. PICK got : got = DecodePolyline(e) /\ got = Decoder(e)[Len(e)].points
  BY DEF DecodePolyline
<1>9. got \in Seq(Int \X Int) /\ Len(got) = n /\ \A j \in 1..n : got[j] = points[j]
  BY <1>2, <1>7, <1>8 DEF PointsRead, Fresh, State
<1>10. got = points
  BY <1>9, SeqEqual
<1>11. QED
  BY <1>2, <1>7, <1>8, <1>10

-----------------------------------------------------------------------------
(* The theorems *)

LEMMA InvInit == Init => Inv
<1> SUFFICES ASSUME Init
             PROVE  Inv
  OBVIOUS
<1>1. TypeOK
  <2>1. /\ <<>> \in Seq(Long) /\ Len(<<>>) <= MaxSearches
        /\ <<>> \in Seq(Spots \X Spots) /\ Len(<<>>) <= MaxRoutes
        /\ 0 \in 0..MaxMishaps
    BY BoundAssumption
  <2>2. QED
    BY <2>1 DEF Init, BoxInit, TypeOK, BoxTypeOK
<1>2. HiddenOK /\ TextsAgree
  BY DEF Init, BoxInit, HiddenOK, TextsAgree
<1>3. WayAgrees /\ PanelAgrees
  BY DEF Init, WayAgrees, PanelAgrees
<1>4. QED
  BY <1>1, <1>2, <1>3 DEF Inv

LEMMA InvStutters ==
    ASSUME Inv, UNCHANGED vars
    PROVE  Inv'
<1> USE DEF vars, page, form, box
<1>1. TypeOK'
  BY DEF Inv, TypeOK, BoxTypeOK
<1>2. HiddenOK' /\ TextsAgree'
  BY DEF Inv, HiddenOK, BoxShown, TextsAgree
<1>3. WayAgrees' /\ PanelAgrees'
  BY DEF Inv, WayAgrees, Way, Drawn, PanelAgrees
<1>4. QED
  BY <1>1, <1>2, <1>3 DEF Inv

\* The inductive invariant holds in every reachable state.
THEOREM Invariance == Spec => []Inv
<1>1. Inv /\ Next => Inv'
  BY TypeKept, HiddenKept, TextsKept, WayKept, PanelKept DEF Inv
<1>2. QED
  BY <1>1, InvInit, InvStutters, PTL DEF Spec

\* Every reachable state is well typed, and no list without a result can be
\* opened.
THEOREM TypeCorrect == Spec => []TypeOK
BY Invariance, PTL DEF Inv

\* Without a mishap the places that are listed under a typed text were found for
\* it, once its search has been answered.
THEOREM ListOfTheText == Spec => []SuggestionsMatchText
<1>1. Inv => SuggestionsMatchText
  BY DEF Inv, TextsAgree, SuggestionsMatchText
<1>2. QED
  BY <1>1, Invariance, PTL

\* The markers of a line of one, two or more than six points lie strictly
\* between its ends.
LEMMA MarkersInside ==
    ASSUME NEW line, Len(line) \in Nat, Len(line) \notin 3..6,
           NEW i \in DOMAIN GetRouteWaypoints(line, 6)
    PROVE  \E j \in 2..(Len(line) - 1) : GetRouteWaypoints(line, 6)[i] = line[j]
<1> DEFINE n == Len(line)
           gap == n \div (6 + 1)
           kept == {k \in 1..6 : k * gap < n - 1}
<1>1. CASE n < 3
  <2>1. GetRouteWaypoints(line, 6) = <<>>
    BY <1>1 DEF GetRouteWaypoints
  <2>2. DOMAIN <<>> = {}
    OBVIOUS
  <2>3. QED
    BY <2>1, <2>2
<1>2. CASE n > 6
  <2>1. GetRouteWaypoints(line, 6) = [k \in kept |-> line[k * gap + 1]]
    BY <1>2 DEF GetRouteWaypoints
  <2>2. i \in 1..6 /\ i * gap < n - 1
    BY <2>1
  <2>3. gap \in Nat /\ gap >= 1
    BY <1>2
  <2>4. i * gap >= 1 /\ i * gap \in Nat
    <3>1. i \in {1, 2, 3, 4, 5, 6}
      BY <2>2
    <3>2. QED
      BY <2>3, <3>1
  <2>5. i * gap + 1 \in 2..(n - 1)
    BY <2>2, <2>4
  <2>6. GetRouteWaypoints(line, 6)[i] = line[i * gap + 1]
    BY <2>1, <2>2
  <2>7. QED
    BY <2>5, <2>6
<1>3. n < 3 \/ n > 6
  <2>1. \A m \in Nat : m \notin 3..6 => m < 3 \/ m > 6
    OBVIOUS
  <2>2. QED
    BY <2>1
<1>4. QED
  BY <1>1, <1>2, <1>3

\* The differences between the points of a road fit into 27 bits.
Most == 4 * East

LEMMA RoadBounded ==
    ASSUME NEW points \in Seq(Coordinates)
    PROVE  points \in Seq(Int \X Int) /\ Bounded(points, Most)
<1> SUFFICES ASSUME North \in Nat
             PROVE  points \in Seq(Int \X Int) /\ Bounded(points, Most)
  BY DEF North
<1>0. East \in Nat /\ North <= East
  BY DEF East
<1>1. Len(points) \in Nat /\ \A i \in 1..Len(points) : points[i] \in Coordinates
  OBVIOUS
<1>2. \A x \in Coordinates : x \in Int \X Int
  BY <1>0 DEF Coordinates
<1>3. points \in Seq(Int \X Int)
  <2>1. points = [i \in 1..Len(points) |-> points[i]]
    OBVIOUS
  <2>2. QED
    BY <1>1, <1>2, <2>1
<1>4. <<0, 0>> \in Coordinates
  BY <1>0 DEF Coordinates
<1>5. ASSUME NEW i \in 1..Len(points), NEW d1 \in Int, NEW d2 \in Int, Deltas(points, i, d1, d2)
      PROVE  ZigZag(d1) <= Most /\ ZigZag(d2) <= Most
  <2>1. Before(points, i) \in Coordinates
    <3>1. i # 1 => i - 1 \in 1..Len(points)
      BY <1>1
    <3>2. QED
      BY <1>1, <1>4, <3>1 DEF Before
  <2>2. PICK x, y \in Coordinates : x = points[i] /\ y = Before(points, i)
    BY <1>1, <2>1
  <2>3. d1 = x[1] - y[1] /\ d2 = x[2] - y[2]
    BY <1>5, <2>2 DEF Deltas
  <2>4. /\ x[1] \in -North..North /\ y[1] \in -North..North
        /\ x[2] \in -East..East /\ y[2] \in -East..East
    BY DEF Coordinates
  <2>5. d1 \in -(2 * East)..(2 * East) /\ d2 \in -(2 * East)..(2 * East)
    <3>1. \A m, n \in Nat : m <= n =>
             /\ \A k, l \in -m..m : k - l \in -(2 * n)..(2 * n)
             /\ \A k, l \in -n..n : k - l \in -(2 * n)..(2 * n)
      OBVIOUS
    <3>2. QED
      BY <1>0, <2>3, <2>4, <3>1
  <2>6. ASSUME NEW d \in -(2 * East)..(2 * East)
        PROVE  ZigZag(d) <= Most
    <3>1. Most = 2 * (2 * East)
      BY <1>0 DEF Most
    <3>2. \A k, l \in Int : k >= -l /\ k <= l /\ l >= 0 => (IF k < 0 THEN -2 * k - 1 ELSE 2 * k) <= 2 * l
      OBVIOUS
    <3>3. 2 * East \in Int /\ 2 * East >= 0 /\ d \in Int /\ d >= -(2 * East) /\ d <= 2 * East
      BY <1>0
    <3>4. QED
      BY <3>1, <3>2, <3>3 DEF ZigZag
  <2>7. QED
    BY <2>5, <2>6
<1>6. QED
  BY <1>3, <1>5 DEF Bounded

\* Whatever road the service sends is decoded into its points, and no number
\* on the way needs more than 27 of the 32 bits the script computes with
\* (routeService.js:13-39).
THEOREM RoadsDecoded ==
    \A way \in Spots \X Spots :
        /\ Points[way] = Road[way]
        /\ \A k \in 0..Len(Encode(Road[way])) : Decoder(Encode(Road[way]))[k].result < 134217728
<1> SUFFICES ASSUME NEW way \in Spots \X Spots
             PROVE  /\ Points[way] = Road[way]
                    /\ \A k \in 0..Len(Encode(Road[way])) : Decoder(Encode(Road[way]))[k].result < 134217728
  OBVIOUS
<1>1. PICK points : points = Road[way]
  OBVIOUS
<1>2. points \in Seq(Int \X Int) /\ Bounded(points, Most)
  BY <1>1, RoadAssumption, RoadBounded
<1>3. /\ DecodePolyline(Encode(points)) = points
      /\ \A k \in 0..Len(Encode(points)) : Decoder(Encode(points))[k].result <= Most
  <2>1. Most \in Nat
    BY DEF Most, East, North
  <2>2. QED
    BY <1>2, <2>1, RoundTrip
<1>4. ASSUME NEW k \in 0..Len(Encode(points))
      PROVE  Decoder(Encode(points))[k].result < 134217728
  <2>1. Encode(points) \in Seq(Nat)
    <3>1. PICK sent : Sends(sent, points)
      BY <1>2, EncodeDef
    <3>2. Len(points) \in 0..Len(points)
      BY <1>2
    <3>3. QED
      BY <3>1, <3>2 DEF Sends
  <2>2. PICK s \in State : s = Decoder(Encode(points))[k]
    BY <2>1, DecoderDef
  <2>3. s.result \in Nat /\ s.result <= Most
    BY <1>3, <2>2 DEF State
  <2>4. QED
    BY <2>2, <2>3 DEF Most, East, North
<1>5. QED
  BY <1>1, <1>3, <1>4 DEF Points

\* The preview shows, prices and names the places that will be booked.
THEOREM PreviewOfThePlaces == Spec => []PreviewIsTrue
<1>1. Inv => PreviewIsTrue
  <2> SUFFICES ASSUME Inv, mishaps = 0, step = "ROUTE_PREVIEW", routes = <<>>
               PROVE  PreviewIsTrue
    BY DEF PreviewIsTrue
  <2>1. pickup # None /\ dropoff # None /\ dropoffAddress = dropoff
    BY DEF Inv, PanelAgrees
  <2>2. Way \in Spots \X Spots
    BY <2>1 DEF Inv, TypeOK, Way
  <2>3. Drawn(Way)
    BY <2>1 DEF Inv, WayAgrees
  <2>4. routeCoordinates \in {Road[Way], Way}
    BY <2>2, <2>3, RoadsDecoded DEF Drawn
  <2>5. Len(routeCoordinates) \in Nat
    <3>1. Road[Way] \in Seq(Coordinates)
      BY <2>2, RoadAssumption
    <3>2. Len(Way) \in Nat
      BY DEF Way
    <3>3. QED
      BY <2>4, <3>1, <3>2
  <2>6. ASSUME Len(routeCoordinates) \notin 3..6, NEW i \in DOMAIN routeWaypoints
        PROVE  \E j \in 2..(Len(routeCoordinates) - 1) : routeWaypoints[i] = routeCoordinates[j]
    BY <2>3, <2>5, <2>6, MarkersInside DEF Drawn
  <2>7. QED
    BY <2>1, <2>3, <2>4, <2>6 DEF PreviewIsTrue, Drawn, Way
<1>2. QED
  BY <1>1, Invariance, PTL
=============================================================================
