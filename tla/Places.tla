------------------------------- MODULE Places -------------------------------
(***************************************************************************)
(* Where the ride of the form goes from and to: the place fields, the map  *)
(* and the route of src/frontend/src/pages/UserHome.jsx, with its box for  *)
(* the dropoff (LocationSearchInput) and its route requests (RouteService).*)
(*                                                                         *)
(* Every change of a place asks for the route anew, and no request is ever *)
(* cancelled.  What rides do to the page is the subject of UserHome; here  *)
(* they appear, put their places into the form, and end.  The pickup's box *)
(* is a second one like the dropoff's: what it chooses is modelled, its    *)
(* text and its list are not.                                              *)
(***************************************************************************)
EXTENDS LocationSearchInput, RouteService

CONSTANTS
    Road,           \* <<from, to>> -> the points of the road, the service's answer
    Gps,            \* the place the browser reports
    MaxRoutes,      \* bound: route requests in flight
    MaxMishaps      \* bound: answers that overtake others or bring no route, late timers

VARIABLES
    step,               \* the panel; "RIDE" is any panel about a ride
    pickup, dropoff,    \* pickupLocation and dropoffLocation, or None
    dropoffAddress,     \* the text in the dropoff's box, or None for none
    isMapSelecting,     \* the pickup follows the map
    timer,              \* the 300 ms timer of handleDropoffSelect is running
    routes,             \* the <<from, to>> asked for, in the order of asking
    routeCoordinates,   \* the line on the map, or None
    routeWaypoints,     \* the markers on it
    distanceOf,         \* the <<from, to>> that routeDistance, and so the price, is of
    positionFor,        \* who waits for the browser's position: the page, since it was
                        \* mounted, and the pickup's box; the dropoff's is locating
    mishaps

form == <<step, pickup, dropoff, dropoffAddress, isMapSelecting, timer, routes,
          routeCoordinates, routeWaypoints, distanceOf>>
page == <<form, mishaps>>
vars == <<page, box, positionFor>>

Spots == Places
Typed == Long \cup Short
Texts == Spots \cup Typed
Points == [way \in Spots \X Spots |-> DecodePolyline(Encode(Road[way]))]

ASSUME BoundAssumption == {MaxSearches, MaxRoutes, MaxMishaps} \subseteq Nat

\* Latitudes reach 90 degrees from the equator and longitudes 180.
North == 9000000
East == 2 * North
Coordinates == (-North..North) \X (-East..East)

\* The position is a place there is, and a road is a list of points on earth.
ASSUME RoadAssumption ==
    /\ Gps \in Spots
    /\ Road \in [Spots \X Spots -> Seq(Coordinates)]

\* The address of a place, as the search or the page writes it, is not what one
\* types: a text tells whether it was typed.
ASSUME TypedAssumption == Spots \cap Typed = {}

BoxShown == step = "LOCATION_INPUT" /\ ~isMapSelecting

Mishap == mishaps < MaxMishaps /\ mishaps' = mishaps + 1
MishapIf(late) == IF late THEN Mishap ELSE UNCHANGED mishaps

\* The effect of a new pickup or dropoff, after they have been assigned.
FetchRoute ==
    IF None \in {pickup', dropoff'} THEN UNCHANGED routes
    ELSE Len(routes) < MaxRoutes /\ routes' = Append(routes, <<pickup', dropoff'>>)

\* A step that may take the box off the page.
BoxFollows == IF BoxShown' THEN UNCHANGED box ELSE Unmounted /\ UNCHANGED locating

-----------------------------------------------------------------------------
\* The pickup: the position on mount, the GPS button, the pickup's box, the map.

SetPickup(spot) ==
    /\ pickup' = spot
    /\ UNCHANGED <<step, dropoff, dropoffAddress, timer, routeCoordinates,
                   routeWaypoints, distanceOf, mishaps, box>>

\* The answer to the page comes when it comes, and replaces what has been chosen,
\* dragged or restored meanwhile.
GetCurrentPosition ==
    /\ "page" \in positionFor /\ positionFor' = positionFor \ {"page"}
    /\ SetPickup(Gps) /\ FetchRoute
    /\ UNCHANGED isMapSelecting

\* The same object again is no change.
GpsButton ==
    /\ BoxShown /\ "page" \notin positionFor
    /\ SetPickup(Gps)
    /\ FetchRoute \/ (pickup = Gps /\ UNCHANGED routes)
    /\ UNCHANGED isMapSelecting

\* The first entry of the list under the pickup's box, and the answer, in
\* whatever panel it finds the page; or none.
AskPosition ==
    /\ BoxShown
    /\ positionFor' = positionFor \cup {"box"}
    /\ UNCHANGED <<page, box>>

PositionForPickup ==
    /\ "box" \in positionFor /\ positionFor' = positionFor \ {"box"}
    /\ \/ SetPickup(Gps) /\ FetchRoute /\ isMapSelecting' = FALSE
       \/ UNCHANGED <<page, box>>

HandlePickupSelect(spot) ==
    /\ BoxShown
    /\ SetPickup(spot) /\ FetchRoute
    /\ UNCHANGED isMapSelecting

\* Any movement of the map, the page's own included.
HandleMapCenterChange(spot) ==
    /\ isMapSelecting
    /\ SetPickup(spot) /\ FetchRoute
    /\ UNCHANGED isMapSelecting

SetOnMap ==
    /\ BoxShown
    /\ isMapSelecting' = TRUE
    /\ UNCHANGED <<step, pickup, dropoff, dropoffAddress, timer, routes,
                   routeCoordinates, routeWaypoints, distanceOf, mishaps>>
    /\ BoxFollows

ConfirmPickup ==
    /\ isMapSelecting
    /\ isMapSelecting' = FALSE
    /\ UNCHANGED <<step, pickup, dropoff, dropoffAddress, timer, routes,
                   routeCoordinates, routeWaypoints, distanceOf, mishaps, box>>

-----------------------------------------------------------------------------
\* The dropoff and its box.

\* Typing on while the panel is about to change is a mishap.
Type(t) ==
    /\ BoxShown
    /\ HandleInputChange(t)
    /\ dropoffAddress' = t
    /\ MishapIf(timer)
    /\ UNCHANGED <<step, pickup, dropoff, isMapSelecting, timer, routes,
                   routeCoordinates, routeWaypoints, distanceOf>>

\* Mutant: the route is asked for only when there is none yet.
HandleDropoffSelectOnce(spot) ==
    /\ dropoff' = spot
    /\ dropoffAddress' = spot
    /\ timer' = (timer \/ pickup # None)
    /\ UNCHANGED pickup
    /\ IF routeCoordinates = None THEN FetchRoute ELSE UNCHANGED routes
    /\ UNCHANGED <<step, isMapSelecting, routeCoordinates, routeWaypoints, distanceOf>>

HandleDropoffSelect(spot) ==
    /\ dropoff' = spot
    /\ dropoffAddress' = spot
    /\ timer' = (timer \/ pickup # None)
    /\ UNCHANGED pickup
    /\ FetchRoute
    /\ UNCHANGED <<step, isMapSelecting, routeCoordinates, routeWaypoints, distanceOf>>

SelectPlace(spot) ==
    /\ HandleSelect(spot)
    /\ HandleDropoffSelect(spot)
    /\ UNCHANGED mishaps

\* The position may be known only after the panel, or the page's ride, has
\* changed.
PositionKnown ==
    /\ Located
    /\ HandleDropoffSelect(Gps)
    /\ UNCHANGED mishaps

\* A text that is too short is answered at once, so that the answer to a search
\* that is under way comes after it: a mishap.
Search ==
    /\ SearchPlaces
    /\ MishapIf(debounce \in Short /\ searches # <<>>)
    /\ UNCHANGED form

\* An answer that overtakes another is a mishap.
SearchReturns(i) ==
    /\ SearchAnswer(i) \/ SearchError(i)
    /\ MishapIf(i > 1)
    /\ UNCHANGED form

Browse ==
    /\ \/ BoxShown /\ isOpen /\ ClickOutside
       \/ BoxShown /\ Focus
       \/ HandleCurrentLocation
       \/ NotLocated
    /\ UNCHANGED page

\* A ride or a reset in between makes the timer one of the mishaps.
TimerFires ==
    /\ timer
    /\ timer' = FALSE
    /\ step' = "ROUTE_PREVIEW"
    /\ MishapIf(step = "RIDE" \/ dropoff = None)
    /\ UNCHANGED <<pickup, dropoff, dropoffAddress, isMapSelecting, routes,
                   routeCoordinates, routeWaypoints, distanceOf>>
    /\ BoxFollows

Back ==
    /\ step = "ROUTE_PREVIEW"
    /\ step' = "LOCATION_INPUT"
    /\ UNCHANGED <<pickup, dropoff, dropoffAddress, isMapSelecting, timer, routes,
                   routeCoordinates, routeWaypoints, distanceOf, mishaps, box>>

-----------------------------------------------------------------------------
\* What rides do to the form.

\* A booking is answered.
Booked ==
    /\ step # "RIDE" /\ dropoff # None
    /\ step' = "RIDE"
    /\ UNCHANGED <<pickup, dropoff, dropoffAddress, isMapSelecting, timer, routes,
                   routeCoordinates, routeWaypoints, distanceOf, mishaps>>
    /\ BoxFollows

\* A poll finds a ride: requested, or accepted after the driver's route has
\* been awaited, when the panel may be another again (a mishap); or in
\* progress, when the addresses stay.
PollRestores(from, to) ==
    /\ pickup' = from /\ dropoff' = to
    /\ \/ dropoffAddress' = to /\ step' \in {step, "RIDE"} /\ MishapIf(step' # "RIDE")
       \/ UNCHANGED <<dropoffAddress, mishaps>> /\ step' = "RIDE"
    /\ FetchRoute
    /\ UNCHANGED <<isMapSelecting, timer, routeCoordinates, routeWaypoints, distanceOf>>
    /\ BoxFollows

\* resetFlow; the distance stays.
ResetFlow ==
    /\ step = "RIDE"
    /\ step' = "LOCATION_INPUT"
    /\ routeCoordinates' = None /\ routeWaypoints' = <<>>
    /\ dropoff' = None /\ dropoffAddress' = None
    /\ UNCHANGED <<pickup, isMapSelecting, timer, routes, distanceOf, mishaps, box>>

-----------------------------------------------------------------------------
\* getRoute's answers: the road; after a network error the straight line, with
\* its length; or no route, which leaves everything as it is.  An answer that
\* overtakes another and no route are mishaps.

ShowRoute(i, coordinates) ==
    /\ routeCoordinates' = coordinates
    /\ routeWaypoints' = GetRouteWaypoints(coordinates, 6)
    /\ distanceOf' = routes[i]

RouteAnswer(i) ==
    /\ routes' = RemoveAt(routes, i)
    /\ \/ ShowRoute(i, Points[routes[i]]) /\ MishapIf(i > 1)
       \/ ShowRoute(i, routes[i]) /\ MishapIf(i > 1)
       \/ UNCHANGED <<routeCoordinates, routeWaypoints, distanceOf>> /\ Mishap
    /\ UNCHANGED <<step, pickup, dropoff, dropoffAddress, isMapSelecting, timer, box>>

-----------------------------------------------------------------------------
Init ==
    /\ BoxInit
    /\ step = "LOCATION_INPUT"
    /\ pickup = None /\ dropoff = None /\ dropoffAddress = None
    /\ isMapSelecting = FALSE /\ timer = FALSE
    /\ routes = <<>>
    /\ routeCoordinates = None /\ routeWaypoints = <<>> /\ distanceOf = None
    /\ positionFor = {"page"}
    /\ mishaps = 0

Moves ==
    \/ GpsButton \/ SetOnMap \/ ConfirmPickup
    \/ \E spot \in Spots : HandlePickupSelect(spot) \/ HandleMapCenterChange(spot) \/ SelectPlace(spot)
    \/ \E t \in Typed : Type(t)
    \/ PositionKnown \/ Search \/ Browse \/ TimerFires \/ Back
    \/ Booked \/ ResetFlow
    \/ \E from, to \in Spots : PollRestores(from, to)
    \/ \E i \in DOMAIN searches : SearchReturns(i)
    \/ \E i \in DOMAIN routes : RouteAnswer(i)

Next ==
    \/ Moves /\ UNCHANGED positionFor
    \/ GetCurrentPosition \/ AskPosition \/ PositionForPickup

Spec == Init /\ [][Next]_vars

-----------------------------------------------------------------------------
\* Every variable keeps to its domain; a list that can be opened is not empty.
TypeOK ==
    /\ BoxTypeOK
    /\ step \in {"LOCATION_INPUT", "ROUTE_PREVIEW", "RIDE"}
    /\ {pickup, dropoff} \subseteq Spots \cup {None}
    /\ dropoffAddress \in Texts \cup {None}
    /\ {isMapSelecting, timer} \subseteq BOOLEAN
    /\ routes \in Seq(Spots \X Spots) /\ Len(routes) <= MaxRoutes
    /\ distanceOf \in Spots \X Spots \cup {None}
    /\ positionFor \subseteq {"page", "box"}
    /\ mishaps \in 0..MaxMishaps

\* What is previewed is what will be booked (UserHome.jsx:117-129, 206): with
\* no route request open, the line on the map goes from the pickup to the
\* dropoff along the road or straight, the price is for that distance, and
\* the dropoff's address names it, whatever was chosen, dragged, restored,
\* located or reset before.  The pickup's address is no part of it: typing in
\* the pickup's box changes that and not the place.  The markers lie strictly
\* between the ends, unless the road has three to six points, when they all
\* pile up at its start (routeService.js:115).
PreviewIsTrue ==
    mishaps = 0 /\ step = "ROUTE_PREVIEW" /\ routes = <<>> =>
        LET way == <<pickup, dropoff>> IN
        /\ None \notin {pickup, dropoff}
        /\ distanceOf = way
        /\ routeCoordinates \in {Road[way], way}
        /\ dropoffAddress = dropoff
        /\ Len(routeCoordinates) \notin 3..6 =>
               \A i \in DOMAIN routeWaypoints :
                   \E j \in 2..(Len(routeCoordinates) - 1) : routeWaypoints[i] = routeCoordinates[j]

\* Under a text that was typed, when no search is due and none is under way,
\* the places that are listed were found for that text, however many searches
\* ran beside each other and whatever was chosen or left in between
\* (LocationSearchInput.jsx:31-56).  Under a chosen address it is not so: a
\* choice stops no search, and Current Location keeps the list it was chosen
\* from (LocationSearchInput.jsx:58-82); the old list then opens under the new
\* address, until the next text has been searched for.
SuggestionsMatchText ==
    mishaps = 0 /\ dropoffAddress \in Typed /\ debounce = None /\ searches = <<>> =>
        suggestions \in {dropoffAddress, None}
=============================================================================
