------------------------ MODULE LocationSearchInput ------------------------
(***************************************************************************)
(* A search box (src/frontend/src/components/LocationSearchInput.jsx): a   *)
(* text that is searched for half a second after the last key, and a list  *)
(* of what was found.  Neither an earlier search nor the timer is ever     *)
(* cancelled but by the next key, so that a list may come late.            *)
(*                                                                         *)
(* The text belongs to the page: the actions say what they make of it.     *)
(* The spinner is left out.                                                *)
(***************************************************************************)
EXTENDS Naturals, Sequences, SequencesExt

CONSTANTS
    Long,           \* what is typed and is searched for
    Short,          \* what is typed and has fewer than three characters
    Places,         \* the places there are, each also the text of its address
    Found,          \* Long -> the places the search finds, up to six
    MaxSearches,    \* bound: searches in flight
    None

VARIABLES
    debounce,       \* the text that a running timer is about to search, or None
    searches,       \* the searches in flight, in the order they were sent
    suggestions,    \* the text whose results are listed, or None
    isOpen,         \* the list is shown
    locating        \* the browser is asked for the position

\* The search answers with places, and None is no text and no place.
ASSUME FoundAssumption == Found \in [Long -> SUBSET Places]
ASSUME NoneAssumption == None \notin Long /\ None \notin Short /\ None \notin Places

box == <<debounce, searches, suggestions, isOpen, locating>>

-----------------------------------------------------------------------------
\* handleInputChange; the page takes the text over.
HandleInputChange(t) ==
    /\ debounce' = t
    /\ UNCHANGED <<searches, suggestions, isOpen, locating>>

\* Mutant: a text that is too short leaves the list as it is.
SearchPlacesIfLong ==
    /\ debounce # None
    /\ debounce' = None
    /\ debounce \in Long => Len(searches) < MaxSearches
    /\ searches' = IF debounce \in Long THEN Append(searches, debounce) ELSE searches
    /\ UNCHANGED <<suggestions, isOpen, locating>>

SearchPlaces ==
    /\ debounce # None
    /\ debounce' = None
    /\ UNCHANGED locating
    /\ \/ /\ debounce \in Long /\ Len(searches) < MaxSearches
          /\ searches' = Append(searches, debounce)
          /\ UNCHANGED <<suggestions, isOpen>>
       \/ /\ debounce \in Short
          /\ suggestions' = None /\ isOpen' = FALSE
          /\ UNCHANGED searches

\* Mutant: a search that finds nothing counts as one that does.
SearchAnswerAnyway(i) ==
    /\ suggestions' = searches[i]
    /\ isOpen' = TRUE
    /\ searches' = RemoveAt(searches, i)
    /\ UNCHANGED <<debounce, locating>>

SearchAnswer(i) ==
    /\ isOpen' = (Found[searches[i]] # {})
    /\ suggestions' = IF isOpen' THEN searches[i] ELSE None
    /\ searches' = RemoveAt(searches, i)
    /\ UNCHANGED <<debounce, locating>>

\* The list is emptied, and stays open if it was.
SearchError(i) ==
    /\ suggestions' = None
    /\ searches' = RemoveAt(searches, i)
    /\ UNCHANGED <<debounce, isOpen, locating>>

ClickOutside == isOpen' = FALSE /\ UNCHANGED <<debounce, searches, suggestions, locating>>

Focus ==
    /\ suggestions # None
    /\ isOpen' = TRUE
    /\ UNCHANGED <<debounce, searches, suggestions, locating>>

\* The page is given the place and its address; the timer goes on.
HandleSelect(place) ==
    /\ isOpen
    /\ suggestions # None /\ place \in Found[suggestions]
    /\ isOpen' = FALSE
    /\ suggestions' = None
    /\ UNCHANGED <<debounce, searches, locating>>

\* The first entry of the list.
HandleCurrentLocation ==
    /\ isOpen
    /\ locating' = TRUE
    /\ UNCHANGED <<debounce, searches, suggestions, isOpen>>

\* The page is told of the position, which the browser may also refuse.
Located ==
    /\ locating
    /\ locating' = FALSE
    /\ isOpen' = FALSE
    /\ UNCHANGED <<debounce, searches, suggestions>>

NotLocated ==
    /\ locating
    /\ locating' = FALSE
    /\ UNCHANGED <<debounce, searches, suggestions, isOpen>>

\* The box is gone; what it has started finds nobody to tell, except that the
\* page is still told of the position.
Unmounted ==
    /\ debounce' = None
    /\ searches' = <<>>
    /\ suggestions' = None
    /\ isOpen' = FALSE

BoxInit ==
    /\ debounce = None
    /\ searches = <<>>
    /\ suggestions = None
    /\ isOpen = FALSE
    /\ locating = FALSE

BoxTypeOK ==
    /\ debounce \in Long \cup Short \cup {None}
    /\ searches \in Seq(Long) /\ Len(searches) <= MaxSearches
    /\ suggestions \in Long \cup {None}
    /\ {isOpen, locating} \subseteq BOOLEAN
    /\ suggestions # None => Found[suggestions] # {}
=============================================================================
