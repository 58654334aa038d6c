\* Two spots, a text that is found, one that is not and one that is too short;
\* two route requests and one search in flight, one mishap.
CONSTANTS
    cafe = cafe
    cafeteria = cafeteria
    ca = ca
    Long = {cafe, cafeteria}
    Short = {ca}
    Places <- MCSpots
    Found <- MCFound
    Road <- MCRoad
    Gps <- Home
    MaxSearches = 1
    MaxRoutes = 2
    MaxMishaps = 1
    None = None
SPECIFICATION Spec
INVARIANTS TypeOK PreviewIsTrue SuggestionsMatchText
CHECK_DEADLOCK FALSE
