SPECIFICATION Spec
CONSTANTS
    Methods = {"GET", "POST"}
    Texts <- SomeTexts
    Params = {":p", ":q"}
    Wildcards = {"*w"}
    Patterns <- SomePatterns
    Paths <- SomePaths
    StaticFiles <- SomeFiles
    MaxRoutes = 3
INVARIANTS TrieIsInOrder RouteMatches LiteralRouteWins UnrivalledRouteIsFound
PROPERTIES AddOnlyShadows
\* The program has registered its routes.
CHECK_DEADLOCK FALSE
