SPECIFICATION Spec
CONSTANTS
    Agents = {a1, a2, a3}
    Priorities = {0, 1}
INVARIANT HeapMatchesMap
INVARIANT NobodyForgotten
INVARIANT OnceUnlessRebuilt
PROPERTY HigherGoesFirst
