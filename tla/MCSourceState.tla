---------------------------- MODULE MCSourceState ----------------------------
\* SourceState for TLC: the lists of destinations of a new universe.
EXTENDS SourceState, TLC

CONSTANTS a1

NoneOrOne == {<< >>, <<a1>>}
==============================================================================
