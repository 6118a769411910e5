---- MODULE MCActivityThreads ----
EXTENDS ActivityThreads

\* A host is trusted, and it asks: a mixture of the two is neither.
MCFrames == {[trust |-> TRUE, ask |-> FALSE], [trust |-> FALSE, ask |-> TRUE]}

\* Both threads of the first Activity, which the second, without threads, overtakes.
MCCreatable == {<<"input", 1>>, <<"refresh", 1>>}
====
