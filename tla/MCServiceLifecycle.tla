---- MODULE MCServiceLifecycle ----
EXTENDS ServiceLifecycle

CONSTANTS t1, t2

\* A worker that is about to end and the one started after it.
MCThreads == {t1, t2}
====
