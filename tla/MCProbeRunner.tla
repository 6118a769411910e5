---- MODULE MCProbeRunner ----
EXTENDS DeviceCore

CONSTANTS screen, report

\* The thread that draws the page that is up and the one that collects the report.
MCRunners == {screen, report}
====
