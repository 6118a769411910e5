---- MODULE MCShellBridge ----
EXTENDS ShellBridge

CONSTANTS first, second, input, other

\* Two agents' tokens, one rendering thread, one other local client.
MCTokens == {first, second}
MCRenderers == {input}
MCStrangers == {other}
====
