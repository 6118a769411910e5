---- MODULE MCTouchScreen ----
EXTENDS TouchScreen

CONSTANT none

\* An upright phone with its status bar.
MCPhone == [w |-> 1080, h |-> 2400, left |-> 0, top |-> 100, right |-> 0, bottom |-> 60]
MCWindows == {MCPhone}

MCFrames == {[state |-> 1, ask |-> FALSE], [state |-> 3, ask |-> TRUE]}

At(x, y) == [x |-> x, y |-> y]

\* A point on every button of the product UI, on two tabs and on the other buttons of
\* the developer's UI, wherever those are; several are on more than one button.
MCPoints ==
    {At(135, 2290), At(405, 2290), At(675, 2290), At(945, 2290),    \* the navigation
     At(540, 890), At(300, 550), At(700, 550), At(540, 650),        \* the pages
     At(880, 125), At(190, 185), At(300, 310), At(850, 310),        \* tabs, RUN, COPY
     At(300, 1000), At(800, 1000), At(300, 1080),                   \* the CENTER tab
     At(300, 1100), At(800, 1100), At(500, 1160),                   \* ... while pairing
     At(0, 0)}                                                      \* nothing
====
