---- MODULE TouchScreen ----
(***************************************************************************)
(* What a tap means.  Drawing a page leaves the rectangles of its buttons  *)
(* in globals; handle_touch compares the point with the globals of         *)
(* whatever page is the current one then.  The page, the mode and the      *)
(* rectangles are shared by three threads: the one that handles input, the *)
(* refresh thread, which turns to Requests when one arrives, and the main  *)
(* thread, which draws when Android asks for it.  None waits for another:  *)
(* a thread that finds the buffer taken does not draw.                     *)
(* What a button sends is TrustRuntime's concern, who owns the buffer and  *)
(* the globals is ActivityThreads'.                                        *)
(***************************************************************************)
EXTENDS ScreenLayout

CONSTANTS
    Windows,       \* sizes the window can have, with the insets of the system bars
    Frames,        \* what trust-ui-state can say
    NoFrame,       \* nothing has been published or read
    Points,        \* where a finger can be lifted
    VersionTaps    \* taps on the version that open the developer's tabs: 7

\* A request is published only during a session, as TrustService's theorems say; no
\* window is narrower than its margins.
ASSUME ScreenAssumption ==
    /\ Windows \subseteq [w : Nat, h : Nat, left : Nat, top : Nat, right : Nat, bottom : Nat]
    /\ \A win \in Windows : win.w >= 200 /\ win.left + win.right <= win.w
    /\ Frames \subseteq [state : -1 .. 3, ask : BOOLEAN]
    /\ \A f \in Frames : f.ask => f.state = 3
    /\ NoFrame \notin Frames
    /\ Points \subseteq [x : Int, y : Int]
    /\ VersionTaps \in Nat \ {0}

VARIABLES
    file,      \* trust-ui-state
    last,      \* g_trust_ui_last_frame, and with it the decoded globals
    page,      \* g_product_page
    dev,       \* g_developer_mode
    tab,       \* g_selected_tab
    count,     \* g_product_tap_count
    copy,      \* COPY ALL: not asked for, asked for, or g_collect_report is 1
    rect,      \* the rectangle each button was last drawn in
    win,       \* the window
    canvas,    \* what is in the buffer a thread holds
    screen,    \* what was posted last
    pc,        \* where each thread is
    had,       \* the refresh thread: there was a request before it read the file
    behind     \* history: the screen may be behind, for a reason the code does not mend

mode == <<page, dev, tab, count>>
drawn == <<rect, win, canvas, screen>>
vars == <<file, last, mode, copy, drawn, pc, had, behind>>

Threads == {"main", "refresh", "input"}

\* The globals a page draws from and a tap is judged by.
Known(f) == IF f = NoFrame THEN [state |-> 0, ask |-> FALSE] ELSE f

Views == [win : Windows, dev : BOOLEAN, page : Pages, tab : Tabs,
          frame : [state : -1 .. 3, ask : BOOLEAN], blank : BOOLEAN]

NoView == [win |-> NoRect]

Painting == \E t \in Threads : pc[t] = "post"

\* One thread at a time draws, and what is drawn comes from what is known.
TypeOK ==
    /\ file \in Frames \cup {NoFrame} /\ last \in Frames \cup {NoFrame}
    /\ page \in Pages /\ dev \in BOOLEAN /\ tab \in Tabs /\ count \in 0 .. VersionTaps - 1
    /\ copy \in {"no", "asked", "collecting"}
    /\ DOMAIN rect = Buttons
    /\ win \in Windows
    /\ canvas \in Views \cup {NoView} /\ screen \in Views \cup {NoView}
    /\ pc \in [Threads -> {"rest", "sync", "act", "render", "post", "collect"}]
    /\ \A t, u \in Threads : pc[t] = "post" /\ pc[u] = "post" => t = u
    /\ had \in BOOLEAN /\ behind \in BOOLEAN

----------------------------------------------------------------------------
(* render                                                                  *)

Goes(t, to) == pc' = [pc EXCEPT ![t] = to]

\* After drawing, COPY ALL goes on to collect the report.
Rest(t) == IF t = "input" /\ copy = "asked" THEN "collect" ELSE "rest"

\* Home, Requests, Devices and the CENTER tab read the file before they draw.
ReadsState == IF dev THEN tab = "CENTER" ELSE page # "SETTINGS"

Now(f) == [win |-> win, dev |-> dev, page |-> page, tab |-> tab, frame |-> Known(f),
           blank |-> FALSE]

Seen == IF ReadsState /\ file # NoFrame THEN file ELSE last

\* Buttons that a view does not draw keep the rectangle they had.
RectAfter(v) == [b \in Buttons |-> IF b \in Shown(v) THEN Place(v, b) ELSE rect[b]]

Draw(t) ==
    /\ pc[t] = "render" /\ ~Painting
    /\ last' = Seen
    /\ canvas' = [Now(last') EXCEPT !.blank = dev /\ tab = "CENTER" /\ copy = "collecting"]
    /\ rect' = RectAfter(canvas')
    /\ behind' = FALSE
    /\ Goes(t, "post")
    /\ UNCHANGED <<file, mode, copy, win, screen, had>>

\* Another thread holds the buffer: nothing is drawn, and nobody is told.
DrawSkipped(t) ==
    /\ pc[t] = "render" /\ Painting
    /\ behind' = TRUE
    /\ Goes(t, Rest(t))
    /\ UNCHANGED <<file, last, mode, copy, drawn, had>>

Post(t) ==
    /\ pc[t] = "post"
    /\ screen' = canvas
    /\ canvas' = NoView
    /\ Goes(t, Rest(t))
    /\ UNCHANGED <<file, last, mode, copy, rect, win, had, behind>>

----------------------------------------------------------------------------
(* The main thread and the service                                         *)

\* The window was created, resized or needs redrawing, or has got the focus.
Callback ==
    /\ pc["main"] = "rest"
    /\ win' \in Windows
    /\ Goes("main", "render")
    /\ UNCHANGED <<file, last, mode, copy, rect, canvas, screen, had, behind>>

Publish ==
    /\ file' \in Frames \ {file}
    /\ UNCHANGED <<last, mode, copy, drawn, pc, had, behind>>

----------------------------------------------------------------------------
(* trust_ui_refresh_thread                                                 *)

RefreshBegins ==
    /\ pc["refresh"] = "rest"
    /\ had' = Known(last).ask
    /\ Goes("refresh", "sync")
    /\ UNCHANGED <<file, last, mode, copy, drawn, behind>>

\* A request that was not there before turns the page; whether it is drawn depends
\* on the file having been new to this thread.
RefreshSync ==
    /\ pc["refresh"] = "sync"
    /\ last' = IF file = NoFrame THEN last ELSE file
    /\ page' = IF ~had /\ Known(last').ask /\ ~dev THEN "REQUESTS" ELSE page
    /\ behind' = (behind \/ (last' = last /\ page' # page))
    /\ Goes("refresh", IF last' = last THEN "rest" ELSE "render")
    /\ had' = FALSE
    /\ UNCHANGED <<file, dev, tab, count, copy, drawn>>

----------------------------------------------------------------------------
(* handle_touch                                                            *)

\* What it takes from the file is drawn only if the tap hits something.
Touch ==
    /\ pc["input"] = "rest"
    /\ last' = IF file = NoFrame THEN last ELSE file
    /\ behind' = (behind \/ last' # last)
    /\ Goes("input", "act")
    /\ UNCHANGED <<file, mode, copy, drawn, had>>

\* Slip: the decision buttons are looked for whether or not there is a request.
TestedUnguarded ==
    IF dev THEN Tabs \cup {"RUN", "COPY"}
                     \cup (IF tab = "CENTER" THEN {"APPROVE", "FORGET", "PULSE"} ELSE {})
    ELSE Pages \cup (CASE page = "HOME"     -> {"APPROVE"}
                       [] page = "REQUESTS" -> {"DENY", "ALLOW"}
                       [] page = "DEVICES"  -> {"FORGET"}
                       [] OTHER             -> {"PULSE", "VERSION"})

\* The buttons a tap is compared with: not quite those that are drawn.
Tested ==
    IF dev THEN Tabs \cup {"RUN", "COPY"}
                     \cup (IF tab = "CENTER" THEN {"APPROVE", "FORGET", "PULSE"} ELSE {})
    ELSE Pages \cup (CASE page = "HOME"     -> {"APPROVE"}
                       [] page = "REQUESTS" -> IF Known(last).ask THEN {"DENY", "ALLOW"} ELSE {}
                       [] page = "DEVICES"  -> {"FORGET"}
                       [] OTHER             -> {"PULSE", "VERSION"})

\* The first of them whose rectangle the point is in.
Means(p, b) ==
    /\ InRect(p, rect[b]) /\ b \in Tested
    /\ \A c \in Tested : Rank[c] < Rank[b] => ~InRect(p, rect[c])

\* APPROVE approves only while the state asks for it.
Effective(b) == b = "APPROVE" => Known(last).state = 1

\* Slip: returns from handle_touch without drawing.
PressedUndrawn(b) ==
    /\ pc["input"] = "act"
    /\ \E p \in Points : Means(p, b)
    /\ Goes("input", "rest")
    /\ UNCHANGED <<file, last, drawn, had, behind>>

Pressed(b) ==
    /\ pc["input"] = "act"
    /\ \E p \in Points : Means(p, b)
    /\ Goes("input", "render")
    /\ UNCHANGED <<file, last, drawn, had, behind>>

TurnPage(b) ==
    /\ Pressed(b)
    /\ page' = b
    /\ UNCHANGED <<dev, tab, count, copy>>

SelectTab(b) ==
    /\ Pressed(b)
    /\ tab' = b
    /\ UNCHANGED <<page, dev, count, copy>>

TapVersion ==
    /\ Pressed("VERSION")
    /\ count' = (count + 1) % VersionTaps
    /\ IF count + 1 = VersionTaps THEN dev' = TRUE /\ tab' = "CENTER" ELSE UNCHANGED <<dev, tab>>
    /\ UNCHANGED <<page, copy>>

\* A command to the service, the overlay, or RUN / REFRESH.
Command(b) ==
    /\ Pressed(b)
    /\ UNCHANGED <<mode, copy>>

CopyAll ==
    /\ Pressed("COPY")
    /\ copy' = "asked"
    /\ UNCHANGED mode

\* handle_touch returns without drawing.
Miss ==
    /\ pc["input"] = "act"
    /\ \E p \in Points : \A b \in Tested : ~InRect(p, rect[b])
    /\ Goes("input", "rest")
    /\ UNCHANGED <<file, last, mode, copy, drawn, had, behind>>

\* build_full_report sets g_collect_report for all threads, reads the state for its
\* TRUST section, and clears it before the result is drawn.
CollectBegins ==
    /\ pc["input"] = "collect" /\ copy = "asked"
    /\ copy' = "collecting"
    /\ UNCHANGED <<file, last, mode, drawn, pc, had, behind>>

CollectEnds ==
    /\ pc["input"] = "collect" /\ copy = "collecting"
    /\ copy' = "no"
    /\ last' = IF file = NoFrame THEN last ELSE file
    /\ Goes("input", "render")
    /\ UNCHANGED <<file, mode, drawn, had, behind>>

----------------------------------------------------------------------------

Init ==
    /\ file \in Frames \cup {NoFrame} /\ last = NoFrame
    /\ page = "HOME" /\ dev = FALSE /\ tab = "CENTER" /\ count = 0 /\ copy = "no"
    /\ rect = [b \in Buttons |-> NoRect]
    /\ win \in Windows
    /\ canvas = NoView /\ screen = NoView
    /\ pc = [t \in Threads |-> IF t = "main" THEN "render" ELSE "rest"]
    /\ had = FALSE /\ behind = FALSE

Next ==
    \/ \E t \in Threads : Draw(t) \/ DrawSkipped(t) \/ Post(t)
    \/ Callback \/ Publish
    \/ RefreshBegins \/ RefreshSync
    \/ Touch \/ Miss \/ TapVersion \/ CopyAll \/ CollectBegins \/ CollectEnds
    \/ \E b \in Pages : TurnPage(b)
    \/ \E b \in Tabs : SelectTab(b)
    \/ \E b \in Actions \ {"VERSION", "COPY"} : Command(b)

Spec == Init /\ [][Next]_vars

----------------------------------------------------------------------------
(* Properties                                                              *)

\* Rectangles of buttons that are no longer drawn stay behind, pages share places
\* (REVOKE is where DENY and AUTHORIZE are on Requests), and the navigation covers
\* what a low window leaves no room for.  Still, when nobody is drawing and the screen
\* shows the current page, a tap does what is drawn under the finger, and where
\* nothing is drawn it does nothing.
TapMeansWhatIsDrawn ==
    (~Painting /\ screen = Now(last)) =>
        \A p \in Points :
            {b \in Tested : Means(p, b) /\ Effective(b)}
                = {b \in Shown(screen) : Under(screen, p, b) /\ Effective(b)}

\* When all threads have come to rest the screen shows the current page with what the
\* Activity knows, unless one of them found the buffer taken, a tap took the news and
\* hit nothing, or the refresh thread turned the page after another had taken the news.
ScreenFollows ==
    (\A t \in Threads : pc[t] = "rest") /\ ~behind => screen = Now(last)

\* The inductive invariant behind both: the rectangles are those of what was drawn
\* last, and that is the current page unless some thread is still going to draw.
Latest == IF Painting THEN canvas ELSE screen

RectsAreDrawn ==
    Latest \in Views => \A b \in Shown(Latest) : rect[b] = Place(Latest, b)

Pending == pc["input"] = "collect" \/ \E t \in Threads : pc[t] = "render"

Settles == behind \/ Pending \/ Latest = Now(last)

ScreenInv ==
    /\ RectsAreDrawn
    /\ Settles
    /\ copy = "collecting" => pc["input"] = "collect"
====
