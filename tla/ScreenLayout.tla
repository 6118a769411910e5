---- MODULE ScreenLayout ----
(***************************************************************************)
(* Where render() puts the buttons of each page, in pixels.  A window is   *)
(* its size with the insets of the system bars, a view is what one drawing *)
(* shows: the product UI with its page, or the developer's tabs.           *)
(***************************************************************************)
EXTENDS Integers

\* The buttons, in the order in which handle_touch asks for them; a page or a tab is
\* named like the button that leads to it, and numbered by its place in its row.
Rank == [HOME |-> 0, REQUESTS |-> 1, DEVICES |-> 2, SETTINGS |-> 3,
         SYSTEM |-> 0, PROCESS |-> 1, CENTER |-> 2, CORE |-> 3, BINDER |-> 4,
         NETWORK |-> 5, SECURITY |-> 6, NATIVE |-> 7, SANDBOX |-> 8,
         APPROVE |-> 9, DENY |-> 10, ALLOW |-> 11, FORGET |-> 12, PULSE |-> 13,
         VERSION |-> 14, RUN |-> 15, COPY |-> 16]

Pages == {"HOME", "REQUESTS", "DEVICES", "SETTINGS"}
Tabs == {"SYSTEM", "PROCESS", "CENTER", "CORE", "BINDER", "NETWORK", "SECURITY",
         "NATIVE", "SANDBOX"}
Actions == {"APPROVE", "DENY", "ALLOW", "FORGET", "PULSE", "VERSION", "RUN", "COPY"}
Buttons == Pages \cup Tabs \cup Actions

Rect(x, y, w, h) == [x |-> x, y |-> y, w |-> w, h |-> h]
NoRect == Rect(0, 0, 0, 0)

InRect(p, r) == p.x >= r.x /\ p.y >= r.y /\ p.x < r.x + r.w /\ p.y < r.y + r.h

Least(a, b) == IF a < b THEN a ELSE b
Most(a, b) == IF a < b THEN b ELSE a

Scale(win) == IF win.w >= 650 THEN 2 ELSE 1

----------------------------------------------------------------------------
(* The product UI                                                          *)

Margin(win) == Most(20, win.w \div 18)
Left(win) == win.left + Margin(win)

Avail(win) ==
    LET between == win.w - win.left - win.right - 2 * Margin(win)
    IN  IF between < 120 THEN win.w - 2 * Margin(win) ELSE between

\* Below the title, where a page begins.
Top(win) == win.top + 74 * Scale(win)

NavTop(win) ==
    LET above == win.h - win.bottom - 46 * Scale(win)
    IN  IF above < win.top + 100 THEN win.h - 46 * Scale(win) ELSE above

NavWidth(win) == (win.w - win.left - win.right) \div 4
NavPlace(win, b) ==
    Rect(win.left + Rank[b] * NavWidth(win), NavTop(win), NavWidth(win), 46 * Scale(win))

\* A button across the page.
Wide(win, y) == Rect(Left(win), y, Avail(win), 38 * Scale(win))

\* HOME: below the ring, the card, and the words to be compared.
ApproveTop(win) ==
    Top(win) + 2 * Least(58 * Scale(win), Avail(win) \div 4) + 188 * Scale(win)

Half(win) == (Avail(win) - 40) \div 2
Decision(win, x) == Rect(x, Top(win) + 132 * Scale(win), Half(win), 38 * Scale(win))

ProductPlace(win, b) ==
    CASE b \in Pages    -> NavPlace(win, b)
      [] b = "APPROVE"  -> Wide(win, ApproveTop(win))
      [] b = "DENY"     -> Decision(win, Left(win) + 16)
      [] b = "ALLOW"    -> Decision(win, Left(win) + 24 + Half(win))
      [] b = "FORGET"   -> Wide(win, Top(win) + 132 * Scale(win))
      [] b = "PULSE"    -> Wide(win, Top(win) + 120 * Scale(win))
      [] b = "VERSION"  -> Rect(Left(win), Top(win) + 190 * Scale(win), Avail(win), 28 * Scale(win))
      [] OTHER          -> NoRect

----------------------------------------------------------------------------
(* The developer's tabs                                                    *)

Edge(win) == Least(32, Most(16, win.w \div 45))
Inner(win) == win.w - 2 * Edge(win)

TabsTop(win) == 38 + 11 * (Scale(win) + 1) + 15 * Scale(win)
TabWidth(win) == (Inner(win) - 16) \div 3
TabPlace(win, b) ==
    Rect(Edge(win) + (Rank[b] % 3) * (TabWidth(win) + 8),
         TabsTop(win) + (Rank[b] \div 3) * (26 * Scale(win) + 8),
         TabWidth(win), 26 * Scale(win))

RunTop(win) == TabsTop(win) + 78 * Scale(win) + 30
RunWidth(win) == ((Inner(win) - 8) * 3) \div 5

\* The CENTER tab: a ring, four cards, four lines, the words while a host waits for
\* approval, two lines, and then the buttons.
PanelLeft(win) == Edge(win) + 18
PanelWidth(win) == win.w - PanelLeft(win) - 18
CenterTop(win, pairing) ==
    RunTop(win) + 28 * Scale(win) + 30 + 15 * Scale(win)
        + 2 * Least(52 * Scale(win), PanelWidth(win) \div 4)
        + (IF pairing THEN 221 ELSE 169) * Scale(win) + 22

PanelHalf(win) == (PanelWidth(win) - 8) \div 2
Low(win) == 28 * Scale(win)

DeveloperPlace(win, pairing, b) ==
    CASE b \in Tabs    -> TabPlace(win, b)
      [] b = "RUN"     -> Rect(Edge(win), RunTop(win), RunWidth(win), Low(win))
      [] b = "COPY"    -> Rect(Edge(win) + RunWidth(win) + 8, RunTop(win),
                               Inner(win) - 8 - RunWidth(win), Low(win))
      [] b = "APPROVE" -> Rect(PanelLeft(win), CenterTop(win, pairing), PanelHalf(win), Low(win))
      [] b = "FORGET"  -> Rect(PanelLeft(win) + PanelHalf(win) + 8, CenterTop(win, pairing),
                               PanelHalf(win), Low(win))
      [] b = "PULSE"   -> Rect(PanelLeft(win), CenterTop(win, pairing) + Low(win) + 8,
                               PanelWidth(win), Low(win))
      [] OTHER         -> NoRect

----------------------------------------------------------------------------
(* A view                                                                  *)

Pairing(frame) == frame.state = 1

\* The buttons a page draws besides the navigation, given what the service has said.
OnPage(page, frame) ==
    CASE page = "HOME"     -> IF Pairing(frame) /\ ~frame.ask THEN {"APPROVE"} ELSE {}
      [] page = "REQUESTS" -> IF frame.ask THEN {"DENY", "ALLOW"} ELSE {}
      [] page = "DEVICES"  -> {"FORGET"}
      [] OTHER             -> {"PULSE", "VERSION"}

\* A view that is blank is the CENTER tab as render_trust leaves it while a report is
\* being collected.
Shown(v) ==
    IF ~v.dev THEN Pages \cup OnPage(v.page, v.frame)
    ELSE Tabs \cup {"RUN", "COPY"}
              \cup (IF v.tab = "CENTER" /\ ~v.blank THEN {"APPROVE", "FORGET", "PULSE"} ELSE {})

Place(v, b) ==
    IF v.dev THEN DeveloperPlace(v.win, Pairing(v.frame), b) ELSE ProductPlace(v.win, b)

\* What a finger at p is on: the navigation is drawn last, over the page.
Under(v, p, b) ==
    /\ b \in Shown(v) /\ InRect(p, Place(v, b))
    /\ b \notin Pages => \A c \in Pages \cap Shown(v) : ~InRect(p, Place(v, c))
====
