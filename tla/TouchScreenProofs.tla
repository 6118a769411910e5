---- MODULE TouchScreenProofs ----
(***************************************************************************)
(* Proofs about TouchScreen, for every window, every finger and every      *)
(* sequence of states the service can publish.                             *)
(***************************************************************************)
EXTENDS TouchScreen, TLAPS

----------------------------------------------------------------------------
(* The layout: what a page draws does not overlap, but for the navigation  *)

\* Every length the layout is made of is a number, and none of those that matter is
\* negative.
LEMMA Lengths ==
    ASSUME NEW w \in Windows
    PROVE  /\ Scale(w) \in {1, 2}
           /\ Edge(w) \in 16 .. 32
           /\ Inner(w) = w.w - 2 * Edge(w)
           /\ TabWidth(w) \in Nat
           /\ NavWidth(w) \in Nat /\ NavTop(w) \in Int
           /\ Left(w) \in Int /\ Avail(w) \in Int /\ Half(w) \in Int
           /\ Top(w) \in Int
           /\ w.w \in Nat /\ w.left \in Nat
<1>1. /\ w.w \in Nat /\ w.h \in Nat /\ w.left \in Nat /\ w.top \in Nat
      /\ w.right \in Nat /\ w.bottom \in Nat /\ w.w >= 200 /\ w.left + w.right <= w.w
  BY ScreenAssumption
<1>2. Scale(w) \in {1, 2}
  BY DEF Scale
<1>3. Edge(w) \in 16 .. 32
  BY <1>1 DEF Edge, Least, Most
<1>4. Inner(w) = w.w - 2 * Edge(w)
  BY DEF Inner
<1>5. TabWidth(w) \in Nat
  BY <1>1, <1>3 DEF TabWidth, Inner
<1>6. NavWidth(w) \in Nat
  BY <1>1 DEF NavWidth
<1>7. NavTop(w) \in Int
  BY <1>1, <1>2 DEF NavTop
<1>8. /\ Left(w) \in Int /\ Avail(w) \in Int /\ Top(w) \in Int
  BY <1>1, <1>2 DEF Left, Margin, Most, Avail, Top
<1>9. Half(w) \in Int
  BY <1>8 DEF Half
<1> QED BY <1>1, <1>2, <1>3, <1>4, <1>5, <1>6, <1>7, <1>8, <1>9

Apart(r, s) == \A p \in [x : Int, y : Int] : ~(InRect(p, r) /\ InRect(p, s))

\* The four places of the navigation are side by side.
LEMMA NavApart ==
    ASSUME NEW w \in Windows, NEW a \in Pages, NEW b \in Pages, a # b
    PROVE  Apart(NavPlace(w, a), NavPlace(w, b))
<1>1. Rank[a] \in 0 .. 3 /\ Rank[b] \in 0 .. 3 /\ Rank[a] # Rank[b]
  BY DEF Pages, Rank
<1>2. NavWidth(w) \in Nat /\ w.left \in Nat
  BY Lengths
<1> DEFINE n == NavWidth(w)
<1>3. \A i, j \in 0 .. 3 : i < j => i * n + n <= j * n
  <2> HIDE DEF n
  <2>1. n \in Nat
    BY <1>2 DEF n
  <2> SUFFICES ASSUME NEW i \in 0 .. 3, NEW j \in 0 .. 3, i < j PROVE i * n + n <= j * n
    OBVIOUS
  <2>2. i \in {0, 1, 2} /\ j \in {1, 2, 3}
    OBVIOUS
  <2>3. CASE i = 0
    BY <2>1, <2>2, <2>3
  <2>4. CASE i = 1
    BY <2>1, <2>2, <2>4
  <2>5. CASE i = 2
    BY <2>1, <2>2, <2>5
  <2> QED BY <2>2, <2>3, <2>4, <2>5
<1> QED BY <1>1, <1>2, <1>3 DEF Apart, InRect, NavPlace, Rect

\* The nine tabs stand in three rows of three.
LEMMA TabsApart ==
    ASSUME NEW w \in Windows, NEW a \in Tabs, NEW b \in Tabs, a # b
    PROVE  Apart(TabPlace(w, a), TabPlace(w, b))
<1>1. Rank[a] \in 0 .. 8 /\ Rank[b] \in 0 .. 8 /\ Rank[a] # Rank[b]
  BY DEF Tabs, Rank
<1>2. TabWidth(w) \in Nat /\ Edge(w) \in Int /\ TabsTop(w) \in Int /\ Scale(w) \in {1, 2}
  BY Lengths DEF TabsTop
<1> DEFINE col(i) == i % 3
           row(i) == i \div 3
           high == 26 * Scale(w)
<1>3. \A i \in 0 .. 8 : col(i) \in 0 .. 2 /\ row(i) \in 0 .. 2 /\ i = 3 * row(i) + col(i)
  OBVIOUS
<1>4. high \in Nat
  BY <1>2
<1>5. /\ TabPlace(w, a) = Rect(Edge(w) + col(Rank[a]) * (TabWidth(w) + 8),
                               TabsTop(w) + row(Rank[a]) * (high + 8), TabWidth(w), high)
      /\ TabPlace(w, b) = Rect(Edge(w) + col(Rank[b]) * (TabWidth(w) + 8),
                               TabsTop(w) + row(Rank[b]) * (high + 8), TabWidth(w), high)
  BY DEF TabPlace
<1>6. ASSUME NEW n \in Nat, NEW i \in 0 .. 2, NEW j \in 0 .. 2, i # j
      PROVE  i * (n + 8) + n <= j * (n + 8) \/ j * (n + 8) + n <= i * (n + 8)
  <2>1. i \in {0, 1, 2} /\ j \in {0, 1, 2}
    OBVIOUS
  <2>2. CASE i = 0
    BY <1>6, <2>1, <2>2
  <2>3. CASE i = 1
    BY <1>6, <2>1, <2>3
  <2>4. CASE i = 2
    BY <1>6, <2>1, <2>4
  <2> QED BY <2>1, <2>2, <2>3, <2>4
<1>7. col(Rank[a]) # col(Rank[b]) \/ row(Rank[a]) # row(Rank[b])
  BY <1>1, <1>3
<1>8. /\ col(Rank[a]) \in 0 .. 2 /\ col(Rank[b]) \in 0 .. 2
      /\ row(Rank[a]) \in 0 .. 2 /\ row(Rank[b]) \in 0 .. 2
  BY <1>1, <1>3
<1> HIDE DEF col, row, high
<1>9. CASE col(Rank[a]) # col(Rank[b])
  <2>1. \/ col(Rank[a]) * (TabWidth(w) + 8) + TabWidth(w) <= col(Rank[b]) * (TabWidth(w) + 8)
        \/ col(Rank[b]) * (TabWidth(w) + 8) + TabWidth(w) <= col(Rank[a]) * (TabWidth(w) + 8)
    BY <1>2, <1>6, <1>8, <1>9
  <2> QED BY <1>2, <1>5, <1>8, <2>1 DEF Apart, InRect, Rect
<1>10. CASE row(Rank[a]) # row(Rank[b])
  <2>1. \/ row(Rank[a]) * (high + 8) + high <= row(Rank[b]) * (high + 8)
        \/ row(Rank[b]) * (high + 8) + high <= row(Rank[a]) * (high + 8)
    BY <1>4, <1>6, <1>8, <1>10
  <2> QED BY <1>2, <1>4, <1>5, <1>8, <2>1 DEF Apart, InRect, Rect
<1> QED BY <1>7, <1>9, <1>10

\* The rows of tabs end above RUN and COPY, and those above what the CENTER tab adds.
LEMMA RowsApart ==
    ASSUME NEW w \in Windows, NEW pairing \in BOOLEAN
    PROVE  /\ TabsTop(w) \in Int /\ RunTop(w) \in Int /\ CenterTop(w, pairing) \in Int
           /\ RunTop(w) = TabsTop(w) + 78 * Scale(w) + 30
           /\ RunTop(w) + Low(w) <= CenterTop(w, pairing)
           /\ Low(w) \in Nat
<1>1. Scale(w) \in {1, 2} /\ Edge(w) \in 16 .. 32 /\ w.w \in Nat
  BY Lengths
<1>2. w.w >= 200
  BY ScreenAssumption
<1>3. TabsTop(w) \in Int
  BY <1>1 DEF TabsTop
<1>4. RunTop(w) = TabsTop(w) + 78 * Scale(w) + 30
  BY DEF RunTop
<1>5. RunTop(w) \in Int /\ Low(w) \in Nat
  BY <1>1, <1>3, <1>4 DEF Low
<1>6. PanelWidth(w) \in Nat
  BY <1>1, <1>2 DEF PanelWidth, PanelLeft
<1>7. Least(52 * Scale(w), PanelWidth(w) \div 4) \in Nat
  BY <1>1, <1>6 DEF Least
<1> QED BY <1>1, <1>3, <1>4, <1>5, <1>7 DEF CenterTop, Low

\* The buttons of the developer's UI do not overlap.
LEMMA DeveloperApart ==
    ASSUME NEW w \in Windows, NEW pairing \in BOOLEAN,
           NEW a \in Tabs \cup {"RUN", "COPY", "APPROVE", "FORGET", "PULSE"},
           NEW b \in Tabs \cup {"RUN", "COPY", "APPROVE", "FORGET", "PULSE"}, a # b
    PROVE  Apart(DeveloperPlace(w, pairing, a), DeveloperPlace(w, pairing, b))
<1> DEFINE at(c) == DeveloperPlace(w, pairing, c)
<1>1. /\ Scale(w) \in {1, 2} /\ TabsTop(w) \in Int /\ RunTop(w) \in Int
      /\ CenterTop(w, pairing) \in Int /\ Low(w) \in Nat
      /\ RunTop(w) = TabsTop(w) + 78 * Scale(w) + 30
      /\ RunTop(w) + Low(w) <= CenterTop(w, pairing)
  BY RowsApart, Lengths
<1>2. ASSUME NEW c \in Tabs
      PROVE  /\ at(c) = TabPlace(w, c)
             /\ at(c).y + at(c).h < RunTop(w)
             /\ at(c).y \in Int /\ at(c).h \in Int
  <2>1. at(c) = TabPlace(w, c)
    BY DEF DeveloperPlace, Tabs
  <2>2. Rank[c] \in 0 .. 8
    BY DEF Tabs, Rank
  <2>3. Rank[c] \div 3 \in {0, 1, 2}
    BY <2>2
  <2> QED BY <1>1, <2>1, <2>3 DEF TabPlace, Rect
<1>3. ASSUME NEW c \in {"RUN", "COPY"}
      PROVE  at(c).y = RunTop(w) /\ at(c).h = Low(w)
  BY <1>3 DEF DeveloperPlace, Rect, Tabs
<1>4. ASSUME NEW c \in {"APPROVE", "FORGET"}
      PROVE  at(c).y = CenterTop(w, pairing) /\ at(c).h = Low(w)
  BY <1>4 DEF DeveloperPlace, Rect, Tabs
<1>5. at("PULSE").y = CenterTop(w, pairing) + Low(w) + 8 /\ at("PULSE").h = Low(w)
  BY DEF DeveloperPlace, Rect, Tabs
<1>6. Edge(w) \in Int /\ RunWidth(w) \in Int /\ PanelLeft(w) \in Int /\ PanelHalf(w) \in Int
  BY Lengths DEF RunWidth, PanelLeft, PanelHalf, PanelWidth
<1>7. /\ at("RUN").x + at("RUN").w <= at("COPY").x
      /\ at("RUN").x \in Int /\ at("RUN").w \in Int /\ at("COPY").x \in Int
  BY <1>6 DEF DeveloperPlace, Rect, Tabs
<1>8. /\ at("APPROVE").x + at("APPROVE").w <= at("FORGET").x
      /\ at("APPROVE").x \in Int /\ at("APPROVE").w \in Int /\ at("FORGET").x \in Int
  BY <1>6 DEF DeveloperPlace, Rect, Tabs
<1> HIDE DEF at
<1>9. CASE a \in Tabs /\ b \in Tabs
  BY <1>2, <1>9, TabsApart DEF at
<1>10. CASE a \in Tabs /\ b \notin Tabs
  BY <1>1, <1>2, <1>3, <1>4, <1>5, <1>10 DEF Apart, InRect, at
<1>11. CASE a \notin Tabs /\ b \in Tabs
  BY <1>1, <1>2, <1>3, <1>4, <1>5, <1>11 DEF Apart, InRect, at
<1>12. CASE a \notin Tabs /\ b \notin Tabs
  BY <1>1, <1>3, <1>4, <1>5, <1>7, <1>8, <1>12 DEF Apart, InRect, at
<1> QED BY <1>9, <1>10, <1>11, <1>12

\* No two buttons a page of the product UI adds to the navigation overlap.
LEMMA PageApart ==
    ASSUME NEW w \in Windows, NEW page0 \in Pages,
           NEW frame \in [state : -1 .. 3, ask : BOOLEAN],
           NEW a \in OnPage(page0, frame), NEW b \in OnPage(page0, frame), a # b
    PROVE  Apart(ProductPlace(w, a), ProductPlace(w, b))
<1>1. /\ Scale(w) \in {1, 2} /\ Left(w) \in Int /\ Avail(w) \in Int /\ Half(w) \in Int
      /\ Top(w) \in Int
  BY Lengths
<1>2. \/ a \in {"DENY", "ALLOW"} /\ b \in {"DENY", "ALLOW"}
      \/ a \in {"PULSE", "VERSION"} /\ b \in {"PULSE", "VERSION"}
  <2>1. page0 \in {"HOME", "REQUESTS", "DEVICES", "SETTINGS"}
    BY DEF Pages
  <2>2. CASE page0 \in {"HOME", "DEVICES"}
    BY <2>2 DEF OnPage
  <2>3. CASE page0 = "REQUESTS"
    BY <2>3 DEF OnPage
  <2>4. CASE page0 = "SETTINGS"
    BY <2>4 DEF OnPage
  <2> QED BY <2>1, <2>2, <2>3, <2>4
<1>3. /\ ProductPlace(w, "DENY") = Decision(w, Left(w) + 16)
      /\ ProductPlace(w, "ALLOW") = Decision(w, Left(w) + 24 + Half(w))
      /\ ProductPlace(w, "PULSE") = Wide(w, Top(w) + 120 * Scale(w))
      /\ ProductPlace(w, "VERSION")
            = Rect(Left(w), Top(w) + 190 * Scale(w), Avail(w), 28 * Scale(w))
  BY DEF ProductPlace, Pages
<1>4. Apart(ProductPlace(w, "DENY"), ProductPlace(w, "ALLOW"))
  BY <1>1, <1>3 DEF Apart, InRect, Decision, Rect
<1>5. Apart(ProductPlace(w, "PULSE"), ProductPlace(w, "VERSION"))
  BY <1>1, <1>3 DEF Apart, InRect, Wide, Rect
<1>6. \/ a = "DENY" /\ b = "ALLOW"
      \/ a = "ALLOW" /\ b = "DENY"
      \/ a = "PULSE" /\ b = "VERSION"
      \/ a = "VERSION" /\ b = "PULSE"
  BY <1>2
<1> QED BY <1>4, <1>5, <1>6 DEF Apart

\* A view shows buttons: of the product UI the navigation and what a page adds, of the
\* developer's UI no navigation.
LEMMA ShownButtons ==
    ASSUME NEW v \in Views
    PROVE  /\ Shown(v) \subseteq Buttons
           /\ ~v.dev => Shown(v) \subseteq Pages \cup Actions
           /\ v.dev => Shown(v) \cap Pages = {}
<1>1. v.page \in {"HOME", "REQUESTS", "DEVICES", "SETTINGS"}
  BY DEF Views, Pages
<1>2. OnPage(v.page, v.frame) \subseteq Actions
  BY <1>1 DEF OnPage, Actions
<1> QED BY <1>2 DEF Shown, Buttons, Actions, Pages, Tabs

\* A button that is shown is in the place of no other, but for the navigation, which
\* may cover a page.
LEMMA ShownApart ==
    ASSUME NEW v \in Views, NEW a \in Shown(v), NEW b \in Shown(v), a # b,
           a \in Pages <=> b \in Pages
    PROVE  Apart(Place(v, a), Place(v, b))
<1>1. /\ v.win \in Windows /\ v.dev \in BOOLEAN /\ v.page \in Pages
      /\ v.frame \in [state : -1 .. 3, ask : BOOLEAN] /\ Pairing(v.frame) \in BOOLEAN
  BY DEF Views, Pairing
<1>2. CASE v.dev
  BY <1>1, <1>2, DeveloperApart DEF Shown, Place
<1>3. CASE ~v.dev /\ a \in Pages
  BY <1>1, <1>3, NavApart DEF Place, ProductPlace, Pages
<1>4. CASE ~v.dev /\ a \notin Pages
  <2>1. a \in OnPage(v.page, v.frame) /\ b \in OnPage(v.page, v.frame)
    BY <1>4 DEF Shown
  <2> QED BY <1>1, <1>4, <2>1, PageApart DEF Place
<1> QED BY <1>1, <1>2, <1>3, <1>4

----------------------------------------------------------------------------
(* Types                                                                   *)

\* What is known is a state and whether there is a request; a request comes with a
\* session.
LEMMA KnownTypes ==
    ASSUME NEW f \in Frames \cup {NoFrame}
    PROVE  /\ Known(f) \in [state : -1 .. 3, ask : BOOLEAN]
           /\ Known(f).ask => Known(f).state = 3
BY ScreenAssumption DEF Known

\* The current page is a view.
LEMMA NowTypes == TypeOK => Now(last) \in Views
BY KnownTypes DEF TypeOK, Now, Views

\* At first nothing is drawn and nothing is known.
LEMMA TypeInit == Init => TypeOK
<1> SUFFICES ASSUME Init PROVE TypeOK
  OBVIOUS
<1>1. /\ page \in Pages /\ dev \in BOOLEAN /\ tab \in Tabs /\ count \in 0 .. VersionTaps - 1
      /\ DOMAIN rect = Buttons
  <2>1. 0 \in 0 .. VersionTaps - 1
    BY ScreenAssumption
  <2> QED BY <2>1 DEF Init, Pages, Tabs
<1>2. /\ pc \in [Threads -> {"rest", "sync", "act", "render", "post", "collect"}]
      /\ \A t, u \in Threads : pc[t] = "post" /\ pc[u] = "post" => t = u
  BY DEF Init, Threads
<1> QED BY <1>1, <1>2 DEF Init, TypeOK

\* No step leaves the types, and no two threads hold the buffer.
LEMMA TypeNext == TypeOK /\ [Next]_vars => TypeOK'
<1> SUFFICES ASSUME TypeOK, [Next]_vars PROVE TypeOK'
  OBVIOUS
<1> USE DEF TypeOK, mode, drawn
<1>1. ASSUME NEW t \in Threads, Draw(t) PROVE TypeOK'
  <2>1. last' \in Frames \cup {NoFrame}
    BY <1>1 DEF Draw, Seen
  <2>2. canvas' \in Views
    BY <1>1, <2>1, KnownTypes DEF Draw, Now, Views
  <2>3. DOMAIN rect' = Buttons
    BY <1>1 DEF Draw, RectAfter
  <2>4. \A u, x \in Threads : pc'[u] = "post" /\ pc'[x] = "post" => u = x
    BY <1>1 DEF Draw, Goes, Painting
  <2>5. pc' \in [Threads -> {"rest", "sync", "act", "render", "post", "collect"}]
    BY <1>1 DEF Draw, Goes
  <2> QED BY <1>1, <2>1, <2>2, <2>3, <2>4, <2>5 DEF Draw
<1>2. ASSUME NEW t \in Threads, DrawSkipped(t) \/ Post(t) PROVE TypeOK'
  <2>1. Rest(t) \in {"rest", "collect"}
    BY DEF Rest
  <2> QED BY <1>2, <2>1 DEF DrawSkipped, Post, Goes
<1>3. CASE Callback
  BY <1>3 DEF Callback, Goes, Threads
<1>4. CASE Publish
  BY <1>4 DEF Publish
<1>5. CASE RefreshBegins
  BY <1>5, KnownTypes DEF RefreshBegins, Goes, Threads
<1>6. CASE RefreshSync
  BY <1>6 DEF RefreshSync, Goes, Threads, Pages
<1>7. CASE Touch
  BY <1>7 DEF Touch, Goes, Threads
<1>8. ASSUME NEW b \in Buttons, Pressed(b)
      PROVE  /\ pc' \in [Threads -> {"rest", "sync", "act", "render", "post", "collect"}]
             /\ \A t, u \in Threads : pc'[t] = "post" /\ pc'[u] = "post" => t = u
             /\ UNCHANGED <<file, last, drawn, had, behind>>
  BY <1>8 DEF Pressed, Goes, Threads
<1>9. ASSUME NEW b \in Pages, TurnPage(b) PROVE TypeOK'
  BY <1>8, <1>9 DEF TurnPage, Buttons
<1>10. ASSUME NEW b \in Tabs, SelectTab(b) PROVE TypeOK'
  BY <1>8, <1>10 DEF SelectTab, Buttons
<1>11. CASE TapVersion
  <2>1. count' \in 0 .. VersionTaps - 1
    BY <1>11, ScreenAssumption DEF TapVersion
  <2>2. dev' \in BOOLEAN /\ tab' \in Tabs
    BY <1>11 DEF TapVersion, Tabs
  <2> QED BY <1>8, <1>11, <2>1, <2>2 DEF TapVersion, Buttons, Actions
<1>12. ASSUME NEW b \in Actions, Command(b) PROVE TypeOK'
  BY <1>8, <1>12 DEF Command, Buttons
<1>13. CASE CopyAll
  BY <1>8, <1>13 DEF CopyAll, Buttons, Actions
<1>14. CASE Miss
  BY <1>14 DEF Miss, Goes, Threads
<1>15. CASE CollectBegins
  BY <1>15 DEF CollectBegins
<1>16. CASE CollectEnds
  BY <1>16 DEF CollectEnds, Goes, Threads
<1>17. CASE UNCHANGED vars
  BY <1>17 DEF vars
<1> QED
  BY <1>1, <1>2, <1>3, <1>4, <1>5, <1>6, <1>7, <1>9, <1>10, <1>11, <1>12, <1>13, <1>14,
     <1>15, <1>16, <1>17 DEF Next

\* Modes, rectangles, views and threads keep their types, and one thread at a time has
\* the buffer.
THEOREM TypeCorrect == Spec => []TypeOK
BY TypeInit, TypeNext, PTL DEF Spec

----------------------------------------------------------------------------
(* The inductive invariant                                                 *)

\* Before the first drawing there is nothing that could be in the wrong place.
LEMMA ScreenInvInit == Init => ScreenInv
<1> SUFFICES ASSUME Init PROVE ScreenInv
  OBVIOUS
<1>1. Latest = NoView
  BY DEF Init, Latest
<1>2. NoView \notin Views
  BY DEF NoView, NoRect, Rect, Views
<1>3. Pending
  BY DEF Init, Pending, Threads
<1> QED BY <1>1, <1>2, <1>3 DEF Init, ScreenInv, RectsAreDrawn, Settles

\* A step that neither draws nor posts leaves the latest view and the rectangles.
LEMMA Quiet ==
    ASSUME TypeOK, ScreenInv, UNCHANGED <<rect, canvas, screen>>,
           \A t \in Threads : pc'[t] = "post" <=> pc[t] = "post"
    PROVE  Latest' = Latest /\ RectsAreDrawn'
BY DEF ScreenInv, RectsAreDrawn, Latest, Painting

\* A thread that goes on to draw settles the screen.
LEMMA GoesToDraw ==
    ASSUME TypeOK, NEW t \in Threads, Goes(t, "render")
    PROVE  Pending'
BY DEF TypeOK, Goes, Pending

\* Every step that changes what the current page is draws it, will draw it, or is one
\* of those the screen is known to fall behind by.
LEMMA ScreenInvNext == TypeOK /\ TypeOK' /\ ScreenInv /\ [Next]_vars => ScreenInv'
<1> SUFFICES ASSUME TypeOK, TypeOK', ScreenInv, [Next]_vars PROVE ScreenInv'
  OBVIOUS
<1> USE DEF mode, drawn
<1>1. ASSUME NEW t \in Threads, Draw(t) PROVE ScreenInv'
  <2>1. pc'[t] = "post" /\ Latest' = canvas'
    BY <1>1 DEF Draw, Goes, TypeOK, Latest, Painting
  <2>2. RectsAreDrawn'
    BY <1>1, <2>1, ShownButtons DEF Draw, RectsAreDrawn, RectAfter
  <2>3. copy' = "collecting" => pc'["input"] = "collect"
    BY <1>1 DEF Draw, Goes, ScreenInv, TypeOK
  <2>4. CASE copy = "collecting"
    <3>1. copy' = copy
      BY <1>1 DEF Draw
    <3> QED BY <2>2, <2>3, <2>4, <3>1 DEF ScreenInv, Settles, Pending
  <2>5. CASE copy # "collecting"
    <3>1. (dev /\ tab = "CENTER" /\ copy = "collecting") = FALSE
      BY <2>5
    <3>2. canvas' = [Now(last') EXCEPT !.blank = FALSE]
      BY <1>1, <3>1 DEF Draw
    <3>3. canvas' = Now(last')
      BY <3>2 DEF Now
    <3>4. /\ win' = win /\ dev' = dev /\ page' = page /\ tab' = tab
      BY <1>1 DEF Draw
    <3> QED BY <2>1, <2>2, <2>3, <3>3, <3>4 DEF ScreenInv, Settles, Now
  <2> QED BY <2>4, <2>5
<1>2. ASSUME NEW t \in Threads, DrawSkipped(t) PROVE ScreenInv'
  <2>1. Rest(t) # "post"
    BY DEF Rest
  <2>2. \A u \in Threads : pc'[u] = "post" <=> pc[u] = "post"
    BY <1>2, <2>1 DEF DrawSkipped, Goes, TypeOK
  <2>3. copy' = "collecting" => pc'["input"] = "collect"
    BY <1>2 DEF DrawSkipped, Goes, ScreenInv, TypeOK
  <2> QED BY <1>2, <2>2, <2>3, Quiet DEF DrawSkipped, ScreenInv, Settles
<1>3. ASSUME NEW t \in Threads, Post(t) PROVE ScreenInv'
  <2>1. Rest(t) \in {"rest", "collect"}
    BY DEF Rest
  <2>2. ~Painting' /\ Painting
    BY <1>3, <2>1 DEF Post, Goes, TypeOK, Painting
  <2>3. Latest' = Latest
    BY <1>3, <2>2 DEF Post, Latest
  <2>4. RectsAreDrawn'
    BY <1>3, <2>3 DEF Post, RectsAreDrawn, ScreenInv
  <2>5. copy' = "collecting" => pc'["input"] = "collect"
    BY <1>3 DEF Post, Goes, ScreenInv, TypeOK
  <2>6. Pending => Pending'
    BY <1>3 DEF Post, Goes, Pending, TypeOK, Threads
  <2>7. Settles'
    BY <1>3, <2>3, <2>6 DEF Post, Settles, ScreenInv, Now
  <2> QED BY <2>4, <2>5, <2>7 DEF ScreenInv
<1>4. ASSUME NEW t \in Threads, Goes(t, "render"), pc[t] # "post",
             UNCHANGED <<rect, canvas, screen>>, copy' # "collecting" \/ (copy' = copy /\ t # "input")
      PROVE  ScreenInv'
  <2>1. \A u \in Threads : pc'[u] = "post" <=> pc[u] = "post"
    BY <1>4 DEF Goes, TypeOK
  <2>2. copy' = "collecting" => pc'["input"] = "collect"
    BY <1>4 DEF Goes, ScreenInv, TypeOK, Threads
  <2> QED BY <1>4, <2>1, <2>2, Quiet, GoesToDraw DEF ScreenInv, Settles
<1>5. ASSUME NEW t \in Threads, NEW to \in {"rest", "sync", "act"}, Goes(t, to),
             pc[t] \notin {"post", "render", "collect"},
             UNCHANGED <<rect, canvas, screen, copy>>,
             behind' \/ (behind' = behind /\ Now(last)' = Now(last))
      PROVE  ScreenInv'
  <2>1. \A u \in Threads : pc'[u] = "post" <=> pc[u] = "post"
    BY <1>5 DEF Goes, TypeOK
  <2>2. copy' = "collecting" => pc'["input"] = "collect"
    BY <1>5 DEF Goes, ScreenInv, TypeOK, Threads
  <2>3. Pending => Pending'
    BY <1>5 DEF Goes, Pending, TypeOK, Threads
  <2> QED BY <1>5, <2>1, <2>2, <2>3, Quiet DEF ScreenInv, Settles
<1>6. CASE Callback
  BY <1>4, <1>6 DEF Callback, Threads
<1>7. CASE Publish
  BY <1>7, Quiet DEF Publish, ScreenInv, Settles, Pending, Now
<1>8. CASE RefreshBegins
  BY <1>5, <1>8 DEF RefreshBegins, Threads, Now
<1>9. CASE RefreshSync
  <2>1. CASE last' = last
    <3>1. behind' \/ (behind' = behind /\ Now(last)' = Now(last))
      BY <1>9, <2>1 DEF RefreshSync, Now, TypeOK
    <3> QED BY <1>5, <1>9, <2>1, <3>1 DEF RefreshSync, Threads
  <2>2. CASE last' # last
    BY <1>4, <1>9, <2>2 DEF RefreshSync, Threads
  <2> QED BY <2>1, <2>2
<1>10. CASE Touch
  <2>1. behind' \/ (behind' = behind /\ Now(last)' = Now(last))
    BY <1>10 DEF Touch, Now, TypeOK
  <2> QED BY <1>5, <1>10, <2>1 DEF Touch, Threads
<1>11. ASSUME NEW b \in Buttons, Pressed(b), copy' \in {copy, "asked"} PROVE ScreenInv'
  <2>1. copy # "collecting"
    BY <1>11 DEF Pressed, ScreenInv
  <2> QED BY <1>4, <1>11, <2>1 DEF Pressed, Threads
<1>12. ASSUME NEW b \in Pages, TurnPage(b) PROVE ScreenInv'
  BY <1>11, <1>12 DEF TurnPage, Buttons
<1>13. ASSUME NEW b \in Tabs, SelectTab(b) PROVE ScreenInv'
  BY <1>11, <1>13 DEF SelectTab, Buttons
<1>14. CASE TapVersion
  BY <1>11, <1>14 DEF TapVersion, Buttons, Actions
<1>15. ASSUME NEW b \in Actions, Command(b) PROVE ScreenInv'
  BY <1>11, <1>15 DEF Command, Buttons
<1>16. CASE CopyAll
  BY <1>11, <1>16 DEF CopyAll, Buttons, Actions
<1>17. CASE Miss
  BY <1>5, <1>17 DEF Miss, Threads, Now
<1>18. CASE CollectBegins
  BY <1>18, Quiet DEF CollectBegins, ScreenInv, Settles, Pending, Now
<1>19. CASE CollectEnds
  BY <1>4, <1>19 DEF CollectEnds, Threads
<1>20. CASE UNCHANGED vars
  BY <1>20, Quiet DEF vars, ScreenInv, Settles, Pending, Now
<1> QED
  BY <1>1, <1>2, <1>3, <1>6, <1>7, <1>8, <1>9, <1>10, <1>12, <1>13, <1>14, <1>15, <1>16,
     <1>17, <1>18, <1>19, <1>20 DEF Next

\* The inductive invariant holds of every behaviour of the three threads.
THEOREM Inductive == Spec => []ScreenInv
BY ScreenInvInit, ScreenInvNext, TypeCorrect, PTL DEF Spec

----------------------------------------------------------------------------
(* The theorems                                                            *)

\* The screen falls behind the current page in the three ways that are known, and in
\* no other.
THEOREM ScreenFollowsHolds == Spec => []ScreenFollows
<1>1. TypeOK /\ ScreenInv => ScreenFollows
  BY DEF ScreenInv, Settles, ScreenFollows, Latest, Painting, Pending, Threads
<1> QED BY <1>1, Inductive, TypeCorrect, PTL

\* On the product UI the navigation is asked for before what it covers.
LEMMA Ranks ==
    /\ \A c \in Pages, b \in Actions : Rank[c] < Rank[b]
    /\ \A b \in Buttons : Rank[b] \in Int
BY DEF Pages, Actions, Rank, Buttons, Tabs

\* What a tap is compared with is what is drawn, but for APPROVE on the Home page,
\* which is without effect when it is not drawn.
LEMMA TestedIsShown ==
    ASSUME TypeOK, NEW b \in Buttons
    PROVE  /\ b \in Shown(Now(last)) => b \in Tested
           /\ b \in Tested /\ Effective(b) => b \in Shown(Now(last))
           /\ b \in Tested \ Shown(Now(last)) => b = "APPROVE" /\ Tested = Pages \cup {b}
<1>1. page \in {"HOME", "REQUESTS", "DEVICES", "SETTINGS"} /\ dev \in BOOLEAN
  BY DEF TypeOK, Pages
<1>2. Known(last).ask => Known(last).state = 3
  BY KnownTypes DEF TypeOK
<1> USE DEF Now, Shown, Tested, Effective, Pairing
<1>3. CASE dev
  BY <1>3
<1>4. CASE ~dev /\ page = "HOME"
  BY <1>2, <1>4 DEF OnPage
<1>5. CASE ~dev /\ page = "REQUESTS"
  BY <1>5 DEF OnPage
<1>6. CASE ~dev /\ page = "DEVICES"
  BY <1>6 DEF OnPage
<1>7. CASE ~dev /\ page = "SETTINGS"
  BY <1>7 DEF OnPage
<1> QED BY <1>1, <1>3, <1>4, <1>5, <1>6, <1>7

\* Whatever rectangles are left of earlier pages, a tap does what the screen shows
\* under the finger.
THEOREM TapMeansWhatIsDrawnHolds == Spec => []TapMeansWhatIsDrawn
<1>1. TypeOK /\ ScreenInv => TapMeansWhatIsDrawn
  <2> SUFFICES ASSUME TypeOK, ScreenInv, ~Painting, screen = Now(last), NEW p \in Points
               PROVE  {b \in Tested : Means(p, b) /\ Effective(b)}
                        = {b \in Shown(screen) : Under(screen, p, b) /\ Effective(b)}
    BY DEF TapMeansWhatIsDrawn
  <2>1. screen \in Views /\ \A b \in Shown(screen) : rect[b] = Place(screen, b)
    BY NowTypes DEF ScreenInv, RectsAreDrawn, Latest
  <2>2. Shown(screen) \subseteq Buttons /\ p \in [x : Int, y : Int]
    BY <2>1, ShownButtons, ScreenAssumption
  <2>3. Tested \subseteq Buttons
    BY DEF Tested, Buttons, Pages, Tabs, Actions
  <2>4. \A b \in Pages \cap Shown(screen) : Shown(screen) \subseteq Pages \cup Actions
    BY <2>1, ShownButtons DEF Views
  <2>5. ASSUME NEW b \in Tested, Means(p, b), Effective(b)
        PROVE  b \in Shown(screen) /\ Under(screen, p, b)
    <3>1. b \in Shown(screen)
      BY <2>3, <2>5, TestedIsShown
    <3>2. InRect(p, Place(screen, b))
      BY <2>1, <2>5, <3>1 DEF Means
    <3>3. ASSUME b \notin Pages, NEW c \in Pages \cap Shown(screen)
          PROVE  ~InRect(p, Place(screen, c))
      <4>1. Rank[c] < Rank[b]
        BY <2>4, <3>1, <3>3, Ranks
      <4>2. c \in Tested
        BY <2>2, TestedIsShown
      <4> QED BY <2>1, <2>5, <4>1, <4>2 DEF Means
    <3> QED BY <3>1, <3>2, <3>3 DEF Under
  <2>6. ASSUME NEW b \in Shown(screen), Under(screen, p, b), Effective(b)
        PROVE  b \in Tested /\ Means(p, b)
    <3>1. b \in Tested
      BY <2>2, TestedIsShown
    <3>2. InRect(p, rect[b])
      BY <2>1, <2>6 DEF Under
    <3>3. ASSUME NEW c \in Tested, Rank[c] < Rank[b] PROVE ~InRect(p, rect[c])
      <4>1. CASE c \in Shown(screen) /\ (c \in Pages <=> b \in Pages)
        <5>1. c # b
          BY <2>2, <3>3, Ranks
        <5> QED BY <2>1, <2>2, <3>2, <4>1, <5>1, ShownApart DEF Apart
      <4>2. CASE c \in Shown(screen) /\ c \in Pages /\ b \notin Pages
        BY <2>1, <2>6, <4>2 DEF Under
      <4>3. CASE c \in Shown(screen) /\ c \notin Pages /\ b \in Pages
        <5>1. c \in Actions
          BY <2>4, <4>3
        <5>2. Rank[b] < Rank[c]
          BY <4>3, <5>1, Ranks
        <5> QED BY <2>2, <2>3, <3>3, <5>2, Ranks
      <4>4. CASE c \notin Shown(screen)
        <5>1. c = "APPROVE" /\ b \in Pages
          BY <2>2, <2>3, <3>1, <4>4, TestedIsShown
        <5>2. Rank[b] < Rank[c]
          BY <5>1, Ranks DEF Actions
        <5> QED BY <2>2, <2>3, <3>3, <5>2, Ranks
      <4> QED BY <4>1, <4>2, <4>3, <4>4
    <3> QED BY <3>1, <3>2, <3>3 DEF Means
  <2> QED BY <2>5, <2>6
<1> QED BY <1>1, Inductive, TypeCorrect, PTL
====
