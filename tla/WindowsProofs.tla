---------------------------- MODULE WindowsProofs ----------------------------
(***************************************************************************)
(* The window with the focus is open and above all others, for any set of  *)
(* utility windows and any points of the screen.                           *)
(*                                                                         *)
(* The handlers are functions of desktops.  focus of a window can leave    *)
(* two windows with the focus, so what the steps inside a handler keep is  *)
(* only that the counter bounds the stacking (Bounded); focus_app, which   *)
(* takes the focus from every window first, turns that into Good, and the  *)
(* lemmas follow the handlers up to handle_event.                          *)
(***************************************************************************)
EXTENDS Windows, NaturalsInduction, WellFoundedInduction, TLAPS

Bounded(s) == s \in Desktops /\ \A a \in Apps : s.z[a] =< s.counter
Good(s) == s \in Desktops /\ WellStacked(s)

-----------------------------------------------------------------------------
(* What focus of an application writes. *)
LEMMA FocusEffect ==
  ASSUME NEW s \in Desktops, NEW a \in Apps
  PROVE  /\ Focus(s, a) \in Desktops
         /\ Focus(s, a).open = s.open
         /\ Focus(s, a).counter = s.counter + 1
         /\ a \in s.open => /\ Focus(s, a).focused = s.focused \cup {a}
                            /\ Focus(s, a).z = [s.z EXCEPT ![a] = s.counter + 1]
         /\ a \notin s.open => /\ Focus(s, a).focused = s.focused
                               /\ Focus(s, a).z = s.z
<1> DEFINE F == s.focused \cup {a}
           Z == [s.z EXCEPT ![a] = s.counter + 1]
           C == s.counter + 1
<1>1. F \in SUBSET Apps /\ Z \in [Apps -> Nat] /\ C \in Nat
  BY DEF Desktops
<1>2. CASE a \in s.open
  <2>1. Focus(s, a) = [s EXCEPT !.focused = F, !.z = Z, !.counter = C]
    BY <1>2 DEF Focus
  <2> HIDE DEF F, Z, C
  <2>2. /\ [s EXCEPT !.focused = F, !.z = Z, !.counter = C] \in Desktops
        /\ [s EXCEPT !.focused = F, !.z = Z, !.counter = C].open = s.open
        /\ [s EXCEPT !.focused = F, !.z = Z, !.counter = C].counter = C
        /\ [s EXCEPT !.focused = F, !.z = Z, !.counter = C].focused = F
        /\ [s EXCEPT !.focused = F, !.z = Z, !.counter = C].z = Z
    BY <1>1 DEF Desktops
  <2> QED
    BY <1>2, <2>1, <2>2 DEF F, Z, C
<1>3. CASE a \notin s.open
  <2>1. Focus(s, a) = [s EXCEPT !.counter = C]
    BY <1>3 DEF Focus
  <2> HIDE DEF C
  <2>2. /\ [s EXCEPT !.counter = C] \in Desktops
        /\ [s EXCEPT !.counter = C].open = s.open
        /\ [s EXCEPT !.counter = C].counter = C
        /\ [s EXCEPT !.counter = C].focused = s.focused
        /\ [s EXCEPT !.counter = C].z = s.z
    BY <1>1 DEF Desktops
  <2> QED
    BY <1>3, <2>1, <2>2 DEF C
<1> QED
  BY <1>2, <1>3

(* focus keeps the counter above the stacking. *)
LEMMA FocusBounded ==
  ASSUME NEW s, Bounded(s), NEW a \in Apps
  PROVE  Bounded(Focus(s, a))
<1>1. s \in Desktops /\ \A b \in Apps : s.z[b] =< s.counter
  BY DEF Bounded
<1> DEFINE t == Focus(s, a)
<1>2. /\ t \in Desktops /\ t.counter = s.counter + 1
      /\ t.z = s.z \/ t.z = [s.z EXCEPT ![a] = s.counter + 1]
  BY <1>1, FocusEffect
<1>3. s.z \in [Apps -> Nat] /\ s.counter \in Nat
  BY <1>1 DEF Desktops
<1>4. ASSUME NEW b \in Apps PROVE t.z[b] =< t.counter
  <2> HIDE DEF t
  <2>1. s.z[b] \in Nat /\ s.z[b] =< s.counter
    BY <1>1, <1>3
  <2>2. t.z[b] = s.z[b] \/ t.z[b] = s.counter + 1
    BY <1>2, <1>3
  <2> QED
    BY <1>2, <1>3, <2>1, <2>2
<1> QED
  BY <1>2, <1>4 DEF Bounded

(* focus puts an open window above every other. *)
LEMMA FocusRaises ==
  ASSUME NEW s, Bounded(s), NEW a \in s.open, NEW b \in Apps, b # a
  PROVE  Focus(s, a).z[b] < Focus(s, a).z[a]
<1>1. s \in Desktops /\ s.z \in [Apps -> Nat] /\ s.counter \in Nat /\ a \in Apps
  BY DEF Bounded, Desktops
<1>2. Focus(s, a).z = [s.z EXCEPT ![a] = s.counter + 1]
  BY <1>1, FocusEffect
<1>3. Focus(s, a).z[a] = s.counter + 1 /\ Focus(s, a).z[b] = s.z[b]
  BY <1>1, <1>2
<1>4. s.z[b] \in Nat /\ s.z[b] =< s.counter
  BY <1>1 DEF Bounded
<1> QED
  BY <1>1, <1>3, <1>4

(* focus where no other window has the focus. *)
LEMMA FocusGood ==
  ASSUME NEW s, Bounded(s), NEW a \in Apps, s.focused \subseteq {a} \cap s.open
  PROVE  Good(Focus(s, a)) /\ Focus(s, a).focused \subseteq {a}
<1>1. s \in Desktops /\ Bounded(Focus(s, a))
  BY FocusBounded DEF Bounded
<1>2. Focus(s, a).open = s.open
  BY <1>1, FocusEffect
<1>3. CASE a \in s.open
  <2>1. Focus(s, a).focused = s.focused \cup {a}
    BY <1>1, <1>3, FocusEffect
  <2>2. Focus(s, a).focused \subseteq Focus(s, a).open /\ Focus(s, a).focused = {a}
    BY <1>2, <1>3, <2>1
  <2>3. \A b \in Apps : b # a => Focus(s, a).z[b] < Focus(s, a).z[a]
    BY <1>3, FocusRaises
  <2> QED
    BY <1>1, <2>2, <2>3 DEF Good, WellStacked, Bounded
<1>4. CASE a \notin s.open
  <2>1. Focus(s, a).focused = {}
    BY <1>1, <1>4, FocusEffect
  <2> QED
    BY <1>1, <2>1 DEF Good, WellStacked, Bounded
<1> QED
  BY <1>3, <1>4

(* focus_app leaves the focus with the window it raises, and with no other. *)
LEMMA FocusAppGood ==
  ASSUME NEW s, Bounded(s), NEW a \in Apps
  PROVE  Good(FocusApp(s, a)) /\ FocusApp(s, a).focused \subseteq {a}
<1> DEFINE r == [s EXCEPT !.focused = {}]
<1>1. s \in Desktops /\ \A b \in Apps : s.z[b] =< s.counter
  BY DEF Bounded
<1>2. r \in Desktops /\ r.focused = {} /\ r.z = s.z /\ r.counter = s.counter
  BY <1>1 DEF Desktops
<1>3. FocusApp(s, a) = Focus(r, a)
  BY DEF FocusApp
<1> HIDE DEF r
<1>4. Bounded(r)
  BY <1>1, <1>2 DEF Bounded
<1> QED
  BY <1>2, <1>3, <1>4, FocusGood

(* What only takes focus away and raises the counter keeps a desktop good. *)
LEMMA Lowered ==
  ASSUME NEW s, Good(s), NEW t \in Desktops,
         t.z = s.z, s.counter =< t.counter, t.focused \subseteq s.focused, t.focused \subseteq t.open
  PROVE  Good(t)
<1>1. s \in Desktops /\ WellStacked(s)
  BY DEF Good
<1>2. s.z \in [Apps -> Nat] /\ s.counter \in Nat /\ t.counter \in Nat
  BY <1>1 DEF Desktops
<1>3. ASSUME NEW a \in Apps PROVE t.z[a] =< t.counter
  <2>1. s.z[a] \in Nat /\ s.z[a] =< s.counter
    BY <1>1, <1>2 DEF WellStacked
  <2> QED
    BY <1>2, <2>1
<1>4. ASSUME NEW a \in t.focused, NEW b \in Apps, b # a PROVE t.z[b] < t.z[a]
  BY <1>1, <1>4 DEF WellStacked
<1> QED
  BY <1>3, <1>4 DEF Good, WellStacked

(* A good desktop is bounded. *)
LEMMA GoodBounded ==
  ASSUME NEW s, Good(s)
  PROVE  Bounded(s)
BY DEF Good, Bounded, WellStacked

(* mark_dirty and closing the start menu touch neither focus nor stacking. *)
LEMMA MarkDirtyGood ==
  ASSUME NEW s, Good(s)
  PROVE  Good(MarkDirty(s)) /\ MarkDirty(s).dirty = "full"
<1>1. s \in Desktops /\ s.focused \subseteq s.open
  BY DEF Good, WellStacked
<1> DEFINE t == MarkDirty(s)
<1>2. /\ t \in Desktops /\ t.z = s.z /\ t.counter = s.counter /\ t.focused = s.focused
      /\ t.open = s.open /\ t.dirty = "full"
  BY <1>1 DEF Desktops, MarkDirty
<1>3. s.counter \in Nat
  BY <1>1 DEF Desktops
<1> HIDE DEF t
<1>4. Good(t)
  BY <1>1, <1>2, <1>3, Lowered
<1> QED
  BY <1>2, <1>4 DEF t

LEMMA MenuGood ==
  ASSUME NEW s, Good(s), NEW m \in BOOLEAN
  PROVE  Good([s EXCEPT !.menu = m])
<1>1. s \in Desktops /\ s.focused \subseteq s.open
  BY DEF Good, WellStacked
<1> DEFINE t == [s EXCEPT !.menu = m]
<1>2. /\ t \in Desktops /\ t.z = s.z /\ t.counter = s.counter /\ t.focused = s.focused
      /\ t.open = s.open
  BY <1>1 DEF Desktops
<1>3. s.counter \in Nat
  BY <1>1 DEF Desktops
<1> HIDE DEF t
<1>4. Good(t)
  BY <1>1, <1>2, <1>3, Lowered
<1> QED
  BY <1>4 DEF t

(* Taking the focus from some windows. *)
LEMMA UnfocusGood ==
  ASSUME NEW s, Good(s), NEW F \in SUBSET s.focused
  PROVE  Good([s EXCEPT !.focused = F])
<1>1. s \in Desktops /\ s.focused \subseteq s.open
  BY DEF Good, WellStacked
<1>2. F \in SUBSET Apps /\ s.counter \in Nat
  BY <1>1 DEF Desktops
<1> DEFINE t == [s EXCEPT !.focused = F]
<1>3. /\ t \in Desktops /\ t.z = s.z /\ t.counter = s.counter /\ t.focused = F /\ t.open = s.open
  BY <1>1, <1>2 DEF Desktops
<1> HIDE DEF t
<1>4. Good(t)
  BY <1>1, <1>2, <1>3, Lowered
<1> QED
  BY <1>4 DEF t

(* A number that focus takes without a window that uses it. *)
LEMMA CountedGood ==
  ASSUME NEW s, Good(s)
  PROVE  Good([s EXCEPT !.counter = s.counter + 1])
<1>1. s \in Desktops /\ s.focused \subseteq s.open
  BY DEF Good, WellStacked
<1> DEFINE t == [s EXCEPT !.counter = s.counter + 1]
<1>2. s.counter \in Nat
  BY <1>1 DEF Desktops
<1>3. /\ t \in Desktops /\ t.z = s.z /\ t.counter = s.counter + 1 /\ t.focused = s.focused
      /\ t.open = s.open
  BY <1>1, <1>2 DEF Desktops
<1> HIDE DEF t
<1>4. Good(t)
  BY <1>1, <1>2, <1>3, Lowered
<1> QED
  BY <1>4 DEF t

-----------------------------------------------------------------------------
(* A window whose mode changes, opened or not, before it gets the focus. *)
LEMMA ModeBounded ==
  ASSUME NEW s, Bounded(s), NEW O \in SUBSET Apps, NEW M \in [Apps -> {"normal", "minimized", "maximized"}]
  PROVE  Bounded([s EXCEPT !.open = O, !.mode = M]) /\ Bounded([s EXCEPT !.mode = M])
<1>1. s \in Desktops /\ \A b \in Apps : s.z[b] =< s.counter
  BY DEF Bounded
<1> DEFINE t == [s EXCEPT !.open = O, !.mode = M]
           u == [s EXCEPT !.mode = M]
<1>2. t \in Desktops /\ t.z = s.z /\ t.counter = s.counter
  BY <1>1 DEF Desktops
<1>3. u \in Desktops /\ u.z = s.z /\ u.counter = s.counter
  BY <1>1 DEF Desktops
<1> HIDE DEF t, u
<1>4. Bounded(t) /\ Bounded(u)
  BY <1>1, <1>2, <1>3 DEF Bounded
<1> QED
  BY <1>4 DEF t, u

LEMMA OpenWindowBounded ==
  ASSUME NEW s, Bounded(s), NEW a \in Apps
  PROVE  /\ Bounded(OpenWindow(s, a))
         /\ s.focused \subseteq {a} => Good(OpenWindow(s, a))
<1>1. s \in Desktops
  BY DEF Bounded
<1> DEFINE restored == \/ a \notin s.open \/ a = "notepad"
                       \/ a = "terminal" /\ s.mode[a] = "minimized"
           O == s.open \cup {a}
           m == IF restored THEN "normal" ELSE s.mode[a]
           M == [s.mode EXCEPT ![a] = m]
<1>2. O \in SUBSET Apps
  BY <1>1 DEF Desktops
<1>3. s.mode \in [Apps -> {"normal", "minimized", "maximized"}]
  BY <1>1 DEF Desktops
<1>4. m \in {"normal", "minimized", "maximized"}
  <2> HIDE DEF restored
  <2> QED
    BY <1>3
<1>5. OpenWindow(s, a) = Focus([s EXCEPT !.open = O, !.mode = M], a)
  BY DEF OpenWindow
<1> HIDE DEF O, m
<1>6. M \in [Apps -> {"normal", "minimized", "maximized"}]
  BY <1>3, <1>4
<1> HIDE DEF M
<1> DEFINE t == [s EXCEPT !.open = O, !.mode = M]
<1>7. Bounded(t)
  BY <1>2, <1>6, ModeBounded
<1>8. t.focused = s.focused /\ a \in t.open
  BY <1>1, <1>2, <1>6 DEF Desktops, O
<1> HIDE DEF t
<1>9. OpenWindow(s, a) = Focus(t, a)
  BY <1>5 DEF t
<1>10. Bounded(Focus(t, a))
  BY <1>7, FocusBounded
<1>11. ASSUME s.focused \subseteq {a} PROVE Good(Focus(t, a))
  <2>1. t.focused \subseteq {a} \cap t.open
    BY <1>8, <1>11
  <2> QED
    BY <1>7, <2>1, FocusGood
<1> QED
  BY <1>9, <1>10, <1>11

(* open_app: whatever the desktop was, one window ends on top. *)
LEMMA OpenAppGood ==
  ASSUME NEW s, Bounded(s), NEW a \in Apps
  PROVE  Good(OpenApp(s, a)) /\ OpenApp(s, a).dirty = "full"
<1> DEFINE t == FocusApp(OpenWindow(s, a), a)
<1>1. Good(t)
  BY OpenWindowBounded, FocusAppGood
<1>2. OpenApp(s, a) = MarkDirty([t EXCEPT !.menu = FALSE])
  BY DEF OpenApp
<1> HIDE DEF t
<1>3. Good([t EXCEPT !.menu = FALSE])
  BY <1>1, MenuGood
<1> QED
  BY <1>2, <1>3, MarkDirtyGood

LEMMA MinimizeAppGood ==
  ASSUME NEW s, Good(s), NEW a \in Apps
  PROVE  Good(MinimizeApp(s, a)) /\ MinimizeApp(s, a).dirty = "full"
<1>1. s \in Desktops /\ s.focused \subseteq s.open
  BY DEF Good, WellStacked
<1> DEFINE M == [s.mode EXCEPT ![a] = "minimized"]
           F == s.focused \ {a}
           t == [s EXCEPT !.mode = M, !.focused = F]
<1>2. /\ M \in [Apps -> {"normal", "minimized", "maximized"}] /\ F \in SUBSET Apps
      /\ F \subseteq s.focused /\ s.counter \in Nat
  BY <1>1 DEF Desktops
<1>3. MinimizeApp(s, a) = MarkDirty(t)
  BY DEF MinimizeApp
<1> HIDE DEF M, F
<1>4. t \in Desktops /\ t.z = s.z /\ t.counter = s.counter /\ t.focused = F /\ t.open = s.open
  BY <1>1, <1>2 DEF Desktops
<1> HIDE DEF t
<1>5. Good(t)
  BY <1>1, <1>2, <1>4, Lowered
<1> QED
  BY <1>3, <1>5, MarkDirtyGood

LEMMA CloseAppGood ==
  ASSUME NEW s, Good(s), NEW a \in Apps
  PROVE  Good(CloseApp(s, a)) /\ CloseApp(s, a).dirty = "full"
<1>1. s \in Desktops /\ s.focused \subseteq s.open
  BY DEF Good, WellStacked
<1> DEFINE O == s.open \ {a}
           M == [s.mode EXCEPT ![a] = "normal"]
           F == s.focused \ {a}
           t == [s EXCEPT !.open = O, !.focused = F, !.mode = M]
<1>2. /\ M \in [Apps -> {"normal", "minimized", "maximized"}] /\ F \in SUBSET Apps /\ O \in SUBSET Apps
      /\ F \subseteq s.focused /\ F \subseteq O /\ s.counter \in Nat
  BY <1>1 DEF Desktops
<1>3. CloseApp(s, a) = MarkDirty(t)
  BY DEF CloseApp
<1> HIDE DEF M, F, O
<1>4. t \in Desktops /\ t.z = s.z /\ t.counter = s.counter /\ t.focused = F /\ t.open = O
  BY <1>1, <1>2 DEF Desktops
<1> HIDE DEF t
<1>5. Good(t)
  BY <1>1, <1>2, <1>4, Lowered
<1> QED
  BY <1>3, <1>5, MarkDirtyGood

LEMMA ToggleMaximizeAppGood ==
  ASSUME NEW s, Good(s), NEW a \in Apps
  PROVE  Good(ToggleMaximizeApp(s, a)) /\ ToggleMaximizeApp(s, a).dirty = "full"
<1>1. s \in Desktops /\ Bounded(s)
  BY GoodBounded DEF Good
<1> DEFINE m == IF s.mode[a] = "maximized" THEN "normal" ELSE "maximized"
           M == [s.mode EXCEPT ![a] = m]
           t == [s EXCEPT !.mode = M]
<1>2. ToggleMaximizeApp(s, a) = MarkDirty(FocusApp(Focus(t, a), a))
  BY DEF ToggleMaximizeApp
<1>3. s.mode \in [Apps -> {"normal", "minimized", "maximized"}] /\ m \in {"normal", "maximized"}
  BY <1>1 DEF Desktops
<1> HIDE DEF m
<1>4. M \in [Apps -> {"normal", "minimized", "maximized"}]
  BY <1>3
<1> HIDE DEF M
<1>5. Bounded(t)
  BY <1>1, <1>4, ModeBounded
<1> HIDE DEF t
<1> QED
  BY <1>2, <1>5, FocusBounded, FocusAppGood, MarkDirtyGood

-----------------------------------------------------------------------------
(* What a handler may make of a desktop: a good one, that shows the same   *)
(* picture or is to be painted.                                            *)
Outcome(s, t) == Good(t) /\ (Picture(t) = Picture(s) \/ t.dirty = "full")

LEMMA SameOutcome ==
  ASSUME NEW s, Good(s)
  PROVE  Outcome(s, s) /\ Outcome(s, MarkDirty(s))
BY MarkDirtyGood DEF Outcome

LEMMA CountedOutcome ==
  ASSUME NEW s, Good(s)
  PROVE  /\ Outcome(s, [s EXCEPT !.counter = s.counter + 1])
         /\ s.dirty = "full" => [s EXCEPT !.counter = s.counter + 1].dirty = "full"
<1> DEFINE t == [s EXCEPT !.counter = s.counter + 1]
<1>1. s \in Desktops
  BY DEF Good
<1>2. /\ t.open = s.open /\ t.mode = s.mode /\ t.focused = s.focused /\ t.z = s.z /\ t.menu = s.menu
      /\ t.dirty = s.dirty
  BY <1>1 DEF Desktops
<1>3. Good(t)
  BY CountedGood
<1> HIDE DEF t
<1>4. Picture(t) = Picture(s)
  BY <1>2 DEF Picture, Visible
<1> QED
  BY <1>2, <1>3, <1>4 DEF Outcome, t

(* launch_app_elf. *)
LEMMA LaunchOutcome ==
  ASSUME NEW s, Good(s), NEW a \in Apps, NEW t \in Launch(s, a)
  PROVE  Outcome(s, t) /\ Outcome(s, MarkDirty(t))
<1>1. CASE t = s
  BY <1>1, SameOutcome
<1>2. CASE t = OpenApp(s, a)
  BY <1>2, GoodBounded, OpenAppGood, MarkDirtyGood DEF Outcome
<1> QED
  BY <1>1, <1>2 DEF Launch

(* open_file_in_notepad: read, or not. *)
LEMMA OpenFileOutcome ==
  ASSUME NEW s, Good(s), NEW t \in OpenFileInNotepad(s)
  PROVE  Outcome(s, t) /\ (s.dirty = "full" => t.dirty = "full")
<1>1. s \in Desktops /\ Bounded(s) /\ "notepad" \in Apps
  BY GoodBounded DEF Good, Apps
<1> DEFINE O == s.open \cup {"notepad"}
           M == [s.mode EXCEPT !["notepad"] = "normal"]
           u == [s EXCEPT !.open = O, !.mode = M]
           v == FocusApp(Focus(u, "notepad"), "notepad")
<1>2. t = [s EXCEPT !.counter = s.counter + 1] \/ t = MarkDirty(v)
  BY DEF OpenFileInNotepad
<1>3. O \in SUBSET Apps /\ M \in [Apps -> {"normal", "minimized", "maximized"}]
  BY <1>1 DEF Desktops
<1> HIDE DEF O, M
<1>4. Bounded(u)
  BY <1>1, <1>3, ModeBounded
<1> HIDE DEF u
<1>5. Good(v)
  BY <1>1, <1>4, FocusBounded, FocusAppGood
<1> HIDE DEF v
<1>6. CASE t = MarkDirty(v)
  BY <1>5, <1>6, MarkDirtyGood DEF Outcome
<1>7. CASE t = [s EXCEPT !.counter = s.counter + 1]
  BY <1>7, CountedOutcome
<1> QED
  BY <1>2, <1>6, <1>7

(* run_file_from_explorer. *)
LEMMA RunFileOutcome ==
  ASSUME NEW s, Good(s), NEW t \in RunFile(s)
  PROVE  Outcome(s, t)
<1> DEFINE shown == FocusApp(OpenWindow(s, "terminal"), "terminal")
           ran == OpenWindow(shown, "terminal")
           done == {ran} \cup {OpenApp(ran, a) : a \in Apps}
<1>1. Bounded(s) /\ "terminal" \in Apps
  BY GoodBounded DEF Apps
<1>2. Good(shown) /\ shown.focused \subseteq {"terminal"}
  BY <1>1, OpenWindowBounded, FocusAppGood
<1>3. t \in {s} \cup OpenFileInNotepad(s) \cup {OpenApp(s, a) : a \in Apps} \cup {MarkDirty(u) : u \in done}
  BY DEF RunFile
<1>4. CASE t = s
  BY <1>4, SameOutcome
<1>5. CASE t \in OpenFileInNotepad(s)
  BY <1>5, OpenFileOutcome
<1>6. CASE t \in {OpenApp(s, a) : a \in Apps}
  BY <1>1, <1>6, OpenAppGood DEF Outcome
<1>7. CASE t \in {MarkDirty(u) : u \in done}
  <2>1. Good(ran)
    BY <1>1, <1>2, GoodBounded, OpenWindowBounded
  <2> QED
    BY <1>7, <2>1, GoodBounded, OpenAppGood, MarkDirtyGood DEF Outcome
<1> QED
  BY <1>3, <1>4, <1>5, <1>6, <1>7

(* A key for the Terminal; Notepad does not have the focus. *)
LEMMA TerminalKeyOutcome ==
  ASSUME NEW s, Good(s), "notepad" \notin s.focused, NEW t \in TerminalKey(s)
  PROVE  Outcome(s, t)
<1> DEFINE typed == Focus(s, "terminal")
           counted == [s EXCEPT !.counter = s.counter + 1]
           done == {typed, counted} \cup {OpenApp(typed, a) : a \in Apps}
<1>1. s \in Desktops /\ Bounded(s) /\ "terminal" \in Apps /\ s.focused \subseteq s.open
  BY GoodBounded DEF Good, WellStacked, Apps
<1>2. Good(counted)
  BY CountedGood
<1>3. CASE "terminal" \in Visible(s)
  <2>1. PICK u \in done : t = MarkDirty([u EXCEPT !.focused = u.focused \ Utility])
    BY <1>3 DEF TerminalKey
  <2>2. "terminal" \in s.open
    BY <1>3 DEF Visible
  <2>3. Bounded(typed)
    BY <1>1, FocusBounded
  <2>4. CASE u = counted \/ u \in {OpenApp(typed, a) : a \in Apps}
    <3>1. Good(u)
      BY <1>2, <2>3, <2>4, OpenAppGood
    <3>2. Good([u EXCEPT !.focused = u.focused \ Utility])
      BY <3>1, UnfocusGood
    <3> QED
      BY <2>1, <3>2, MarkDirtyGood DEF Outcome
  <2>5. CASE u = typed
    <3>1. /\ typed \in Desktops /\ typed.open = s.open
          /\ typed.focused = s.focused \cup {"terminal"}
      BY <1>1, <2>2, FocusEffect
    <3>2. \A b \in Apps : b # "terminal" => typed.z[b] < typed.z["terminal"]
      BY <1>1, <2>2, FocusRaises
    <3> DEFINE v == [typed EXCEPT !.focused = typed.focused \ Utility]
    <3> HIDE DEF typed
    <3>3. typed.focused \ Utility \in SUBSET Apps
      BY <3>1 DEF Desktops
    <3>4. /\ v \in Desktops /\ v.open = typed.open /\ v.z = typed.z /\ v.counter = typed.counter
          /\ v.focused = typed.focused \ Utility
      BY <3>1, <3>3 DEF Desktops
    <3> HIDE DEF v
    <3>5. s.focused \subseteq {"terminal"} \cup Utility
      BY <1>1 DEF Desktops, Apps
    <3>6. v.focused \subseteq {"terminal"} \cap v.open
      <4>1. ASSUME NEW x \in v.focused PROVE x = "terminal" /\ x \in v.open
        BY <2>2, <3>1, <3>4, <3>5, <4>1
      <4> QED
        BY <4>1
    <3>7. Good(v)
      BY <2>3, <3>2, <3>4, <3>6 DEF Good, WellStacked, Bounded
    <3> QED
      BY <2>1, <2>5, <3>7, MarkDirtyGood DEF Outcome, v
  <2> QED
    BY <2>4, <2>5
<1>4. CASE "terminal" \notin Visible(s)
  <2>1. t = MarkDirty(counted)
    BY <1>4 DEF TerminalKey
  <2> QED
    BY <1>2, <2>1, MarkDirtyGood DEF Outcome
<1> QED
  BY <1>3, <1>4

(* handle_event for a key. *)
LEMMA KeyOutcome ==
  ASSUME NEW s, Good(s), NEW t \in KeyPressed(s)
  PROVE  Outcome(s, t)
<1>1. /\ "files" \in Apps
      /\ s.focused \subseteq s.open
  BY PointsAssumption DEF Apps, Good, WellStacked
<1>2. \/ \E a \in Apps : \E u \in Launch(s, a) : t = MarkDirty(u)
      \/ \E u \in Launch(s, "files") : t = u \/ t \in OpenFileInNotepad(u)
      \/ "notepad" \in s.open /\ "notepad" \in s.focused /\ t = MarkDirty(s)
      \/ ~ ("notepad" \in s.open /\ "notepad" \in s.focused) /\ t \in TerminalKey(s)
  <2> DEFINE K1 == UNION {{MarkDirty(u) : u \in Launch(s, a)} : a \in Apps \ {"notepad"}}
             K2 == UNION {{u} \cup OpenFileInNotepad(u) : u \in Launch(s, "files")}
             K3 == IF "notepad" \in s.open /\ "notepad" \in s.focused THEN {MarkDirty(s)} ELSE TerminalKey(s)
  <2>1. KeyPressed(s) = K1 \cup K2 \cup K3
    BY DEF KeyPressed
  <2>2. ASSUME t \in K1 PROVE \E a \in Apps : \E u \in Launch(s, a) : t = MarkDirty(u)
    BY <2>2, Zenon
  <2>3. ASSUME t \in K2 PROVE \E u \in Launch(s, "files") : t = u \/ t \in OpenFileInNotepad(u)
    BY <2>3, Zenon
  <2>4. ASSUME t \in K3
        PROVE  \/ "notepad" \in s.open /\ "notepad" \in s.focused /\ t = MarkDirty(s)
               \/ ~ ("notepad" \in s.open /\ "notepad" \in s.focused) /\ t \in TerminalKey(s)
    BY <2>4
  <2>5. t \in K1 \/ t \in K2 \/ t \in K3
    BY <2>1
  <2> QED
    BY <2>2, <2>3, <2>4, <2>5
<1>3. CASE \E a \in Apps : \E u \in Launch(s, a) : t = MarkDirty(u)
  BY <1>3, LaunchOutcome
<1>4. CASE \E u \in Launch(s, "files") : t = u \/ t \in OpenFileInNotepad(u)
  <2>1. PICK u \in Launch(s, "files") : t = u \/ t \in OpenFileInNotepad(u)
    BY <1>4
  <2>2. Outcome(s, u)
    BY <1>1, LaunchOutcome
  <2>3. CASE t \in OpenFileInNotepad(u)
    BY <2>2, <2>3, OpenFileOutcome DEF Outcome
  <2> QED
    BY <2>1, <2>2, <2>3
<1>5. CASE t = MarkDirty(s)
  BY <1>5, SameOutcome
<1>6. CASE "notepad" \notin s.focused /\ t \in TerminalKey(s)
  BY <1>6, TerminalKeyOutcome
<1> QED
  BY <1>1, <1>2, <1>3, <1>4, <1>5, <1>6

-----------------------------------------------------------------------------
(* Every non-empty set of naturals has a smallest element. *)
LEMMA LeastNatural ==
  ASSUME NEW T \in SUBSET Nat, T # {}
  PROVE  \E x \in T : \A y \in T : ~ (<<y, x>> \in OpToRel(<, Nat))
<1>1. IsWellFoundedOn(OpToRel(<, Nat), Nat)
  BY NatLessThanWellFounded, Zenon
<1> QED
  BY <1>1, WFMin, Zenon

(* hit_test finds a topmost window wherever there is one: the counter      *)
(* bounds the stacking.                                                    *)
LEMMA TopOfInside ==
  ASSUME NEW s, Bounded(s), NEW over \in SUBSET Apps, over # {}
  PROVE  TopOf(s, over) \in over /\ \A b \in over : s.z[b] =< s.z[TopOf(s, over)]
<1>1. s.z \in [Apps -> Nat] /\ s.counter \in Nat
  BY DEF Bounded, Desktops
<1> DEFINE below(a) == s.counter - s.z[a]
           T == {below(a) : a \in over}
<1>2. ASSUME NEW a \in over PROVE below(a) \in Nat /\ s.z[a] \in Nat /\ s.counter = below(a) + s.z[a]
  BY <1>1 DEF Bounded
<1>3. T \in SUBSET Nat /\ T # {}
  BY <1>2
<1>4. PICK x \in T : \A y \in T : ~ (<<y, x>> \in OpToRel(<, Nat))
  <2> HIDE DEF T
  <2> QED
    BY <1>3, LeastNatural
<1>5. PICK a \in over : x = below(a)
  BY <1>4
<1>6. ASSUME NEW b \in over PROVE s.z[b] =< s.z[a]
  <2>1. below(b) \in T /\ below(b) \in Nat /\ below(a) \in Nat
    BY <1>2
  <2> HIDE DEF below
  <2>2. <<below(b), below(a)>> \in Nat \X Nat
    BY <2>1
  <2>3. OpToRel(<, Nat) = {ss \in Nat \X Nat : ss[1] < ss[2]}
    BY Zenon DEF OpToRel
  <2>4. <<below(b), below(a)>>[1] = below(b) /\ <<below(b), below(a)>>[2] = below(a)
    OBVIOUS
  <2>5. ~ (<<below(b), below(a)>> \in OpToRel(<, Nat))
    BY <1>4, <1>5, <2>1, Zenon
  <2>6. ~ (below(b) < below(a))
    BY <2>2, <2>3, <2>4, <2>5, Zenon
  <2>7. /\ s.z[a] \in Nat /\ s.counter = below(a) + s.z[a]
        /\ s.z[b] \in Nat /\ s.counter = below(b) + s.z[b]
    BY <1>2
  <2> QED
    BY <2>1, <2>6, <2>7
<1>7. \E c \in over : \A b \in over : s.z[b] =< s.z[c]
  BY <1>6
<1> QED
  BY <1>7 DEF TopOf

(* What hit_test returns: a target of a window or of an application, or    *)
(* one that belongs to none.                                               *)
LEMMA HitTestOwner ==
  ASSUME NEW s, Good(s), NEW p \in Points
  PROVE  \/ HitTest(s, p).app \in Apps
         \/ HitTest(s, p).target \in {"desktop", "start", "power"}
<1> DEFINE over == Over(s, p)
           top == TopOf(s, over)
<1>1. s \in Desktops /\ Bounded(s)
  BY GoodBounded DEF Good
<1>2. over \in SUBSET Apps
  BY <1>1 DEF Over, Visible, Desktops
<1>3. CASE over # {}
  <2>1. HitTest(s, p).app = top
    BY <1>3 DEF HitTest
  <2> HIDE DEF over
  <2>2. TopOf(s, over) \in over
    BY <1>1, <1>2, <1>3, TopOfInside
  <2> QED
    BY <1>2, <2>1, <2>2
<1>4. CASE over = {}
  <2>1. HitTest(s, p) = p.below \/ HitTest(s, p) = [target |-> "desktop", app |-> "none"]
    BY <1>4 DEF HitTest
  <2> QED
    BY <2>1, PointsAssumption
<1> QED
  BY <1>3, <1>4

(* Where the frame of the focused window is, hit_test returns no other one. *)
LEMMA FocusedIsHit ==
  ASSUME NEW s, Good(s)
  PROVE  \A a \in s.focused, p \in Points : a \in Over(s, p) => HitTest(s, p).app = a
<1> SUFFICES ASSUME NEW a \in s.focused, NEW p \in Points, a \in Over(s, p)
             PROVE  HitTest(s, p).app = a
  OBVIOUS
<1> DEFINE over == Over(s, p)
           top == TopOf(s, over)
<1>1. s \in Desktops /\ Bounded(s) /\ WellStacked(s)
  BY GoodBounded DEF Good
<1>2. over \in SUBSET Apps /\ over # {}
  BY <1>1 DEF Over, Visible, Desktops
<1>3. HitTest(s, p).app = top
  BY <1>2 DEF HitTest
<1>4. top \in over /\ s.z[a] =< s.z[top]
  <2> HIDE DEF over
  <2>1. a \in over
    BY DEF over
  <2> QED
    BY <1>1, <1>2, <2>1, TopOfInside
<1>5. s.z[a] \in Nat /\ s.z[top] \in Nat /\ top \in Apps
  BY <1>1, <1>2, <1>4 DEF Desktops
<1>6. top # a => s.z[top] < s.z[a]
  BY <1>1, <1>5 DEF WellStacked
<1> QED
  BY <1>3, <1>4, <1>5, <1>6

(* handle_left_press. *)
LEMMA PressOutcome ==
  ASSUME NEW s, Good(s), NEW hit
  PROVE  Outcome(s, AfterPress(s, hit))
<1>1. CASE hit.app \in Apps
  <2> DEFINE t == FocusApp(s, hit.app)
  <2>1. Good(t)
    BY <1>1, GoodBounded, FocusAppGood
  <2>2. AfterPress(s, hit) = MarkDirty([t EXCEPT !.menu = FALSE])
    BY <1>1 DEF AfterPress
  <2> HIDE DEF t
  <2> QED
    BY <2>1, <2>2, MenuGood, MarkDirtyGood DEF Outcome
<1>2. CASE hit.app \notin Apps
  BY <1>2, SameOutcome DEF AfterPress
<1> QED
  BY <1>1, <1>2

(* handle_left_release on a target. *)
LEMMA ClickOutcome ==
  ASSUME NEW s, Good(s), NEW p \in Points, NEW t \in Clicked(s, HitTest(s, p))
  PROVE  Outcome(s, t)
<1> DEFINE hit == HitTest(s, p)
<1>1. hit.app \in Apps \/ hit.target \in {"desktop", "start", "power"}
  BY HitTestOwner
<1>2. t \in Clicked(s, hit)
  OBVIOUS
<1> HIDE DEF hit
<1>3. s \in Desktops /\ Bounded(s)
  BY GoodBounded DEF Good
<1>4. \/ hit.target = "close" /\ t = CloseApp(s, hit.app)
      \/ hit.target = "maximize" /\ t = ToggleMaximizeApp(s, hit.app)
      \/ hit.target = "minimize" /\ t = MinimizeApp(s, hit.app)
      \/ t = MarkDirty(s) \/ t \in RunFile(s) \/ t = s
      \/ hit.target = "start" /\ t = MarkDirty([s EXCEPT !.menu = ~ s.menu])
      \/ hit.target = "task" /\ t = OpenApp(s, hit.app)
      \/ hit.target \in {"startapp", "icon"} /\ \E u \in Launch(s, hit.app) : t = MarkDirty(u)
      \/ t = MarkDirty([s EXCEPT !.focused = {}, !.menu = FALSE])
  BY <1>2 DEF Clicked
<1>5. CASE hit.target = "close" /\ t = CloseApp(s, hit.app)
  BY <1>1, <1>5, CloseAppGood DEF Outcome
<1>6. CASE hit.target = "maximize" /\ t = ToggleMaximizeApp(s, hit.app)
  BY <1>1, <1>6, ToggleMaximizeAppGood DEF Outcome
<1>7. CASE hit.target = "minimize" /\ t = MinimizeApp(s, hit.app)
  BY <1>1, <1>7, MinimizeAppGood DEF Outcome
<1>8. CASE t = MarkDirty(s) \/ t \in RunFile(s) \/ t = s
  BY <1>8, SameOutcome, RunFileOutcome
<1>9. CASE t = MarkDirty([s EXCEPT !.menu = ~ s.menu])
  <2>1. (~ s.menu) \in BOOLEAN
    BY Zenon
  <2>2. Good([s EXCEPT !.menu = ~ s.menu])
    BY <2>1, MenuGood, Zenon
  <2> QED
    BY <1>9, <2>2, MarkDirtyGood DEF Outcome
<1>10. CASE hit.target = "task" /\ t = OpenApp(s, hit.app)
  BY <1>1, <1>3, <1>10, OpenAppGood DEF Outcome
<1>11. CASE hit.target \in {"startapp", "icon"} /\ \E u \in Launch(s, hit.app) : t = MarkDirty(u)
  BY <1>1, <1>11, LaunchOutcome
<1>12. CASE t = MarkDirty([s EXCEPT !.focused = {}, !.menu = FALSE])
  <2> DEFINE u == [s EXCEPT !.focused = {}, !.menu = FALSE]
  <2>1. u \in Desktops /\ u.z = s.z /\ u.counter = s.counter /\ u.focused = {} /\ s.counter \in Nat
    BY <1>3 DEF Desktops
  <2> HIDE DEF u
  <2>2. Good(u)
    BY <2>1, Lowered
  <2> QED
    BY <1>12, <2>2, MarkDirtyGood DEF Outcome, u
<1> QED
  BY <1>4, <1>5, <1>6, <1>7, <1>8, <1>9, <1>10, <1>11, <1>12

(* GuiSystem::initialize. *)
LEMMA DesktopGood == Good(Desktop)
<1>1. Desktop \in Desktops
  BY DEF Desktop, Desktops
<1>2. /\ Desktop.focused = {} /\ Desktop.z = [a \in Apps |-> 0] /\ Desktop.counter = 1
  BY DEF Desktop
<1>3. ASSUME NEW a \in Apps PROVE Desktop.z[a] =< Desktop.counter
  BY <1>2
<1> QED
  BY <1>1, <1>2, <1>3 DEF Good, WellStacked

-----------------------------------------------------------------------------
(* Every step has a good outcome. *)
LEMMA StepOutcome ==
  ASSUME Good(gui), [Next]_vars
  PROVE  Good(gui') /\ (powered => Outcome(gui, gui'))
<1>1. ASSUME NEW p \in Points, Press(p) PROVE Outcome(gui, gui')
  BY <1>1, PressOutcome DEF Press
<1>2. ASSUME NEW p \in Points, Release(p) PROVE Outcome(gui, gui')
  <2>1. gui' \in Clicked(gui, HitTest(gui, p)) \/ gui' = gui
    BY <1>2 DEF Release
  <2> QED
    BY <2>1, ClickOutcome, SameOutcome
<1>3. CASE Drag
  <2> DEFINE d == IF gui.dirty = "full" THEN gui.dirty ELSE "rect"
             t == [gui EXCEPT !.dirty = d]
  <2>1. gui' = t
    BY <1>3 DEF Drag
  <2>2. gui \in Desktops /\ gui.focused \subseteq gui.open /\ d \in {"clean", "rect", "full"}
    BY DEF Good, WellStacked
  <2> HIDE DEF d
  <2>3. /\ t \in Desktops /\ t.z = gui.z /\ t.counter = gui.counter /\ t.focused = gui.focused
        /\ t.open = gui.open /\ t.mode = gui.mode /\ t.menu = gui.menu /\ gui.counter \in Nat
    BY <2>2 DEF Desktops
  <2> HIDE DEF t
  <2>4. Good(t)
    BY <2>2, <2>3, Lowered
  <2>5. Picture(t) = Picture(gui)
    BY <2>3 DEF Picture, Visible
  <2> QED
    BY <2>1, <2>4, <2>5 DEF Outcome
<1>4. CASE Key
  BY <1>4, KeyOutcome DEF Key, Outcome
<1>5. CASE Redraw
  BY <1>5, SameOutcome DEF Redraw, Outcome
<1>6. CASE FlushDirty
  <2> DEFINE t == [gui EXCEPT !.dirty = "clean"]
  <2>1. gui' = t
    BY <1>6 DEF FlushDirty
  <2>2. gui \in Desktops /\ gui.focused \subseteq gui.open
    BY DEF Good, WellStacked
  <2>3. /\ t \in Desktops /\ t.z = gui.z /\ t.counter = gui.counter /\ t.focused = gui.focused
        /\ t.open = gui.open /\ t.mode = gui.mode /\ t.menu = gui.menu /\ gui.counter \in Nat
    BY <2>2 DEF Desktops
  <2> HIDE DEF t
  <2>4. Good(t)
    BY <2>2, <2>3, Lowered
  <2>5. Picture(t) = Picture(gui)
    BY <2>3 DEF Picture, Visible
  <2> QED
    BY <2>1, <2>4, <2>5 DEF Outcome
<1>7. CASE ~ powered /\ PowerOn
  BY <1>7, DesktopGood DEF PowerOn
<1>8. CASE LoseRelease \/ UNCHANGED vars
  <2>1. gui' = gui
    BY <1>8 DEF LoseRelease, vars
  <2> QED
    BY <2>1, SameOutcome DEF Outcome
<1>9. CASE \E p \in Points : Press(p) \/ Release(p)
  BY <1>1, <1>2, <1>9, Zenon DEF Outcome
<1> QED
  BY <1>3, <1>4, <1>5, <1>6, <1>7, <1>8, <1>9, Zenon DEF Next

(* The desktop stays well typed. *)
LEMMA TypeStep ==
  ASSUME TypeOK, Good(gui'), [Next]_vars
  PROVE  TypeOK'
<1>1. gui' \in Desktops
  BY DEF Good
<1>2. pointer' \in {"none", "drag", "resize"} /\ powered' \in BOOLEAN
  <2>1. ASSUME NEW p \in Points, Press(p) PROVE pointer' \in {"none", "drag", "resize"} /\ powered' = powered
    BY <2>1 DEF Press, TypeOK
  <2>2. ASSUME NEW p \in Points, Release(p) PROVE pointer' = "none" /\ powered' \in BOOLEAN
    BY <2>2 DEF Release, PointerAfter
  <2>3. CASE LoseRelease \/ Drag \/ Key \/ Redraw \/ FlushDirty \/ UNCHANGED vars
    BY <2>3 DEF LoseRelease, Drag, Key, Redraw, FlushDirty, vars, TypeOK
  <2>4. CASE PowerOn
    BY <2>4 DEF PowerOn
  <2> QED
    BY <2>1, <2>2, <2>3, <2>4 DEF Next, TypeOK
<1> QED
  BY <1>1, <1>2 DEF TypeOK

(* At most one window has the focus, it is open, its z is above that of    *)
(* every other one and hit_test returns it wherever its frame is, whatever *)
(* the keys, clicks, drags and programs do, for any utility windows and    *)
(* any points of the screen.                                               *)
THEOREM FocusInvariant == Spec => [](TypeOK /\ FocusedOnTop)
<1>1. Init => TypeOK /\ Good(gui)
  BY DesktopGood DEF Init, TypeOK, Good
<1>2. TypeOK /\ Good(gui) /\ [Next]_vars => TypeOK' /\ Good(gui)'
  BY StepOutcome, TypeStep DEF TypeOK, Good
<1>3. Good(gui) => FocusedOnTop
  BY FocusedIsHit DEF FocusedOnTop, Good
<1> QED
  BY <1>1, <1>2, <1>3, PTL DEF Spec

(* No step of the running desktop changes which windows are shown, their   *)
(* modes, focus or stacking, or the start menu without asking for a full   *)
(* repaint: every handler that does ends in mark_dirty.                    *)
THEOREM RepaintsAreAsked == Spec => ChangesAreShown
<1>1. TypeOK /\ FocusedOnTop /\ [Next]_vars
        => [powered /\ Picture(gui') # Picture(gui) => gui'.dirty = "full"]_vars
  BY StepOutcome DEF TypeOK, FocusedOnTop, Good, Outcome
<1> QED
  BY <1>1, FocusInvariant, PTL DEF Spec, ChangesAreShown
=============================================================================
