---------------------------- MODULE WindowsProofs ----------------------------
(***************************************************************************)
(* Proofs about module Windows: for any number of windows and any width of *)
(* an int, any sessions and any order of the user's and the window         *)
(* manager's events, buttons, bits and windows agree, only windows with    *)
(* pixmaps are drawn, colours are true and windows reopen where they were. *)
(*                                                                         *)
(* The invariant is proved part by part.  Buttons is inductive on its own, *)
(* Drawn and Coloured need the types of the contexts, and Kept needs       *)
(* Queues: what the events that wait say about the frame and the place.    *)
(***************************************************************************)
EXTENDS Windows, WellFoundedInduction, TLAPS

Event == [x : Int, w : Int, send : BOOLEAN, redraw : BOOLEAN]
Place == [x : Int, w : Int]

\* Colours and contexts.
InkTypes ==
    /\ ink \in [Wins -> {NoContext, Primary, Secondary}]
    /\ tail \in [Wins -> {Primary, Secondary}]

\* Places, sizes and the events about them.
PlaceTypes ==
    /\ at \in [Wins -> Int] /\ size \in [Wins -> Int \ {0}]
    /\ dx \in [Wins -> Int] /\ cx \in [Wins -> Int] /\ cw \in [Wins -> Int]
    /\ ncfg \in [Wins -> 0 .. 2]
    /\ events \in [Wins -> Seq(Event)]

\* The file, and what the properties remember of it.
FileTypes ==
    /\ winpos = NoFile \/ winpos \in [Wins -> Place]
    /\ left \in [Wins -> Place] /\ opened \in [Wins -> Place]

\* A window that is or was on the screen has pixmaps and a context.
Drawn ==
    /\ visible \subseteq made
    /\ \A w \in Wins : w \in made => ink[w] # NoContext

\* A secondary colour was left by traffic that was relayed.
Coloured ==
    /\ \A w \in Wins : tail[w] = Secondary => <<w, 1>> \in history
    /\ ColoursTrue

\* The first event of the window manager in s from index i on is the next one or
\* the one after it, and has the frame around x.
Tells(s, i, x) ==
    \/ i <= Len(s) /\ s[i].send /\ s[i].x = x + Frame
    \/ i + 1 <= Len(s) /\ ~ s[i].send /\ s[i + 1].send /\ s[i + 1].x = x + Frame

\* The last event that waits for w is about where w is now.
Newest(w) ==
    events[w] # <<>> =>
        LET e == events[w][Len(events[w])]
        IN  e.x = at[w] + Frame /\ e.w = size[w]

\* What win_config() knows of w, with what it is going to hear.
Learnt(w) ==
    /\ ncfg[w] = 0 => \/ events[w] = <<>> /\ w \notin visible \intersect Moved
                      \/ events[w] # <<>> /\ Tells(events[w], 2, events[w][1].x)
    /\ ncfg[w] = 1 => Tells(events[w], 1, dx[w])
    /\ ncfg[w] = 2 => /\ dx[w] = - Frame
                      /\ events[w] = <<>> => cx[w] = at[w] /\ cw[w] = size[w]

Queues == \A w \in Wins : Newest(w) /\ Learnt(w)

\* The file has what the session that wrote it left.
Kept ==
    \A w \in Wins : left[w] # Unknown =>
        winpos # NoFile /\ winpos[w] = left[w] /\ left[w].w # 0

IInv ==
    /\ InkTypes /\ PlaceTypes /\ FileTypes
    /\ ButtonsTrue /\ Drawn /\ Coloured /\ Queues /\ Kept /\ Reopened

-----------------------------------------------------------------------------
(* Buttons.                                                                *)

\* toggle_event() flips the window of its button together with the bit, and
\* leaves alone what has another bit.
LEMMA Toggled ==
    ASSUME NEW v \in Wins, toggle_event(v), up, up', ButtonsTrue,
           active' = Flip(active, v)
    PROVE  ButtonsTrue'
  <1> SUFFICES ASSUME NEW w \in Wins, Alone(w)
               PROVE  /\ (w \in active') = (Bit(w) \in showwins')
                      /\ (w \in active') = (w \in visible')
    BY DEF ButtonsTrue, Alone, Wins, Bit
  <1>1. /\ (w \in active) <=> (Bit(w) \in showwins)
        /\ (w \in active) <=> (w \in visible)
    BY DEF ButtonsTrue
  <1>2. CASE w = v
    <2>1. w \in active' <=> w \notin active
      BY <1>2 DEF Flip
    <2>2. Bit(w) \in showwins' <=> Bit(w) \notin showwins
      BY <1>2 DEF toggle_event, Flip
    <2>3. w \in visible' <=> Bit(w) \notin showwins
      BY <1>2 DEF toggle_event
    <2> QED BY <1>1, <2>1, <2>2, <2>3
  <1>3. CASE w # v
    <2>1. Bit(v) # Bit(w)
      BY <1>3 DEF Alone
    <2>2. w \in active' <=> w \in active
      BY <1>3 DEF Flip
    <2>3. Bit(w) \in showwins' <=> Bit(w) \in showwins
      BY <2>1 DEF toggle_event, Flip
    <2>4. w \in visible' <=> w \in visible
      BY <1>3 DEF toggle_event
    <2> QED BY <1>1, <2>2, <2>3, <2>4
  <1> QED BY <1>2, <1>3

\* Every step keeps the buttons true.
LEMMA ButtonsStep == ButtonsTrue /\ [Next]_vars => ButtonsTrue'
  <1> SUFFICES ASSUME ButtonsTrue, [Next]_vars PROVE ButtonsTrue'
    OBVIOUS
  <1>1. CASE Start
    <2> SUFFICES ASSUME NEW w \in Wins
                 PROVE  /\ (w \in active') = (Bit(w) \in showwins')
                        /\ (w \in active') = (w \in visible')
      BY DEF ButtonsTrue
    <2> QED BY <1>1 DEF Start, ShownAtStart
  <1>2. CASE Gone
    BY <1>2 DEF Gone, ButtonsTrue
  <1>3. ASSUME NEW v \in Wins, Click(v) PROVE ButtonsTrue'
    BY <1>3, Toggled DEF Click, fileVars
  <1>4. ASSUME NEW v \in Wins, Deleted(v) PROVE ButtonsTrue'
    <2>1. CASE v \in active /\ active' = active \ {v} /\ toggle_event(v)
      <3>1. active' = Flip(active, v)
        BY <2>1 DEF Flip
      <3> QED BY <1>4, <2>1, <3>1, Toggled DEF Deleted, fileVars
    <2>2. CASE UNCHANGED <<showwins, active, visible>>
      BY <1>4, <2>2 DEF ButtonsTrue, Alone, Bit, Wins, Deleted, fileVars
    <2> QED BY <1>4, <2>1, <2>2 DEF Deleted, subwin_delete
  <1>5. CASE UNCHANGED <<up, showwins, active, visible>>
    BY <1>5 DEF ButtonsTrue, Alone, Bit, Wins
  <1>6. ASSUME NEW v \in Wins,
               \/ CloseRequest(v) \/ win_config(v)
               \/ \E p \in Places : Move(v, p)
               \/ \E s \in Sizes : Resize(v, s)
               \/ \E ofs \in {0, 1} : expose_color(v, ofs)
        PROVE  UNCHANGED <<up, showwins, active, visible>>
    BY <1>6 DEF CloseRequest, win_config, Move, Resize, expose_color, viewVars, fileVars
  <1>7. ASSUME NEW bucket, update(bucket)
        PROVE  UNCHANGED <<up, showwins, active, visible>>
    BY <1>7 DEF update, viewVars, fileVars
  <1> QED
    BY <1>1, <1>2, <1>3, <1>4, <1>5, <1>6, <1>7
    DEF Next, Quit, Kill, vars, viewVars, fileVars

-----------------------------------------------------------------------------
(* Contexts and colours.                                                   *)

\* blank() makes no context and takes none away, and its colours are those of the
\* bars.
LEMMA BlankInk ==
    ASSUME NEW drawn, NEW hist,
           NEW tails \in [Wins -> {Primary, Secondary}],
           NEW inks \in [Wins -> {NoContext, Primary, Secondary}]
    PROVE  /\ Blank(drawn, hist, tails, inks) \in
                 [Wins -> {NoContext, Primary, Secondary}]
           /\ \A k \in Wins :
                 /\ Blank(drawn, hist, tails, inks)[k] = NoContext
                       <=> inks[k] = NoContext
                 /\ Blank(drawn, hist, tails, inks)[k] = Secondary
                       => tails[k] = Secondary \/ inks[k] = Secondary
  <1> DEFINE b == Blank(drawn, hist, tails, inks)
             barred(k) == /\ k \in drawn \/ (W_NET \in drawn /\ k \in Traffic)
                          /\ \E lev \in {0, 1} : <<k, lev>> \in hist
             c(k) == CASE inks[k] = NoContext -> NoContext
                       [] inks[k] # NoContext /\ barred(k) -> tails[k]
                       [] inks[k] # NoContext /\ ~ barred(k) ->
                             IF k \in drawn THEN Primary ELSE inks[k]
  <1>1. b = [k \in Wins |-> c(k)]
    BY DEF Blank
  <1>2. ASSUME NEW k \in Wins
        PROVE  /\ c(k) \in {NoContext, Primary, Secondary}
               /\ c(k) = NoContext <=> inks[k] = NoContext
               /\ c(k) = Secondary => tails[k] = Secondary \/ inks[k] = Secondary
    <2> HIDE DEF barred
    <2>1. CASE inks[k] = NoContext
      BY <2>1 DEF NoContext, Primary, Secondary
    <2>2. CASE inks[k] # NoContext /\ barred(k)
      BY <2>2 DEF NoContext, Primary, Secondary
    <2>3. CASE inks[k] # NoContext /\ ~ barred(k)
      BY <2>3 DEF NoContext, Primary, Secondary
    <2> QED BY <2>1, <2>2, <2>3
  <1> HIDE DEF c
  <1> QED BY <1>1, <1>2

\* Whatever is merged, a line in the secondary colour is of relayed traffic.
LEMMA LinesTrue ==
    ASSUME NEW hist, NEW last \in [Wins -> {Primary, Secondary}],
           \A k \in Wins : last[k] = Secondary => <<k, 1>> \in hist,
           NEW merged \in Merges(hist)
    PROVE  /\ LastLines(last, merged) \in [Wins -> {Primary, Secondary}]
           /\ \A k \in Wins : LastLines(last, merged)[k] = Secondary
                                 => <<k, 1>> \in hist
  BY DEF LastLines, Merges

\* configure_event() makes the context of its window and no other.
LEMMA ConfiguredInk ==
    ASSUME InkTypes, Coloured, NEW v \in Wins, NEW merged \in Merges(history)
    PROVE  /\ Configured(v, merged) \in [Wins -> {NoContext, Primary, Secondary}]
           /\ Configured(v, merged)[v] # NoContext
           /\ \A k \in Wins :
                 /\ ink[k] # NoContext => Configured(v, merged)[k] # NoContext
                 /\ Configured(v, merged)[k] = Secondary => <<k, 1>> \in history
  <1> DEFINE inks == [ink EXCEPT ![v] = IF @ = NoContext THEN Primary ELSE @]
  <1>1. inks \in [Wins -> {NoContext, Primary, Secondary}]
    BY DEF InkTypes
  <1>2. \A k \in Wins : /\ ink[k] # NoContext => inks[k] # NoContext
                        /\ inks[k] = Secondary => ink[k] = Secondary
    BY DEF InkTypes, NoContext, Primary, Secondary
  <1>3. inks[v] # NoContext
    BY DEF InkTypes, NoContext, Primary
  <1> DEFINE lines == LastLines(tail, merged)
             new == Configured(v, merged)
  <1>4. new = Blank({v}, history, lines, inks)
    BY DEF Configured
  <1>5. /\ lines \in [Wins -> {Primary, Secondary}]
        /\ \A k \in Wins : lines[k] = Secondary => <<k, 1>> \in history
    BY LinesTrue DEF InkTypes, Coloured
  <1>6. \A k \in Wins : ink[k] = Secondary => <<k, 1>> \in history
    BY DEF Coloured, ColoursTrue
  <1> HIDE DEF inks, lines, new
  <1>7. /\ new \in [Wins -> {NoContext, Primary, Secondary}]
        /\ \A k \in Wins :
              /\ new[k] = NoContext <=> inks[k] = NoContext
              /\ new[k] = Secondary => lines[k] = Secondary \/ inks[k] = Secondary
    BY <1>1, <1>4, <1>5, BlankInk
  <1>8. /\ new \in [Wins -> {NoContext, Primary, Secondary}]
        /\ new[v] # NoContext
        /\ \A k \in Wins : /\ ink[k] # NoContext => new[k] # NoContext
                           /\ new[k] = Secondary => <<k, 1>> \in history
    BY <1>2, <1>3, <1>5, <1>6, <1>7
  <1> QED BY <1>8 DEF new

\* The steps that draw nothing, and in which no window is shown or hidden.
Undrawn == UNCHANGED <<visible, made, ink, history, tail>>

\* What toggle_event() does to the contexts.
LEMMA ToggledInk ==
    ASSUME InkTypes, Drawn, Coloured, NEW v \in Wins, toggle_event(v)
    PROVE  /\ ink' \in [Wins -> {NoContext, Primary, Secondary}]
           /\ visible' \subseteq made'
           /\ \A w \in Wins : /\ w \in made' => ink'[w] # NoContext
                              /\ ink'[w] = Secondary => <<w, 1>> \in history
  <1>1. CASE Bit(v) \in showwins
    BY <1>1 DEF toggle_event, InkTypes, Drawn, Coloured, ColoursTrue
  <1>2. CASE Bit(v) \notin showwins
    <2>1. /\ visible' = visible \union {v} /\ made' = made \union {v}
          /\ \E merged \in Merges(history) :
                ink' = IF v \in made THEN ink ELSE Configured(v, merged)
      BY <1>2 DEF toggle_event
    <2>2. visible' \subseteq made'
      BY <2>1 DEF Drawn
    <2>3. CASE v \in made
      BY <2>1, <2>2, <2>3 DEF InkTypes, Drawn, Coloured, ColoursTrue
    <2>4. CASE v \notin made
      <3>1. PICK merged \in Merges(history) : ink' = Configured(v, merged)
        BY <2>1, <2>4
      <3> QED BY <2>1, <2>2, <3>1, ConfiguredInk DEF Drawn
    <2> QED BY <2>3, <2>4
  <1> QED BY <1>1, <1>2

\* Every step keeps contexts and colours.
LEMMA InkStep ==
    InkTypes /\ Drawn /\ Coloured /\ [Next]_vars => (InkTypes /\ Drawn /\ Coloured)'
  <1> SUFFICES ASSUME InkTypes, Drawn, Coloured, [Next]_vars
               PROVE  InkTypes' /\ Drawn' /\ Coloured'
    OBVIOUS
  <1>0. WindowsAssumption
    BY WindowsAssumption
  <1>1. CASE Start
    <2>1. /\ made' = visible' /\ history' = {}
          /\ ink' = [w \in Wins |-> IF w \in made' THEN Primary ELSE NoContext]
          /\ tail' = [w \in Wins |-> Primary]
      BY <1>1 DEF Start
    <2> QED
      BY <2>1 DEF InkTypes, Drawn, Coloured, ColoursTrue, NoContext, Primary, Secondary
  <1>2. CASE Gone
    <2>1. /\ made' = {} /\ visible' = {} /\ history' = {}
          /\ ink' = [w \in Wins |-> NoContext]
          /\ tail' = [w \in Wins |-> Primary]
      BY <1>2 DEF Gone
    <2> QED
      BY <2>1 DEF InkTypes, Drawn, Coloured, ColoursTrue, NoContext, Primary, Secondary
  <1>3. ASSUME NEW v \in Wins, toggle_event(v), UNCHANGED <<history, tail>>
        PROVE  InkTypes' /\ Drawn' /\ Coloured'
    BY <1>3, ToggledInk DEF InkTypes, Drawn, Coloured, ColoursTrue
  <1>4. CASE Undrawn
    BY <1>4 DEF Undrawn, InkTypes, Drawn, Coloured, ColoursTrue
  <1>5. ASSUME NEW v \in Wins, win_config(v), ~ Undrawn
        PROVE  InkTypes' /\ Drawn' /\ Coloured'
    <2>1. UNCHANGED <<visible, made, history, tail>>
      BY <1>5 DEF win_config, viewVars
    <2>2. PICK merged \in Merges(history) : ink' = Configured(v, merged)
      BY <1>5, <2>1 DEF win_config, Undrawn
    <2> QED
      BY <2>1, <2>2, ConfiguredInk DEF InkTypes, Drawn, Coloured, ColoursTrue
  <1>6. ASSUME NEW v \in Wins, NEW ofs \in {0, 1}, expose_color(v, ofs)
        PROVE  InkTypes' /\ Drawn' /\ Coloured'
    <2>1. /\ ink' = [ink EXCEPT ![v] = BoxInk(v, ofs)]
          /\ UNCHANGED <<visible, made, history, tail>>
      BY <1>6 DEF expose_color, viewVars
    <2>2. /\ BoxInk(v, ofs) \in {Primary, Secondary}
          /\ BoxInk(v, ofs) = Secondary => ink[v] = Secondary
      BY DEF BoxInk, InkTypes, NoContext, Primary, Secondary
    <2>3. NoContext \notin {Primary, Secondary}
      BY DEF NoContext, Primary, Secondary
    <2> QED
      BY <2>1, <2>2, <2>3 DEF InkTypes, Drawn, Coloured, ColoursTrue
  <1>7. ASSUME NEW bucket, update(bucket)
        PROVE  InkTypes' /\ Drawn' /\ Coloured'
    <2>1. /\ history' = history \union bucket
          /\ tail' = TailAfter(bucket)
          /\ UNCHANGED <<visible, made>>
      BY <1>7 DEF update, viewVars
    <2>2. PICK merged \in Merges(history') :
             ink' = Blank({w \in Wins : Bit(w) \in showwins}, history',
                          LastLines(tail', merged), ink)
      BY <1>7 DEF update
    <2>3. /\ tail' \in [Wins -> {Primary, Secondary}]
          /\ \A w \in Wins : tail'[w] = Secondary => <<w, 1>> \in history'
      <3>1. tail' = [k \in Wins |-> IF <<k, 1>> \in bucket THEN Secondary
                                    ELSE IF <<k, 0>> \in bucket THEN Primary
                                    ELSE tail[k]]
        BY <2>1 DEF TailAfter
      <3>2. Primary # Secondary
        BY DEF Primary, Secondary
      <3>3. \A w \in Wins : tail[w] = Secondary => <<w, 1>> \in history'
        BY <2>1 DEF Coloured
      <3>4. \A w \in Wins : tail'[w] = Secondary => <<w, 1>> \in history'
        BY <2>1, <3>1, <3>2, <3>3
      <3> QED BY <3>1, <3>4 DEF InkTypes
    <2> DEFINE lines == LastLines(tail', merged)
               drawn == {w \in Wins : Bit(w) \in showwins}
    <2>4. /\ lines \in [Wins -> {Primary, Secondary}]
          /\ \A k \in Wins : lines[k] = Secondary => <<k, 1>> \in history'
      BY <2>3, LinesTrue
    <2>5. ink' = Blank(drawn, history', lines, ink)
      BY <2>2
    <2> HIDE DEF lines, drawn
    <2>6. /\ ink' \in [Wins -> {NoContext, Primary, Secondary}]
          /\ \A k \in Wins : /\ ink'[k] = NoContext <=> ink[k] = NoContext
                             /\ ink'[k] = Secondary =>
                                  lines[k] = Secondary \/ ink[k] = Secondary
      BY <2>4, <2>5, BlankInk DEF InkTypes
    <2>7. \A w \in Wins : ink[w] = Secondary => <<w, 1>> \in history'
      BY <2>1 DEF Coloured, ColoursTrue
    <2> QED
      BY <2>1, <2>3, <2>4, <2>6, <2>7 DEF InkTypes, Drawn, Coloured, ColoursTrue
  <1>8. ASSUME NEW v \in Wins, Click(v) \/ Deleted(v), ~ Undrawn
        PROVE  toggle_event(v) /\ UNCHANGED <<history, tail>>
    BY <1>8 DEF Click, Deleted, subwin_delete, Undrawn
  <1>9. ASSUME NEW v \in Wins,
               \/ CloseRequest(v)
               \/ \E p \in Places : Move(v, p)
               \/ \E s \in Sizes : Resize(v, s)
        PROVE  Undrawn
    BY <1>9 DEF CloseRequest, Move, Resize, viewVars, inkVars, Undrawn
  <1>10. UNCHANGED vars => Undrawn
    BY DEF vars, viewVars, inkVars, Undrawn
  <1> QED
    BY <1>1, <1>2, <1>3, <1>4, <1>5, <1>6, <1>7, <1>8, <1>9, <1>10 DEF Next, Quit, Kill


-----------------------------------------------------------------------------
(* Places and events.                                                      *)

\* The size a window has by default is one of Sizes.
LEMMA DefaultIsSize == DefaultSize \in Sizes
  <1>1. Sizes \subseteq Nat /\ Sizes # {}
    BY WindowsAssumption
  <1>2. PICK s \in Sizes : \A t \in Sizes : ~ (<<t, s>> \in OpToRel(<, Nat))
    BY <1>1, WFMin, NatLessThanWellFounded
  <1>3. \A t \in Sizes : ~ (t < s)
    BY <1>1, <1>2 DEF OpToRel
  <1>4. \A t \in Sizes : s <= t
    BY <1>1, <1>3
  <1> QED BY <1>4 DEF DefaultSize

\* The events of a window that is mapped: the last is about the frame at its
\* place, and the window manager's first comes soon after the window's own.
LEMMA MapEventsTell ==
    ASSUME NEW x \in Int, NEW s \in Int, NEW reparented \in BOOLEAN
    PROVE  /\ MapEvents(x, s, reparented) \in Seq(Event)
           /\ MapEvents(x, s, reparented) # <<>>
           /\ MapEvents(x, s, reparented)[1].x = x
           /\ Tells(MapEvents(x, s, reparented), 2, x)
           /\ LET e == MapEvents(x, s, reparented)[Len(MapEvents(x, s, reparented))]
              IN  e.x = x + Frame /\ e.w = s
  <1> DEFINE own == [x |-> x, w |-> s, send |-> FALSE, redraw |-> FALSE]
             inFrame == [x |-> x + Frame, w |-> s, send |-> FALSE, redraw |-> FALSE]
             fromWM == [x |-> x + Frame, w |-> s, send |-> TRUE, redraw |-> FALSE]
  <1>1. MapEvents(x, s, reparented) =
            IF reparented THEN <<own, inFrame, fromWM>> ELSE <<own, fromWM>>
    BY DEF MapEvents
  <1>2. Frame \in Int
    BY WindowsAssumption
  <1>3. own \in Event /\ inFrame \in Event /\ fromWM \in Event
    BY <1>2 DEF Event
  <1>4. CASE reparented
    BY <1>1, <1>3, <1>4 DEF Tells
  <1>5. CASE ~ reparented
    BY <1>1, <1>3, <1>5 DEF Tells
  <1> QED BY <1>4, <1>5

\* One more event at the end changes nothing about the first.
LEMMA TellsAppend ==
    ASSUME NEW s \in Seq(Event), NEW e \in Event, NEW i \in Nat \ {0}, NEW x \in Int,
           Tells(s, i, x)
    PROVE  Tells(Append(s, e), i, x)
  BY DEF Tells

\* What the steps that neither move a window nor handle an event leave alone.
Still == UNCHANGED <<at, size, events, ncfg, dx, cx, cw>>

\* Every step keeps the types of places and events.
LEMMA PlaceStep ==
    PlaceTypes /\ FileTypes /\ [Next]_vars => PlaceTypes'
  <1> SUFFICES ASSUME PlaceTypes, FileTypes, [Next]_vars PROVE PlaceTypes'
    OBVIOUS
  <1>0. /\ DefaultSize \in Int \ {0} /\ Places \subseteq Int
        /\ Sizes \subseteq Int \ {0} /\ Frame \in Int
    BY DefaultIsSize, WindowsAssumption
  <1>1. CASE Start
    <2>1. ASSUME NEW w \in Wins
          PROVE  Placed(w).x \in Int /\ Placed(w).w \in Int \ {0}
      <3>1. Saved(w) \in Place
        BY <1>1 DEF Saved, FileTypes, Place
      <3> QED BY <1>0, <3>1 DEF Placed, Place
    <2>2. at' \in [Wins -> Int] /\ size' \in [Wins -> Int \ {0}]
      BY <1>1, <2>1 DEF Start
    <2>3. events' \in [Wins -> Seq(Event)]
      <3>1. PICK reparented \in BOOLEAN :
              events' = [w \in Wins |-> IF w \in visible' \intersect Moved
                                        THEN MapEvents(at'[w], size'[w], reparented)
                                        ELSE <<>>]
        BY <1>1 DEF Start
      <3>2. ASSUME NEW w \in Wins
            PROVE  MapEvents(at'[w], size'[w], reparented) \in Seq(Event)
        BY <2>2, MapEventsTell
      <3> QED BY <3>1, <3>2
    <2> QED BY <1>1, <2>2, <2>3 DEF Start, PlaceTypes
  <1>2. CASE Gone
    BY <1>0, <1>2 DEF Gone, PlaceTypes
  <1>3. ASSUME NEW v \in Wins, toggle_event(v), UNCHANGED <<size, ncfg, dx, cx, cw>>
        PROVE  PlaceTypes'
    <2>1. CASE UNCHANGED <<at, events>>
      BY <1>3, <2>1 DEF PlaceTypes
    <2>2. ASSUME NEW p \in Places, NEW reparented \in BOOLEAN,
                 at' = [at EXCEPT ![v] = p],
                 events' = [events EXCEPT ![v] = MapEvents(p, size[v], reparented)]
          PROVE  PlaceTypes'
      <3>1. MapEvents(p, size[v], reparented) \in Seq(Event)
        BY <1>0, MapEventsTell DEF PlaceTypes
      <3> QED BY <1>0, <1>3, <2>2, <3>1 DEF PlaceTypes
    <2> QED BY <1>3, <2>1, <2>2 DEF toggle_event
  <1>4. ASSUME NEW v \in Wins, NEW p \in Places, Move(v, p) PROVE PlaceTypes'
    <2>1. [x |-> p + Frame, w |-> size[v], send |-> TRUE, redraw |-> FALSE] \in Event
      BY <1>0 DEF PlaceTypes, Event
    <2> QED BY <1>0, <1>4, <2>1 DEF Move, Post, PlaceTypes
  <1>5. ASSUME NEW v \in Wins, NEW s \in Sizes, Resize(v, s) PROVE PlaceTypes'
    <2>1. [x |-> at[v] + Frame, w |-> s, send |-> FALSE, redraw |-> TRUE] \in Event
      BY <1>0 DEF PlaceTypes, Event
    <2> QED BY <1>0, <1>5, <2>1 DEF Resize, Post, PlaceTypes
  <1>6. ASSUME NEW v \in Wins, win_config(v) PROVE PlaceTypes'
    <2> DEFINE e == Head(events[v])
    <2>1. e \in Event /\ Tail(events[v]) \in Seq(Event)
      BY <1>6 DEF win_config, PlaceTypes
    <2>2. e.x \in Int /\ e.w \in Int /\ Offset(v, e) \in Int
      BY <2>1 DEF Event, Offset, PlaceTypes
    <2> HIDE DEF e
    <2>3. UNCHANGED <<at, size>> /\ events' = [events EXCEPT ![v] = Tail(@)]
      BY <1>6 DEF win_config
    <2>4. \/ /\ ncfg' = [ncfg EXCEPT ![v] = 1]
             /\ dx' = [dx EXCEPT ![v] = e.x]
             /\ UNCHANGED <<cx, cw>>
          \/ /\ ncfg' = [ncfg EXCEPT ![v] = IF e.send THEN 2 ELSE @]
             /\ dx' = [dx EXCEPT ![v] = Offset(v, e)]
             /\ cx' = [cx EXCEPT ![v] = e.x + dx'[v]]
             /\ cw' = [cw EXCEPT ![v] = e.w]
      BY <1>6 DEF win_config, e
    <2>5. events' \in [Wins -> Seq(Event)]
      BY <2>1, <2>3 DEF PlaceTypes
    <2>6. ncfg' \in [Wins -> 0 .. 2]
      <3>1. \/ ncfg' = [ncfg EXCEPT ![v] = 1]
            \/ ncfg' = [ncfg EXCEPT ![v] = 2]
            \/ ncfg' = ncfg
        BY <2>4, <2>1 DEF PlaceTypes, Event
      <3>2. ncfg \in [Wins -> 0 .. 2] /\ 1 \in 0 .. 2 /\ 2 \in 0 .. 2
        BY DEF PlaceTypes
      <3> QED BY <3>1, <3>2, Zenon
    <2>7. dx' \in [Wins -> Int]
      BY <2>2, <2>4 DEF PlaceTypes
    <2>8. dx'[v] \in Int
      BY <2>7
    <2>9. cx' \in [Wins -> Int] /\ cw' \in [Wins -> Int]
      BY <2>2, <2>4, <2>8 DEF PlaceTypes
    <2> QED BY <2>3, <2>5, <2>6, <2>7, <2>9 DEF PlaceTypes
  <1>7. CASE Still
    BY <1>7 DEF Still, PlaceTypes
  <1>8. ASSUME NEW v \in Wins, Click(v) \/ Deleted(v), ~ Still
        PROVE  toggle_event(v) /\ UNCHANGED <<size, ncfg, dx, cx, cw>>
    BY <1>8 DEF Click, Deleted, subwin_delete, Still
  <1>9. ASSUME NEW v \in Wins, CloseRequest(v) \/ \E ofs \in {0, 1} : expose_color(v, ofs)
        PROVE  Still
    BY <1>9 DEF CloseRequest, expose_color, placeVars, Still
  <1>10. ASSUME NEW bucket, update(bucket) PROVE Still
    BY <1>10 DEF update, placeVars, Still
  <1>11. UNCHANGED vars => Still
    BY DEF vars, placeVars, Still
  <1> QED
    BY <1>1, <1>2, <1>3, <1>4, <1>5, <1>6, <1>7, <1>8, <1>9, <1>10, <1>11
    DEF Next, Quit, Kill


\* A step that says nothing new of w, and does not show it, keeps what is known.
LEMMA SameQueue ==
    ASSUME NEW w \in Wins, Newest(w), Learnt(w),
           at'[w] = at[w], size'[w] = size[w], events'[w] = events[w],
           ncfg'[w] = ncfg[w], dx'[w] = dx[w], cx'[w] = cx[w], cw'[w] = cw[w],
           w \in visible' \intersect Moved => w \in visible \/ events[w] # <<>>
    PROVE  Newest(w)' /\ Learnt(w)'
  <1>1. Newest(w)'
    BY DEF Newest
  <1>2. Learnt(w)'
    BY DEF Learnt, Tells
  <1> QED BY <1>1, <1>2

\* A new event from the window manager or the user keeps what is known.
LEMMA PostedQueue ==
    ASSUME NEW w \in Wins, PlaceTypes, PlaceTypes', Newest(w), Learnt(w), NEW e \in Event,
           w \in visible \intersect Moved,
           events' = [events EXCEPT ![w] = Append(@, e)],
           e.x = at'[w] + Frame, e.w = size'[w],
           UNCHANGED <<ncfg, dx, cx, cw>>
    PROVE  Newest(w)' /\ Learnt(w)'
  <1> DEFINE s == events[w]
             t == events'[w]
  <1>1. s \in Seq(Event) /\ t = Append(s, e)
    BY DEF PlaceTypes
  <1>2. t # <<>> /\ t[Len(t)] = e
    BY <1>1
  <1>3. Newest(w)'
    BY <1>2 DEF Newest
  <1>4. ASSUME ncfg[w] = 0 PROVE Tells(t, 2, t[1].x)
    <2>1. s # <<>> /\ Tells(s, 2, s[1].x)
      BY <1>4 DEF Learnt
    <2>2. t[1] = s[1] /\ s[1] \in Event
      BY <1>1, <2>1
    <2>3. s[1].x \in Int
      BY <2>2 DEF Event
    <2> QED BY <1>1, <2>1, <2>2, <2>3, TellsAppend
  <1>5. ASSUME ncfg[w] = 1 PROVE Tells(t, 1, dx[w])
    <2>1. Tells(s, 1, dx[w]) /\ dx[w] \in Int
      BY <1>5 DEF Learnt, PlaceTypes
    <2> QED BY <1>1, <2>1, TellsAppend
  <1>6. ASSUME ncfg[w] = 2 PROVE dx[w] = - Frame
    BY <1>6 DEF Learnt
  <1> HIDE DEF s
  <1>7. Learnt(w)'
    BY <1>2, <1>4, <1>5, <1>6 DEF Learnt, Tells
  <1> QED BY <1>3, <1>7

\* A window that is mapped, or mapped again once its frame is known.
LEMMA MappedQueue ==
    ASSUME NEW w \in Wins, PlaceTypes', NEW reparented \in BOOLEAN,
           events'[w] = MapEvents(at'[w], size'[w], reparented),
           \/ ncfg'[w] = 0
           \/ ncfg'[w] = 2 /\ dx'[w] = - Frame
    PROVE  Newest(w)' /\ Learnt(w)'
  <1>1. at'[w] \in Int /\ size'[w] \in Int
    BY DEF PlaceTypes
  <1> DEFINE t == events'[w]
  <1>2. /\ t # <<>> /\ t[1].x = at'[w] /\ Tells(t, 2, at'[w])
        /\ t[Len(t)].x = at'[w] + Frame /\ t[Len(t)].w = size'[w]
    BY <1>1, MapEventsTell
  <1>3. Newest(w)'
    BY <1>2 DEF Newest
  <1>4. Learnt(w)'
    BY <1>2 DEF Learnt, Tells
  <1> QED BY <1>3, <1>4

\* win_config() learns the frame from the first event of the window manager after
\* the window's own, and from then on the client's place.
LEMMA HandledQueue ==
    ASSUME NEW w \in Wins, PlaceTypes, PlaceTypes', Newest(w), Learnt(w), win_config(w)
    PROVE  Newest(w)' /\ Learnt(w)'
  <1> DEFINE s == events[w]
             t == events'[w]
             e == s[1]
  <1>1. /\ s \in Seq(Event) /\ s # <<>> /\ t = Tail(s) /\ e = Head(s)
        /\ UNCHANGED <<at, size>>
    BY DEF win_config, PlaceTypes
  <1>2. /\ t \in Seq(Event) /\ Len(t) = Len(s) - 1
        /\ \A i \in 1 .. Len(t) : t[i] = s[i + 1]
        /\ e \in Event
    BY <1>1
  <1> e.x \in Int
    BY <1>2 DEF Event
  <1>3. Frame \in Int /\ at[w] \in Int /\ dx[w] \in Int /\ ncfg[w] \in 0 .. 2
    BY WindowsAssumption DEF PlaceTypes
  <1>4. t # <<>> => Len(t) \in 1 .. Len(t) /\ t[Len(t)] = s[Len(s)]
    BY <1>2, <1>1
  <1>5. t = <<>> => e.x = at[w] + Frame /\ e.w = size[w]
    <2>1. t = <<>> => Len(t) = 0
      OBVIOUS
    <2>2. Len(s) \in Nat
      BY <1>1
    <2>3. t = <<>> => Len(s) = 1
      BY <1>2, <2>1, <2>2
    <2> QED BY <1>1, <2>3 DEF Newest
  <1>6. Newest(w)'
    BY <1>1, <1>4 DEF Newest
  <1>7. CASE ncfg[w] = 0
    <2>1. ncfg'[w] = 1 /\ dx'[w] = e.x
      BY <1>1, <1>7 DEF win_config, PlaceTypes
    <2>2. Tells(s, 2, e.x)
      BY <1>1, <1>7 DEF Learnt
    <2>3. Tells(t, 1, e.x)
      BY <1>1, <1>2, <2>2 DEF Tells
    <2>4. Learnt(w)'
      BY <2>1, <2>3 DEF Learnt, Tells
    <2> QED BY <1>6, <2>4
  <1>8. CASE ncfg[w] > 0
    <2>1. /\ ncfg'[w] = IF e.send THEN 2 ELSE ncfg[w]
          /\ dx'[w] = Offset(w, e)
          /\ cx'[w] = e.x + dx'[w] /\ cw'[w] = e.w
      BY <1>1, <1>8 DEF win_config, PlaceTypes
    <2>2. CASE ncfg[w] = 1 /\ ~ e.send
      <3>1. ncfg'[w] = 1 /\ dx'[w] = dx[w]
        BY <2>1, <2>2 DEF Offset
      <3>2. Tells(s, 1, dx[w])
        BY <2>2 DEF Learnt
      <3>3. 2 <= Len(s) /\ s[2].send /\ s[2].x = dx[w] + Frame
        BY <2>2, <3>2 DEF Tells
      <3>4. Tells(t, 1, dx[w])
        BY <1>1, <1>2, <3>3 DEF Tells
      <3>5. Learnt(w)'
        BY <3>1, <3>4 DEF Learnt, Tells
      <3> QED BY <1>6, <3>5
    <2>3. CASE ncfg[w] = 1 /\ e.send
      <3>1. ncfg'[w] = 2 /\ dx'[w] = dx[w] - e.x
        BY <2>1, <2>3 DEF Offset
      <3>2. e.x = dx[w] + Frame
        BY <2>3 DEF Learnt, Tells
      <3>3. dx'[w] = - Frame
        BY <1>3, <3>1, <3>2
      <3>4. t = <<>> => cx'[w] = at[w] /\ cw'[w] = size[w]
        BY <1>3, <1>5, <2>1, <3>3
      <3>5. Learnt(w)'
        BY <1>1, <3>1, <3>3, <3>4 DEF Learnt
      <3> QED BY <1>6, <3>5
    <2>4. CASE ncfg[w] = 2
      <3>1. ncfg'[w] = 2 /\ dx'[w] = - Frame
        BY <2>1, <2>4 DEF Offset, Learnt
      <3>2. t = <<>> => cx'[w] = at[w] /\ cw'[w] = size[w]
        BY <1>3, <1>5, <2>1, <3>1
      <3>3. Learnt(w)'
        BY <1>1, <3>1, <3>2 DEF Learnt
      <3> QED BY <1>6, <3>3
    <2> QED BY <1>3, <1>8, <2>2, <2>3, <2>4
  <1> QED BY <1>3, <1>7, <1>8


\* Every step keeps what the events say.
LEMMA QueuesStep ==
    PlaceTypes /\ PlaceTypes' /\ Queues /\ [Next]_vars => Queues'
  <1> SUFFICES ASSUME PlaceTypes, PlaceTypes', Queues, [Next]_vars, NEW w \in Wins
               PROVE  Newest(w)' /\ Learnt(w)'
    BY DEF Queues, Wins
  <1>0. Newest(w) /\ Learnt(w)
    BY DEF Queues
  <1>1. CASE Start
    <2>1. PICK reparented \in BOOLEAN :
            events' = [k \in Wins |-> IF k \in visible' \intersect Moved
                                      THEN MapEvents(at'[k], size'[k], reparented)
                                      ELSE <<>>]
      BY <1>1 DEF Start
    <2>2. ncfg'[w] = 0
      BY <1>1 DEF Start
    <2>3. CASE w \in visible' \intersect Moved
      BY <2>1, <2>2, <2>3, MappedQueue
    <2>4. CASE w \notin visible' \intersect Moved
      <3>1. events'[w] = <<>>
        BY <2>1, <2>4
      <3> QED BY <2>2, <2>4, <3>1 DEF Newest, Learnt
    <2> QED BY <2>3, <2>4
  <1>2. CASE Gone
    <2>1. events'[w] = <<>> /\ ncfg'[w] = 0 /\ w \notin visible'
      BY <1>2 DEF Gone
    <2> QED BY <2>1 DEF Newest, Learnt
  <1>3. ASSUME NEW v \in Wins, toggle_event(v), UNCHANGED <<size, ncfg, dx, cx, cw>>
        PROVE  Newest(w)' /\ Learnt(w)'
    <2>1. w # v => (w \in visible' <=> w \in visible)
      BY <1>3 DEF toggle_event
    <2>2. CASE UNCHANGED <<at, events>>
      <3>1. w \in visible' \intersect Moved => w \in visible \/ events[w] # <<>>
        <4>1. CASE Bit(v) \in showwins
          BY <1>3, <2>1, <4>1 DEF toggle_event
        <4>2. CASE Bit(v) \notin showwins /\ (v \notin Moved \/ v \in visible)
          BY <2>1, <4>2
        <4>3. ASSUME v \in Moved \ visible, NEW p \in Places, NEW reparented \in BOOLEAN,
                     events' = [events EXCEPT ![v] = MapEvents(p, size[v], reparented)]
              PROVE  w = v => events[w] # <<>>
          <5>1. p \in Int /\ size[v] \in Int
            BY WindowsAssumption DEF PlaceTypes
          <5>2. MapEvents(p, size[v], reparented) # <<>>
            BY <5>1, MapEventsTell
          <5> QED BY <2>2, <4>3, <5>2 DEF PlaceTypes
        <4> QED BY <1>3, <2>1, <4>1, <4>2, <4>3 DEF toggle_event
      <3> QED BY <1>0, <1>3, <2>2, <3>1, SameQueue
    <2>3. ASSUME NEW p \in Places, NEW reparented \in BOOLEAN, events[v] = <<>>,
                 at' = [at EXCEPT ![v] = p],
                 events' = [events EXCEPT ![v] = MapEvents(p, size[v], reparented)]
          PROVE  Newest(w)' /\ Learnt(w)'
      <3>1. CASE w = v
        <4>1. at'[w] = p /\ events'[w] = MapEvents(at'[w], size'[w], reparented)
          BY <1>3, <2>3, <3>1 DEF PlaceTypes
        <4>2. ncfg[w] # 1
          <5>1. ~ Tells(<<>>, 1, dx[w])
            BY DEF Tells
          <5> QED BY <1>0, <2>3, <3>1, <5>1 DEF Learnt
        <4>3. ncfg[w] = 0 \/ (ncfg[w] = 2 /\ dx[w] = - Frame)
          <5>1. ncfg[w] \in 0 .. 2
            BY DEF PlaceTypes
          <5>2. ncfg[w] = 0 \/ ncfg[w] = 2
            BY <4>2, <5>1
          <5> QED BY <1>0, <5>2 DEF Learnt
        <4> QED BY <1>3, <4>1, <4>3, MappedQueue
      <3>2. CASE w # v
        <4>1. at'[w] = at[w] /\ events'[w] = events[w]
          BY <2>3, <3>2 DEF PlaceTypes
        <4> QED BY <1>0, <1>3, <2>1, <3>2, <4>1, SameQueue
      <3> QED BY <3>1, <3>2
    <2> QED BY <1>3, <2>2, <2>3 DEF toggle_event
  <1>4. ASSUME NEW v \in Wins, NEW p \in Places, Move(v, p)
        PROVE  Newest(w)' /\ Learnt(w)'
    <2> DEFINE e == [x |-> p + Frame, w |-> size[v], send |-> TRUE, redraw |-> FALSE]
    <2>1. /\ v \in visible \intersect Moved /\ at' = [at EXCEPT ![v] = p]
          /\ events' = [events EXCEPT ![v] = Append(@, e)]
          /\ UNCHANGED <<visible, size, ncfg, dx, cx, cw>>
      BY <1>4 DEF Move, Post, viewVars
    <2>2. CASE w = v
      <3>1. e \in Event /\ e.x = at'[w] + Frame /\ e.w = size'[w]
        BY <2>1, <2>2, WindowsAssumption DEF PlaceTypes, Event
      <3> HIDE DEF e
      <3> QED BY <1>0, <2>1, <2>2, <3>1, PostedQueue
    <2>3. CASE w # v
      <3>1. at'[w] = at[w] /\ events'[w] = events[w]
        BY <2>1, <2>3 DEF PlaceTypes
      <3> QED BY <1>0, <2>1, <3>1, SameQueue
    <2> QED BY <2>2, <2>3
  <1>5. ASSUME NEW v \in Wins, NEW s \in Sizes, Resize(v, s)
        PROVE  Newest(w)' /\ Learnt(w)'
    <2> DEFINE e == [x |-> at[v] + Frame, w |-> s, send |-> FALSE, redraw |-> TRUE]
    <2>1. /\ v \in visible \intersect Moved /\ size' = [size EXCEPT ![v] = s]
          /\ events' = [events EXCEPT ![v] = Append(@, e)]
          /\ UNCHANGED <<visible, at, ncfg, dx, cx, cw>>
      BY <1>5 DEF Resize, Post, viewVars
    <2>2. CASE w = v
      <3>1. e \in Event /\ e.x = at'[w] + Frame /\ e.w = size'[w]
        BY <2>1, <2>2, WindowsAssumption DEF PlaceTypes, Event
      <3> HIDE DEF e
      <3> QED BY <1>0, <2>1, <2>2, <3>1, PostedQueue
    <2>3. CASE w # v
      <3>1. size'[w] = size[w] /\ events'[w] = events[w]
        BY <2>1, <2>3 DEF PlaceTypes
      <3> QED BY <1>0, <2>1, <3>1, SameQueue
    <2> QED BY <2>2, <2>3
  <1>6. ASSUME NEW v \in Wins, win_config(v) PROVE Newest(w)' /\ Learnt(w)'
    <2>1. CASE w = v
      BY <1>0, <1>6, <2>1, HandledQueue
    <2>2. CASE w # v
      <3>1. /\ UNCHANGED <<visible, at, size>>
            /\ events'[w] = events[w] /\ ncfg'[w] = ncfg[w] /\ dx'[w] = dx[w]
            /\ cx'[w] = cx[w] /\ cw'[w] = cw[w]
        BY <1>6, <2>2 DEF win_config, PlaceTypes, viewVars
      <3> QED BY <1>0, <3>1, SameQueue
    <2> QED BY <2>1, <2>2
  <1>7. CASE Still /\ visible' = visible
    BY <1>0, <1>7, SameQueue DEF Still
  <1>8. ASSUME NEW v \in Wins, Click(v) \/ Deleted(v), ~ (Still /\ visible' = visible)
        PROVE  toggle_event(v) /\ UNCHANGED <<size, ncfg, dx, cx, cw>>
    BY <1>8 DEF Click, Deleted, subwin_delete, Still
  <1>9. ASSUME NEW v \in Wins, CloseRequest(v) \/ \E ofs \in {0, 1} : expose_color(v, ofs)
        PROVE  Still /\ visible' = visible
    BY <1>9 DEF CloseRequest, expose_color, placeVars, viewVars, Still
  <1>10. ASSUME NEW bucket, update(bucket) PROVE Still /\ visible' = visible
    BY <1>10 DEF update, placeVars, viewVars, Still
  <1>11. UNCHANGED vars => Still /\ visible' = visible
    BY DEF vars, placeVars, viewVars, Still
  <1> QED
    BY <1>1, <1>2, <1>3, <1>4, <1>5, <1>6, <1>7, <1>8, <1>9, <1>10, <1>11
    DEF Next, Quit, Kill

\* Every step keeps the file and what the properties remember of it: Quit writes
\* what win_config() knows, and Start reads it.
LEMMA FileStep ==
    /\ PlaceTypes /\ FileTypes /\ Queues /\ Kept /\ Reopened /\ [Next]_vars
    => (FileTypes /\ Kept /\ Reopened)'
  <1> SUFFICES ASSUME PlaceTypes, FileTypes, Queues, Kept, Reopened, [Next]_vars
               PROVE  FileTypes' /\ Kept' /\ Reopened'
    OBVIOUS
  <1>0. DefaultSize \in Int /\ Unknown \in Place
    BY DefaultIsSize, WindowsAssumption DEF Unknown, Place
  <1>1. CASE Start
    <2>1. UNCHANGED <<winpos, left>> /\ opened' = [w \in Wins |-> Placed(w)]
      BY <1>1 DEF Start
    <2>2. ASSUME NEW w \in Wins PROVE Saved(w) \in Place
      BY DEF Saved, FileTypes, Place
    <2>3. ASSUME NEW w \in Wins PROVE Placed(w) \in Place
      BY <1>0, <2>2 DEF Placed, Place
    <2>4. FileTypes' /\ Kept'
      BY <2>1, <2>3 DEF FileTypes, Kept
    <2>5. ASSUME NEW w \in Wins, left'[w] # Unknown PROVE opened'[w] = left'[w]
      <3>1. Saved(w) = left[w] /\ left[w].w # 0 /\ left[w] \in Place
        BY <2>1, <2>5 DEF Kept, Saved, FileTypes
      <3>2. Placed(w) = left[w]
        BY <3>1 DEF Placed, Place
      <3> QED BY <2>1, <3>2
    <2> QED BY <2>4, <2>5 DEF Reopened
  <1>2. CASE Quit /\ ~ UNCHANGED <<winpos, left>>
    <2>1. /\ winpos' = [w \in Wins |-> [x |-> cx[w], w |-> cw[w]]]
          /\ left' = [w \in Wins |-> IF ncfg[w] = 2 /\ events[w] = <<>>
                                     THEN [x |-> at[w], w |-> size[w]] ELSE Unknown]
          /\ opened' = [w \in Wins |-> Unknown] /\ ~ up'
      BY <1>2 DEF Quit, Gone
    <2>2. FileTypes'
      BY <1>0, <2>1 DEF FileTypes, PlaceTypes, Place
    <2>3. winpos' # NoFile
      <3>1. 0 \in Wins /\ 0 \notin DOMAIN NoFile
        BY WindowsAssumption DEF Wins, W_OTHER, NoFile
      <3> QED BY <2>1, <3>1
    <2>4. ASSUME NEW w \in Wins, left'[w] # Unknown
          PROVE  winpos'[w] = left'[w] /\ left'[w].w # 0
      <3>1. ncfg[w] = 2 /\ events[w] = <<>> /\ left'[w] = [x |-> at[w], w |-> size[w]]
        BY <2>1, <2>4
      <3>2. cx[w] = at[w] /\ cw[w] = size[w] /\ size[w] # 0
        BY <3>1 DEF Queues, Learnt, PlaceTypes
      <3> QED BY <2>1, <3>1, <3>2
    <2> QED BY <2>1, <2>2, <2>3, <2>4 DEF Kept, Reopened
  <1>3. CASE Gone /\ UNCHANGED <<winpos, left>>
    <2>1. opened' = [w \in Wins |-> Unknown] /\ ~ up'
      BY <1>3 DEF Gone
    <2> QED BY <1>0, <1>3, <2>1 DEF FileTypes, Kept, Reopened
  <1>4. CASE UNCHANGED fileVars
    BY <1>4 DEF fileVars, FileTypes, Kept, Reopened
  <1>5. ASSUME NEW v \in Wins,
               \/ Click(v) \/ CloseRequest(v) \/ Deleted(v) \/ win_config(v)
               \/ \E p \in Places : Move(v, p)
               \/ \E s \in Sizes : Resize(v, s)
               \/ \E ofs \in {0, 1} : expose_color(v, ofs)
        PROVE  UNCHANGED fileVars
    BY <1>5 DEF Click, CloseRequest, Deleted, win_config, Move, Resize, expose_color
  <1>6. ASSUME NEW bucket, update(bucket) PROVE UNCHANGED fileVars
    BY <1>6 DEF update
  <1> QED
    BY <1>1, <1>2, <1>3, <1>4, <1>5, <1>6 DEF Next, Quit, Kill, vars

-----------------------------------------------------------------------------
(* Theorems.                                                               *)

\* Before the first session, whatever the file of an older version says.
LEMMA InitIInv == Init => IInv
  <1> SUFFICES ASSUME Init PROVE IInv
    OBVIOUS
  <1>0. /\ DefaultSize \in Int \ {0} /\ Places \subseteq Int /\ Unknown \in Place
    BY DefaultIsSize, WindowsAssumption DEF Unknown, Place
  <1>1. InkTypes /\ Drawn /\ Coloured
    BY DEF Init, InkTypes, Drawn, Coloured, ColoursTrue, NoContext, Primary, Secondary
  <1>2. PlaceTypes
    BY <1>0 DEF Init, PlaceTypes
  <1>3. FileTypes
    <2>1. ASSUME NEW p \in Places
          PROVE  [w \in Wins |-> [x |-> p, w |-> 0]] \in [Wins -> Place]
      BY <1>0 DEF Place
    <2> QED BY <1>0, <2>1 DEF Init, FileTypes
  <1>4. ButtonsTrue /\ Reopened /\ Kept
    BY DEF Init, ButtonsTrue, Reopened, Kept
  <1>5. Queues
    BY DEF Init, Queues, Newest, Learnt
  <1> QED BY <1>1, <1>2, <1>3, <1>4, <1>5 DEF IInv

\* Every reachable state of mwmg's windows, over all its sessions, satisfies the
\* invariant.
THEOREM InductiveInvariant == Spec => []IInv
  <1>1. IInv /\ [Next]_vars => IInv'
    BY ButtonsStep, InkStep, PlaceStep, QueuesStep, FileStep DEF IInv
  <1> QED BY InitIInv, <1>1, PTL DEF Spec

\* A button is down exactly when its window is on the screen and its bit is set,
\* for any number of windows whose bits differ: toggle_event() and subwin_delete()
\* keep the three in step.
THEOREM ButtonsAlways == Spec => []ButtonsTrue
  <1>1. IInv => ButtonsTrue
    BY DEF IInv
  <1> QED BY InductiveInvariant, <1>1, PTL

\* update() never draws a window without pixmaps or without a graphics context.
THEOREM DrawableAlways == Spec => []Drawable
  <1>1. IInv => Drawable
    <2> SUFFICES ASSUME IInv, up, NEW w \in Wins, Alone(w), Bit(w) \in showwins
                 PROVE  w \in made /\ ink[w] # NoContext
      BY DEF Drawable
    <2>1. w \in active <=> Bit(w) \in showwins
      BY DEF IInv, ButtonsTrue
    <2>2. w \in active <=> w \in visible
      BY DEF IInv, ButtonsTrue
    <2> QED BY <2>1, <2>2 DEF IInv, Drawn
  <1> QED BY InductiveInvariant, <1>1, PTL

\* The foreground of a context is secondary only after relayed traffic of its
\* window, whichever of expose_color(), configure_event() and blank() was last.
THEOREM ColoursAlways == Spec => []ColoursTrue
  <1>1. IInv => ColoursTrue
    BY DEF IInv, Coloured
  <1> QED BY InductiveInvariant, <1>1, PTL

\* Over any number of sessions, a window opens where the session that last wrote
\* WINPOS left it, for any frame and any interleaving of moves, resizes, hiding
\* and showing with the handling of their events by win_config().
THEOREM ReopenedAlways == Spec => []Reopened
  <1>1. IInv => Reopened
    BY DEF IInv
  <1> QED BY InductiveInvariant, <1>1, PTL
=============================================================================
