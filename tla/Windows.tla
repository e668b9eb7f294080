------------------------------ MODULE Windows ------------------------------
(***************************************************************************)
(* The windows of mwmg.c as the user and the window manager see them: the  *)
(* control window with a button for each graph window, the bit mask        *)
(* showwins that says which of them update() draws, where they are, and    *)
(* the graphics context of each, which several pictures share.             *)
(*                                                                         *)
(* GTK calls the handlers one after the other, so that each handler is one *)
(* step.  gtk_widget_show() of a window that has not been shown before     *)
(* realizes its drawing areas, which calls configure_event() within the    *)
(* same step.  Positions and sizes have one dimension.                     *)
(*                                                                         *)
(* mwmg is started again and again; what a session leaves to the next is   *)
(* the file WINPOS.  It is written when the control window is closed, and  *)
(* not when mwmg is killed.                                                *)
(***************************************************************************)
EXTENDS Integers, Sequences

CONSTANTS
    NWINS,      \* windows
    INTBITS,    \* bits of an int
    WinSpecs,   \* values of -w, as sets of bits
    Touched,    \* windows whose buttons the user clicks and covers
    Moved,      \* windows that the user moves and resizes, and whose events are followed
    Carried,    \* windows whose traffic is on the network
    Places,     \* where windows may be
    Sizes,      \* how large, other than 0
    Frame,      \* the width of the frame a window manager adds
    QLEN,       \* bound on the events waiting for a window
    MaxSessions \* bound on the number of sessions

W_MEM == 0
W_CPU == 1
W_NET == 3
W_OTHER == 4

ASSUME WindowsAssumption ==
    /\ NWINS \in Nat /\ NWINS > W_OTHER
    /\ INTBITS \in Nat \ {0}
    /\ WinSpecs \subseteq SUBSET (0 .. INTBITS - 1)
    /\ Touched \subseteq 0 .. NWINS - 1 /\ Moved \subseteq Touched
    /\ Carried \subseteq W_OTHER .. NWINS - 1
    /\ Places \subseteq Nat /\ Sizes \subseteq Nat \ {0} /\ Sizes # {}
    /\ Frame \in Nat /\ QLEN \in Nat /\ MaxSessions \in Nat

VARIABLES
    sessions,   \* how many there were
    up,         \* the main loop runs
    showwins,   \* the bits that are set
    active,     \* the buttons that are down
    visible,    \* the windows on the screen
    closing,    \* windows the user has asked the window manager to close
    made,       \* windows whose pixmaps exist
    ink,        \* what the foreground of each window's context is
    history,    \* bars since the start
    tail,       \* the level of each window's bar in the last bucket that has one
    at, size,   \* where each window is and how large
    events,     \* configure events waiting for each window
    ncfg, dx, cx, cw,   \* what win_config() knows
    winpos,     \* the file: a position and a size for each window, or NoFile
    \* for the properties
    opened,     \* where each window was put by create_win()
    left        \* where the session that wrote the file left it, when known

viewVars == <<showwins, active, visible, closing, made>>
inkVars == <<ink, history, tail>>
placeVars == <<at, size, events, ncfg, dx, cx, cw>>
fileVars == <<sessions, up, winpos, opened, left>>
vars == <<viewVars, inkVars, placeVars, fileVars>>

Wins == 0 .. NWINS - 1
Traffic == W_OTHER .. NWINS - 1
NoFile == <<>>
Unknown == [x |-> -1, w |-> -1]

\* A context has the primary or the secondary colour of its window, or does not
\* exist yet.
NoContext == -1
Primary == 0
Secondary == 1

\* The size a window has when none is asked for.
DefaultSize == CHOOSE s \in Sizes : \A t \in Sizes : s <= t

\* Before the first session.  A file of an older version has no sizes.
Init ==
    /\ sessions = 0 /\ up = FALSE
    /\ showwins = {} /\ active = {} /\ visible = {} /\ closing = {} /\ made = {}
    /\ ink = [w \in Wins |-> NoContext]
    /\ history = {}
    /\ tail = [w \in Wins |-> Primary]
    /\ at = [w \in Wins |-> 0] /\ size = [w \in Wins |-> DefaultSize]
    /\ events = [w \in Wins |-> <<>>]
    /\ ncfg = [w \in Wins |-> 0] /\ dx = [w \in Wins |-> 0]
    /\ cx = [w \in Wins |-> 0] /\ cw = [w \in Wins |-> 0]
    /\ winpos \in {NoFile} \union {[w \in Wins |-> [x |-> p, w |-> 0]] : p \in Places}
    /\ opened = [w \in Wins |-> Unknown] /\ left = [w \in Wins |-> Unknown]

-----------------------------------------------------------------------------
(* Bits, and what the window system does.                                  *)

\* The bit of 1 << w.  The shift is undefined for INTBITS or more; the
\* processor takes it modulo INTBITS.
Bit(w) == w % INTBITS

Flip(S, x) == IF x \in S THEN S \ {x} ELSE S \union {x}

\* A window that is mapped gets an event at the place it asked for, perhaps one
\* for its new parent, and then one from the window manager, with the frame.
MapEvents(x, s, reparented) ==
    LET event(p, send) == [x |-> p, w |-> s, send |-> send, redraw |-> FALSE]
        own == event(x, FALSE)
        fromWM == event(x + Frame, TRUE)
    IN  IF reparented THEN <<own, event(x + Frame, FALSE), fromWM>> ELSE <<own, fromWM>>

\* No other window has its bit.
Alone(w) == \A v \in Wins \ {w} : Bit(v) # Bit(w)

-----------------------------------------------------------------------------
(* Drawing, as far as it changes a context.  A bar is <<window, level>>,   *)
(* level 0 for direct and 1 for relayed traffic.                           *)

\* In a column, the relayed traffic of window k is drawn last.
TailAfter(bucket) ==
    [k \in Wins |-> IF <<k, 1>> \in bucket THEN Secondary
                    ELSE IF <<k, 0>> \in bucket THEN Primary
                    ELSE tail[k]]

\* The windows that have relayed traffic in the column of their last bucket.  The
\* columns of each picture are sperpx buckets wide, which a new size changes, so
\* that a drawing may merge relayed traffic of before with the last bucket.
Merges(hist) == SUBSET {k \in Wins : <<k, 1>> \in hist}

\* What the last line that update_bottom() or update_multi_bottom() draws for
\* each window leaves in its context.
LastLines(last, merged) ==
    [k \in Wins |-> IF k \in merged THEN Secondary ELSE last[k]]

\* blank() of both areas of the windows in drawn.  It sets the primary colour, and
\* the bars of the lower graph change it; the aggregate's lower graph changes the
\* contexts of all windows with traffic.  One that does not exist stays so.
Blank(drawn, hist, tails, inks) ==
    LET barred(k) ==
            /\ k \in drawn \/ (W_NET \in drawn /\ k \in Traffic)
            /\ \E lev \in {0, 1} : <<k, lev>> \in hist
    IN  [k \in Wins |-> CASE inks[k] = NoContext -> NoContext
                          [] inks[k] # NoContext /\ barred(k) -> tails[k]
                          [] inks[k] # NoContext /\ ~ barred(k) ->
                                IF k \in drawn THEN Primary ELSE inks[k]]

\* Mutant: the context is left to expose_color().
ConfiguredNoContext(w, merged) ==
    Blank({w}, history, LastLines(tail, merged), ink)

\* configure_event() of both areas of w: the context is made when there is none.
Configured(w, merged) ==
    Blank({w}, history, LastLines(tail, merged),
          [ink EXCEPT ![w] = IF @ = NoContext THEN Primary ELSE @])

-----------------------------------------------------------------------------
(* main() and create_selector().                                           *)

\* create_win() shows the windows whose bits are set, and create_selector()
\* sets their buttons before it connects toggle_event().
ShownAtStart(bits) == {w \in Wins : Bit(w) \in bits}

\* strtol() is given the whole argument, so that -w with its value attached,
\* which starts with a hyphen, is 0.
WinSpec(bits, attached) == IF attached THEN {} ELSE bits

\* getwinpos(), with the defaults of create_win(); a size of 0 is no size.
Saved(w) == IF winpos = NoFile THEN [x |-> 0, w |-> 0] ELSE winpos[w]

\* Where create_win() puts w, and how large.
Placed(w) ==
    [x |-> Saved(w).x, w |-> IF Saved(w).w # 0 THEN Saved(w).w ELSE DefaultSize]

Start ==
    /\ ~ up /\ sessions < MaxSessions
    /\ up' = TRUE /\ sessions' = sessions + 1
    /\ \E bits \in WinSpecs, attached \in BOOLEAN :
           showwins' = WinSpec(bits, attached)
    /\ opened' = [w \in Wins |-> Placed(w)]
    /\ at' = [w \in Wins |-> Placed(w).x] /\ size' = [w \in Wins |-> Placed(w).w]
    /\ active' = {w \in Wins : Bit(w) \in showwins'}
    /\ visible' = ShownAtStart(showwins') /\ made' = visible'
    /\ ink' = [w \in Wins |-> IF w \in made' THEN Primary ELSE NoContext]
    /\ \E reparented \in BOOLEAN :
           events' = [w \in Wins |-> IF w \in visible' \intersect Moved
                                     THEN MapEvents(at'[w], size'[w], reparented)
                                     ELSE <<>>]
    /\ ncfg' = [w \in Wins |-> 0] /\ dx' = [w \in Wins |-> 0]
    /\ cx' = [w \in Wins |-> 0] /\ cw' = [w \in Wins |-> 0]
    /\ history' = {}
    /\ tail' = [w \in Wins |-> Primary]
    /\ closing' = {}
    /\ UNCHANGED <<winpos, left>>

\* The process is gone, and its windows.
Gone ==
    /\ up /\ up' = FALSE
    /\ showwins' = {} /\ active' = {} /\ visible' = {} /\ closing' = {} /\ made' = {}
    /\ ink' = [w \in Wins |-> NoContext]
    /\ history' = {} /\ tail' = [w \in Wins |-> Primary]
    /\ at' = [w \in Wins |-> 0] /\ size' = [w \in Wins |-> DefaultSize]
    /\ events' = [w \in Wins |-> <<>>]
    /\ ncfg' = [w \in Wins |-> 0] /\ dx' = [w \in Wins |-> 0]
    /\ cx' = [w \in Wins |-> 0] /\ cw' = [w \in Wins |-> 0]
    /\ opened' = [w \in Wins |-> Unknown]
    /\ UNCHANGED sessions

\* gtk_main() has returned after the control window was closed.  Every window is
\* written, those that were never shown too; or the file cannot be opened.
Quit ==
    /\ Gone
    /\ \/ /\ winpos' = [w \in Wins |-> [x |-> cx[w], w |-> cw[w]]]
          /\ left' = [w \in Wins |-> IF ncfg[w] = 2 /\ events[w] = <<>>
                                     THEN [x |-> at[w], w |-> size[w]] ELSE Unknown]
       \/ UNCHANGED <<winpos, left>>

\* mwmg ends without delete_event(), by a signal for example.
Kill == Gone /\ UNCHANGED <<winpos, left>>

-----------------------------------------------------------------------------
(* Buttons and windows.                                                    *)

\* The window manager puts a window that is shown again where it likes.
toggle_event(w) ==
    /\ showwins' = Flip(showwins, Bit(w))
    /\ \/ /\ Bit(w) \in showwins
          /\ visible' = visible \ {w}
          /\ UNCHANGED <<made, ink, at, events>>
       \/ /\ Bit(w) \notin showwins
          /\ visible' = visible \union {w} /\ made' = made \union {w}
          /\ \E merged \in Merges(history) :
                ink' = IF w \in made THEN ink ELSE Configured(w, merged)
          /\ \/ /\ w \notin Moved \/ w \in visible
                /\ UNCHANGED <<at, events>>
             \/ /\ w \in Moved \ visible
                /\ events[w] = <<>>     \* a bound
                /\ \E p \in Places, reparented \in BOOLEAN :
                      /\ w \notin made => p = at[w]
                      /\ at' = [at EXCEPT ![w] = p]
                      /\ events' = [events EXCEPT ![w] =
                                        MapEvents(p, size[w], reparented)]

\* The user clicks the button of w.
Click(w) ==
    /\ up /\ w \in Touched
    /\ active' = Flip(active, w)
    /\ toggle_event(w)
    /\ UNCHANGED <<closing, history, tail, size, ncfg, dx, cx, cw, fileVars>>

\* The user asks the window manager to close w; mwmg hears of it later.
CloseRequest(w) ==
    /\ up /\ w \in visible \intersect Touched
    /\ closing' = closing \union {w}
    /\ UNCHANGED <<showwins, active, visible, made, inkVars, placeVars, fileVars>>

\* Mutant: the window is hidden and its button stays.
subwin_deleteHides(w) ==
    /\ visible' = visible \ {w}
    /\ UNCHANGED <<showwins, active, made, ink, at, events>>

\* Setting a button that is not down to inactive does not call toggle_event().
subwin_delete(w) ==
    \/ /\ w \in active /\ active' = active \ {w}
       /\ toggle_event(w)
    \/ w \notin active /\ UNCHANGED <<showwins, active, visible, made, ink, at, events>>

Deleted(w) ==
    /\ up /\ w \in closing /\ closing' = closing \ {w}
    /\ subwin_delete(w)
    /\ UNCHANGED <<history, tail, size, ncfg, dx, cx, cw, fileVars>>

-----------------------------------------------------------------------------
(* Places and sizes.                                                       *)

Post(w, e) ==
    /\ Len(events[w]) < QLEN
    /\ events' = [events EXCEPT ![w] = Append(@, e)]

Move(w, p) ==
    /\ up /\ w \in visible \intersect Moved
    /\ p # at[w] /\ at' = [at EXCEPT ![w] = p]
    /\ Post(w, [x |-> p + Frame, w |-> size[w], send |-> TRUE, redraw |-> FALSE])
    /\ UNCHANGED <<viewVars, inkVars, size, ncfg, dx, cx, cw, fileVars>>

Resize(w, s) ==
    /\ up /\ w \in visible \intersect Moved
    /\ s # size[w] /\ size' = [size EXCEPT ![w] = s]
    /\ Post(w, [x |-> at[w] + Frame, w |-> s, send |-> FALSE, redraw |-> TRUE])
    /\ UNCHANGED <<viewVars, inkVars, at, ncfg, dx, cx, cw, fileVars>>

\* Mutant: the frame is taken off again with every event of the window manager.
OffsetAlways(w, e) == IF e.send THEN dx[w] - e.x ELSE dx[w]

\* What the client's place differs from the frame's, once it is known.
Offset(w, e) == IF ncfg[w] = 1 /\ e.send THEN dx[w] - e.x ELSE dx[w]

\* The first event is where the window was put; the first one of the window
\* manager after it tells the frame.  A new size calls configure_event().
win_config(w) ==
    /\ up /\ events[w] # <<>>
    /\ events' = [events EXCEPT ![w] = Tail(@)]
    /\ LET e == Head(events[w])
       IN  /\ \/ /\ ncfg[w] = 0
                 /\ ncfg' = [ncfg EXCEPT ![w] = 1]
                 /\ dx' = [dx EXCEPT ![w] = e.x]
                 /\ UNCHANGED <<cx, cw>>
              \/ /\ ncfg[w] > 0
                 /\ ncfg' = [ncfg EXCEPT ![w] = IF e.send THEN 2 ELSE @]
                 /\ dx' = [dx EXCEPT ![w] = Offset(w, e)]
                 /\ cx' = [cx EXCEPT ![w] = e.x + dx'[w]]
                 /\ cw' = [cw EXCEPT ![w] = e.w]
           /\ \E merged \in Merges(history) :
                 ink' = IF e.redraw THEN Configured(w, merged) ELSE ink
    /\ UNCHANGED <<viewVars, history, tail, at, size, fileVars>>

-----------------------------------------------------------------------------
(* The colour boxes of the control window, and the drawing at each bucket. *)

\* Mutant: the secondary box leaves its colour.
BoxInkSecondary(w, ofs) == IF ofs = 1 THEN Secondary ELSE IF ink[w] = NoContext THEN Primary ELSE ink[w]

\* The foreground expose_color() leaves: the box of the secondary colour sets it
\* and puts the primary one back, the other uses what it finds.
BoxInk(w, ofs) == IF ofs = 1 \/ ink[w] = NoContext THEN Primary ELSE ink[w]

\* Memory and processor have one box, the aggregate none.
expose_color(w, ofs) ==
    /\ up /\ w \in Touched \ {W_NET} /\ (ofs = 1 => w \notin {W_MEM, W_CPU})
    /\ ink' = [ink EXCEPT ![w] = BoxInk(w, ofs)]
    /\ UNCHANGED <<viewVars, history, tail, placeVars, fileVars>>

\* readin() has completed a bucket.
update(bucket) ==
    /\ up
    /\ history' = history \union bucket
    /\ tail' = TailAfter(bucket)
    /\ \E merged \in Merges(history') :
          ink' = Blank({w \in Wins : Bit(w) \in showwins}, history',
                       LastLines(tail', merged), ink)
    /\ UNCHANGED <<viewVars, placeVars, fileVars>>

-----------------------------------------------------------------------------
Next ==
    \/ Start
    \/ Quit
    \/ Kill
    \/ \E w \in Wins :
           \/ Click(w)
           \/ CloseRequest(w)
           \/ Deleted(w)
           \/ win_config(w)
           \/ \E p \in Places : Move(w, p)
           \/ \E s \in Sizes : Resize(w, s)
           \/ \E ofs \in {0, 1} : expose_color(w, ofs)
    \/ \E bucket \in SUBSET (Carried \X {0, 1}) : update(bucket)

Spec == Init /\ [][Next]_vars

-----------------------------------------------------------------------------
(* Properties.                                                             *)

\* Whatever the order in which the user clicks buttons and closes windows, and
\* however late mwmg hears of the latter, a button is down exactly when its window
\* is on the screen and its bit in showwins is set: toggle_event() flips the bit
\* without a look at the button.  Windows that share a bit are excepted.
ButtonsTrue ==
    up => \A w \in Wins : Alone(w) =>
              /\ (w \in active) = (Bit(w) \in showwins)
              /\ (w \in active) = (w \in visible)

\* update() draws a window only when configure_event() has made its pixmaps and
\* its graphics context, which nothing in blank() tests.
Drawable ==
    up => \A w \in Wins : Alone(w) /\ Bit(w) \in showwins =>
              w \in made /\ ink[w] # NoContext

\* A window opens where the last session that could write the file left it,
\* whatever the frame, and however often it was moved, resized, hidden and shown,
\* if its events had been handled by then: win_config() takes the frame off.
Reopened ==
    up => \A w \in Wins : left[w] # Unknown => opened[w] = left[w]

\* The upper graph of the aggregate and the primary box draw direct traffic with
\* whatever colour a context was left in.  It is the primary one as long as no
\* traffic of the window was relayed.
ColoursTrue ==
    \A w \in Wins : ink[w] = Secondary => <<w, 1>> \in history

=============================================================================
