---------------------------- MODULE ScopeStream ----------------------------
(***************************************************************************)
(* The triggered capture (ecolib/middleware/ScopeStream.h) as the          *)
(* simulator uses it (EcoDrive/platform/host/silgui.h): the tick thread    *)
(* writes a sample, and copies and resets a full window; the thread of the *)
(* user interface changes the decimation meanwhile, without a lock.        *)
(*                                                                         *)
(* write is cut where it loads or stores what the other thread stores.     *)
(* Of a sample only its level against the trigger and when it was taken    *)
(* matter: the other thread may move the trigger level at any time, which  *)
(* is one more reason for a sample to have any level.                      *)
(***************************************************************************)
EXTENDS Integers, Sequences

CONSTANTS
  SampleDepth,          \* sample_depth
  Decimations,          \* values the user interface asks for, cut to a byte
  CounterMod            \* decimation_counter wraps: 256

ASSUME ScopeStreamAssumption ==
  /\ SampleDepth \in Nat \ {0}
  /\ CounterMod \in Nat \ 0..1
  /\ Decimations \subseteq 0..CounterMod - 1

(* Against trigger_level plus and minus hysteresis_level. *)
Levels == {"below", "between", "above"}

Nothing == -1

VARIABLES
  decimation, counter,  \* decimation, decimation_counter: eight bits each
  hystTrig,             \* hyst_trig
  triggered, frozen,    \* flags
  buf,                  \* the window: write_idx samples
  writer, loaded,       \* where write stands, and the value it loaded
  gui,                  \* decimation_counter still to be stored, or Nothing
  armed,                \* history: a sample below since the last trigger?
  mixed                 \* history: has the decimation changed since the write
                        \* that began the window?

scope == <<decimation, counter, hystTrig, triggered, frozen, buf,
           writer, loaded, gui, armed, mixed>>

(* A global object: what the constructor does not set is zero. *)
ScopeInit ==
  /\ decimation = 1 /\ counter = 1
  /\ hystTrig = FALSE /\ triggered = FALSE /\ frozen = FALSE
  /\ buf = <<>>
  /\ writer = "out" /\ loaded = 0 /\ gui = Nothing
  /\ armed = TRUE /\ mixed = FALSE

-----------------------------------------------------------------------------
(* User interface. *)

(* update_decimation: two stores.  The control takes any integer from 1    *)
(* on, and the parameter is a uint8_t: 256 is 0.                           *)
StoreDecimation(d) ==
  /\ gui = Nothing
  /\ decimation' = d /\ gui' = d
  /\ mixed' = TRUE
  /\ UNCHANGED <<counter, hystTrig, triggered, frozen, buf, writer,
                 loaded, armed>>

StoreCounter ==
  /\ gui # Nothing
  /\ counter' = gui /\ gui' = Nothing
  /\ mixed' = TRUE
  /\ UNCHANGED <<decimation, hystTrig, triggered, frozen, buf, writer,
                 loaded, armed>>

-----------------------------------------------------------------------------
(* Tick thread: write. *)

(* Not frozen: --decimation_counter begins with a load. *)
LoadCounter ==
  /\ writer = "in" /\ ~frozen
  /\ loaded' = counter /\ writer' = "decimate"
  /\ mixed' = IF triggered THEN mixed ELSE gui # Nothing
  /\ UNCHANGED <<decimation, counter, hystTrig, triggered, frozen, buf, gui,
                 armed>>

(* ... and ends with a store; the sample is passed over while it is not 0. *)
Decimate ==
  /\ writer = "decimate"
  /\ counter' = (loaded - 1) % CounterMod
  /\ writer' = IF counter' > 0 THEN "done" ELSE "reload"
  /\ UNCHANGED <<decimation, hystTrig, triggered, frozen, buf, loaded,
                 gui, armed, mixed>>

(* decimation_counter = decimation: a load and a store. *)
LoadDecimation ==
  /\ writer = "reload"
  /\ loaded' = decimation /\ writer' = "store"
  /\ UNCHANGED <<decimation, counter, hystTrig, triggered, frozen, buf, gui,
                 armed, mixed>>

(* Faulty variant: one too few. *)
ReloadShort ==
  /\ writer = "store"
  /\ counter' = (loaded - 1) % CounterMod /\ writer' = "take"
  /\ UNCHANGED <<decimation, hystTrig, triggered, frozen, buf, loaded, gui,
                 armed, mixed>>

Reload ==
  /\ writer = "store"
  /\ counter' = loaded /\ writer' = "take"
  /\ UNCHANGED <<decimation, hystTrig, triggered, frozen, buf, loaded, gui,
                 armed, mixed>>

(* The trigger, the window, and whether it is full, for a sample of a      *)
(* level taken at a time.  hyst_trig is set by the rise above the upper    *)
(* threshold and cleared by the fall below the lower one, which is looked  *)
(* for only while no window is being filled.                               *)
Take(level, when) ==
  LET rise  == ~triggered /\ level = "above" /\ ~hystTrig
      fall  == ~triggered /\ level = "below" /\ hystTrig
      taken == IF rise THEN <<when>>
               ELSE IF triggered THEN Append(buf, when) ELSE buf
  IN
  /\ writer = "take"
  /\ hystTrig' = IF rise THEN TRUE ELSE IF fall THEN FALSE ELSE hystTrig
  /\ triggered' = (triggered \/ rise)
  /\ buf' = taken
  /\ frozen' = (triggered' /\ Len(taken) >= SampleDepth)
  /\ writer' = "done"
  /\ armed' = IF rise THEN FALSE ELSE armed \/ level = "below"
  /\ UNCHANGED <<decimation, counter, loaded, gui, mixed>>

(* Faulty variant: reset forgets that the trigger has to be armed again. *)
ShowRearmed ==
  /\ writer = "done" /\ frozen
  /\ buf' = <<>> /\ triggered' = FALSE /\ frozen' = FALSE
  /\ counter' = decimation /\ hystTrig' = FALSE
  /\ writer' = "out"
  /\ UNCHANGED <<decimation, loaded, gui, armed, mixed>>

(* silgui_updateData with a full window: it is copied, unless the display  *)
(* is frozen, and reset in any case.                                       *)
Show ==
  /\ writer = "done" /\ frozen
  /\ buf' = <<>> /\ triggered' = FALSE /\ frozen' = FALSE
  /\ counter' = decimation
  /\ writer' = "out"
  /\ UNCHANGED <<decimation, hystTrig, loaded, gui, armed, mixed>>

(* No window is full yet. *)
Leave ==
  /\ writer = "done" /\ ~frozen
  /\ writer' = "out"
  /\ UNCHANGED <<decimation, counter, hystTrig, triggered, frozen, buf,
                 loaded, gui, armed, mixed>>

(* Calls of write from one sample taken to the next: a counter at 0 goes   *)
(* all the way round.                                                      *)
Stride == IF decimation = 0 THEN CounterMod ELSE decimation

GuiNext == (\E d \in Decimations : StoreDecimation(d)) \/ StoreCounter

(* A window begins with a rise: between the triggers of two windows there  *)
(* was a sample below the lower threshold, so that a signal that stays     *)
(* above, or shakes around the upper threshold, is captured once.          *)
TriggerNeedsFall == [][(Len(buf) = 0 /\ Len(buf') = 1) => armed]_scope
=============================================================================
