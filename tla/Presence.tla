------------------------------ MODULE Presence ------------------------------
(***************************************************************************)
(* Rp2350UserPresence::is_present: up to Window rounds of about 100 ms in   *)
(* which the LED blinks and the BOOTSEL button is read, twice when the     *)
(* first reading is down.  The button shares the chip-select line of the   *)
(* flash, which a reading takes over and gives back.  The user presses     *)
(* and releases between any two steps; a delay is one step.                *)
(***************************************************************************)
EXTENDS Naturals

CONSTANT Window     \* timeout_iterations (150 in the firmware)

VARIABLES
  pc,          \* the next step of is_present, or "idle"
  round,       \* the loop variable i
  gpio25,      \* the plain LED
  ws2812,      \* the colour of the RGB LED
  cs,          \* who drives the chip-select line: the "flash", or nobody ("hi_z")
  pressed,     \* the button is down
  sample,      \* what the reading under way has seen
  confirmed,   \* the result so far
  blinks,      \* confirmation blinks still to show
  down,        \* readings seen down in this round
  steady,      \* the button has been down since this round began
  missed       \* some round had the button down from its start to its end

vars == <<pc, round, gpio25, ws2812, cs, pressed, sample, confirmed, blinks, down, steady, missed>>

user == <<pressed, steady, missed>>
leds == <<gpio25, ws2812>>

Init ==
  /\ pc = "idle" /\ round = 0 /\ gpio25 = FALSE /\ ws2812 = "off" /\ cs = "flash"
  /\ pressed = FALSE /\ sample = FALSE /\ confirmed = FALSE /\ blinks = 0
  /\ down = 0 /\ steady = FALSE /\ missed = FALSE

Call ==
  /\ pc = "idle"
  /\ pc' = "round" /\ round' = 0 /\ confirmed' = FALSE /\ blinks' = 0
  /\ down' = 0 /\ steady' = FALSE /\ missed' = FALSE
  /\ UNCHANGED <<leds, cs, pressed, sample>>

\* set_presence_led: both lamps together, the RGB one in green.
set_presence_led(on) == gpio25' = on /\ ws2812' = (IF on THEN "green" ELSE "off")

\* The head of the loop: a new round, or the end of the window.
Round ==
  /\ pc = "round"
  /\ IF round < Window
     THEN /\ set_presence_led(round % 2 = 0)
          /\ steady' = pressed /\ down' = 0 /\ pc' = "take"
     ELSE /\ UNCHANGED <<leds, steady, down>> /\ pc' = "end"
  /\ UNCHANGED <<round, cs, pressed, sample, confirmed, blinks, missed>>

\* read_bootsel_button, with interrupts masked: the line is released, settles, is
\* sampled (low is pressed) and is given back to the flash.
Take ==
  /\ pc = "take" /\ cs = "flash"
  /\ cs' = "hi_z" /\ pc' = "sample"
  /\ UNCHANGED <<round, leds, user, sample, confirmed, blinks, down>>
\* Mutant: low is taken for released.
Sample_mutant ==
  /\ pc = "sample" /\ cs = "hi_z"
  /\ sample' = ~pressed /\ pc' = "restore"
  /\ UNCHANGED <<round, leds, cs, user, confirmed, blinks, down>>

Sample ==
  /\ pc = "sample" /\ cs = "hi_z"
  /\ sample' = pressed /\ pc' = "restore"
  /\ UNCHANGED <<round, leds, cs, user, confirmed, blinks, down>>
restore_cs == cs' = "flash"

\* What follows a reading: up, the round goes on; down for the first time, the debounce
\* delay and a second reading; down again, the user is there.
Decide ==
  /\ pc = "restore"
  /\ restore_cs
  /\ down' = IF sample THEN down + 1 ELSE down
  /\ CASE ~sample -> pc' = "wait" /\ UNCHANGED confirmed
       [] sample /\ down = 0 -> pc' = "take" /\ UNCHANGED confirmed
       [] sample /\ down = 1 -> pc' = "end" /\ confirmed' = TRUE
  /\ UNCHANGED <<round, leds, user, sample, blinks>>

\* The 100 ms at the end of a round.
Wait ==
  /\ pc = "wait"
  /\ round' = round + 1 /\ pc' = "round"
  /\ missed' = (missed \/ steady)
  /\ UNCHANGED <<leds, cs, pressed, steady, sample, confirmed, blinks, down>>

\* After the loop the LED goes out; a confirmation then shows twice in cyan.
End ==
  /\ pc = "end"
  /\ set_presence_led(FALSE)
  /\ blinks' = IF confirmed THEN 2 ELSE 0
  /\ pc' = IF confirmed THEN "blink" ELSE "idle"
  /\ UNCHANGED <<round, cs, user, sample, confirmed, down>>
Blink ==
  /\ pc = "blink"
  /\ IF ws2812 = "off" /\ blinks > 0
     THEN ws2812' = "cyan" /\ UNCHANGED <<blinks, pc>>
     ELSE /\ ws2812' = "off"
          /\ blinks' = IF ws2812 = "cyan" THEN blinks - 1 ELSE blinks
          /\ pc' = IF blinks' = 0 THEN "idle" ELSE "blink"
  /\ UNCHANGED <<round, gpio25, cs, user, sample, confirmed, down>>

is_present == Round \/ Take \/ Sample \/ Decide \/ Wait \/ End \/ Blink

\* The user presses or releases.
User ==
  /\ pressed' = ~pressed /\ steady' = (steady /\ ~pressed)
  /\ UNCHANGED <<pc, round, leds, cs, sample, confirmed, blinks, down, missed>>

Next == Call \/ is_present \/ User

\* The loop runs on its own once called.
Fairness == WF_vars(is_present)
Spec == Init /\ [][Next]_vars /\ Fairness

----------------------------------------------------------------------------

ConstantsOK == Window \in Nat \ {0}

\* Every variable has its type.
TypeOK ==
  /\ pc \in {"idle", "round", "take", "sample", "restore", "wait", "end", "blink"}
  /\ round \in 0 .. Window /\ down \in 0 .. 2 /\ blinks \in 0 .. 2
  /\ ws2812 \in {"off", "green", "cyan"} /\ cs \in {"flash", "hi_z"}
  /\ {gpio25, pressed, sample, confirmed, steady, missed} \subseteq BOOLEAN

\* A touch held through a whole round is never missed: when is_present answers that
\* nobody was there, no round saw the button down from its start to its end (the two
\* readings of is_present).
HeldTouchSeen == pc = "idle" /\ ~confirmed => ~missed

\* Whatever the outcome, is_present returns with both lamps dark and the flash selected
\* again, and runs from the flash only while the line is its own (set_presence_led(false)
\* at the end, the restore in read_bootsel_button).
CleanReturn ==
  /\ pc = "idle" => ~gpio25 /\ ws2812 = "off"
  /\ cs = "hi_z" => pc \in {"sample", "restore"}

\* The wait for a touch always ends (timeout_iterations).
WaitEnds == pc # "idle" ~> pc = "idle"
=============================================================================
