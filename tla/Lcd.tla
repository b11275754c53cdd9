--------------------------------- MODULE Lcd ---------------------------------
(***************************************************************************)
(* The dashboard of the Cortex-M7, ui/app_lcd.c: one thread that wakes the *)
(* panel, lets the confirmation of a reboot expire, refreshes the labels   *)
(* and runs LVGL's timer, which delivers the touch events in the same      *)
(* thread; then it sleeps a tick.  One iteration is one action.            *)
(*                                                                         *)
(* LVGL is external: a press is delivered with the widget under the finger *)
(* and a release clicks that widget, unless lv_indev_wait_release was      *)
(* called in between or the widget is disabled.                            *)
(***************************************************************************)
EXTENDS MotorView

CONSTANTS
  Refresh,    \* APP_LCD_REFRESH_MS
  Confirm     \* APP_LCD_REBOOT_CONFIRM_MS

ASSUME LcdAssumption ==
  /\ Refresh \in 1 .. (Wrap \div 2 - 1)
  /\ Confirm \in 1 .. (Wrap \div 2 - 1)

VARIABLES
  lcd,        \* lcd_sleeping, lcd_wake_requested, reboot_confirm_until,
              \* next_refresh, and whether reboot_work is scheduled
  finger,     \* the touch in progress, and whether LVGL waits for its end
  drawn,      \* history: when the labels were refreshed last
  planned,    \* history: when next_refresh was set last
  woken,      \* history: when the panel was last lit
  asked       \* history: when a click on Reboot asked to confirm, or None

vars == <<viewVars, lcd, finger, drawn, planned, woken, asked>>

None == -1
Widgets == {"reboot", "sleep", "none"}
NoFinger == [down |-> FALSE, on |-> "none", waits |-> FALSE, dark |-> FALSE]

\* The dashboard is drawn once, then the panel is put to standby; a panel that
\* refuses to blank stays lit.
AtBoot(lit) == [sleeping |-> ~lit, wake |-> FALSE, confirm |-> 0, next |-> 0,
                rebooting |-> FALSE]

LcdInit ==
  /\ lcd \in {AtBoot(lit) : lit \in BOOLEAN}
  /\ finger = NoFinger
  /\ drawn = 0 /\ planned = -Refresh /\ woken = 0 /\ asked = None

Init == ViewInit /\ LcdInit

\* (int32_t)(a - b) < 0
Before(a, b) == (a - b) % Wrap >= Wrap \div 2

-----------------------------------------------------------------------------
(***************************************************************************)
(* One iteration of the thread, each of its parts from the lcd before it   *)
(* to the lcd after it.                                                    *)
(***************************************************************************)

\* wake_display; a panel that refuses is asked again by the next touch.
Wake(l, lights) ==
  IF l.wake THEN [l EXCEPT !.wake = FALSE, !.sleeping = ~lights] ELSE l

\* Mutant of Expire: the click looks at the time, nothing else does.
ExpireNever(l, now) == l

\* reset_reboot_button, when the time to confirm is over.
Expire(l, now) ==
  IF l.confirm # 0 /\ ~Before(now, l.confirm) THEN [l EXCEPT !.confirm = 0] ELSE l

Due(l, now) == ~l.sleeping /\ ~Before(now, l.next)

\* Mutant of Plan: the next refresh is planned from the clock's zero.
PlanFromZero(l, now) == IF Due(l, now) THEN [l EXCEPT !.next = Refresh] ELSE l

Plan(l, now) ==
  IF Due(l, now) THEN [l EXCEPT !.next = (now + Refresh) % Wrap] ELSE l

\* A panel that refuses to blank has its brightness back.
enter_standby(l, blanks) ==
  IF blanks THEN [l EXCEPT !.sleeping = TRUE, !.confirm = 0] ELSE l

\* The second click on Reboot, in time.
Confirmed(l, now) == l.confirm # 0 /\ Before(now, l.confirm)

reboot_button_event(l, now) ==
  CASE l.rebooting -> l
    [] ~l.rebooting /\ Confirmed(l, now) -> [l EXCEPT !.rebooting = TRUE]
    [] OTHER -> [l EXCEPT !.confirm = (now + Confirm) % Wrap]

\* Mutant of Press: LVGL is not told to wait for the release.
PressClicks(l, widget) ==
  /\ ~finger.down
  /\ lcd' = [l EXCEPT !.wake = l.sleeping]
  /\ finger' = [down |-> TRUE, on |-> widget, waits |-> FALSE, dark |-> l.sleeping]
  /\ UNCHANGED asked

\* wake_display_event: a press in the dark only asks to be woken.
Press(l, widget) ==
  /\ ~finger.down
  /\ lcd' = [l EXCEPT !.wake = l.sleeping]
  /\ finger' = [down |-> TRUE, on |-> widget, waits |-> l.sleeping,
                dark |-> l.sleeping]
  /\ UNCHANGED asked

Release(l, now, blanks) ==
  LET clicked == IF finger.waits THEN "none" ELSE finger.on
  IN  /\ finger.down
      /\ finger' = NoFinger
      /\ lcd' = CASE clicked = "sleep" -> enter_standby(l, blanks)
                  [] clicked = "reboot" -> reboot_button_event(l, Uptime(now))
                  [] OTHER -> l
      /\ asked' = CASE clicked = "sleep" /\ lcd'.sleeping -> None
                    [] clicked = "reboot" /\ ~lcd'.rebooting -> now
                    [] OTHER -> asked

NoTouch(l) == lcd' = l /\ UNCHANGED <<finger, asked>>

\* The labels are drawn from a snapshot of the motor.
refresh_dashboard(now) == told' = Snapshot(now) /\ drawn' = now

\* The iteration began at `time`; a preemption in refresh_dashboard may make it
\* a tick late.
Iterate(lights, blanks, late) ==
  LET now == Uptime(time)
      l1 == Expire(Wake(lcd, lights), now)
      l2 == Plan(l1, now)
      woke == lcd.sleeping /\ ~l1.sleeping
      draws == woke \/ Due(l1, now)
      end == time + late
  IN  /\ end + 1 <= Horizon
      /\ IF draws THEN refresh_dashboard(end) ELSE UNCHANGED <<told, drawn>>
      /\ planned' = IF Due(l1, now) THEN time ELSE planned
      /\ woken' = IF woke THEN time ELSE woken
      /\ \/ NoTouch(l2)
         \/ \E w \in Widgets : Press(l2, w)
         \/ Release(l2, end, blanks)
      /\ time' = end + 1
      /\ UNCHANGED <<frame, cache>>

\* reboot_work, or any other end of the M7's run.
Restart ==
  /\ lcd.rebooting \/ time = Horizon
  /\ time' = 0 /\ frame' = FALSE /\ told' = NothingTold
  /\ cache' = [valid |-> FALSE, at |-> 0]
  /\ \E lit \in BOOLEAN : lcd' = AtBoot(lit)
  /\ finger' = NoFinger
  /\ drawn' = 0 /\ planned' = -Refresh /\ woken' = 0 /\ asked' = None

Next ==
  \/ \E lights, blanks \in BOOLEAN, late \in {0, 1} : Iterate(lights, blanks, late)
  \/ Restart
  \/ ViewStep /\ UNCHANGED <<lcd, finger, drawn, planned, woken, asked>>

Spec == Init /\ [][Next]_vars

-----------------------------------------------------------------------------
(***************************************************************************)
(* A snapshot of the motor is called stale exactly when it is older than   *)
(* Stale, on both sides of a wrap of the clock, for as long as the M4 has  *)
(* not been silent for a whole range of it.                                *)
(***************************************************************************)
StaleTellsTheAge ==
  told.valid /\ told.age < Wrap => (told.stale <=> told.age > Stale)

(***************************************************************************)
(* A lit dashboard shows what was known a refresh period ago at most (500  *)
(* ms, DES04_LCD.md), unless it was woken half a range of the clock after  *)
(* its last planned refresh: it then freezes.                              *)
(***************************************************************************)
LitIsRefreshed ==
  ~lcd.sleeping /\ woken - planned < Wrap \div 2 + Refresh
    => time - drawn <= Refresh + 1

(***************************************************************************)
(* The first touch of a dark display wakes it and does nothing else        *)
(* (Eth_industriel_plan.md): it clicks no button, even when the panel is   *)
(* lit by the time the finger leaves it.                                   *)
(***************************************************************************)
DarkTouchOnlyWakes ==
  [][finger.dark /\ ~finger'.down /\ time' > time =>
       asked' = asked /\ (lcd'.sleeping => lcd.sleeping)]_vars

(***************************************************************************)
(* The LCD reboots the M7 only on two clicks within the time to confirm    *)
(* with no standby between them, whatever expires or wraps meanwhile.      *)
(***************************************************************************)
RebootIsConfirmed ==
  [][lcd'.rebooting /\ ~lcd.rebooting =>
       asked # None /\ time' - asked <= Confirm]_vars
=============================================================================
