----------------------------- MODULE LcdProofs -----------------------------
(***************************************************************************)
(* The dashboard for any range of the clock and any of its periods: a      *)
(* snapshot of the motor is called stale exactly when it is, a lit panel   *)
(* is refreshed, a touch in the dark only wakes it, and a reboot takes two *)
(* clicks within the time to confirm.                                      *)
(***************************************************************************)
EXTENDS Lcd, TLAPS

-----------------------------------------------------------------------------
(***************************************************************************)
(* Arithmetic modulo the range of the clock.                               *)
(***************************************************************************)
LEMMA DivModAny ==
  \A n \in Int, d \in Nat \ {0} :
    n \div d \in Int /\ n % d \in 0 .. d - 1 /\ n = d * (n \div d) + (n % d)
OBVIOUS

USE ViewAssumption, LcdAssumption

LEMMA DivMod ==
  ASSUME NEW n \in Int
  PROVE  /\ n \div Wrap \in Int /\ n % Wrap \in 0 .. Wrap - 1
         /\ n = Wrap * (n \div Wrap) + (n % Wrap)
BY DivModAny

\* Two numbers a multiple of Wrap apart have the same remainder.
LEMMA ModUnique ==
  ASSUME NEW n \in Int, NEW q \in Int, NEW r \in 0 .. Wrap - 1, n = Wrap * q + r
  PROVE  n % Wrap = r
<1> DEFINE p == n \div Wrap
           m == n % Wrap
<1>1. p \in Int /\ m \in 0 .. Wrap - 1 /\ n = Wrap * p + m
  BY DivMod
<1>2. Wrap * (q - p) = m - r
  BY <1>1
<1> HIDE DEF p, m
<1>3. CASE q - p >= 1
  <2>1. Wrap * (q - p) >= Wrap
    BY <1>1, <1>3
  <2> QED  BY <1>1, <1>2, <2>1
<1>4. CASE q - p <= -1
  <2>1. Wrap * (q - p) <= -Wrap
    BY <1>1, <1>4
  <2> QED  BY <1>1, <1>2, <2>1
<1>5. CASE q - p = 0
  <2> DEFINE w == Wrap * q
  <2>1. q = p
    BY <1>1, <1>5
  <2>2. w \in Int /\ n = w + m /\ n = w + r
    BY <1>1, <2>1
  <2> HIDE DEF w
  <2> QED  BY <1>1, <2>2
<1>6. m = r
  BY <1>1, <1>3, <1>4, <1>5
<1> QED  BY <1>6 DEF m

\* A difference of two readings of the clock is the difference of the times.
LEMMA ModDiff ==
  ASSUME NEW a \in Int, NEW b \in Int
  PROVE  ((a % Wrap) - (b % Wrap)) % Wrap = (a - b) % Wrap
<1> DEFINE x == a % Wrap
           y == b % Wrap
           r == (x - y) % Wrap
           q == ((x - y) \div Wrap) + (a \div Wrap) - (b \div Wrap)
<1>1. /\ a \div Wrap \in Int /\ a = Wrap * (a \div Wrap) + x
      /\ b \div Wrap \in Int /\ b = Wrap * (b \div Wrap) + y
      /\ x \in 0 .. Wrap - 1 /\ y \in 0 .. Wrap - 1
  BY DivMod
<1>2. /\ (x - y) \div Wrap \in Int /\ r \in 0 .. Wrap - 1
      /\ x - y = Wrap * ((x - y) \div Wrap) + r
  BY <1>1, DivMod
<1>3. a - b = Wrap * q + r /\ q \in Int
  BY <1>1, <1>2
<1> DEFINE n == a - b
<1>4. n \in Int /\ n = Wrap * q + r
  BY <1>3
<1> HIDE DEF q, r, x, y, n
<1>5. n % Wrap = r
  BY <1>2, <1>3, <1>4, ModUnique
<1> QED  BY <1>5 DEF n, r, x, y

\* And so it is with a delay that is added to a reading.
LEMMA ModSum ==
  ASSUME NEW a \in Int, NEW b \in Int
  PROVE  ((a % Wrap) + b) % Wrap = (a + b) % Wrap
<1> DEFINE x == a % Wrap
           n == a + b
           m == x + b
           p == a \div Wrap
<1>1. p \in Int /\ x \in Int /\ a = Wrap * p + x
  BY DivMod
<1>2. m \in Int /\ n \in Int /\ n = Wrap * p + m
  BY <1>1
<1> HIDE DEF m, n, p
<1>3. /\ m \div Wrap \in Int /\ m % Wrap \in 0 .. Wrap - 1
      /\ m = Wrap * (m \div Wrap) + (m % Wrap)
  BY <1>2, DivMod
<1> DEFINE q == m \div Wrap
           r == m % Wrap
<1>4. p + q \in Int /\ n = Wrap * (p + q) + r
  BY <1>1, <1>2, <1>3
<1>5. r \in 0 .. Wrap - 1
  BY <1>3
<1> HIDE DEF q, r
<1>6. n % Wrap = r
  BY <1>2, <1>4, <1>5, ModUnique
<1> QED  BY <1>6 DEF m, n, r

LEMMA ModSmall ==
  ASSUME NEW k \in Int
  PROVE  /\ k \in 0 .. Wrap - 1 => k % Wrap = k
         /\ k \in -Wrap .. -1 => k % Wrap = k + Wrap
<1>1. CASE k \in 0 .. Wrap - 1
  BY <1>1, ModUnique
<1>2. CASE k \in -Wrap .. -1
  <2>1. k = Wrap * (-1) + (k + Wrap) /\ k + Wrap \in 0 .. Wrap - 1
    BY <1>2
  <2> QED  BY <2>1, ModUnique
<1> QED  BY <1>1, <1>2

LEMMA HalfWrap == Wrap \div 2 \in Nat /\ Wrap = 2 * (Wrap \div 2) /\ Wrap \div 2 >= 2
<1>1. \A n \in Nat : n % 2 = 0 => n = 2 * (n \div 2)
  OBVIOUS
<1>2. Wrap = 2 * (Wrap \div 2)
  BY <1>1
<1> QED  BY <1>2

\* The signed comparison of the code tells which of two times less than half a
\* range apart is the earlier one.
LEMMA BeforeIsEarlier ==
  ASSUME NEW t \in Int, NEW x \in Int, t - x >= -(Wrap \div 2), t - x < Wrap \div 2
  PROVE  Before(Uptime(t), x % Wrap) <=> t < x
<1>1. ((t % Wrap) - (x % Wrap)) % Wrap = (t - x) % Wrap
  BY ModDiff
<1>2. CASE t < x
  <2>1. (t - x) % Wrap = t - x + Wrap
    BY <1>2, HalfWrap, ModSmall
  <2> QED  BY <1>1, <1>2, <2>1, HalfWrap DEF Before, Uptime
<1>3. CASE t >= x
  <2>1. (t - x) % Wrap = t - x
    BY <1>3, HalfWrap, ModSmall
  <2> QED  BY <1>1, <1>3, <2>1, HalfWrap DEF Before, Uptime
<1> QED  BY <1>2, <1>3

\* The age the code computes is the true one for less than a range of the clock.
LEMMA AgeIsTrue ==
  ASSUME NEW now \in Nat, NEW at \in Nat, at <= now, now - at < Wrap
  PROVE  Age(now, at) = now - at
<1>1. ((now % Wrap) - (at % Wrap)) % Wrap = (now - at) % Wrap
  BY ModDiff
<1>2. (now - at) % Wrap = now - at
  BY ModSmall
<1> QED  BY <1>1, <1>2 DEF Age, Uptime

-----------------------------------------------------------------------------
Dashboard == [sleeping : BOOLEAN, wake : BOOLEAN, confirm : 0 .. Wrap - 1,
              next : 0 .. Wrap - 1, rebooting : BOOLEAN]
Finger == [down : BOOLEAN, on : Widgets, waits : BOOLEAN, dark : BOOLEAN]
Told == [valid : BOOLEAN, stale : BOOLEAN, age : Nat]

TypeOK ==
  /\ time \in Nat
  /\ frame \in BOOLEAN
  /\ cache \in [valid : BOOLEAN, at : Nat] /\ cache.at <= time
  /\ told \in Told
  /\ lcd \in Dashboard
  /\ finger \in Finger
  /\ drawn \in Nat /\ woken \in Nat
  /\ planned \in Int /\ asked \in Int

\* A touch that LVGL delivers has begun on a lit panel, which only a release may
\* blank; a panel is asked to wake only while it sleeps.
TouchInv ==
  /\ finger.dark => finger.waits
  /\ finger.down /\ ~finger.waits => ~lcd.sleeping
  /\ lcd.wake => lcd.sleeping

\* next_refresh is the reading of the clock a period after it was planned; while
\* the panel is lit it is less than a period ahead, or was just missed.
RefreshInv ==
  /\ lcd.next = (planned + Refresh) % Wrap
  /\ planned <= time /\ planned <= drawn /\ drawn <= time
  /\ ~lcd.sleeping /\ woken - planned < (Wrap \div 2) + Refresh
       => time - planned <= Refresh + 1

\* A confirmation that is awaited was asked for less than a tick too long ago.
ConfirmInv ==
  lcd.confirm # 0 =>
    /\ asked \in Nat /\ asked < time
    /\ time - asked <= Confirm + 1
    /\ lcd.confirm = (asked + Confirm) % Wrap

LcdInv == TypeOK /\ TouchInv /\ RefreshInv /\ ConfirmInv /\ StaleTellsTheAge

-----------------------------------------------------------------------------
(***************************************************************************)
(* The first half of an iteration: the dashboard once the panel was woken  *)
(* and the confirmation expired, and once the next refresh was planned.    *)
(***************************************************************************)
Lit(lights) == Expire(Wake(lcd, lights), Uptime(time))
Planned(lights) == Plan(Lit(lights), Uptime(time))

LEMMA ClockRange ==
  ASSUME NEW t \in Int
  PROVE  Uptime(t) \in 0 .. Wrap - 1
BY DivMod DEF Uptime

LEMMA LitIs ==
  ASSUME TypeOK, NEW lights \in BOOLEAN
  PROVE  /\ Lit(lights) \in Dashboard
         /\ ~Lit(lights).wake
         /\ Lit(lights).next = lcd.next
         /\ Lit(lights).rebooting <=> lcd.rebooting
         /\ ~lcd.wake => (Lit(lights).sleeping <=> lcd.sleeping)
         /\ Lit(lights).confirm # 0 =>
              lcd.confirm # 0 /\ Before(Uptime(time), lcd.confirm)
                /\ Lit(lights).confirm = lcd.confirm
<1> DEFINE l == Wake(lcd, lights)
           zero == 0
<1>1. /\ l \in Dashboard /\ ~l.wake /\ l.next = lcd.next
      /\ l.rebooting <=> lcd.rebooting
      /\ ~lcd.wake => (l.sleeping <=> lcd.sleeping)
      /\ l.confirm = lcd.confirm
  <2>1. CASE lcd.wake
    <3>1. l = [lcd EXCEPT !.wake = FALSE, !.sleeping = ~lights]
      BY <2>1 DEF Wake
    <3> HIDE DEF l
    <3> QED  BY <2>1, <3>1 DEF TypeOK, Dashboard
  <2>2. CASE ~lcd.wake
    <3>1. l = lcd
      BY <2>2 DEF Wake
    <3> HIDE DEF l
    <3> QED  BY <2>2, <3>1 DEF TypeOK, Dashboard
  <2> QED  BY <2>1, <2>2
<1>2. Lit(lights) = IF l.confirm # zero /\ ~Before(Uptime(time), l.confirm)
                    THEN [l EXCEPT !.confirm = zero] ELSE l
  BY DEF Lit, Expire
<1>3. zero \in 0 .. Wrap - 1 /\ zero = 0
  OBVIOUS
<1> HIDE DEF l, zero
<1>4. CASE l.confirm # zero /\ ~Before(Uptime(time), l.confirm)
  <2>1. Lit(lights) = [l EXCEPT !.confirm = zero]
    BY <1>2, <1>4
  <2> QED  BY <1>1, <1>3, <2>1 DEF Dashboard
<1>5. CASE ~(l.confirm # zero /\ ~Before(Uptime(time), l.confirm))
  <2>1. Lit(lights) = l
    BY <1>2, <1>5
  <2> QED  BY <1>1, <1>3, <1>5, <2>1
<1> QED  BY <1>4, <1>5

LEMMA PlannedIs ==
  ASSUME TypeOK, NEW lights \in BOOLEAN
  PROVE  /\ Planned(lights) \in Dashboard
         /\ ~Planned(lights).wake
         /\ Planned(lights).rebooting <=> lcd.rebooting
         /\ Planned(lights).sleeping <=> Lit(lights).sleeping
         /\ Planned(lights).confirm = Lit(lights).confirm
         /\ Planned(lights).next = IF Due(Lit(lights), Uptime(time))
                                   THEN (time + Refresh) % Wrap ELSE lcd.next
<1> DEFINE l == Lit(lights)
           n == (Uptime(time) + Refresh) % Wrap
<1>1. l \in Dashboard /\ ~l.wake /\ l.next = lcd.next /\ (l.rebooting <=> lcd.rebooting)
  BY LitIs
<1>2. n \in 0 .. Wrap - 1
  BY ClockRange, DivMod DEF TypeOK
<1>3. n = (time + Refresh) % Wrap
  <2>1. time \in Int /\ Refresh \in Int
    BY DEF TypeOK
  <2>2. ((time % Wrap) + Refresh) % Wrap = (time + Refresh) % Wrap
    BY <2>1, ModSum
  <2> QED  BY <2>2 DEF Uptime
<1>4. Planned(lights) = IF Due(l, Uptime(time)) THEN [l EXCEPT !.next = n] ELSE l
  BY DEF Planned, Plan
<1> HIDE DEF l, n
<1>5. CASE Due(l, Uptime(time))
  <2>1. Planned(lights) = [l EXCEPT !.next = n]
    BY <1>4, <1>5
  <2> QED  BY <1>1, <1>2, <1>3, <1>5, <2>1 DEF Dashboard, l
<1>6. CASE ~Due(l, Uptime(time))
  BY <1>1, <1>4, <1>6 DEF l
<1> QED  BY <1>5, <1>6

-----------------------------------------------------------------------------
(***************************************************************************)
(* The second half: what LVGL's timer delivers, from the dashboard l of    *)
(* the first half.                                                         *)
(***************************************************************************)
Touch(l, end, blanks) ==
  NoTouch(l) \/ (\E w \in Widgets : Press(l, w)) \/ Release(l, end, blanks)

\* What the touch leaves, by the clause of the invariant it matters to.
Left(l, end) ==
  /\ lcd' \in Dashboard /\ finger' \in Finger /\ asked' \in Int
  /\ TouchInv'
  /\ lcd'.next = l.next
  /\ ~lcd'.sleeping => ~l.sleeping
  /\ lcd'.confirm # 0 =>
       \/ lcd'.confirm = l.confirm /\ asked' = asked
       \/ lcd'.confirm = (Uptime(end) + Confirm) % Wrap /\ asked' = end
  /\ lcd'.rebooting /\ ~l.rebooting =>
       l.confirm # 0 /\ Before(Uptime(end), l.confirm)

LEMMA ReleaseLeaves ==
  ASSUME TypeOK, NEW l \in Dashboard, ~l.wake, finger.down /\ ~finger.waits => ~l.sleeping,
         NEW blanks \in BOOLEAN, NEW end \in Nat, Release(l, end, blanks)
  PROVE  Left(l, end)
<1> DEFINE clicked == IF finger.waits THEN "none" ELSE finger.on
           zero == 0
           until == (Uptime(end) + Confirm) % Wrap
<1>1. clicked \in Widgets /\ (clicked # "none" => ~l.sleeping)
  BY DEF Release, TypeOK, Finger, Widgets
<1>2. finger' = NoFinger
  BY DEF Release
<1>3. finger' \in Finger /\ ~finger'.down /\ ~finger'.dark
  BY <1>2 DEF NoFinger, Finger, Widgets
<1>4. zero \in 0 .. Wrap - 1 /\ zero = 0 /\ until \in 0 .. Wrap - 1
  <2>1. Uptime(end) + Confirm \in Int
    BY ClockRange
  <2> QED  BY <2>1, DivMod
<1>5. lcd' = CASE clicked = "sleep" -> enter_standby(l, blanks)
               [] clicked = "reboot" -> reboot_button_event(l, Uptime(end))
               [] OTHER -> l
  BY DEF Release
<1>6. asked' = CASE clicked = "sleep" /\ lcd'.sleeping -> None
                 [] clicked = "reboot" /\ ~lcd'.rebooting -> end
                 [] OTHER -> asked
  BY DEF Release
<1>7. None \in Int /\ asked \in Int
  BY DEF None, TypeOK
<1> HIDE DEF clicked
<1>8. CASE clicked = "none"
  <2>1. lcd' = l
    BY <1>5, <1>8
  <2>2. asked' = asked
    BY <1>6, <1>8
  <2> QED  BY <1>3, <1>7, <2>1, <2>2 DEF Left, TouchInv
<1>9. CASE clicked = "sleep" /\ blanks
  <2>1. lcd' = enter_standby(l, blanks)
    BY <1>5, <1>9
  <2>2. lcd' = [l EXCEPT !.sleeping = TRUE, !.confirm = zero]
    BY <1>9, <2>1 DEF enter_standby
  <2> HIDE DEF zero
  <2>3. /\ lcd' \in Dashboard /\ lcd'.sleeping /\ lcd'.confirm = zero
        /\ lcd'.next = l.next /\ (lcd'.rebooting <=> l.rebooting)
    BY <1>4, <2>2 DEF Dashboard
  <2>4. asked' = None
    BY <1>6, <1>9, <2>3
  <2> QED  BY <1>3, <1>4, <1>7, <2>3, <2>4 DEF Left, TouchInv
<1>10. CASE clicked = "sleep" /\ ~blanks
  <2>1. lcd' = enter_standby(l, blanks)
    BY <1>5, <1>10
  <2>2. lcd' = l
    BY <1>10, <2>1 DEF enter_standby
  <2>3. asked' = asked
    BY <1>1, <1>6, <1>10, <2>2
  <2> QED  BY <1>3, <1>7, <2>2, <2>3 DEF Left, TouchInv
<1>11. CASE clicked = "reboot"
  <2>1. lcd' = reboot_button_event(l, Uptime(end))
    BY <1>5, <1>11
  <2>2. CASE l.rebooting
    <3>1. lcd' = l
      BY <2>1, <2>2 DEF reboot_button_event
    <3>2. asked' = asked
      BY <1>6, <1>11, <2>2, <3>1
    <3> QED  BY <1>3, <1>7, <3>1, <3>2 DEF Left, TouchInv
  <2>3. CASE ~l.rebooting /\ Confirmed(l, Uptime(end))
    <3>1. lcd' = [l EXCEPT !.rebooting = TRUE]
      BY <2>1, <2>3 DEF reboot_button_event
    <3>2. /\ lcd' \in Dashboard /\ lcd'.rebooting /\ lcd'.confirm = l.confirm
          /\ lcd'.next = l.next /\ (lcd'.sleeping <=> l.sleeping)
          /\ (lcd'.wake <=> l.wake)
      BY <3>1 DEF Dashboard
    <3>3. asked' = asked
      BY <1>6, <1>11, <3>2
    <3>4. l.confirm # 0 /\ Before(Uptime(end), l.confirm)
      BY <2>3 DEF Confirmed
    <3> QED  BY <1>3, <1>7, <3>2, <3>3, <3>4 DEF Left, TouchInv
  <2>4. CASE ~l.rebooting /\ ~Confirmed(l, Uptime(end))
    <3>1. lcd' = [l EXCEPT !.confirm = until]
      BY <2>1, <2>4 DEF reboot_button_event
    <3> HIDE DEF until
    <3>2. /\ lcd' \in Dashboard /\ ~lcd'.rebooting /\ lcd'.confirm = until
          /\ lcd'.next = l.next /\ (lcd'.sleeping <=> l.sleeping)
          /\ (lcd'.wake <=> l.wake)
      BY <1>4, <2>4, <3>1 DEF Dashboard
    <3>3. asked' = end
      BY <1>6, <1>11, <3>2
    <3>4. TouchInv'
      BY <1>3, <3>2 DEF TouchInv
    <3> QED  BY <1>3, <3>2, <3>3, <3>4 DEF Left, until
  <2> QED  BY <2>2, <2>3, <2>4
<1> QED  BY <1>1, <1>8, <1>9, <1>10, <1>11 DEF Widgets

LEMMA TouchLeaves ==
  ASSUME TypeOK, TouchInv, NEW l \in Dashboard, ~l.wake,
         finger.down /\ ~finger.waits => ~l.sleeping,
         NEW blanks \in BOOLEAN, NEW end \in Nat, Touch(l, end, blanks)
  PROVE  Left(l, end)
<1>1. CASE NoTouch(l)
  BY <1>1 DEF NoTouch, Left, TypeOK, TouchInv
<1>2. ASSUME NEW w \in Widgets, Press(l, w)
      PROVE  Left(l, end)
  <2>1. lcd' = [l EXCEPT !.wake = l.sleeping]
    BY <1>2 DEF Press
  <2>2. /\ lcd' \in Dashboard /\ lcd'.confirm = l.confirm /\ lcd'.next = l.next
        /\ (lcd'.rebooting <=> l.rebooting) /\ (lcd'.sleeping <=> l.sleeping)
        /\ (lcd'.wake <=> l.sleeping)
    BY <2>1 DEF Dashboard
  <2>3. finger' = [down |-> TRUE, on |-> w, waits |-> l.sleeping, dark |-> l.sleeping]
    BY <1>2 DEF Press
  <2>4. finger' \in Finger /\ (finger'.waits <=> l.sleeping) /\ (finger'.dark <=> l.sleeping)
    BY <2>3 DEF Finger, Dashboard
  <2>5. asked' = asked /\ asked \in Int
    BY <1>2 DEF Press, TypeOK
  <2> QED  BY <2>2, <2>4, <2>5 DEF Left, TouchInv
<1> QED  BY <1>1, <1>2, ReleaseLeaves DEF Touch

-----------------------------------------------------------------------------
(***************************************************************************)
(* A snapshot of the motor.                                                *)
(***************************************************************************)
LEMMA SnapshotIs ==
  ASSUME TypeOK, NEW now \in Nat, time <= now, told' = Snapshot(now)
  PROVE  told' \in Told /\ StaleTellsTheAge'
<1> DEFINE zero == 0
           age == IF cache.valid THEN now - cache.at ELSE zero
           stale == ~cache.valid \/ Age(now, cache.at) > Stale
<1>1. told' = [valid |-> cache.valid, age |-> age, stale |-> stale]
  BY DEF Snapshot
<1>2. cache.valid \in BOOLEAN /\ cache.at \in Nat /\ cache.at <= now
  BY DEF TypeOK
<1>3. age \in Nat
  BY <1>2
<1>4. stale \in BOOLEAN
  OBVIOUS
<1>5. cache.valid /\ age < Wrap => (stale <=> age > Stale)
  BY <1>2, AgeIsTrue
<1> HIDE DEF age, stale
<1>6. told' \in Told
  BY <1>1, <1>2, <1>3, <1>4 DEF Told
<1>7. told'.valid = cache.valid /\ told'.age = age /\ told'.stale = stale
  BY <1>1
<1>8. StaleTellsTheAge'
  BY <1>5, <1>7 DEF StaleTellsTheAge
<1> QED  BY <1>6, <1>8

LEMMA BootInv == Init => LcdInv
<1> SUFFICES ASSUME Init
             PROVE  LcdInv
  OBVIOUS
<1> DEFINE zero == 0
<1>1. zero \in Nat /\ zero \in 0 .. Wrap - 1 /\ zero = 0
  OBVIOUS
<1>2. cache = [valid |-> FALSE, at |-> zero] /\ time = zero /\ frame = FALSE
      /\ told = [valid |-> FALSE, stale |-> TRUE, age |-> zero]
  BY DEF Init, ViewInit, NothingTold
<1>3. PICK lit \in BOOLEAN :
        lcd = [sleeping |-> ~lit, wake |-> FALSE, confirm |-> zero, next |-> zero,
               rebooting |-> FALSE]
  BY DEF Init, LcdInit, AtBoot
<1>4. drawn = zero /\ planned = -Refresh /\ woken = zero /\ asked = -1
  BY DEF Init, LcdInit, None
<1>5. finger = NoFinger
  BY DEF Init, LcdInit
<1> HIDE DEF zero
<1>6. finger \in Finger /\ ~finger.down /\ ~finger.dark
  BY <1>5 DEF NoFinger, Finger, Widgets
<1>7. lcd \in Dashboard /\ ~lcd.wake /\ lcd.confirm = zero /\ lcd.next = zero
  BY <1>1, <1>3 DEF Dashboard
<1>8. TypeOK
  <2>1. cache \in [valid : BOOLEAN, at : Nat] /\ cache.at <= time /\ told \in Told
    BY <1>1, <1>2 DEF Told
  <2>2. time \in Nat /\ drawn \in Nat /\ woken \in Nat /\ planned \in Int /\ asked \in Int
    BY <1>1, <1>2, <1>4
  <2>3. frame \in BOOLEAN
    BY <1>2
  <2> QED  BY <1>6, <1>7, <2>1, <2>2, <2>3 DEF TypeOK
<1>9. TouchInv
  BY <1>6, <1>7 DEF TouchInv
<1>10. RefreshInv
  <2>1. (planned + Refresh) % Wrap = 0
    BY <1>1, <1>4, ModSmall
  <2> QED  BY <1>1, <1>2, <1>4, <1>7, <2>1 DEF RefreshInv
<1>11. ConfirmInv
  BY <1>1, <1>7 DEF ConfirmInv
<1>12. StaleTellsTheAge
  BY <1>2 DEF StaleTellsTheAge
<1> QED  BY <1>8, <1>9, <1>10, <1>11, <1>12 DEF LcdInv

LEMMA ViewKeepsInv ==
  ASSUME LcdInv, ViewStep, UNCHANGED <<lcd, finger, drawn, planned, woken, asked>>
  PROVE  LcdInv'
<1>1. TypeOK /\ time' = time
  BY DEF LcdInv, ViewStep, Publish, Receive, WebState
<1>2. TouchInv' /\ RefreshInv' /\ ConfirmInv'
  BY <1>1 DEF LcdInv, TouchInv, RefreshInv, ConfirmInv
<1>3. CASE Publish
  BY <1>1, <1>2, <1>3 DEF Publish, LcdInv, TypeOK, StaleTellsTheAge
<1>4. CASE Receive
  <2>1. cache' \in [valid : BOOLEAN, at : Nat] /\ cache'.at <= time
    BY <1>1, <1>4 DEF Receive, TypeOK
  <2>2. frame' \in BOOLEAN /\ told' = told
    BY <1>4 DEF Receive
  <2> QED  BY <1>1, <1>2, <2>1, <2>2 DEF LcdInv, TypeOK, StaleTellsTheAge
<1>5. ASSUME NEW late \in {0, 1}, WebState(late)
      PROVE  LcdInv'
  <2>1. time + late \in Nat /\ time <= time + late
    BY <1>1 DEF TypeOK
  <2>2. told' \in Told /\ StaleTellsTheAge'
    BY <1>1, <1>5, <2>1, SnapshotIs DEF WebState
  <2>3. UNCHANGED <<frame, cache>>
    BY <1>5 DEF WebState
  <2> QED  BY <1>1, <1>2, <2>2, <2>3 DEF LcdInv, TypeOK
<1> QED  BY <1>3, <1>4, <1>5 DEF ViewStep

\* A restart is a boot.
LEMMA RestartKeepsInv == Restart => LcdInv'
<1>1. Restart => Init'
  BY DEF Restart, Init, ViewInit, LcdInit
<1>2. Init' => LcdInv'
  BY BootInv, PTL
<1> QED  BY <1>1, <1>2

-----------------------------------------------------------------------------
(***************************************************************************)
(* One iteration of the thread.                                            *)
(***************************************************************************)
Woke(lights) == lcd.sleeping /\ ~Lit(lights).sleeping
IsDue(lights) == Due(Lit(lights), Uptime(time))

LEMMA IterationIs ==
  ASSUME LcdInv, NEW lights \in BOOLEAN, NEW blanks \in BOOLEAN, NEW late \in {0, 1},
         Iterate(lights, blanks, late)
  PROVE  /\ time + late \in Nat /\ time <= time + late /\ time + late <= time + 1
         /\ time' = time + late + 1
         /\ Left(Planned(lights), time + late)
         /\ IF Woke(lights) \/ IsDue(lights)
            THEN told' = Snapshot(time + late) /\ drawn' = time + late
            ELSE told' = told /\ drawn' = drawn
         /\ planned' = IF IsDue(lights) THEN time ELSE planned
         /\ woken' = IF Woke(lights) THEN time ELSE woken
         /\ UNCHANGED <<frame, cache>>
<1>1. TypeOK /\ TouchInv
  BY DEF LcdInv
<1>2. time + late \in Nat /\ time <= time + late /\ time + late <= time + 1
  BY <1>1 DEF TypeOK
<1>3. Touch(Planned(lights), time + late, blanks)
  BY DEF Iterate, Touch, Planned, Lit
<1>4. /\ Planned(lights) \in Dashboard /\ ~Planned(lights).wake
      /\ finger.down /\ ~finger.waits => ~Planned(lights).sleeping
  BY <1>1, LitIs, PlannedIs DEF TouchInv
<1>5. Left(Planned(lights), time + late)
  BY <1>1, <1>2, <1>3, <1>4, TouchLeaves
<1>6. /\ time' = time + late + 1
      /\ IF Woke(lights) \/ IsDue(lights)
         THEN told' = Snapshot(time + late) /\ drawn' = time + late
         ELSE told' = told /\ drawn' = drawn
      /\ planned' = IF IsDue(lights) THEN time ELSE planned
      /\ woken' = IF Woke(lights) THEN time ELSE woken
      /\ UNCHANGED <<frame, cache>>
  BY DEF Iterate, Woke, IsDue, Lit, refresh_dashboard
<1> QED  BY <1>2, <1>5, <1>6

\* A panel that is lit and was not found frozen refreshes as soon as its period
\* is over.
LEMMA DueIsOver ==
  ASSUME LcdInv, NEW lights \in BOOLEAN, ~Lit(lights).sleeping,
         time - planned < (Wrap \div 2) + Refresh
  PROVE  IsDue(lights) <=> time - planned >= Refresh
<1>1. time \in Int /\ planned \in Int /\ planned <= time /\ Wrap \div 2 \in Nat
  BY HalfWrap DEF LcdInv, TypeOK, RefreshInv
<1> DEFINE x == planned + Refresh
<1>2. x \in Int /\ time - x >= -(Wrap \div 2) /\ time - x < Wrap \div 2
  BY <1>1
<1>3. (time < x) <=> ~(time - planned >= Refresh)
  BY <1>1
<1>4. Lit(lights).next = x % Wrap
  BY LitIs DEF LcdInv, RefreshInv
<1> HIDE DEF x
<1>5. Before(Uptime(time), x % Wrap) <=> time < x
  BY <1>1, <1>2, BeforeIsEarlier
<1> QED  BY <1>3, <1>4, <1>5 DEF IsDue, Due

\* A confirmation outlives the beginning of an iteration only while there is time
\* left to give it.
LEMMA ConfirmIsOpen ==
  ASSUME LcdInv, NEW lights \in BOOLEAN, Lit(lights).confirm # 0
  PROVE  /\ asked \in Nat /\ asked < time /\ time - asked < Confirm
         /\ Lit(lights).confirm = (asked + Confirm) % Wrap
<1>1. /\ lcd.confirm # 0 /\ Before(Uptime(time), lcd.confirm)
      /\ Lit(lights).confirm = lcd.confirm
  BY LitIs DEF LcdInv
<1>2. /\ asked \in Nat /\ asked < time /\ time - asked <= Confirm + 1
      /\ lcd.confirm = (asked + Confirm) % Wrap
  BY <1>1 DEF LcdInv, ConfirmInv
<1>3. time \in Int
  BY DEF LcdInv, TypeOK
<1> DEFINE x == asked + Confirm
<1>4. x \in Int /\ time - x >= -(Wrap \div 2) /\ time - x < Wrap \div 2
  BY <1>2, <1>3, HalfWrap
<1>5. Before(Uptime(time), x % Wrap)
  BY <1>1, <1>2
<1> HIDE DEF x
<1>6. time < x
  BY <1>3, <1>4, <1>5, BeforeIsEarlier
<1> QED  BY <1>1, <1>2, <1>3, <1>6 DEF x

LEMMA IterateKeepsInv ==
  ASSUME LcdInv, NEW lights \in BOOLEAN, NEW blanks \in BOOLEAN, NEW late \in {0, 1},
         Iterate(lights, blanks, late)
  PROVE  LcdInv'
<1> DEFINE end == time + late
           l == Planned(lights)
<1>1. TypeOK /\ TouchInv /\ RefreshInv /\ ConfirmInv
  BY DEF LcdInv
<1>2. end \in Nat /\ time <= end /\ end <= time + 1 /\ time' = end + 1
  BY IterationIs
<1>3. Left(l, end)
  BY IterationIs
<1>4. /\ IF Woke(lights) \/ IsDue(lights)
         THEN told' = Snapshot(end) /\ drawn' = end
         ELSE told' = told /\ drawn' = drawn
      /\ planned' = IF IsDue(lights) THEN time ELSE planned
      /\ woken' = IF Woke(lights) THEN time ELSE woken
      /\ UNCHANGED <<frame, cache>>
  BY IterationIs
<1>5. /\ l \in Dashboard
      /\ l.sleeping <=> Lit(lights).sleeping
      /\ l.confirm = Lit(lights).confirm
      /\ l.next = IF IsDue(lights) THEN (time + Refresh) % Wrap ELSE lcd.next
      /\ ~lcd.wake => (Lit(lights).sleeping <=> lcd.sleeping)
  BY <1>1, LitIs, PlannedIs DEF IsDue
<1>6. time \in Nat /\ planned \in Int /\ woken \in Nat /\ drawn \in Nat
  BY <1>1 DEF TypeOK
<1> HIDE DEF end, l
<1>7. told' \in Told /\ StaleTellsTheAge'
  <2>1. CASE Woke(lights) \/ IsDue(lights)
    BY <1>1, <1>2, <1>4, <2>1, SnapshotIs
  <2>2. CASE ~(Woke(lights) \/ IsDue(lights))
    <3>1. told' = told
      BY <1>4, <2>2
    <3> QED  BY <3>1 DEF LcdInv, TypeOK, StaleTellsTheAge
  <2> QED  BY <2>1, <2>2
<1>8. TypeOK'
  <2>1. time' \in Nat /\ drawn' \in Nat /\ woken' \in Nat /\ planned' \in Int
    BY <1>2, <1>4, <1>6
  <2>2. /\ frame' \in BOOLEAN /\ cache' \in [valid : BOOLEAN, at : Nat]
        /\ cache'.at <= time'
    BY <1>1, <1>2, <1>4, <1>6 DEF TypeOK
  <2>3. lcd' \in Dashboard /\ finger' \in Finger /\ asked' \in Int
    BY <1>3 DEF Left
  <2> QED  BY <1>7, <2>1, <2>2, <2>3 DEF TypeOK
<1>9. TouchInv'
  BY <1>3 DEF Left
<1>10. RefreshInv'
  <2>1. lcd'.next = l.next /\ (~lcd'.sleeping => ~l.sleeping)
    BY <1>3 DEF Left
  <2>2. lcd'.next = (planned' + Refresh) % Wrap
    BY <1>1, <1>4, <1>5, <2>1 DEF RefreshInv
  <2>3. planned' <= time' /\ planned' <= drawn' /\ drawn' <= time'
    BY <1>1, <1>2, <1>4, <1>6 DEF RefreshInv
  <2>4. ASSUME ~lcd'.sleeping, woken' - planned' < (Wrap \div 2) + Refresh
        PROVE  time' - planned' <= Refresh + 1
    <3>1. ~Lit(lights).sleeping
      BY <1>5, <2>1, <2>4
    <3>2. CASE IsDue(lights)
      BY <1>2, <1>4, <1>6, <3>2
    <3>3. CASE ~IsDue(lights)
      <4>1. planned' = planned
        BY <1>4, <3>3
      <4>2. time - planned < (Wrap \div 2) + Refresh
        <5>1. CASE Woke(lights)
          BY <1>4, <2>4, <4>1, <5>1
        <5>2. CASE ~Woke(lights)
          <6>1. ~lcd.sleeping /\ woken' = woken
            BY <1>4, <3>1, <5>2 DEF Woke
          <6>2. time - planned <= Refresh + 1
            BY <1>1, <2>4, <4>1, <6>1 DEF RefreshInv
          <6> QED  BY <1>6, <6>2, HalfWrap
        <5> QED  BY <5>1, <5>2
      <4>3. time - planned < Refresh
        BY <1>6, <3>1, <3>3, <4>2, DueIsOver
      <4> QED  BY <1>2, <1>6, <4>1, <4>3
    <3> QED  BY <3>2, <3>3
  <2> QED  BY <2>2, <2>3, <2>4 DEF RefreshInv
<1>11. ConfirmInv'
  <2> SUFFICES ASSUME lcd'.confirm # 0
               PROVE  /\ asked' \in Nat /\ asked' < time'
                      /\ time' - asked' <= Confirm + 1
                      /\ lcd'.confirm = (asked' + Confirm) % Wrap
    BY DEF ConfirmInv
  <2>1. CASE lcd'.confirm = l.confirm /\ asked' = asked
    <3>1. /\ asked \in Nat /\ asked < time /\ time - asked < Confirm
          /\ lcd'.confirm = (asked + Confirm) % Wrap
      BY <1>5, <2>1, ConfirmIsOpen
    <3> QED  BY <1>2, <1>6, <2>1, <3>1
  <2>2. CASE lcd'.confirm = (Uptime(end) + Confirm) % Wrap /\ asked' = end
    <3>1. lcd'.confirm = (end + Confirm) % Wrap
      <4>1. end \in Int /\ Confirm \in Int
        BY <1>2
      <4>2. ((end % Wrap) + Confirm) % Wrap = (end + Confirm) % Wrap
        BY <4>1, ModSum
      <4> QED  BY <2>2, <4>2 DEF Uptime
    <3> QED  BY <1>2, <2>2, <3>1
  <2> QED  BY <1>3, <2>1, <2>2 DEF Left
<1> QED  BY <1>7, <1>8, <1>9, <1>10, <1>11 DEF LcdInv

LEMMA LcdNext ==
  ASSUME LcdInv, [Next]_vars
  PROVE  LcdInv'
<1>1. CASE UNCHANGED vars
  BY <1>1 DEF vars, viewVars, LcdInv, TypeOK, TouchInv, RefreshInv, ConfirmInv,
              StaleTellsTheAge
<1> QED  BY <1>1, IterateKeepsInv, RestartKeepsInv, ViewKeepsInv DEF Next

\* The invariant that the theorems below rest on.
THEOREM LcdInvariant == Spec => []LcdInv
<1>1. LcdInv /\ [Next]_vars => LcdInv'
  BY LcdNext
<1> QED  BY <1>1, BootInv, PTL DEF Spec

\* What the clock, the cache, the panel and the touch may be.
THEOREM LcdTypes == Spec => []TypeOK
<1>1. LcdInv => TypeOK
  BY DEF LcdInv
<1> QED  BY <1>1, LcdInvariant, PTL

\* app_ipc_get_motor_state calls a state stale exactly when it is older than
\* APP_IPC_MOTOR_STATE_STALE_MS, on both sides of every wrap of the clock, up to
\* an age of one whole range.
THEOREM ViewStale == Spec => []StaleTellsTheAge
<1>1. LcdInv => StaleTellsTheAge
  BY DEF LcdInv
<1> QED  BY <1>1, LcdInvariant, PTL

\* A lit dashboard was refreshed a period and a tick ago at most, for any period
\* below half the range of the clock, unless it was woken half a range after its
\* last planned refresh.
THEOREM LcdRefreshed == Spec => []LitIsRefreshed
<1>1. LcdInv => LitIsRefreshed
  BY DEF LcdInv, TypeOK, RefreshInv, LitIsRefreshed
<1> QED  BY <1>1, LcdInvariant, PTL

\* The first touch of a dark display clicks nothing, whenever the panel lights
\* and whenever the finger leaves it.
THEOREM LcdDarkTouch == Spec => DarkTouchOnlyWakes
<1> DEFINE Keeps == finger.dark /\ ~finger'.down /\ time' > time
                      => asked' = asked /\ (lcd'.sleeping => lcd.sleeping)
<1>1. ASSUME LcdInv, [Next]_vars
      PROVE  [Keeps]_vars
  <2> SUFFICES ASSUME Next, finger.dark, ~finger'.down, time' > time
               PROVE  asked' = asked /\ (lcd'.sleeping => lcd.sleeping)
    BY <1>1
  <2>1. time \in Nat /\ TypeOK /\ TouchInv
    BY <1>1 DEF LcdInv, TypeOK
  <2>2. ~Restart
    BY <2>1 DEF Restart
  <2>3. ~ViewStep
    BY <2>1 DEF ViewStep, Publish, Receive, WebState
  <2>4. PICK lights \in BOOLEAN, blanks \in BOOLEAN, late \in {0, 1} :
          Iterate(lights, blanks, late)
    BY <2>2, <2>3 DEF Next
  <2>5. NoTouch(Planned(lights)) \/ Release(Planned(lights), time + late, blanks)
    <3>1. Touch(Planned(lights), time + late, blanks)
      BY <2>4 DEF Iterate, Touch, Planned, Lit
    <3>2. \A w \in Widgets : ~Press(Planned(lights), w)
      BY DEF Press
    <3> QED  BY <3>1, <3>2 DEF Touch
  <2>6. finger.waits
    BY <2>1 DEF TouchInv
  <2>7. lcd' = Planned(lights) /\ asked' = asked
    BY <2>5, <2>6 DEF NoTouch, Release
  <2>8. lcd'.sleeping => lcd.sleeping
    BY <2>1, <2>7, LitIs, PlannedIs DEF TouchInv
  <2> QED  BY <2>7, <2>8
<1> QED  BY <1>1, LcdInvariant, PTL DEF Spec, DarkTouchOnlyWakes

\* The M7 reboots from its display on two clicks within the time to confirm, for
\* any such time below half the range of the clock.
THEOREM LcdReboot == Spec => RebootIsConfirmed
<1> DEFINE Keeps == lcd'.rebooting /\ ~lcd.rebooting
                      => asked # None /\ time' - asked <= Confirm
<1>1. ASSUME LcdInv, [Next]_vars
      PROVE  [Keeps]_vars
  <2> SUFFICES ASSUME Next, lcd'.rebooting, ~lcd.rebooting
               PROVE  asked # None /\ time' - asked <= Confirm
    BY <1>1
  <2>1. ~Restart
    BY DEF Restart, AtBoot
  <2>2. PICK lights \in BOOLEAN, blanks \in BOOLEAN, late \in {0, 1} :
          Iterate(lights, blanks, late)
    BY <2>1 DEF Next
  <2> DEFINE end == time + late
             l == Planned(lights)
  <2>3. /\ end \in Nat /\ time <= end /\ end <= time + 1 /\ time' = end + 1
        /\ Left(l, end)
    BY <1>1, <2>2, IterationIs
  <2>4. ~l.rebooting /\ l.confirm = Lit(lights).confirm
    BY <1>1, PlannedIs DEF LcdInv
  <2> HIDE DEF end, l
  <2>5. l.confirm # 0 /\ Before(Uptime(end), l.confirm)
    BY <2>3, <2>4 DEF Left
  <2>6. /\ asked \in Nat /\ asked < time /\ time - asked < Confirm
        /\ l.confirm = (asked + Confirm) % Wrap
    BY <1>1, <2>4, <2>5, ConfirmIsOpen
  <2>7. time \in Nat
    BY <1>1 DEF LcdInv, TypeOK
  <2> DEFINE x == asked + Confirm
  <2>8. x \in Int /\ end - x >= -(Wrap \div 2) /\ end - x < Wrap \div 2
    BY <2>3, <2>6, <2>7, HalfWrap
  <2>9. Before(Uptime(end), x % Wrap)
    BY <2>5, <2>6
  <2> HIDE DEF x
  <2>10. end < x
    <3>1. end \in Int
      BY <2>3
    <3> QED  BY <2>8, <2>9, <3>1, BeforeIsEarlier
  <2>11. asked + Confirm = x
    BY DEF x
  <2> QED  BY <2>3, <2>6, <2>10, <2>11 DEF None
<1> QED  BY <1>1, LcdInvariant, PTL DEF Spec, RebootIsConfirmed
============================================================================
